SPECIFICATION Spec
VIEW RepoView
CONSTANTS
  Keys = {1, 2, 3, 4}
  Layer <- MCLayer
  NoTree = NoTree
  NoMirror = NoMirror
  v1 = v1
  v2 = v2
  Values = {v1, v2}
  Batches <- MCBatches
INVARIANT HistoryIndependent
