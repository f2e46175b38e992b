CONSTANTS
  StartCursors = {0, 1}
  FirstSeq = 2
  MaxSeq = 4
  MaxDrops = 3
  InFlight = 2
  Bad = {3}
  InitialDelay = 2
  MaxDelay = 3
  Versions = {1, 2}
  Updates = {u1, u2}
  NoUpdate = NoUpdate
  Pieces = 2
SPECIFICATION EventSpec
CHECK_DEADLOCK FALSE
INVARIANTS
  OneLateEvent
  UpdatesWhole
PROPERTIES
  Resumes
  StopEnds
  EveryEventArrives
