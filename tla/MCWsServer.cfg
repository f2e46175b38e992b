CONSTANTS
  Conns = {c1, c2}
  Producers = {p1, p2}
  NoConn = NoConn
SPECIFICATION FairSpec
INVARIANTS
  NoUseAfterFree
  DaemonOutlivesWorkers
  JoinedOrDetached
PROPERTIES
  StopReturns
  ClosedIsFreed
