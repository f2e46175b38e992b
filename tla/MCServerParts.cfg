CONSTANTS
  Conns = {c1, c2, c3}
  Keys = {k1, k2}
  Points = 3
  Duration = 4
  Costs = {1, 2}
  MaxTime = 4
  Cids = {b1, b2}
  Mimes = {m1, m2}
SPECIFICATION PartsSpec
INVARIANTS
  FreedOnce
  Budget
  Durable
PROPERTIES
  StopEndsThreads
  ImplementsBucket
CHECK_DEADLOCK FALSE
