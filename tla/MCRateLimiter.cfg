CONSTANTS
  Keys = {k1, k2}
  Points = 3
  Duration = 4
  Costs = {1, 2}
  MaxTime = 4
SPECIFICATION LimiterSpec
INVARIANT RetrySucceeds
CHECK_DEADLOCK FALSE
