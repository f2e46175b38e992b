SPECIFICATION Spec
CONSTANTS
  Threads = {t1, t2}
  Accounts = {a1, a2}
  MaxIssued = 3
INVARIANTS RefreshTokenPutAway AgentFollows GuardOwned
PROPERTY CallsReturn
CHECK_DEADLOCK FALSE
