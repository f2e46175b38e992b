CONSTANTS
  Caps = {2, 3}
  Chunks = {1, 2}
  MaxBody = 4
SPECIFICATION Spec
CHECK_DEADLOCK FALSE
INVARIANTS
  ReleasedOnce
  WholeBody
  CheckedFirst
