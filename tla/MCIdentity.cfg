SPECIFICATION Spec
CONSTANTS
  Callers = {c1}
  Readers = {c1, r1}
  Dids = {d1, d2}
  NoDid = NoDid
  SlotCount = 1
  Ttls <- MCTtls
  FetchMax = 1
  MaxTime = 2
INVARIANTS StateOwned ClientOutlivesUse BoundedAge
PROPERTY CallsEnd
CHECK_DEADLOCK FALSE
