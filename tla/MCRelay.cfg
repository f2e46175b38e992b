CONSTANTS
  MaxWire = 3
  MaxMessages = 3
  MaxSessions = 2
  Reconnects = {TRUE, FALSE}
  Producers = {p1, p2}
  Payloads = {m1}
SPECIFICATION Spec
CHECK_DEADLOCK FALSE
INVARIANTS NothingAfterClose GoneUnheld ForwardedInOrder
PROPERTIES EndsOnceClosed SessionEndEnds
