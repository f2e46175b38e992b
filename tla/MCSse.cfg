CONSTANTS
  Streams = {s1, s2}
  Producers = {p1, p2}
  NoStream = NoStream
  MaxFrames = 2
SPECIFICATION FairSpec
INVARIANTS
  NoLostWakeup
  DeliveredInOrder
PROPERTIES
  ClosedEnds
