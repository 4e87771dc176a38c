CONSTANTS
  w1 = w1
  w2 = w2
  s1 = s1
  s2 = s2
  Workers = {w1}
  Slots = {s1, s2}
  NoRank = NoRank
  Rank <- ShardedRank
  NumHostBlocks = 1
  NumDiskBlocks = 1
  LayoutBlocking <- AllBlocking
  EarlyTransfers = FALSE
  Events = {"loss", "malformed", "ack", "alloc", "zmq", "cancel", "drop"}
  MaxInFlight = 2
SPECIFICATION Spec
SYMMETRY SlotSymmetry
INVARIANTS
  TypeOK
  SingleFlight
  PingAckMeansServable
  BlockingReturnHasHandler
