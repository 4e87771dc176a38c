CONSTANTS
  w1 = w1
  w2 = w2
  s1 = s1
  s2 = s2
  Workers = {w1, w2}
  Slots = {s1}
  NoRank = NoRank
  Rank <- ReplicatedRank
  NumHostBlocks = 1
  NumDiskBlocks = 1
  LayoutBlocking <- FirstBlocking
  EarlyTransfers = FALSE
  Events = {"alloc"}
  MaxInFlight = 1
SPECIFICATION Spec
INVARIANTS
  PublishedTiers
  LeaderUpMeansAllServable
PROPERTIES
  ImplementsBarrier
