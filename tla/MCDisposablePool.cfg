SPECIFICATION FairSpec
CONSTANTS
  Workers = {w1, w2}
  Slots = {s1, s2, s3}
  MaxId = 4
  SizeOf <- MCSizeOf
  minCount = 2
  minAggregateCount = 2
INVARIANT NoUseAfterDispose
INVARIANT ReachableInPool
INVARIANT ClosedForGood
PROPERTY ScrubEnds
PROPERTY ImplementsStore
