SPECIFICATION FairSpec
CONSTANTS
  Nodes = {n1, n2, n3}
  maxAttempts = 1
  UInt8Size = 3
  MaxDisturbances = 2
INVARIANTS TypeOK UniqueHostIDs DenseAllocation AllocationInvariant
PROPERTIES OnlyOwnerReleases EveryNodeJoins ImplementsNodeIDs
CHECK_DEADLOCK FALSE
