SPECIFICATION FairSpec
CONSTANTS
  i1 = i1
  i2 = i2
  o1 = o1
  o2 = o2
  o3 = o3
  v1 = v1
  v2 = v2
  Items = {i1, i2}
  Objects = {o1, o2, o3}
  toProto <- MCtoProto
  Values = {v1, v2}
  NoValue = NoValue
  InitialData <- MCInitialData
  MaxChanges = 1
  MaxWriteErrors = 1
  MaxRestarts = 1
  MaxErrors = 0
INVARIANTS ResyncFillsCache
CHECK_DEADLOCK FALSE
