SPECIFICATION MCSpec
CONSTANTS
  Cores <- MCCores
  Objects = {o1, o2}
  MaxTick = 5
  EpochTimeMultiplier = 2
  MaxDepth = 2
  None = None
  NMAXCORES = 2
  NumIds = 8
  ReadOnlyEpochMultiplier = 2
  Keys = {k1, k2}
  NTuples = 6
  read_own_writes = TRUE
INVARIANTS
  NoUseAfterFree
  RcuInv
  ScansSerializable
PROPERTIES
  EventuallyFreed
  CommitsEnd
CHECK_DEADLOCK FALSE
