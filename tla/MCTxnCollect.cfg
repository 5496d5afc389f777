SPECIFICATION RemovedSpec
CONSTANTS
  k1 = k1
  k2 = k2
  NMAXCORES = 3
  NumIds = 8
  ReadOnlyEpochMultiplier = 2
  Cores <- MCCores
  MaxTick = 5
  Keys = {k1, k2}
  NTuples = 6
  Workloads <- CollectWorkloads
  read_own_writes = FALSE
  None = None
CHECK_DEADLOCK FALSE
INVARIANTS
  SerializableInSomeOrder
