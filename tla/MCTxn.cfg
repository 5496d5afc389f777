SPECIFICATION Spec
CONSTANTS
  k1 = k1
  k2 = k2
  NMAXCORES = 2
  NumIds = 8
  ReadOnlyEpochMultiplier = 2
  Cores <- MCCores
  MaxTick = 7
  Keys = {k1, k2}
  NTuples = 6
  Workloads <- CommitWorkloads
  read_own_writes = FALSE
  None = None
CHECK_DEADLOCK FALSE
INVARIANTS
  Serializable
  TidsFollowSerialOrder
  TreeLeadsToLatest
  TxnInv
  NoWaitCycle
  SnapshotConsistent
  NoDanglingPointer
PROPERTIES
  GcTicksGoUp
