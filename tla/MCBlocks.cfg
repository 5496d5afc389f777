SPECIFICATION MCSpec
CONSTANTS
  NMAXCORES = 3
  MaxTick = 5
  MaxDepth = 2
  Threads = {t1, t2}
  NMaxCores = 4
  nthreads = 2
  num_cpus_online = 2
  NGroups = 6
  GroupSize = 2
  NQueueGroups = 1
  nalloc = 2
  MaxRcuTick = 2
  MaxEntries = 5
  Capacity = 3
  Enqueuers = {e1}
  MaxItems = 7
  nullptr = nullptr
  Writers = {w1, w2}
  Readers = {r1}
  HDR_VERSIONS = 8
  MaxLocks = 2
INVARIANTS
  NoGuardInCompletedTick
  TickInv
  IdsHaveOnePlace
  GroupsHaveOneOwner
  PeekIsPrefix
  ReadsAreAtomic
  SnapshotReadsAreStable
  TupleInv
PROPERTIES
  ImplementsClock
  RoundsComplete
  ImplementsEpochQueue
  ImplementsFifo
  ItemsArrive
  ValidationIsSound
  ReadsEnd
CHECK_DEADLOCK FALSE
