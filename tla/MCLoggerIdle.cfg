SPECIFICATION Spec
CONSTANTS
  Cores = {0, 1}
  MaxTick = 3
  g_perthread_buffers = 2
  BufSize = 2
  HorizonSize = 1
  IovMax = 2
  g_max_lag_epochs = 2
  Configs <- SomeConfigs
INVARIANTS
  PersistedThrough
CHECK_DEADLOCK FALSE
