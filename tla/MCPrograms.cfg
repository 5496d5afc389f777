SPECIFICATION MCSpec
CONSTANTS
  Cores = {0, 1}
  MaxTick = 3
  g_perthread_buffers = 2
  BufSize = 2
  HorizonSize = 1
  IovMax = 2
  g_max_lag_epochs = 2
  Configs <- LoggerConfigs
  HeadLen = 2
  Streams <- SomeStreams
  Connections = {1, 2}
  NumCores = 3
  NumDistrictsPerWarehouse = 1
  NumCustomersPerDistrict = 2
  NumItems = 1
  NumLastNames = 2
  FirstNewOrder = 2
  LoadedLines = {2}
  NumLines = {2}
  Quantities = {10}
  StockLevels = {20}
  Payments = {1}
  ScanLimits = {2}
  txn_max_batch_size = 2
  MaxOrderId = 5
  TpccConfigs <- BothConfigs
INVARIANTS
  LogsAreTrue
  RequestsAnswered
  MoneyAgrees
  OrdersWhole
  AssertsHold
  NoDeadlyEmbrace
CHECK_DEADLOCK FALSE
