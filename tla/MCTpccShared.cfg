SPECIFICATION Spec
CONSTANTS
  NumDistrictsPerWarehouse = 1
  NumCustomersPerDistrict = 2
  NumItems = 1
  NumLastNames = 2
  FirstNewOrder = 2
  LoadedLines = {2}
  NumLines = {2}
  Quantities = {10}
  StockLevels = {20}
  Payments = {1}
  ScanLimits = {2}
  txn_max_batch_size = 2
  MaxOrderId = 5
  Configs <- SharedConfigs
INVARIANT OrderStatusFindsLines
CHECK_DEADLOCK FALSE
