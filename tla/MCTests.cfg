SPECIFICATION MCSpec
CONSTANTS
  NKeysPerNode = 3
  main = main
  w0 = w0
  w1 = w1
  w2 = w2
  Threads = {main, w0, w1, w2}
  Tests <- MCTests
  absent = absent
  TxnTestNames <- AllTests
  niters <- Iters
  naccounts = 2
  amount_per_person = 2
  NDoctors = 3
  range_begin = 100
  range_end = 105
INVARIANTS
  BtreeWritesRight
  BtreeReadsRight
  BtreeVersionsProtect
  BtreeIsMap
  ConcurrentTestsPass
  RacesSerial
