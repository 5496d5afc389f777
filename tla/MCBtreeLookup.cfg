SPECIFICATION Spec
CONSTANTS
  NKeysPerNode = 3
  main = main
  w0 = w0
  w1 = w1
  w2 = w2
  Threads = {main, w0, w1, w2}
  Tests <- LookupTests
INVARIANT LookupsRight
