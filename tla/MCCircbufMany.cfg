SPECIFICATION Spec
CONSTANTS
  Capacity = 2
  Enqueuers = {e1, e2}
  MaxItems = 2
  null = null
INVARIANTS
  WonSlotIsEmpty
CHECK_DEADLOCK FALSE
