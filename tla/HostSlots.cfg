SPECIFICATION FairSpec
CONSTANTS
  Attempts = {a1, a2, a3, a4, a5}
  MaxPerHost = 2
INVARIANTS
  OnePlace
  NoLostWakeup
  CountNeverExceedsHolders
PROPERTIES
  FifoWakeup
  WaiterServed
CHECK_DEADLOCK FALSE
