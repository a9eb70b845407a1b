SPECIFICATION H3Spec
CONSTANTS
  Size = 3
  MaxPending = 2
  MaxQueued = 2
  HeadersLen = 2
  Advertised = 2
  ShortIndex = 0
  MaxLines = 1
  MaxGarbage = 0
INVARIANTS NothingWithheld ResponseWhole
PROPERTIES InOrderOnce 
CHECK_DEADLOCK FALSE
