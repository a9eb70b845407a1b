SPECIFICATION PathSpec
CONSTANTS
  ActiveLimit = 2
  MaxUpdates = 2
  MaxIds = 2
  MaxValidations = 2
  MaxInFlight = 2
  MaxRepeats = 1
INVARIANTS InStep
PROPERTIES ValidationSettles
CHECK_DEADLOCK FALSE
