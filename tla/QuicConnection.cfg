SPECIFICATION FairSpec
CONSTANTS
  WithRetry = {TRUE, FALSE}
  AcksFinished = TRUE
  PtoLimit = 1
  InitialWindow = 2
  MinWindow = 1
  MaxData = 3
  MaxFired = 2
  MaxFaults = 1
INVARIANTS ReadyIsAgreed LogIsSound NothingForgotten QueueMoves
PROPERTY HandshakeCompletes
CHECK_DEADLOCK FALSE
