SPECIFICATION Spec
CONSTANTS
  MaxStreams = 2
  Bodies = {2}
  Kinds = {"whole", "stream"}
  Answers = {0}
  Pads = {0}
  SendWindow = 2
  PeerWindow = 2
  RecvWindow = 3
  ConnCredit = 2
  StreamWindow = 2
  StreamCredit = 1
  Forms = {"plain"}
  Cancels = TRUE
  MaxFlight = 1
  MaxFaults = 1
INVARIANTS
  WindowsRespected
  WholeBody
CHECK_DEADLOCK FALSE
