SPECIFICATION FairSpec
CONSTANTS
  MaxStreams = 2
  Bodies = {0}
  Kinds = {"none"}
  Answers = {0, 2}
  Pads = {0}
  SendWindow = 2
  PeerWindow = 2
  RecvWindow = 3
  ConnCredit = 2
  StreamWindow = 2
  StreamCredit = 1
  Forms = {"plain", "interim", "split"}
  Cancels = TRUE
  MaxFlight = 2
  MaxFaults = 1
INVARIANTS
  CreditConserved
  ResponseWhole
  NothingAfterOutcome
  OutOfStepOnlyByCancel
PROPERTIES
  FlowNeverStalls
CHECK_DEADLOCK FALSE
