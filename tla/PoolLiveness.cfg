SPECIFICATION FairSpec
CONSTANTS
  Reqs = {r1, r2, r3}
  Keys = {k1}
  None = None
  MaxPerHost = 1
  Alpns = {"h1"}
  FreshAllowed = {TRUE, FALSE}
  Stops = {}
  Timeouts = TRUE
PROPERTIES EveryRequestSettles EveryConnectionReleased
CHECK_DEADLOCK FALSE
