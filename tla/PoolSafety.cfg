SPECIFICATION Spec
CONSTANTS
  Reqs = {r1, r2, r3}
  Keys = {k1}
  None = None
  MaxPerHost = 1
  Alpns = {"h1", "h2"}
  FreshAllowed = {TRUE, FALSE}
  Stops = {"closeAll", "shutdown"}
  Timeouts = TRUE
INVARIANTS
  DedupedHandshakes
  ActiveCounted
  H1Exclusive
PROPERTIES
  UsesSlots
  LeavesMapClosed
  DrainCutsNobody
CHECK_DEADLOCK FALSE
SYMMETRY Symmetry
