SPECIFICATION FairSpec
CONSTANTS
  Procs = {p1, p2}
  MaxTickets = 2
  NoProc = NoProc
  MaxPerHost = 2
  Kills = TRUE
  MaxStops = 1
  MaxExpired = 1
INVARIANTS ExclusiveUnlessRobbed NoTicketTwice
PROPERTIES NothingClobbered DueIsSaved
CHECK_DEADLOCK FALSE
