CONSTANTS
  p1 = p1
  p2 = p2
  h1 = h1
  h2 = h2
  Executors = {p1, p2}
  Requests <- SomeRequests
  Found <- Stores
  NewItems = {"b"}
  Torn = Torn
  Nothing = Nothing
  Hosts = {h1, h2}
  Opened <- OpenedName
  ForeignPacks <- Foreign
  MaxLines = 3
  MaxDeaths = 1
  Instant <- Written
  MaxPlans = 2
  MaxWrites = 1
  MaxCrashes = 1
  MaxFaults = 1
SYMMETRY Symmetry
SPECIFICATION MCSpec
INVARIANTS TimelineIsKept
PROPERTIES HostsFindTheirStore SuccessLeavesNothing RefusedOnlyTorn VisibleIsNeverLost
