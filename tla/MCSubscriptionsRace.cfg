SPECIFICATION Spec
CONSTANTS
  Methods <- Occupation
  Workers = {w1, w2}
  Customers = {c1}
  Umbrellas = {u1}
  Slots <- OneSlot
  Types = {"daily", "subscription"}
  LastDay = 3
  LastToday = 1
  Prices = {1}
  Amounts = {0}
  MaxBookings = 1
  MaxSubscriptions = 1
  MaxCoverage = 7
  MaxSuspensions = 2
  MaxReleases = 1
  MaxTransfers = 0
INVARIANTS
  DayConservation
SYMMETRY WorkerSymmetry
VIEW View
CHECK_DEADLOCK FALSE
