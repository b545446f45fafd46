SPECIFICATION Spec
CONSTANTS
  Methods <- Occupation
  Workers = {w1}
  Customers = {c1}
  Umbrellas = {u1}
  Slots <- OneSlot
  Types = {"daily", "subscription"}
  LastDay = 4
  LastToday = 1
  Prices = {1}
  Amounts = {0}
  MaxBookings = 2
  MaxSubscriptions = 1
  MaxCoverage = 6
  MaxSuspensions = 2
  MaxReleases = 1
  MaxTransfers = 0
INVARIANTS
  DayConservation
  OccupationAsAgreed
  ReactivateNeverRefused
PROPERTIES
  CalendarSpec
  FreedOnCommit
VIEW View
CHECK_DEADLOCK FALSE
