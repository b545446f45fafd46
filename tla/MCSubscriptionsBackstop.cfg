SPECIFICATION Spec
CONSTANTS
  Methods <- Occupation
  Workers = {w1}
  Customers = {c1}
  Umbrellas = {u1}
  Slots <- OneSlot
  Types = {"subscription"}
  LastDay = 3
  LastToday = 1
  Prices = {1}
  Amounts = {0}
  MaxBookings = 1
  MaxSubscriptions = 1
  MaxCoverage = 6
  MaxSuspensions = 1
  MaxReleases = 1
  MaxTransfers = 0
INVARIANT CancelReleaseNeverRefused
VIEW View
CHECK_DEADLOCK FALSE
