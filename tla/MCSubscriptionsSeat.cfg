SPECIFICATION Spec
CONSTANTS
  Methods <- SeatMethods
  Workers = {w1, w2}
  Customers = {c1}
  Umbrellas = {u1}
  Slots <- AllSlots
  Types = {"daily", "subscription"}
  LastDay = 2
  LastToday = 1
  Prices = {1}
  Amounts = {0}
  MaxBookings = 2
  MaxSubscriptions = 1
  MaxCoverage = 7
  MaxSuspensions = 1
  MaxReleases = 1
  MaxTransfers = 0
INVARIANTS
  NoDoubleBooking
SYMMETRY WorkerSymmetry
VIEW View
CHECK_DEADLOCK FALSE
