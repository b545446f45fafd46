SPECIFICATION Spec
CONSTANTS
  Methods <- MoneyMethods
  Workers = {w1}
  Customers = {c1, c2}
  Umbrellas = {u1}
  Slots <- OneSlot
  Types = {"subscription"}
  LastDay = 3
  LastToday = 2
  Prices = {2}
  Amounts = {0, 1, 2}
  MaxBookings = 1
  MaxSubscriptions = 1
  MaxCoverage = 6
  MaxSuspensions = 2
  MaxReleases = 0
  MaxTransfers = 2
INVARIANTS
  PaymentConsistent
  RefundLedger
  TransferChain
PROPERTY RefundStep
VIEW View
CHECK_DEADLOCK FALSE
