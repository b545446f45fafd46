SPECIFICATION Spec
CONSTANTS
  Calls = {c1, c2}
  Load = load
  Fetches = {f1, f2}
  Staff = staff
  Customers = {cust}
  MaxPinAttempts = 2
  MaxEnrollments = 1
  MaxSessions = 2
  MaxMisses = 0
INVARIANTS
  AppTypeOK
  NoFalseAlarm
  ExitRevokes
PROPERTIES
  CallsSettle
  ExitEnds
CHECK_DEADLOCK FALSE
