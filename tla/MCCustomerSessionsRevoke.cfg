SPECIFICATION Spec
CONSTANTS
  Workers = {w1, w2}
  Customers = {c1}
  MaxPinAttempts = 2
  MaxEnrollments = 2
  MaxSessions = 4
  MaxMisses = 0
INVARIANTS
  RevokedEndsSessions
SYMMETRY WorkerSymmetry
