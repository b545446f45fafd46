SPECIFICATION Spec
CONSTANTS
  Workers = {w1, w2}
  Customers = {c1}
  MaxPinAttempts = 2
  MaxEnrollments = 2
  MaxSessions = 3
  MaxMisses = 2
INVARIANTS
  OneLiveSession
  OneChain
PROPERTY RevokedForGood
VIEW View
SYMMETRY WorkerSymmetry
