SPECIFICATION Spec
CONSTANTS
  Workers = {w1, w2}
  Customers = {c1, c2}
  Umbrellas = {u1}
  Slots <- OneSlot
  Types = {"subscription"}
  SeasonIds = {1, 2}
  SeasonSpan <- TwoSeasons
  Methods <- AllMethods
  LastDay = 2
  LastToday = 2
  MaxBookings = 3
  MaxCampaigns = 1
INVARIANTS
  OneRenewal
  RenewalsRunForward
  HoldHonoured
  RetiredUnbooked
  ErasedLeavesNothing
CONSTRAINT Bound
ACTION_CONSTRAINT OneOverlap
SYMMETRY Symmetry
