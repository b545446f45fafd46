SPECIFICATION Spec
CONSTANTS
  Workers = {w1}
  Customers = {c1}
  Umbrellas = {u1}
  Slots <- OneSlot
  Types = {"subscription"}
  SeasonIds = {1, 2}
  SeasonSpan <- TwoSeasons
  Methods <- AllMethods
  LastDay = 2
  LastToday = 2
  MaxBookings = 2
  MaxCampaigns = 1
INVARIANT RemovedNotBooked
