SPECIFICATION MCSpec
CONSTANTS
  Workers = {w1, w2}
  None = None
  Sectors = {s1}
  Rows = {d, e}
  Umbrellas = {a, b, c}
  Labels = {1, 2, 3}
  Kinds = {1}
  OnBeach = 2
  Users = {f, g}
  FirstAdmin = f
  Tokens = {a, b, c}
  Permissions = {team, customers}
  TeamManage = team
  StaffDefault = {customers}
  BookingTypes = {"daily", "subscription"}
  RateIds = {d, e}
  sea = sea
  pool = pool
  Places = {sea, pool}
  PlaceOf <- MCPlaceOf
  Periods <- MCPeriods
  Items = {d, e}
  Tariffs = {d, e}
  RentalIds = {x}
  Amounts = {0, 1, 2}
  SlotIds = {d, e}
  Hours = {8, 13, 19}
  LastDay = 3
  Spans <- MCSpans
  SaleIds = {f, g}
  PackageIds = {f}
  TypeIds = {d, e}
  BuyerIds = {f, g}
  TypeNames = {"Frigo", "frigo", "lettino"}
  SpelledOf <- MCSpelledOf
  MaxCalls = 1
INVARIANTS
  OfficeTypeOK
  ActiveLabelsUnique
  ActiveIsPlaced
  PreviewIsMove
  ShownAsServed
  AdminLeft
  PermissionsAsAsked
  PriceDetermined
  RateScopeKept
  RentalsInOrder
  SoldOncePerSlot
  FreeIsSellable
  PiecesFit
  PackagesAsAgreed
  ShownFresh
PROPERTIES
  LinkWorksOnce
VIEW View
SYMMETRY Symmetry
