---------------------------- MODULE StaffQueries ----------------------------
(***************************************************************************)
(* What the pages of the staff application read, and which answers each of *)
(* its writes declares out of date.                                        *)
(*                                                                         *)
(* The server is a set of facts: a write changes some of them, a read      *)
(* shows some of them.  A page is a set of query keys; a write invalidates *)
(* keys by prefix.                                                         *)
(***************************************************************************)
EXTENDS FiniteSets, SequencesExt

CONSTANTS Days, Customers, Seasons, Staff

----------------------------------------------------------------------------
(* Query keys.  The establishment, the same in all of them, is left out.   *)

CustomersKey == <<"customers">>
Customer(c) == <<"customer", c>>
CustomerBookings(c) == <<"customer", c, "bookings">>
CededSubscriptions(c) == <<"customer", c, "ceded">>
CustomerScope == <<"customer">>
CustomerAccess(c) == <<"customer-access", c>>
DayMap(d) == <<"map", d>>
DayMaps == <<"map">>
Bookings(d) == <<"bookings", d>>
Packages == <<"packages">>
AllPackages == <<"packages", "all">>
EquipmentTypes == <<"equipment-types">>
AllEquipmentTypes == <<"equipment-types", "all">>
RentalItems == <<"rental-items">>
AllRentalItems == <<"rental-items", "all">>
RentalTariffs(s) == <<"rental-tariffs", s>>
Rentals(d) == <<"rentals", d>>
Subscriptions(s) == <<"subscriptions", s>>
SeasonsKey == <<"seasons">>
Rates(s) == <<"rates", s>>
TimeSlots == <<"time-slots">>
RenewalCampaign(s) == <<"renewalCampaign", s>>
EstablishmentOverview == <<"establishment", "overview">>
EstablishmentTeam == <<"establishment", "team">>
StaffPermissions(u) == <<"establishment", "team", u, "permissions">>
EstablishmentStructure == <<"establishment", "structure">>
RetiredUmbrellas == <<"establishment", "retired-umbrellas">>
SetupStatus == <<"establishment", "setup-status">>
LegalProfile == <<"legal-profile">>

Maps == {DayMap(d) : d \in Days}
Cards == {CustomerBookings(c) : c \in Customers}
CededLists == {CededSubscriptions(c) : c \in Customers}

----------------------------------------------------------------------------
(* The pages and the queries they mount.  A screen is a page with what it  *)
(* is opened on: the date of the session, the customer of the route, the   *)
(* season the page has selected, the user whose permissions are open.      *)

NoOne == "no one"
DatePages == {"map", "bookings", "rentals"}

(* The labels of customers, umbrellas and packages that tables show. *)
EntityLabels(s) ==
    {CustomersKey, DayMap(s.date), AllPackages, RetiredUmbrellas}

CustomerDetail(s) ==
    {Customer(s.customer), CustomerBookings(s.customer),
     CededSubscriptions(s.customer), CustomerAccess(s.customer), CustomersKey}

PricingView(s) ==
    {SeasonsKey, AllPackages, EquipmentTypes, AllEquipmentTypes,
     Rates(s.season), TimeSlots, DayMap(s.date)}

RenewalsView(s) ==
    {SeasonsKey, RenewalCampaign(s.season)} \cup EntityLabels(s)
      \cup {Subscriptions(o) : o \in Seasons \ {s.season}}

EstablishmentView(s) ==
    {EstablishmentOverview, SetupStatus, EstablishmentTeam, LegalProfile}
      \cup {StaffPermissions(u) : u \in {s.staff} \ {NoOne}}

Page(s) ==
    [map |-> {DayMap(s.date), Bookings(s.date), CustomersKey, Packages},
     bookings |-> {Bookings(s.date)} \cup EntityLabels(s),
     renewals |-> RenewalsView(s),
     customers |-> {CustomersKey},
     customerDetail |-> CustomerDetail(s),
     pricing |-> PricingView(s),
     rentals |-> {Rentals(s.date), RentalItems, CustomersKey, SeasonsKey,
                  RentalTariffs(s.season)},
     rentalCatalog |-> {SeasonsKey, AllRentalItems, RentalTariffs(s.season)},
     establishment |-> EstablishmentView(s),
     structure |-> {EstablishmentStructure, RetiredUmbrellas},
     onboarding |-> {SetupStatus, SeasonsKey, Rates(s.season), TimeSlots,
                     EstablishmentStructure}][s.page]

(* The shell, around every page, shows the season in force. *)
Shell == {EstablishmentOverview}

Screens ==
    [page : DatePages \cup {"renewals", "customers", "customerDetail", "pricing",
                            "rentalCatalog", "establishment", "structure", "onboarding"},
     date : Days, customer : Customers, season : Seasons, staff : Staff \cup {NoOne}]

----------------------------------------------------------------------------
(* The facts of the server and the reads that show them. *)

Layout == <<"layout">>        \* sectors, rows, umbrellas, types: order and names
Retired == <<"retired">>
Slots == <<"slots">>
SeasonList == <<"seasons">>
RateList(s) == <<"rates", s>>
PackageList == <<"packages">>
EquipmentList == <<"equipment">>
ItemList == <<"items">>
TariffList(s) == <<"tariffs", s>>
RentalList(d) == <<"rentals", d>>
Sold(d) == <<"sold", d>>       \* the coverage of a day
Paid(d) == <<"paid", d>>       \* the payments of the bookings of a day
Contract(c) == <<"contract", c>>
Ceded(c) == <<"ceded", c>>
Access(c) == <<"access", c>>
Person(c) == <<"person", c>>
Subscribed(s) == <<"subscribed", s>>
Campaign(s) == <<"campaign", s>>
Team == <<"team">>
Granted(u) == <<"granted", u>>
Name == <<"name">>
Legal == <<"legal">>

(* The map orders by the fields of the structure, the card of a customer   *)
(* shows positions and retirements, the overview and the setup count.      *)
StructureReads ==
    ({Layout} \X ({EstablishmentStructure, EstablishmentOverview, SetupStatus}
                    \cup Maps \cup Cards \cup CededLists))
      \cup ({Retired} \X ({RetiredUmbrellas} \cup Cards))
      \cup ({Name} \X {EstablishmentOverview})

RateReads ==
    UNION {{RateList(s)} \X {Rates(s), SetupStatus, EstablishmentStructure} : s \in Seasons}

CatalogReads ==
    ({Slots} \X ({TimeSlots, EstablishmentOverview, SetupStatus} \cup Maps \cup Cards))
      \cup ({SeasonList} \X ({SeasonsKey, EstablishmentOverview, SetupStatus}
                               \cup Cards \cup CededLists))
      \cup ({PackageList} \X ({Packages, AllPackages, EstablishmentOverview} \cup Cards))
      \cup ({EquipmentList} \X {EquipmentTypes, AllEquipmentTypes})
      \cup ({ItemList} \X ({RentalItems, AllRentalItems} \cup {Rentals(d) : d \in Days}))
      \cup RateReads
      \cup {<<TariffList(s), RentalTariffs(s)>> : s \in Seasons}

DayReads ==
    UNION {({Sold(d)} \X {DayMap(d), Bookings(d)})
             \cup {<<Paid(d), Bookings(d)>>, <<RentalList(d), Rentals(d)>>} : d \in Days}

SeasonReads ==
    UNION {({Campaign(s)} \X ({RenewalCampaign(s)} \cup Cards))
             \cup ({Subscribed(s)} \X ({Subscriptions(s)}
                     \cup {RenewalCampaign(o) : o \in Seasons})) : s \in Seasons}

BookingReads == DayReads \cup SeasonReads

CustomerReads ==
    UNION {{<<Contract(c), CustomerBookings(c)>>, <<Ceded(c), CededSubscriptions(c)>>,
            <<Access(c), CustomerAccess(c)>>}
             \cup ({Person(c)} \X ({Customer(c), CustomersKey} \cup Cards \cup CededLists))
             : c \in Customers}

TeamReads ==
    {<<Team, EstablishmentTeam>>, <<Legal, LegalProfile>>}
      \cup {<<Granted(u), StaffPermissions(u)>> : u \in Staff}

Shown ==
    StructureReads \cup CatalogReads \cup BookingReads \cup CustomerReads \cup TeamReads

Keys == {r[2] : r \in Shown}
Facts == {r[1] : r \in Shown}
Shows == [k \in Keys |-> {f \in Facts : <<f, k>> \in Shown}]

----------------------------------------------------------------------------
(* The writes.  A call is made from a screen and is about some things, of: *)
(* the days of a booking, its customer or the one who takes over, the      *)
(* seasons it counts in.  It is sent, then done: served or refused, with   *)
(* or without an answer.  contract stands for terminate, suspend,          *)
(* reactivate and the absences.                                            *)

CallTypes ==
    [op : {"structure", "retire", "createBooking", "cancelBooking", "settlePayment",
           "renew", "openCampaign", "closeCampaign", "createCustomer", "updateCustomer",
           "deleteCustomer", "contract", "transfer", "access", "rental", "item",
           "tariff", "package", "equipment", "rate", "season", "slot", "staffUser",
           "permissions", "resetPassword", "rename", "legal"},
     of : SUBSET (Days \cup Customers \cup Seasons)]

(* Where each write is offered. *)
Offered ==
    [map |-> {"createBooking", "cancelBooking", "settlePayment"},
     bookings |-> {"settlePayment"},
     renewals |-> {"renew", "openCampaign", "closeCampaign"},
     customers |-> {"createCustomer"},
     customerDetail |-> {"updateCustomer", "deleteCustomer", "contract", "transfer", "access"},
     pricing |-> {"season", "package", "equipment", "rate", "slot"},
     rentals |-> {"rental"},
     rentalCatalog |-> {"item", "tariff"},
     establishment |-> {"staffUser", "permissions", "resetPassword", "rename", "legal"},
     structure |-> {"structure", "retire"},
     onboarding |-> {"structure", "slot", "season", "rate"}]

ContractWrites(c) ==
    {Contract(x) : x \in c.of \cap Customers} \cup {Subscribed(x) : x \in c.of \cap Seasons}
BookingWrites(c) == ContractWrites(c) \cup {Sold(d) : d \in c.of \cap Days}

(* What a call made from screen s changes. *)
Writes(c, s) ==
    [structure |-> {Layout},
     retire |-> {Layout, Retired},
     createBooking |-> BookingWrites(c),
     cancelBooking |-> BookingWrites(c),
     settlePayment |-> {Contract(x) : x \in c.of \cap Customers}
                         \cup {Paid(d) : d \in c.of \cap Days},
     renew |-> BookingWrites(c) \cup {Campaign(s.season)}
                 \cup {Subscribed(x) : x \in Seasons},
     openCampaign |-> {Campaign(s.season)},
     closeCampaign |-> {Campaign(s.season)},
     createCustomer |-> {Person(x) : x \in c.of \cap Customers},
     updateCustomer |-> {Person(s.customer)},
     deleteCustomer |-> {Person(s.customer)},
     contract |-> BookingWrites(c) \cup {Contract(s.customer)},
     transfer |-> BookingWrites(c)
                    \cup {Contract(s.customer), Ceded(s.customer)},
     access |-> {Access(s.customer)},
     rental |-> {RentalList(d) : d \in Days},   \* each day shows what is out now
     item |-> {ItemList},
     tariff |-> {TariffList(s.season)},
     package |-> {PackageList},
     equipment |-> {EquipmentList},
     rate |-> {RateList(s.season)},
     season |-> {SeasonList},
     slot |-> {Slots},
     staffUser |-> {Team},
     permissions |-> {Granted(s.staff)},
     resetPassword |-> {},
     rename |-> {Name},
     legal |-> {Legal}][c.op]

(* What a write declares out of date, as the hooks list it: prefixes of    *)
(* keys, on a screen s.                                                    *)

(* A variant that is not the code: the cards of customers left out.        *)
structureKeysOwn ==
    {EstablishmentStructure, EstablishmentOverview, SetupStatus, DayMaps}

structureKeys ==
    {EstablishmentStructure, EstablishmentOverview, SetupStatus, DayMaps, CustomerScope}
retireKeys == structureKeys \cup {RetiredUmbrellas}

BookingKeys(s) ==
    LET both == {Bookings(s.date), DayMap(s.date)} IN
    [createBooking |-> both, cancelBooking |-> both,
     settlePayment |-> {Bookings(s.date)}]

RenewalKeys ==
    [renew |-> {<<"subscriptions">>, <<"map">>, <<"renewalCampaign">>},
     openCampaign |-> {<<"renewalCampaign">>},
     closeCampaign |-> {<<"renewalCampaign">>, <<"subscriptions">>, <<"map">>}]

CustomerKeys(s) ==
    LET c == s.customer IN
    [createCustomer |-> {CustomersKey},
     updateCustomer |-> {CustomersKey, Customer(c)},
     deleteCustomer |-> {CustomersKey, Customer(c)},
     contract |-> {CustomerBookings(c)},
     transfer |-> {CustomerBookings(c), CededSubscriptions(c)},
     access |-> {CustomerAccess(c)}]

invalidateSlotsAndMap == {TimeSlots, DayMaps, SetupStatus}
SeasonKeys == {SeasonsKey, SetupStatus}
RateKeys(s) == {Rates(s.season), SetupStatus}
PackageKeys == {Packages}
EquipmentKeys == {EquipmentTypes, AllEquipmentTypes}
ItemKeys == {RentalItems, AllRentalItems}
TariffKeys(s) == {RentalTariffs(s.season)}
RentalKeys(s) == {Rentals(s.date)}

EstablishmentKeys ==
    [staffUser |-> {EstablishmentTeam}, permissions |-> {EstablishmentTeam},
     resetPassword |-> {}, rename |-> {EstablishmentOverview}, legal |-> {LegalProfile}]

OwnKeys(s) ==
    [structure |-> structureKeys, retire |-> retireKeys, rental |-> RentalKeys(s),
     item |-> ItemKeys, tariff |-> TariffKeys(s), package |-> PackageKeys,
     equipment |-> EquipmentKeys, rate |-> RateKeys(s), season |-> SeasonKeys,
     slot |-> invalidateSlotsAndMap]

Invalidates(op, s) ==
    CASE op \in DOMAIN BookingKeys(s)    -> BookingKeys(s)[op]
      [] op \in DOMAIN RenewalKeys       -> RenewalKeys[op]
      [] op \in DOMAIN CustomerKeys(s)   -> CustomerKeys(s)[op]
      [] op \in DOMAIN EstablishmentKeys -> EstablishmentKeys[op]
      [] OTHER                           -> OwnKeys(s)[op]
=============================================================================
