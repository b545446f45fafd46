----------------------------- MODULE StaffDesks -----------------------------
(* The desks StaffCache is checked at.  The keys of the cache do not touch *)
(* each other, and each property speaks of one key: a desk follows one,    *)
(* over the screens that show it and the calls that change it.             *)
EXTENDS StaffQueries

On(page, d, c, s, u) ==
    [page |-> page, date |-> d, customer |-> c, season |-> s, staff |-> u]

Plain(page, d) == On(page, d, "c1", "s1", NoOne)

Call(op, of) == [op |-> op, of |-> of]

Desk(screens, sent, keys) == {[screens |-> screens, calls |-> sent, keys |-> {k}] : k \in keys}

LayoutDesks ==
    Desk({Plain(p, d) : p \in {"map", "structure"}, d \in Days},
         {Call("structure", {}), Call("retire", {})}, {DayMap("d1")})
    \cup
    Desk({Plain("structure", "d1"), On("customerDetail", "d1", "c1", "s1", NoOne),
          On("customerDetail", "d1", "c2", "s1", NoOne)},
         {Call("structure", {}), Call("retire", {})}, {CustomerBookings("c1")})
    \cup
    Desk({Plain(p, "d1") : p \in {"structure", "establishment", "bookings"}},
         {Call("structure", {}), Call("retire", {}), Call("rename", {})},
         {EstablishmentStructure, EstablishmentOverview, RetiredUmbrellas})

SetupDesks ==
    Desk({Plain(p, "d1") : p \in {"structure", "onboarding", "pricing"}},
         {Call("structure", {}), Call("slot", {}), Call("season", {}), Call("rate", {})},
         {SetupStatus})

TeamDesks ==
    Desk({On("establishment", "d1", "c1", "s1", u) : u \in Staff \cup {NoOne}}
           \cup {Plain("customers", "d1")},
         {Call("permissions", {}), Call("staffUser", {}), Call("resetPassword", {})},
         {StaffPermissions("u1")})

RenewalDesks ==
    Desk({On("renewals", "d1", "c1", s, NoOne) : s \in Seasons} \cup {Plain("map", "d1")},
         {Call("renew", {"d1", "c1"}), Call("openCampaign", {}), Call("closeCampaign", {})},
         {DayMap("d1"), Subscriptions("s1"), RenewalCampaign("s1")})

CatalogDesks ==
    Desk({Plain("pricing", d) : d \in Days} \cup {Plain("map", d) : d \in Days},
         {Call("slot", {})}, {DayMap("d1")})
    \cup
    Desk({Plain(p, "d1") : p \in {"pricing", "map"}},
         {Call("slot", {}), Call("package", {}), Call("equipment", {})},
         {TimeSlots, Packages, AllPackages, EquipmentTypes, AllEquipmentTypes})
    \cup
    Desk({Plain("rentals", "d1"), Plain("rentalCatalog", "d1"), Plain("customers", "d1")},
         {Call("item", {}), Call("tariff", {}), Call("rental", {})},
         {RentalItems, AllRentalItems})

(* A day at the counter, and the card of a customer.  The date and the     *)
(* customer stay: if they change under a call, its keys are of the new one.*)
CounterDesks ==
    Desk({Plain(p, "d1") : p \in {"map", "bookings"}},
         {Call("cancelBooking", {"d1"}), Call("createBooking", {"d1"}),
          Call("settlePayment", {"d1"})},
         {DayMap("d1"), Bookings("d1")})

CardDesks ==
    Desk({Plain(p, "d1") : p \in {"customerDetail", "customers"}},
         {Call("contract", {"d1", "s1"}), Call("transfer", {"c2"}), Call("access", {}),
          Call("updateCustomer", {})},
         {CustomerBookings("c1"), CededSubscriptions("c1"), CustomerAccess("c1")})

AllDesks ==
    LayoutDesks \cup SetupDesks \cup TeamDesks \cup RenewalDesks \cup CatalogDesks
      \cup CounterDesks \cup CardDesks
=============================================================================
