----------------------------- MODULE BackOffice -----------------------------
(***************************************************************************)
(* The parts of the back office that bookings stand on, together: the      *)
(* layout of the beach and the page that shows it, the users and what they *)
(* may do, the rates, the rentals, the time slots of the day, the packages *)
(* that are sold. The page has the tables of the layout; otherwise each of *)
(* them takes what it needs of the others as a refusal that may come or    *)
(* not, so that a behaviour of the whole is one of each beside the others: *)
(* focus is the part that moves.                                           *)
(***************************************************************************)
EXTENDS StructureEditor, StaffAccess, Rates, Rentals, DaySlots, Packages

VARIABLE focus

vars == <<layout, page, staff, rates, equipment, days, catalog, work, serial, focus>>

Init ==
  /\ focus \in {"layout", "editor", "staff", "rates", "rentals", "slots", "packages"}
  /\ IF focus = "editor" THEN BeachInit ELSE LayoutInit
  /\ PageInit /\ StaffInit /\ RatesInit /\ RentalsInit /\ DaysInit /\ PackagesInit
  /\ work = [w \in Workers |-> NoRequest]
  /\ serial = TRUE

Next ==
  /\ \/ focus = "layout"   /\ LayoutNext   /\ UNCHANGED <<page, staff, rates, equipment, days, catalog>>
     \/ focus = "editor"   /\ EditorNext   /\ UNCHANGED <<staff, rates, equipment, days, catalog>>
     \/ focus = "staff"    /\ StaffNext    /\ UNCHANGED <<layout, page, rates, equipment, days, catalog>>
     \/ focus = "rates"    /\ RatesNext    /\ UNCHANGED <<layout, page, staff, equipment, days, catalog>>
     \/ focus = "rentals"  /\ RentalsNext  /\ UNCHANGED <<layout, page, staff, rates, days, catalog>>
     \/ focus = "slots"    /\ DaysNext     /\ UNCHANGED <<layout, page, staff, rates, equipment, catalog>>
     \/ focus = "packages" /\ PackagesNext /\ UNCHANGED <<layout, page, staff, rates, equipment, days>>
  /\ UNCHANGED focus

Spec == Init /\ [][Next]_vars

(* The tables of each part hold what their columns may hold, and a request *)
(* in flight carries what the method of its part reads.                    *)
BackOfficeTypeOK ==
  CASE focus = "layout"   -> LayoutTypeOK
    [] focus = "editor"   -> PageTypeOK /\ LayoutTypeOK
    [] focus = "staff"    -> StaffTypeOK
    [] focus = "rates"    -> RatesTypeOK
    [] focus = "rentals"  -> RentalsTypeOK
    [] focus = "slots"    -> DaysTypeOK
    [] focus = "packages" -> PackagesTypeOK
=============================================================================
