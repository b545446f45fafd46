------------------------------ MODULE Rentals -------------------------------
(***************************************************************************)
(* Equipment for rent, its tariffs and the rentals (RentalsService,        *)
(* RentalCatalogService). A rental keeps the item, the tariff and the      *)
(* total of its checkout; how many of an item there are is shown and not   *)
(* checked. Names, the customer and the times are left out; whether the    *)
(* season of a tariff is the one of today is a refusal, that may come or   *)
(* not.                                                                    *)
(***************************************************************************)
EXTENDS Requests, Payment

CONSTANTS Items, Tariffs,       \* identifiers of RentalItem and RentalTariff
          RentalIds,
          Amounts               \* totals and collections, in cents

ASSUME RentalsAssumption ==
  /\ Amounts \subseteq Nat /\ 0 \in Amounts
  /\ None \notin Items

VARIABLES item,         \* table RentalItem: "live", "archived", None
          tariff,       \* table RentalTariff: its item and whether archived
          rental        \* table Rental

equipment == <<item, tariff, rental>>

TariffRow == [item: Items, archived: BOOLEAN]

RentalRow ==
  [item: Items, tariff: Tariffs, total: Amounts, collected: Amounts,
   status: PaymentStatus, returned: BOOLEAN, cancelled: BOOLEAN]

ASSUME NoEquipmentAssumption == None \notin {"live", "archived"} \cup TariffRow \cup RentalRow

StoredItems == { i \in Items : item[i] # None }
StoredTariffs == { t \in Tariffs : tariff[t] # None }
StoredRentals == { x \in RentalIds : rental[x] # None }

RentalRequest ==
  [op: {"checkout", "return", "cancel", "settle"}, x: RentalIds, row: RentalRow \cup {None}]

OnRental(op, x) == [op |-> op, x |-> x, row |-> None]

SetRental(x, r) == rental' = [rental EXCEPT ![x] = r] /\ UNCHANGED <<item, tariff>>

-----------------------------------------------------------------------------
(* checkout: an item and a tariff that are not archived; the foreign keys  *)
(* ask for both again as the row is written                                *)

IsRentable(i) == item[i] = "live"

CheckoutLoad(w) ==
  \E t \in StoredTariffs, total \in Amounts, x \in RentalIds \ StoredRentals :
     /\ ~ tariff[t].archived
     /\ IsRentable(tariff[t].item)
     /\ Begin(w, [op |-> "checkout", x |-> x,
                  row |-> [item |-> tariff[t].item, tariff |-> t, total |-> total,
                           collected |-> 0, status |-> "unpaid", returned |-> FALSE,
                           cancelled |-> FALSE]])
     /\ UNCHANGED equipment

CheckoutWrite(w) ==
  LET r == work[w].row
  IN  /\ At(w, "checkout")
      /\ work[w].x \notin StoredRentals
      /\ r.item \in StoredItems /\ r.tariff \in StoredTariffs
      /\ SetRental(work[w].x, r)
      /\ Finish(w)

-----------------------------------------------------------------------------
(* mutate, of returnRental and cancelRental: the row is read, and written  *)
(* if the patch is not empty                                               *)

ReturnLoad(w) ==
  \E x \in StoredRentals :
     /\ ~ rental[x].cancelled /\ ~ rental[x].returned
     /\ Begin(w, OnRental("return", x))
     /\ UNCHANGED equipment

ReturnWrite(w) ==
  /\ At(w, "return")
  /\ SetRental(work[w].x, [rental[work[w].x] EXCEPT !.returned = TRUE])
  /\ Finish(w)

(* A variant that is not the code: what was collected is not looked at.    *)
CancelLoadAnyway(w) ==
  \E x \in StoredRentals :
     /\ ~ rental[x].cancelled
     /\ Begin(w, OnRental("cancel", x))
     /\ UNCHANGED equipment

CancelLoad(w) ==
  \E x \in StoredRentals :
     /\ ~ rental[x].cancelled
     /\ rental[x].collected = 0
     /\ Begin(w, OnRental("cancel", x))
     /\ UNCHANGED equipment

CancelWrite(w) ==
  /\ At(w, "cancel")
  /\ SetRental(work[w].x, [rental[work[w].x] EXCEPT !.cancelled = TRUE])
  /\ Finish(w)

(* settlePayment: the amount is the whole that has been collected.         *)
SettleLoad(w) ==
  \E x \in StoredRentals, amount \in Amounts, hasMethod \in BOOLEAN :
     /\ ~ rental[x].cancelled
     /\ ResolveOk(amount, rental[x].total, hasMethod)
     /\ Begin(w, [OnRental("settle", x) EXCEPT
                    !.row = [rental[x] EXCEPT
                               !.collected = amount,
                               !.status = ResolvedStatus(amount, rental[x].total)]])
     /\ UNCHANGED equipment

SettleWrite(w) ==
  LET r == work[w].row
  IN  /\ At(w, "settle")
      /\ SetRental(work[w].x, [rental[work[w].x] EXCEPT !.collected = r.collected,
                                                        !.status = r.status])
      /\ Finish(w)

-----------------------------------------------------------------------------
(* RentalCatalogService: what is read before each write the foreign keys   *)
(* ask for again, but for archivedAt, that a restoration may have emptied  *)
(* before a deletion it does not concern: each method is one step          *)

OneStep == Alone /\ UNCHANGED work

CreateRentalItem(i) ==
  /\ i \notin StoredItems /\ \A x \in StoredRentals : rental[x].item # i
  /\ \A w \in Busy : work[w].row # None => work[w].row.item # i
  /\ item' = [item EXCEPT ![i] = "live"]
  /\ OneStep
  /\ UNCHANGED <<tariff, rental>>

(* setArchived: the tariffs of the item are left as they are.              *)
ArchiveItem(i, state) ==
  /\ i \in StoredItems
  /\ item' = [item EXCEPT ![i] = state]
  /\ OneStep
  /\ UNCHANGED <<tariff, rental>>

(* Its tariffs go with it.                                                 *)
DeleteRentalItem(i) ==
  /\ item[i] = "archived"
  /\ \A x \in StoredRentals : rental[x].item # i
  /\ item' = [item EXCEPT ![i] = None]
  /\ tariff' = [t \in Tariffs |->
                  IF t \in StoredTariffs /\ tariff[t].item = i THEN None ELSE tariff[t]]
  /\ OneStep
  /\ UNCHANGED rental

CreateRentalTariff(t, i) ==
  /\ t \notin StoredTariffs /\ i \in StoredItems
  /\ \A w \in Busy : work[w].row # None => work[w].row.tariff # t
  /\ tariff' = [tariff EXCEPT ![t] = [item |-> i, archived |-> FALSE]]
  /\ OneStep
  /\ UNCHANGED <<item, rental>>

ArchiveTariff(t, archived) ==
  /\ t \in StoredTariffs
  /\ tariff' = [tariff EXCEPT ![t].archived = archived]
  /\ OneStep
  /\ UNCHANGED <<item, rental>>

DeleteRentalTariff(t) ==
  /\ t \in StoredTariffs /\ tariff[t].archived
  /\ \A x \in StoredRentals : rental[x].tariff # t
  /\ tariff' = [tariff EXCEPT ![t] = None]
  /\ OneStep
  /\ UNCHANGED <<item, rental>>

-----------------------------------------------------------------------------
RentalsInit ==
  /\ item = [i \in Items |-> None]
  /\ tariff = [t \in Tariffs |-> None]
  /\ rental = [x \in RentalIds |-> None]

RentalsNext ==
  \/ \E w \in Workers :
       \/ CheckoutLoad(w) \/ CheckoutWrite(w)
       \/ ReturnLoad(w) \/ ReturnWrite(w)
       \/ CancelLoad(w) \/ CancelWrite(w)
       \/ SettleLoad(w) \/ SettleWrite(w)
       \/ Abort(w) /\ UNCHANGED equipment
  \/ \E i \in Items :
       \/ CreateRentalItem(i) \/ DeleteRentalItem(i)
       \/ ArchiveItem(i, "archived") \/ ArchiveItem(i, "live")
       \/ \E t \in Tariffs : CreateRentalTariff(t, i)
  \/ \E t \in Tariffs :
       \/ ArchiveTariff(t, TRUE) \/ ArchiveTariff(t, FALSE)
       \/ DeleteRentalTariff(t)

RentalsSpec ==
  /\ RentalsInit
  /\ work = [w \in Workers |-> NoRequest] /\ serial = TRUE
  /\ [][RentalsNext]_<<equipment, work, serial>>
-----------------------------------------------------------------------------
RentalsTypeOK ==
  /\ item \in [Items -> {"live", "archived", None}]
  /\ tariff \in [Tariffs -> TariffRow \cup {None}]
  /\ rental \in [RentalIds -> RentalRow \cup {None}]
  /\ work \in [Workers -> RentalRequest \cup {NoRequest}]
  /\ serial \in BOOLEAN

(* One request at a time, a rental that is cancelled holds no money: it    *)
(* was given back before (cancelRental) and none is taken after            *)
(* (settlePayment); and whatever requests overlap, the item and the tariff *)
(* of a rental are there, the tariff of that item, so that the day's list  *)
(* can name them.                                                          *)
RentalsInOrder ==
  \A x \in StoredRentals :
     /\ serial /\ rental[x].cancelled => rental[x].collected = 0
     /\ rental[x].item \in StoredItems /\ rental[x].tariff \in StoredTariffs
     /\ tariff[rental[x].tariff].item = rental[x].item
=============================================================================
