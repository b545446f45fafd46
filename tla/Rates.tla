------------------------------- MODULE Rates --------------------------------
(***************************************************************************)
(* The rates of a season (RatesService) and the one that prices a stay     *)
(* (pricing.engine). A rate may name a row, a sector, a package or a time  *)
(* slot; their removal refuses while a rate does, and so do the foreign    *)
(* keys. What else a removal depends on (bookings, umbrellas, the last     *)
(* time slot, a package that is not archived) is a refusal, that may come  *)
(* or not. The amounts are left out: which rate it is decides.             *)
(*                                                                         *)
(* wanted is a history variable: each rate as it was last written.         *)
(***************************************************************************)
EXTENDS Requests, Functions

CONSTANTS RateIds,
          BookingTypes,     \* those that are booked, "subscription" among them or not
          Places,           \* what rates name, of the dimensions below
          PlaceOf,          \* the dimension of each
          Periods           \* the [start, end] of a rate, 0: null

Dimensions == {"row", "sector", "package", "slot"}

ASSUME RatesAssumption ==
  /\ PlaceOf \in [Places -> Dimensions]
  /\ Periods \subseteq [start: Nat, end: Nat]
  /\ None \notin Places \cup BookingTypes

VARIABLES rate,     \* table Rate
          place,    \* the rows of Row, Sector, Package and TimeSlot
          wanted

rates == <<rate, place, wanted>>

RateRow ==
  [type: BookingTypes \cup {None}, scope: [Dimensions -> Places \cup {None}],
   period: Periods]

WithinDimensions(scope) == \A d \in Dimensions : scope[d] # None => PlaceOf[scope[d]] = d

Scopes == { s \in [Dimensions -> Places \cup {None}] : WithinDimensions(s) }

StoredRates == { i \in RateIds : rate[i] # None }

-----------------------------------------------------------------------------
(* pricing.engine                                                          *)

(* isApplicable, to a stay ctx.                                            *)
IsApplicable(ctx, r) ==
  /\ IF ctx.type = "subscription" THEN r.type = "subscription" ELSE r.type \in {None, ctx.type}
  /\ \A d \in Dimensions : r.scope[d] \in {None, ctx.scope[d]}
  /\ r.period.start # 0 =>
       /\ r.period.end # 0
       /\ r.period.start <= ctx.start /\ ctx.end <= r.period.end

(* specificity                                                             *)
Specificity(r) ==
  <<r.period.start # 0, r.scope["row"] # None, r.scope["sector"] # None,
    r.scope["package"] # None, r.scope["slot"] # None, r.type # None>>

(* compareSpecificity(a, b) > 0                                            *)
MoreSpecific(a, b) ==
  LET sa == Specificity(a)
      sb == Specificity(b)
  IN  \E i \in 1 .. 6 : sa[i] /\ ~ sb[i] /\ \A j \in 1 .. i - 1 : sa[j] = sb[j]

(* resolvePrice, of the rates ids in the order the database returns them:  *)
(* the first of those that none is more specific than.                     *)
Applicable(ctx, ids) == { k \in DOMAIN ids : IsApplicable(ctx, rate[ids[k]]) }

Best(ids, ks) ==
  { k \in ks : \A l \in ks :
      /\ l < k => MoreSpecific(rate[ids[k]], rate[ids[l]])
      /\ l > k => ~ MoreSpecific(rate[ids[l]], rate[ids[k]]) }

ResolvePrice(ctx, ids) ==
  LET applicable == Applicable(ctx, ids)
  IN  IF applicable = {} THEN None ELSE ids[CHOOSE k \in Best(ids, applicable) : TRUE]

-----------------------------------------------------------------------------
(* RatesService: each method is one step, that the index Rate_signature_key *)
(* and the foreign keys may refuse                                         *)

(* A variant that is not the code: nulls are distinct, as is the default.  *)
SignatureTakenNullsDistinct(i, r) ==
  \E j \in StoredRates \ {i} :
     /\ rate[j] = r
     /\ r.type # None /\ \A d \in Dimensions : r.scope[d] # None
     /\ 0 \notin {r.period.start, r.period.end}

(* NULLS NOT DISTINCT                                                      *)
SignatureTaken(i, r) == \E j \in StoredRates \ {i} : rate[j] = r

WriteRate(i, r) ==
  /\ \A d \in Dimensions : r.scope[d] \in place \cup {None}
  /\ ~ SignatureTaken(i, r)
  /\ rate' = [rate EXCEPT ![i] = r]
  /\ wanted' = [wanted EXCEPT ![i] = r]
  /\ Alone
  /\ UNCHANGED <<place, work>>

CreateRate(i) ==
  /\ i \notin StoredRates
  /\ \E t \in BookingTypes \cup {None}, s \in Scopes, p \in Periods :
       WriteRate(i, [type |-> t, scope |-> s, period |-> p])

(* Of the fields those that are there are written, each of its own.        *)
UpdateRate(i) ==
  /\ i \in StoredRates
  /\ \/ \E t \in BookingTypes \cup {None} : WriteRate(i, [rate[i] EXCEPT !.type = t])
     \/ \E s \in Scopes : WriteRate(i, [rate[i] EXCEPT !.scope = s])
     \/ \E p \in Periods : WriteRate(i, [rate[i] EXCEPT !.period = p])

RemoveRate(i) ==
  /\ i \in StoredRates
  /\ rate' = [rate EXCEPT ![i] = None]
  /\ wanted' = [wanted EXCEPT ![i] = None]
  /\ Alone
  /\ UNCHANGED <<place, work>>

-----------------------------------------------------------------------------
(* remove of RowsService, SectorsService, TimeSlotsService, deletePackage  *)

PlaceRequest == [op: {"removePlace"}, p: Places]

Names(r, p) == \E d \in Dimensions : r.scope[d] = p

CreatePlace(p) ==
  /\ p \notin place /\ \A w \in Busy : work[w].p # p
  /\ place' = place \cup {p}
  /\ Alone
  /\ UNCHANGED <<rate, wanted, work>>

RemovePlaceCheck(w) ==
  \E p \in place :
     /\ \A i \in StoredRates : ~ Names(rate[i], p)
     /\ Begin(w, [op |-> "removePlace", p |-> p])
     /\ UNCHANGED rates

(* A variant that is not the code: ON DELETE SET NULL, as the foreign keys *)
(* were, if the index lets it.                                             *)
RemovePlaceWriteSetNull(w) ==
  LET p == work[w].p
      widened == [i \in RateIds |->
                    IF i \in StoredRates /\ Names(rate[i], p)
                    THEN [rate[i] EXCEPT !.scope[PlaceOf[p]] = None] ELSE rate[i]]
  IN  /\ At(w, "removePlace")
      /\ \A i, j \in StoredRates : i # j => widened[i] # widened[j]
      /\ rate' = widened
      /\ place' = place \ {p}
      /\ Finish(w)
      /\ UNCHANGED wanted

(* A variant that is not the code: no foreign keys.                        *)
RemovePlaceWriteUnchecked(w) ==
  /\ At(w, "removePlace")
  /\ place' = place \ {work[w].p}
  /\ Finish(w)
  /\ UNCHANGED <<rate, wanted>>

(* ON DELETE RESTRICT, for a rate written since the check.                 *)
RemovePlaceWrite(w) ==
  /\ At(w, "removePlace")
  /\ work[w].p \in place
  /\ \A i \in StoredRates : ~ Names(rate[i], work[w].p)
  /\ place' = place \ {work[w].p}
  /\ Finish(w)
  /\ UNCHANGED <<rate, wanted>>

-----------------------------------------------------------------------------
RatesInit ==
  /\ rate = [i \in RateIds |-> None]
  /\ place = Places
  /\ wanted = [i \in RateIds |-> None]

RatesNext ==
  \/ \E i \in RateIds : CreateRate(i) \/ UpdateRate(i) \/ RemoveRate(i)
  \/ \E p \in Places : CreatePlace(p)
  \/ \E w \in Workers :
       \/ RemovePlaceCheck(w) \/ RemovePlaceWrite(w)
       \/ Abort(w) /\ UNCHANGED rates

RatesSpec ==
  /\ RatesInit
  /\ work = [w \in Workers |-> NoRequest] /\ serial = TRUE
  /\ [][RatesNext]_<<rates, work, serial>>
-----------------------------------------------------------------------------
RatesTypeOK ==
  /\ rate \in [RateIds -> RateRow \cup {None}]
  /\ place \subseteq Places
  /\ \A i \in StoredRates, d \in Dimensions : rate[i].scope[d] \in place \cup {None}
  /\ wanted \in [RateIds -> RateRow \cup {None}]
  /\ work \in [Workers -> PlaceRequest \cup {NoRequest}]
  /\ serial \in BOOLEAN

(* The stays that a rate may price: None is a place that no rate names.    *)
StayDays == UNION { {p.start, p.end} : p \in Periods } \ {0}

Stays ==
  { [type |-> t, scope |-> s, start |-> day.start, end |-> day.end] :
      t \in BookingTypes, s \in Scopes,
      day \in { d \in [start: StayDays, end: StayDays] : d.start <= d.end } }

(* Two periods that cannot contain the same stay, or are one.              *)
PeriodsApart(p, q) ==
  \/ p = q
  \/ (p.start = 0) # (q.start = 0)
  \/ p.start # 0 /\ (p.end < q.start \/ q.end < p.start)

(* The orders in which the database may return the rates.                  *)
Orders == Bijection(1 .. Cardinality(StoredRates), StoredRates)

(* The stays that more than one rate may price.                            *)
ContestedStays ==
  { ctx \in Stays :
      \E i \in StoredRates : \E j \in StoredRates \ {i} :
         IsApplicable(ctx, rate[i]) /\ IsApplicable(ctx, rate[j]) }

(* The price of a stay does not hang on the order in which the database    *)
(* returns the rates, that priceWithin leaves open: two that apply and are *)
(* as specific as each other cannot both be there, for the index           *)
(* (pricing.engine, resolvePrice). Provided the periods of the rates are   *)
(* the same or have no day in common, which the index does not see to.     *)
PriceDetermined ==
  (\A i, j \in StoredRates : PeriodsApart(rate[i].period, rate[j].period)) =>
    \A ctx \in ContestedStays :
       \E i \in StoredRates : \A ids \in Orders : ResolvePrice(ctx, ids) = i

(* A rate goes on naming what it was written with: no removal of a row, a  *)
(* sector, a package or a time slot turns it into one for all of them,     *)
(* also when the rate is written between the count of the rates and the    *)
(* removal (schema.prisma, Rate, D-058).                                   *)
RateScopeKept == rate = wanted
=============================================================================
