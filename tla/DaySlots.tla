------------------------------ MODULE DaySlots ------------------------------
(***************************************************************************)
(* The time slots of the day (TimeSlotsService) under the bookings of one  *)
(* umbrella, and the map of a day. The hours of a slot can be changed at   *)
(* any time. The check of a sale (priceAndWrite) and the map (resolveSlot) *)
(* look at the hours the slots have now; the constraint of the database at *)
(* the minutes that a trigger copied into each row as it was inserted.     *)
(*                                                                         *)
(* What else a booking depends on (the hold, the price, the dates of an    *)
(* absence) is a refusal, that may come or not; Subscriptions has it, with *)
(* the requests on one booking that overlap. A booking that is cancelled   *)
(* has no rows here, as nothing looks at those it has.                     *)
(*                                                                         *)
(* rehoured is a history variable: the bookings whose slot has had its     *)
(* hours changed since they were made.                                     *)
(***************************************************************************)
EXTENDS Requests, Availability

CONSTANTS SlotIds, Hours,   \* the times of the day
          LastDay,          \* the season is 1 .. LastDay
          Spans,            \* the days a booking may have
          SaleIds           \* identifiers of Booking

ASSUME DaySlotsAssumption ==
  /\ Hours \subseteq Nat /\ LastDay \in Nat
  /\ Spans \subseteq { s \in [start: 1 .. LastDay, end: 1 .. LastDay] : s.start <= s.end }
  /\ None \notin SlotIds \cup SaleIds \cup Hours

VARIABLES slot,     \* table TimeSlot: the hours of each, None: no such row
          sale,     \* table Booking: the slot and the days of each
          cover,    \* table BookingCoverage, the rows that are confirmed
          rehoured

days == <<slot, sale, cover, rehoured>>

Interval == [start: Hours, end: Hours]
SeasonDays == 1 .. LastDay

LiveSlots == { s \in SlotIds : slot[s] # None }
Sales == { b \in SaleIds : sale[b] # None }

SaleRow == [slot: SlotIds, start: SeasonDays, end: SeasonDays, confirmed: BOOLEAN]
CoverRow == [b: SaleIds, start: SeasonDays, end: SeasonDays, slot: Interval]

HoursOf(b) == slot[sale[b].slot]

(* None is no row of these tables.                                         *)
ASSUME NoHoursAssumption == None \notin Interval \cup SaleRow

-----------------------------------------------------------------------------
(* The constraints on the rows                                             *)

(* coverage_fill_slot_minutes: the hours at the moment of the insert.      *)
NewRow(b, from, to) == [b |-> b, start |-> from, end |-> to, slot |-> HoursOf(b)]

(* int4range: an empty one overlaps nothing.                               *)
MinutesOverlap(m, n) == m.start < m.end /\ n.start < n.end /\ slotsOverlap(m, n)

(* No row whose range is upside down, and coverage_no_overlap.             *)
Accepts(rows) ==
  /\ \A c \in rows : c.slot.start <= c.slot.end
  /\ \A c, d \in rows :
       c # d /\ dateRangesOverlap(c.start, c.end, d.start, d.end)
         => ~ MinutesOverlap(c.slot, d.slot)

-----------------------------------------------------------------------------
(* What the checks and the map see                                         *)

(* The check of priceAndWrite, reactivate and cancelAbsenceRelease.        *)
SeatTaken(hours, from, to, b) ==
  \E c \in cover :
     /\ c.b # b
     /\ dateRangesOverlap(c.start, c.end, from, to)
     /\ slotsOverlap(HoursOf(c.b), hours)

(* resolveSlot, whatever the type of the booking.                          *)
MapState(s, day) ==
  LET there == { c.b : c \in { x \in cover : day \in x.start .. x.end } }
  IN  CASE \E b \in there : sale[b].slot = s -> "booked"
        [] /\ \A b \in there : sale[b].slot # s
           /\ \E b \in there : slotsOverlap(HoursOf(b), slot[s]) -> "covered"
        [] OTHER -> "free"

-----------------------------------------------------------------------------
(* TimeSlotsService                                                        *)

DayRequest ==
  [op: {"rehour", "removeSlot", "sell", "cover"}, s: SlotIds \cup {None},
   patch: [start: Hours \cup {None}, end: Hours \cup {None}],
   b: SaleIds \cup {None}, start: 0 .. LastDay, end: 0 .. LastDay]

NoPatch == [start |-> None, end |-> None]

OnSlot(op, s) == [op |-> op, s |-> s, patch |-> NoPatch, b |-> None, start |-> 0, end |-> 0]

OnDays(op, s, b, from, to) ==
  [op |-> op, s |-> s, patch |-> NoPatch, b |-> b, start |-> from, end |-> to]

CreateSlot ==
  /\ \E s \in SlotIds \ LiveSlots, h \in Interval :
       /\ h.start < h.end /\ \A w \in Busy : work[w].s # s
       /\ slot' = [slot EXCEPT ![s] = h]
  /\ Alone
  /\ UNCHANGED <<sale, cover, rehoured, work>>

Patched(h, patch) ==
  [start |-> IF patch.start # None THEN patch.start ELSE h.start,
   end   |-> IF patch.end # None THEN patch.end ELSE h.end]

(* A variant that is not the code: only what is given is checked.          *)
UpdateSlotLoadGiven(w) ==
  \E s \in LiveSlots, patch \in [start: Hours \cup {None}, end: Hours \cup {None}] :
     /\ patch.start # None /\ patch.end # None => patch.start < patch.end
     /\ Begin(w, [OnSlot("rehour", s) EXCEPT !.patch = patch])
     /\ UNCHANGED days

UpdateSlotLoad(w) ==
  \E s \in LiveSlots, patch \in [start: Hours \cup {None}, end: Hours \cup {None}] :
     /\ Patched(slot[s], patch).start < Patched(slot[s], patch).end
     /\ Begin(w, [OnSlot("rehour", s) EXCEPT !.patch = patch])
     /\ UNCHANGED days

(* Only the columns that are given.                                        *)
UpdateSlotWrite(w) ==
  LET s == work[w].s
      h == Patched(slot[s], work[w].patch)
  IN  /\ At(w, "rehour") /\ s \in LiveSlots
      /\ slot' = [slot EXCEPT ![s] = h]
      /\ rehoured' = rehoured \cup (IF h = slot[s] THEN {} ELSE { b \in Sales : sale[b].slot = s })
      /\ Finish(w)
      /\ UNCHANGED <<sale, cover>>

RemoveSlotLoad(w) ==
  \E s \in LiveSlots :
     /\ \A b \in Sales : sale[b].slot # s
     /\ Cardinality(LiveSlots) > 1
     /\ Begin(w, OnSlot("removeSlot", s))
     /\ UNCHANGED days

(* Booking_timeSlotId_fkey                                                 *)
RemoveSlotWrite(w) ==
  LET s == work[w].s
  IN  /\ At(w, "removeSlot") /\ s \in LiveSlots
      /\ \A b \in Sales : sale[b].slot # s
      /\ slot' = [slot EXCEPT ![s] = None]
      /\ Finish(w)
      /\ UNCHANGED <<sale, cover, rehoured>>

-----------------------------------------------------------------------------
(* The bookings of the umbrella                                            *)

(* A variant that is not the code: the check dropped, as the constraint    *)
(* refuses the row in any case.                                            *)
CreateLoadUnchecked(w) ==
  \E s \in LiveSlots, p \in Spans :
     /\ Begin(w, OnDays("sell", s, None, p.start, p.end))
     /\ UNCHANGED days

CreateBookingLoad(w) ==
  \E s \in LiveSlots, p \in Spans :
     /\ ~ SeatTaken(slot[s], p.start, p.end, None)
     /\ Begin(w, OnDays("sell", s, None, p.start, p.end))
     /\ UNCHANGED days

CreateBookingWrite(w) ==
  LET r == work[w]
  IN  /\ At(w, "sell") /\ r.s \in LiveSlots
      /\ \E b \in SaleIds \ Sales :
           /\ sale' = [sale EXCEPT ![b] = [slot |-> r.s, start |-> r.start, end |-> r.end,
                                           confirmed |-> TRUE]]
           /\ cover' = cover \cup {[b |-> b, start |-> r.start, end |-> r.end,
                                    slot |-> slot[r.s]]}
      /\ Accepts(cover')
      /\ Finish(w)
      /\ UNCHANGED <<slot, rehoured>>

(* cancel, with the trigger coverage_sync_status.                          *)
CancelBooking(b) ==
  /\ b \in Sales /\ sale[b].confirmed
  /\ sale' = [sale EXCEPT ![b].confirmed = FALSE]
  /\ cover' = { c \in cover : c.b # b }
  /\ Alone
  /\ UNCHANGED <<slot, rehoured, work>>

(* The row of b that covers the day, and what a hole of that day leaves.   *)
RowsAt(b, day) == { c \in cover : c.b = b /\ day \in c.start .. c.end }

Heads(b, day) ==
  { [c EXCEPT !.end = day - 1] : c \in { x \in RowsAt(b, day) : x.start < day } }

Tails(b, day) == { c \in RowsAt(b, day) : day < c.end }

(* applyCarve: the row is narrowed to the first piece, with the minutes it *)
(* has, and a second one is inserted.                                      *)
Kept(b, day) ==
  IF Heads(b, day) # {} THEN Heads(b, day)
  ELSE { [c EXCEPT !.start = day + 1] : c \in Tails(b, day) }

Extra(b, day) ==
  IF Heads(b, day) # {} THEN { NewRow(b, day + 1, c.end) : c \in Tails(b, day) } ELSE {}

(* A variant that is not the code: the second piece is inserted first.     *)
FitsExtraFirst(b, day) == Accepts(cover \cup Extra(b, day))

Fits(b, day) == Accepts((cover \ RowsAt(b, day)) \cup Kept(b, day) \cup Extra(b, day))

(* releaseAbsence, and the suspension of a day.                            *)
ReleaseDay(b, day) ==
  /\ b \in Sales /\ sale[b].start < sale[b].end
  /\ RowsAt(b, day) # {}
  /\ Fits(b, day)
  /\ cover' = (cover \ RowsAt(b, day)) \cup Kept(b, day) \cup Extra(b, day)
  /\ Alone
  /\ UNCHANGED <<slot, sale, rehoured, work>>

(* cancelAbsenceRelease, of a day that was given up.                       *)
TakeBackLoad(w) ==
  \E b \in Sales, day \in SeasonDays :
     /\ sale[b].confirmed /\ day \in sale[b].start .. sale[b].end
     /\ RowsAt(b, day) = {}
     /\ ~ SeatTaken(HoursOf(b), day, day, b)
     /\ Begin(w, OnDays("cover", None, b, day, day))
     /\ UNCHANGED days

TakeBackWrite(w) ==
  LET r == work[w]
  IN  /\ At(w, "cover") /\ sale[r.b].confirmed
      /\ cover' = cover \cup {NewRow(r.b, r.start, r.end)}
      /\ RowsAt(r.b, r.start) = {}
      /\ Accepts(cover')
      /\ Finish(w)
      /\ UNCHANGED <<slot, sale, rehoured>>

-----------------------------------------------------------------------------
DaysInit ==
  /\ slot = [s \in SlotIds |-> None]
  /\ sale = [b \in SaleIds |-> None]
  /\ cover = {}
  /\ rehoured = {}

DaysNext ==
  \/ CreateSlot
  \/ \E w \in Workers :
       \/ UpdateSlotLoad(w) \/ UpdateSlotWrite(w)
       \/ RemoveSlotLoad(w) \/ RemoveSlotWrite(w)
       \/ CreateBookingLoad(w) \/ CreateBookingWrite(w)
       \/ TakeBackLoad(w) \/ TakeBackWrite(w)
       \/ Abort(w) /\ UNCHANGED days
  \/ \E b \in SaleIds : CancelBooking(b) \/ \E day \in SeasonDays : ReleaseDay(b, day)

DaysSpec ==
  /\ DaysInit
  /\ work = [w \in Workers |-> NoRequest] /\ serial = TRUE
  /\ [][DaysNext]_<<days, work, serial>>
-----------------------------------------------------------------------------
DaysTypeOK ==
  /\ slot \in [SlotIds -> Interval \cup {None}]
  /\ serial => \A s \in LiveSlots : slot[s].start < slot[s].end
  /\ sale \in [SaleIds -> SaleRow \cup {None}]
  /\ \A b \in Sales : sale[b].slot \in LiveSlots
  /\ cover \subseteq CoverRow
  /\ work \in [Workers -> DayRequest \cup {NoRequest}]

(* One request at a time, two bookings of the umbrella in the same slot    *)
(* are never on it the same day, however the hours of the slots are        *)
(* changed: after a change it is the check of priceAndWrite that sees to   *)
(* it, and not the constraint, which goes by the hours of before.          *)
SoldOncePerSlot ==
  serial =>
    \A c, d \in cover :
       c.b # d.b /\ dateRangesOverlap(c.start, c.end, d.start, d.end)
         => sale[c.b].slot # sale[d.b].slot

(* The map and the sale agree on what is free (projectDayMap,              *)
(* priceAndWrite), and what is free the database takes, unless a booking   *)
(* of that day is older than the hours of its slot.                        *)
FreeIsSellable ==
  serial =>
    \A s \in LiveSlots, day \in SeasonDays :
       /\ MapState(s, day) = "free" <=> ~ SeatTaken(slot[s], day, day, None)
       /\ /\ MapState(s, day) = "free"
          /\ \A b \in rehoured : RowsAt(b, day) = {}
          => Accepts(cover \cup {[b |-> None, start |-> day, end |-> day, slot |-> slot[s]]})

(* The constraint never refuses the pieces of a row in which a day is      *)
(* given up ("L'ordine restringi-poi-crea non attraversa mai uno stato che *)
(* violi coverage_no_overlap", applyCarve), unless the booking is older    *)
(* than the hours of its slot, as the second piece takes the new ones.     *)
PiecesFit ==
  \A b \in Sales \ rehoured, day \in SeasonDays : RowsAt(b, day) # {} => Fits(b, day)
=============================================================================
