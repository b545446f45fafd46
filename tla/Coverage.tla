------------------------------ MODULE Coverage ------------------------------
(***************************************************************************)
(* The interval arithmetic of the physical occupation of a seat: the carve *)
(* of coverage.carve.ts and its persistence by BookingsService.applyCarve, *)
(* and the constraints the database puts on the table BookingCoverage.     *)
(*                                                                         *)
(* A date is a positive integer, a span holds both of its end dates, and a *)
(* row of BookingCoverage is a record                                      *)
(*   [id, b, umbrella, slot, start, end, status],                          *)
(* b the booking it belongs to and slot the minutes that the trigger       *)
(* coverage_fill_slot_minutes copied from the booking's time slot.         *)
(***************************************************************************)
EXTENDS Availability

None == 0                         \* SQL NULL in a date column or argument

Span(s, e) == [start |-> s, end |-> e]

DaysOf(r) == r.start .. r.end

-----------------------------------------------------------------------------
(* The hole [from, to] (to = None: open to the right), seen from a fragment *)

InHole(f, from, to) ==
  /\ ~ f.end < from
  /\ ~ (to # None /\ to < f.start)

HasHead(f, from) == f.start < from

(* A variant that is not the code: every hole taken as open to the right.  *)
HasTailNever(f, to) == FALSE

HasTail(f, to) == to # None /\ to < f.end

(* The fragments the plan of carveInterval has an entry for.               *)
Carved(fragments, from, to) == { f \in fragments : InHole(f, from, to) }

Survives(f, from, to) == HasHead(f, from) \/ HasTail(f, to)

Splits(f, from, to) == HasHead(f, from) /\ HasTail(f, to)

(* A variant that is not the code: the head keeps the first day of the hole.*)
KeptRowOneDayMore(c, f, from, to) ==
  IF HasHead(f, from)
  THEN [c EXCEPT !.start = f.start, !.end = from]
  ELSE [c EXCEPT !.start = to + 1,  !.end = f.end]

(* The first remaining span of fragment f is written over row c, found by  *)
(* the identifier of f; the columns other than the dates stay c's.         *)
KeptRow(c, f, from, to) ==
  IF HasHead(f, from)
  THEN [c EXCEPT !.start = f.start, !.end = from - 1]
  ELSE [c EXCEPT !.start = to + 1,  !.end = f.end]

(* The second remaining span is a new row.                                 *)
ExtraRow(f, from, to, id) ==
  [f EXCEPT !.id = id, !.start = to + 1, !.status = "confirmed"]

Untouched(rows, plan) == { c \in rows : \A f \in plan : c.id # f.id }

KeptRows(rows, plan, from, to) ==
  UNION { { KeptRow(c, f, from, to) : c \in { x \in rows : x.id = f.id } } :
             f \in { g \in plan : Survives(g, from, to) } }

ExtraRows(plan, from, to, id) ==
  { ExtraRow(f, from, to, id) : f \in { g \in plan : Splits(g, from, to) } }

(* The plan is written by row identifier, with the dates computed when the *)
(* fragments were read, whatever the rows hold by then.                    *)
applyCarve(rows, plan, from, to, id) ==
  Untouched(rows, plan) \cup KeptRows(rows, plan, from, to)
                        \cup ExtraRows(plan, from, to, id)

-----------------------------------------------------------------------------
(* The constraints of the table BookingCoverage                            *)

(* CHECK coverage_range_valid.                                             *)
RangesValid(rows) == \A c \in rows : c.start <= c.end

SameSeat(c, d) == c.umbrella = d.umbrella /\ slotsOverlap(c.slot, d.slot)

Collides(c, d) ==
  /\ c.status = "confirmed" /\ d.status = "confirmed"
  /\ SameSeat(c, d)
  /\ dateRangesOverlap(c.start, c.end, d.start, d.end)

(* A variant that is not the code: the constraint dropped.                 *)
NoOverlapDropped(rows) == TRUE

(* EXCLUDE coverage_no_overlap, among the rows of one booking as well.     *)
NoOverlap(rows) == \A c, d \in rows : c # d => ~ Collides(c, d)

TableAccepts(rows) == RangesValid(rows) /\ NoOverlap(rows)
=============================================================================
