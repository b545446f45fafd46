---------------------------- MODULE Availability -----------------------------
(***************************************************************************)
(* When two bookings are in each other's way (booking.availability.ts): on *)
(* a day of both, at a time of both. Dates are inclusive; time slots are   *)
(* half open, [start, end), so that contiguous ones do not collide.        *)
(***************************************************************************)
EXTENDS Integers

slotsOverlap(a, c) == a.start < c.end /\ c.start < a.end

dateRangesOverlap(aStart, aEnd, bStart, bEnd) ==
  aStart <= bEnd /\ bStart <= aEnd
=============================================================================
