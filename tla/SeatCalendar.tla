---------------------------- MODULE SeatCalendar ----------------------------
(***************************************************************************)
(* What the occupation of the establishment promises, without rows, plans  *)
(* or requests: a booking holds one seat (an umbrella and a time slot) and *)
(* occupies a set of days of it. It gets days only when nobody clashes on  *)
(* them, and what it gives back is always an interval: the part of its     *)
(* days inside [from, to], or from `from' on when `to' is None.            *)
(***************************************************************************)
EXTENDS Integers

CONSTANTS Bookings, Days, Seats, NoSeat, None,
          Clash(_, _)           \* may two seats not be occupied together?

VARIABLES seat,                 \* [Bookings -> Seats \cup {NoSeat}]
          occupied              \* [Bookings -> SUBSET Days]

vars == <<seat, occupied>>

Interval(from, to) == { d \in Days : from <= d /\ (to = None \/ d <= to) }

Free(b, k, S) ==
  \A c \in Bookings \ {b} :
     seat[c] # NoSeat /\ Clash(k, seat[c]) => occupied[c] \cap S = {}

Init == /\ seat = [b \in Bookings |-> NoSeat]
        /\ occupied = [b \in Bookings |-> {}]

(* A booking is sold a seat for an interval of days.                       *)
Sell(b, k, from, to) ==
  /\ seat[b] = NoSeat
  /\ Interval(from, to) # {} /\ Free(b, k, Interval(from, to))
  /\ seat' = [seat EXCEPT ![b] = k]
  /\ occupied' = [occupied EXCEPT ![b] = Interval(from, to)]

(* Suspension, communicated absence and termination: days are given back.  *)
GiveBack(b, from, to) ==
  /\ seat[b] # NoSeat
  /\ occupied' = [occupied EXCEPT ![b] = @ \ Interval(from, to)]
  /\ UNCHANGED seat

(* Reactivation and the withdrawal of an absence: days are taken back, all *)
(* of them new to the booking and none of them sold meanwhile.             *)
TakeBack(b, from, to) ==
  /\ seat[b] # NoSeat
  /\ occupied[b] \cap Interval(from, to) = {}
  /\ Free(b, seat[b], Interval(from, to))
  /\ occupied' = [occupied EXCEPT ![b] = @ \cup Interval(from, to)]
  /\ UNCHANGED seat

(* A cancelled booking leaves the calendar for good.                       *)
Void(b) ==
  /\ seat[b] # NoSeat
  /\ occupied' = [occupied EXCEPT ![b] = {}]
  /\ UNCHANGED seat

Next ==
  \E b \in Bookings :
     \/ \E k \in Seats, from, to \in Days : Sell(b, k, from, to)
     \/ \E from \in Days, to \in Days \cup {None} : GiveBack(b, from, to)
     \/ \E from, to \in Days : TakeBack(b, from, to)
     \/ Void(b)

Spec == Init /\ [][Next]_vars

(* No two bookings ever hold clashing seats on the same day.               *)
Exclusive ==
  \A b, c \in Bookings :
     b # c /\ seat[b] # NoSeat /\ seat[c] # NoSeat /\ Clash(seat[b], seat[c])
     => occupied[b] \cap occupied[c] = {}
=============================================================================
