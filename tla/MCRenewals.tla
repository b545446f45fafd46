----------------------------- MODULE MCRenewals -----------------------------
(* Values of the constants of Renewals for its TLC runs.                   *)
EXTENDS Renewals, TLC

Morning   == [start |-> 480, end |-> 780]
WholeDay  == [start |-> 480, end |-> 1140]

OneSlot == {WholeDay}
TwoSlots == {Morning, WholeDay}

(* Two seasons of one day, one after the other.                            *)
TwoSeasons == <<Span(1, 1), Span(2, 2)>>

(* Three, the last of two days.                                            *)
ThreeSeasons == <<Span(1, 1), Span(2, 2), Span(3, 4)>>

AllMethods == Ops

(* Bounds of the instance. Requests served one at a time go on until the   *)
(* tables are full, with at most two bookings that are not renewals and one *)
(* that changes holder. Two requests may overlap while there is at most    *)
(* one booking; the instance then ends when both are over.                 *)
Bound ==
  /\ Cardinality({ b \in Stored : booking[b].previous = 0 }) <= 2
  /\ Cardinality({ b \in Stored : booking[b].moved }) <= 1

OneOverlap ==
  ~ serial' =>
    IF serial THEN Cardinality(Stored) <= 1
    ELSE ~ Idle /\ \A w \in Workers : work[w] = NoRequest => work'[w] = NoRequest

Symmetry == Permutations(Workers) \cup Permutations(Customers)
=============================================================================
