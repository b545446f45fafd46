-------------------------- MODULE MCSubscriptions ---------------------------
(* Values of the constants of Subscriptions for its TLC runs.              *)
EXTENDS Subscriptions, TLC

(* Two half days and the whole day, in minutes: the half days meet at 780. *)
Morning   == [start |-> 480, end |-> 780]
Afternoon == [start |-> 780, end |-> 1140]
WholeDay  == [start |-> 480, end |-> 1140]

OneSlot == {WholeDay}
AllSlots == {Morning, Afternoon, WholeDay}

(* Occupation is not touched by the methods about money and the holder.    *)
Occupation == Ops \ {"settlePayment", "transfer"}

(* The methods that take a seat, or free it for a while.                   *)
SeatMethods == Occupation \ {"terminate", "cancel"}

(* Money is not touched by the methods about absences.                     *)
MoneyMethods == Ops \ {"setAbsenceConsent", "releaseAbsence", "cancelAbsenceRelease"}

WorkerSymmetry == Permutations(Workers)

(* The identifiers of rows only say which row a plan is about. Two states  *)
(* that differ in their choice alone are one state to the runs: a row is   *)
(* shown without its identifier, a fragment of a plan with the row it      *)
(* still stands for, and a reference by what it refers to.                 *)
Plain(c) == [c EXCEPT !.id = 0]

PlanView(plan) ==
  { <<Plain(f), { Plain(c) : c \in { x \in coverage : x.id = f.id } }>> : f \in plan }

Referred(r) ==
  CASE r.op = "reactivate" -> { Plain(s) : s \in { x \in suspension : x.id = r.ref } }
    [] r.op = "cancelAbsenceRelease" -> { Plain(x) : x \in { y \in release : y.id = r.ref } }
    [] OTHER -> {}

RequestView(r) ==
  <<[r EXCEPT !.plan = {}, !.ref = 0], PlanView(r.plan), Referred(r)>>

View ==
  <<today, booking, { Plain(c) : c \in coverage },
    { Plain(s) : s \in suspension }, Cardinality(suspension),
    { Plain(r) : r \in release }, Cardinality(release),
    transfer, [w \in Workers |-> RequestView(work[w])]>>
=============================================================================
