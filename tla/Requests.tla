------------------------------ MODULE Requests ------------------------------
(***************************************************************************)
(* Requests to the API served by workers, as the modules on the back       *)
(* office see them. A method that reads and then writes is two steps: the  *)
(* reads and the checks, which end in Begin with what the method keeps of  *)
(* them, and the writes, which the others see at the commit. A method that *)
(* only writes, or whose checks the database makes again as it writes, is  *)
(* one step.                                                               *)
(*                                                                         *)
(* serial is a history variable: no two requests have overlapped so far.   *)
(***************************************************************************)
EXTENDS Integers, FiniteSets

CONSTANTS Workers, None

VARIABLES work,     \* the request each worker is serving
          serial

NoRequest == [op |-> "none"]

Busy == { w \in Workers : work[w] # NoRequest }

Idle == Busy = {}

(* A step that is a request of its own, or begins one.                     *)
Alone == serial' = (serial /\ Idle)

Begin(w, r) ==
  /\ work[w] = NoRequest
  /\ work' = [work EXCEPT ![w] = r]
  /\ Alone

At(w, op) == work[w].op = op

Finish(w) == work' = [work EXCEPT ![w] = NoRequest] /\ UNCHANGED serial

(* A request that is refused, by a check or by the database, or cut off.   *)
Abort(w) == work[w] # NoRequest /\ Finish(w)
=============================================================================
