-------------------------- MODULE CustomerSessions ---------------------------
(***************************************************************************)
(* The sessions of the customers (CustomerSessionService and               *)
(* CustomerAccessService): the staff gives a customer an enrollment, which *)
(* is activated once, with a PIN; the session it opens is a refresh token  *)
(* that every refresh revokes and replaces; a revoked token that is shown  *)
(* again revokes the whole chain; the staff revokes the access.            *)
(*                                                                         *)
(* A token is the row that holds its hash: the session s stands for the    *)
(* refresh token it was created with, and tokens of no row have no effect. *)
(*                                                                         *)
(* A worker serves one request, in one step for each statement or          *)
(* transaction. An updateMany over many rows takes two, since it sees the  *)
(* rows that are committed when it begins and updates those of them that   *)
(* still match when it gets to them, after waiting for the locks on them.  *)
(***************************************************************************)
EXTENDS Integers

CONSTANTS Workers, Customers,
          MaxPinAttempts,       \* CUSTOMER_PIN_MAX_ATTEMPTS
          MaxEnrollments, MaxSessions, MaxMisses    \* bounds

ASSUME NumbersAssumption ==
  /\ MaxPinAttempts \in Nat \ {0} /\ MaxMisses \in Nat
  /\ MaxEnrollments \in Nat /\ MaxSessions \in Nat

VARIABLES enrollment,   \* table CustomerEnrollmentToken, oldest first
          session,      \* table CustomerSession, oldest first
          work          \* the request each worker is serving

vars == <<enrollment, session, work>>

Enrollments == 1 .. MaxEnrollments
Sessions == 1 .. MaxSessions

EnrollmentRow ==
  [customer: Customers, misses: Nat, expired: BOOLEAN, activated: BOOLEAN,
   revoked: BOOLEAN]

SessionRow ==
  [enrollment: Enrollments, from: Sessions \cup {0}, expired: BOOLEAN,
   revoked: BOOLEAN]

NoRow == [customer |-> 0]
Nobody == "nobody"

Issued == { e \in Enrollments : enrollment[e] # NoRow }
Opened == { s \in Sessions : session[s] # NoRow }

Live(s) == s \in Opened /\ ~ session[s].revoked

CustomerOf(s) == enrollment[session[s].enrollment].customer

(* The next row of each table, if the bound allows one.                    *)
NextEnrollment ==
  { e \in Enrollments \ Issued : \A f \in Enrollments \ Issued : e <= f }

NextSession == { s \in Sessions \ Opened : \A t \in Sessions \ Opened : s <= t }

-----------------------------------------------------------------------------
(* Requests. `key' is the row whose token was shown, `seen' the rows an    *)
(* update has to do with, `held' the enrollments a transaction has locked. *)
NoRequest ==
  [op |-> "none", pc |-> "idle", key |-> 0, customer |-> Nobody, seen |-> {},
   held |-> {}]

Request ==
  [op: {"none", "activate", "refresh", "provision", "revoke"},
   pc: {"idle", "found", "locking", "reused", "burning", "tokens", "sessions"},
   key: Enrollments \cup Sessions \cup {0}, customer: Customers \cup {Nobody},
   seen: SUBSET (Enrollments \cup Sessions), held: SUBSET Enrollments]

Begin(w, r) == work[w] = NoRequest /\ work' = [work EXCEPT ![w] = r]

At(w, op, pc) == work[w].op = op /\ work[w].pc = pc

GoTo(w, pc) == work' = [work EXCEPT ![w].pc = pc]

Finish(w) == work' = [work EXCEPT ![w] = NoRequest]

Unlocked(e) == \A v \in Workers : e \notin work[v].held

(* The rows of table t that are in rows get revoked.                       *)
Revoke(t, rows) ==
  [x \in DOMAIN t |-> IF x \in rows THEN [t[x] EXCEPT !.revoked = TRUE] ELSE t[x]]

(* A session of enrollment e, that takes the place of session `from'.      *)
NewSession(e, from) ==
  [enrollment |-> e, from |-> from, expired |-> FALSE, revoked |-> FALSE]

-----------------------------------------------------------------------------
(* activate: find the enrollment, verify the PIN, claim                    *)

ActivateFind(w, e) ==
  /\ e \in Issued
  /\ ~ enrollment[e].revoked /\ ~ enrollment[e].activated /\ ~ enrollment[e].expired
  /\ Begin(w, [NoRequest EXCEPT !.op = "activate", !.pc = "found", !.key = e])
  /\ UNCHANGED <<enrollment, session>>

(* A variant that is not the code: a miss below the limit clears the lock. *)
ActivateMissUnlocks(w) ==
  LET e == work[w].key
      n == enrollment[e].misses + 1
  IN  /\ At(w, "activate", "found") /\ Unlocked(e) /\ n <= MaxMisses
      /\ enrollment' = [enrollment EXCEPT ![e].misses = n,
                                          ![e].revoked = n >= MaxPinAttempts]
      /\ Finish(w)
      /\ UNCHANGED session

(* A wrong PIN, counted whatever has happened to the enrollment.           *)
ActivateMiss(w) ==
  LET e == work[w].key
      n == enrollment[e].misses + 1
  IN  /\ At(w, "activate", "found") /\ Unlocked(e) /\ n <= MaxMisses
      /\ enrollment' = [enrollment EXCEPT ![e].misses = n]
      /\ IF n >= MaxPinAttempts THEN GoTo(w, "locking") ELSE Finish(w)
      /\ UNCHANGED session

ActivateLock(w) ==
  LET e == work[w].key
  IN  /\ At(w, "activate", "locking") /\ Unlocked(e)
      /\ enrollment' = Revoke(enrollment, {e})
      /\ Finish(w)
      /\ UNCHANGED session

(* A variant that is not the code: the claim does not look at activatedAt. *)
ActivateClaimTwice(w) ==
  LET e == work[w].key
  IN  /\ At(w, "activate", "found") /\ Unlocked(e)
      /\ ~ enrollment[e].revoked
      /\ enrollment' = [enrollment EXCEPT ![e].activated = TRUE]
      /\ \E s \in NextSession : session' = [session EXCEPT ![s] = NewSession(e, 0)]
      /\ Finish(w)

(* The right PIN: the claim of the enrollment and the first session.       *)
ActivateClaim(w) ==
  LET e == work[w].key
  IN  /\ At(w, "activate", "found") /\ Unlocked(e)
      /\ ~ enrollment[e].activated /\ ~ enrollment[e].revoked
      /\ enrollment' = [enrollment EXCEPT ![e].activated = TRUE]
      /\ \E s \in NextSession : session' = [session EXCEPT ![s] = NewSession(e, 0)]
      /\ Finish(w)

-----------------------------------------------------------------------------
(* refresh: rotation, or the chain of a token that is shown again          *)

RefreshFind(w, s) ==
  /\ s \in Opened
  /\ session[s].revoked \/ ~ session[s].expired
  /\ Begin(w, [NoRequest EXCEPT !.op = "refresh", !.key = s,
                 !.pc = IF session[s].revoked THEN "reused" ELSE "found"])
  /\ UNCHANGED <<enrollment, session>>

(* A variant that is not the code: the claim does not look at revokedAt.   *)
RefreshRotateAnyway(w) ==
  LET s == work[w].key
  IN  /\ At(w, "refresh", "found")
      /\ \E t \in NextSession :
            session' = [Revoke(session, {s}) EXCEPT
                          ![t] = NewSession(session[s].enrollment, s)]
      /\ Finish(w)
      /\ UNCHANGED enrollment

RefreshRotate(w) ==
  LET s == work[w].key
  IN  /\ At(w, "refresh", "found")
      /\ ~ session[s].revoked
      /\ \E t \in NextSession :
            session' = [Revoke(session, {s}) EXCEPT
                          ![t] = NewSession(session[s].enrollment, s)]
      /\ Finish(w)
      /\ UNCHANGED enrollment

ReuseRead(w) ==
  /\ At(w, "refresh", "reused")
  /\ work' = [work EXCEPT
       ![w].pc = "burning",
       ![w].seen = { t \in Opened : /\ Live(t)
                                    /\ session[t].enrollment =
                                         session[work[w].key].enrollment }]
  /\ UNCHANGED <<enrollment, session>>

ReuseWrite(w) ==
  /\ At(w, "refresh", "burning")
  /\ session' = Revoke(session, work[w].seen)
  /\ Finish(w)
  /\ UNCHANGED enrollment

(* logout: one row, found by the token that is shown.                      *)
Logout(w, s) ==
  /\ work[w] = NoRequest
  /\ Live(s)
  /\ session' = Revoke(session, {s})
  /\ UNCHANGED <<enrollment, work>>

-----------------------------------------------------------------------------
(* provisionAccess and revokeAccess, of the holder of a booking            *)

AccessBegin(w) ==
  \E op \in {"provision", "revoke"}, c \in Customers :
     /\ Begin(w, [NoRequest EXCEPT
                    !.op = op, !.pc = "tokens", !.customer = c,
                    !.seen = { e \in Issued : /\ enrollment[e].customer = c
                                              /\ ~ enrollment[e].revoked }])
     /\ UNCHANGED <<enrollment, session>>

(* The enrollments are updated, and stay locked until the commit; then the *)
(* update of the sessions begins.                                          *)
AccessHold(w) ==
  /\ work[w].pc = "tokens"
  /\ \A e \in work[w].seen : Unlocked(e)
  /\ work' = [work EXCEPT
       ![w].pc = "sessions",
       ![w].held = { e \in work[w].seen : ~ enrollment[e].revoked },
       ![w].seen = { s \in Opened : Live(s) /\ CustomerOf(s) = work[w].customer }]
  /\ UNCHANGED <<enrollment, session>>

AccessWrite(w) ==
  LET r == work[w]
      kept == Revoke(enrollment, r.held)
  IN  /\ r.pc = "sessions"
      /\ session' = Revoke(session, r.seen)
      /\ \/ r.op = "revoke" /\ enrollment' = kept
         \/ /\ r.op = "provision"
            /\ \E e \in NextEnrollment :
                  enrollment' = [kept EXCEPT ![e] =
                    [customer |-> r.customer, misses |-> 0, expired |-> FALSE,
                     activated |-> FALSE, revoked |-> FALSE]]
      /\ Finish(w)

-----------------------------------------------------------------------------
(* A request that is refused, or cut off: what it has committed stays.     *)
Abort(w) == work[w] # NoRequest /\ Finish(w) /\ UNCHANGED <<enrollment, session>>

(* expiresAt passes. Only for rows that are still good: what is revoked or  *)
(* claimed is refused, or taken for a reuse, whether it has expired or not. *)
Expire ==
  \/ \E e \in Issued :
        /\ ~ enrollment[e].expired /\ ~ enrollment[e].revoked /\ ~ enrollment[e].activated
        /\ enrollment' = [enrollment EXCEPT ![e].expired = TRUE]
        /\ UNCHANGED <<session, work>>
  \/ \E s \in Opened :
        /\ ~ session[s].expired /\ Live(s)
        /\ session' = [session EXCEPT ![s].expired = TRUE]
        /\ UNCHANGED <<enrollment, work>>

Init == /\ enrollment = [e \in Enrollments |-> NoRow]
        /\ session = [s \in Sessions |-> NoRow]
        /\ work = [w \in Workers |-> NoRequest]

Serve(w) ==
  \/ ActivateMiss(w)  \/ ActivateLock(w) \/ ActivateClaim(w)
  \/ RefreshRotate(w) \/ ReuseRead(w)    \/ ReuseWrite(w)
  \/ AccessHold(w)    \/ AccessWrite(w)  \/ Abort(w)

Next ==
  \/ Expire
  \/ \E w \in Workers :
       \/ \E e \in Enrollments : ActivateFind(w, e)
       \/ \E s \in Sessions : RefreshFind(w, s) \/ Logout(w, s)
       \/ AccessBegin(w)
       \/ Serve(w)

Spec == Init /\ [][Next]_vars
-----------------------------------------------------------------------------
TypeOK ==
  /\ enrollment \in [Enrollments -> EnrollmentRow \cup {NoRow}]
  /\ session \in [Sessions -> SessionRow \cup {NoRow}]
  /\ work \in [Workers -> Request]

(* An enrollment never has two sessions that can be refreshed, however     *)
(* activations, refreshes and reuses of its tokens overlap: the device has *)
(* one token and no copy of it can be rotated a second time (ADR-0049).    *)
OneLiveSession ==
  \A s, t \in Opened :
     s # t /\ Live(s) /\ Live(t) => session[s].enrollment # session[t].enrollment

(* The sessions of an enrollment are one chain: one activation opens it,   *)
(* and a session is replaced at most once, by a session of the same        *)
(* enrollment, and is never good again (rotatedFromId).                    *)
OneChain ==
  \A s \in Opened :
     /\ \A t \in Opened : s # t /\ session[s].enrollment = session[t].enrollment
                             => session[s].from # session[t].from
     /\ session[s].from # 0 =>
          LET f == session[s].from
          IN  f \in Opened /\ ~ Live(f) /\ session[f].enrollment = session[s].enrollment

(* A lock, a revocation and an activation are for good: no request that    *)
(* was under way when they were written undoes them, and an enrollment     *)
(* that is revoked is never activated (P2-008, in activate).               *)
RevokedForGood ==
  [][/\ \A e \in Issued :
          /\ enrollment[e].revoked => enrollment'[e].revoked
          /\ enrollment[e].activated => enrollment'[e].activated
          /\ ~ enrollment[e].activated /\ enrollment'[e].activated => ~ enrollment[e].revoked
     /\ \A s \in Opened : session[s].revoked => session'[s].revoked]_vars

(* Who has had the access revoked, or given anew, has no session left of   *)
(* before: "invalidano enrollment + sessioni vive del cliente" (ADR-0049). *)
RevokedEndsSessions ==
  \A s \in Opened : Live(s) => ~ enrollment[session[s].enrollment].revoked
=============================================================================
