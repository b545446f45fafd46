---------------------- MODULE CustomerSessions_proofs ------------------------
(***************************************************************************)
(* That the sessions of an enrollment are one chain with at most one live  *)
(* session, and that revocations and activations are for good, however     *)
(* many workers, customers, enrollments and sessions there are.            *)
(***************************************************************************)
EXTENDS CustomerSessions, TLAPS

(* What the requests under way know of the tables.                         *)
RequestsOK ==
  \A w \in Workers :
     /\ work[w].op = "activate" => work[w].key \in Issued
     /\ work[w].op = "refresh" => work[w].key \in Opened
     /\ work[w].pc = "tokens" => work[w].seen \subseteq Issued
     /\ work[w].pc \in {"burning", "sessions"} => work[w].seen \subseteq Opened
     /\ work[w].pc \in {"tokens", "sessions"} => work[w].customer \in Customers
     /\ work[w].held \subseteq Issued

(* A session belongs to an enrollment that has been activated.             *)
RootActivated ==
  \A s \in Opened :
     /\ session[s].enrollment \in Issued
     /\ enrollment[session[s].enrollment].activated

IInv == TypeOK /\ RequestsOK /\ RootActivated /\ OneLiveSession /\ OneChain

-----------------------------------------------------------------------------
(* The three kinds of step, by what they do to the tables.                 *)

(* No row goes away, and none is un-revoked, un-activated or moved.        *)
Grows ==
  /\ \A e \in Issued :
        /\ e \in Issued'
        /\ enrollment[e].revoked => enrollment'[e].revoked
        /\ enrollment[e].activated => enrollment'[e].activated
        /\ ~ enrollment[e].activated /\ enrollment'[e].activated
             => ~ enrollment[e].revoked
  /\ \A s \in Opened :
        /\ s \in Opened'
        /\ session'[s].enrollment = session[s].enrollment
        /\ session'[s].from = session[s].from
        /\ session[s].revoked => session'[s].revoked

Opens(t, e, from) ==
  /\ t \in Sessions \ Opened
  /\ Opened' = Opened \cup {t}
  /\ session'[t] = NewSession(e, from)

Roots ==
  \E e \in Issued, t \in Sessions :
     ~ enrollment[e].activated /\ enrollment'[e].activated /\ Opens(t, e, 0)

Rotates ==
  \E s \in Opened, t \in Sessions :
     Live(s) /\ session'[s].revoked /\ Opens(t, session[s].enrollment, s)

Tables == TypeOK' /\ Grows /\ (Opened' = Opened \/ Roots \/ Rotates)

-----------------------------------------------------------------------------
(* Rows.                                                                   *)
LEMMA SessionRows ==
  /\ \A r \in SessionRow : r # NoRow /\ [r EXCEPT !.revoked = TRUE] \in SessionRow
  /\ \A e \in Enrollments, f \in Sessions \cup {0} : NewSession(e, f) \in SessionRow
PROOF
<1>1. \A r \in SessionRow : r # NoRow
  BY DEF SessionRow, NoRow
<1> QED
  BY <1>1 DEF SessionRow, NewSession

LEMMA EnrollmentRows ==
  \A r \in EnrollmentRow : r # NoRow /\ [r EXCEPT !.revoked = TRUE] \in EnrollmentRow
PROOF
<1>1. \A r \in EnrollmentRow : r # NoRow
  BY DEF EnrollmentRow, NoRow
<1> QED
  BY <1>1 DEF EnrollmentRow

(* What Revoke does to the sessions.                                       *)
LEMMA RevokeSessions ==
  ASSUME TypeOK, NEW R \in SUBSET Opened
  PROVE  /\ Revoke(session, R) \in [Sessions -> SessionRow \cup {NoRow}]
         /\ \A s \in Opened :
               /\ Revoke(session, R)[s] \in SessionRow
               /\ Revoke(session, R)[s].enrollment = session[s].enrollment
               /\ Revoke(session, R)[s].from = session[s].from
               /\ Revoke(session, R)[s].revoked = (session[s].revoked \/ s \in R)
         /\ \A s \in Sessions \ Opened : Revoke(session, R)[s] = NoRow
PROOF
<1>1. /\ session \in [Sessions -> SessionRow \cup {NoRow}]
      /\ \A s \in Opened : session[s] \in SessionRow
      /\ \A s \in Sessions \ Opened : session[s] = NoRow
  BY DEF TypeOK, Opened
<1>2. \A s \in Sessions : Revoke(session, R)[s] =
         IF s \in R THEN [session[s] EXCEPT !.revoked = TRUE] ELSE session[s]
  BY <1>1 DEF Revoke
<1>3. DOMAIN Revoke(session, R) = Sessions
  BY <1>1 DEF Revoke
<1>4. \A s \in Opened : Revoke(session, R)[s] \in SessionRow
  BY <1>1, <1>2, SessionRows DEF Opened
<1>5. \A s \in Sessions \ Opened : Revoke(session, R)[s] = NoRow
  BY <1>1, <1>2
<1>6. Revoke(session, R) \in [Sessions -> SessionRow \cup {NoRow}]
  BY <1>3, <1>4, <1>5 DEF Revoke, Opened
<1>7. \A s \in Opened :
        /\ Revoke(session, R)[s].enrollment = session[s].enrollment
        /\ Revoke(session, R)[s].from = session[s].from
        /\ Revoke(session, R)[s].revoked = (session[s].revoked \/ s \in R)
  BY <1>1, <1>2 DEF SessionRow, Opened
<1> QED
  BY <1>4, <1>5, <1>6, <1>7

(* What Revoke does to the enrollments.                                    *)
LEMMA RevokeEnrollments ==
  ASSUME TypeOK, NEW R \in SUBSET Issued
  PROVE  /\ Revoke(enrollment, R) \in [Enrollments -> EnrollmentRow \cup {NoRow}]
         /\ \A e \in Issued :
               /\ Revoke(enrollment, R)[e] \in EnrollmentRow
               /\ Revoke(enrollment, R)[e].activated = enrollment[e].activated
               /\ Revoke(enrollment, R)[e].revoked = (enrollment[e].revoked \/ e \in R)
         /\ \A e \in Enrollments \ Issued : Revoke(enrollment, R)[e] = NoRow
PROOF
<1>1. /\ enrollment \in [Enrollments -> EnrollmentRow \cup {NoRow}]
      /\ \A e \in Issued : enrollment[e] \in EnrollmentRow
      /\ \A e \in Enrollments \ Issued : enrollment[e] = NoRow
  BY DEF TypeOK, Issued
<1>2. \A e \in Enrollments : Revoke(enrollment, R)[e] =
         IF e \in R THEN [enrollment[e] EXCEPT !.revoked = TRUE] ELSE enrollment[e]
  BY <1>1 DEF Revoke
<1>3. DOMAIN Revoke(enrollment, R) = Enrollments
  BY <1>1 DEF Revoke
<1>4. \A e \in Issued : Revoke(enrollment, R)[e] \in EnrollmentRow
  BY <1>1, <1>2, EnrollmentRows DEF Issued
<1>5. \A e \in Enrollments \ Issued : Revoke(enrollment, R)[e] = NoRow
  BY <1>1, <1>2
<1>6. Revoke(enrollment, R) \in [Enrollments -> EnrollmentRow \cup {NoRow}]
  BY <1>3, <1>4, <1>5 DEF Revoke, Issued
<1>7. \A e \in Issued :
        /\ Revoke(enrollment, R)[e].activated = enrollment[e].activated
        /\ Revoke(enrollment, R)[e].revoked = (enrollment[e].revoked \/ e \in R)
  BY <1>1, <1>2 DEF EnrollmentRow, Issued
<1> QED
  BY <1>4, <1>5, <1>6, <1>7

-----------------------------------------------------------------------------
(* Each kind of step keeps what the invariant says of the tables.          *)
LEMMA TablesKeep ==
  ASSUME IInv, Tables
  PROVE  RootActivated' /\ OneLiveSession' /\ OneChain'
PROOF
<1> USE DEF IInv, Tables
<1>1. CASE Opened' = Opened
  <2>1. RootActivated'
    BY <1>1 DEF RootActivated, Grows
  <2>2. OneLiveSession'
    BY <1>1 DEF OneLiveSession, Grows, Live
  <2>3. OneChain'
    BY <1>1 DEF OneChain, Grows, Live
  <2> QED BY <2>1, <2>2, <2>3
<1>2. CASE Roots
  <2>1. PICK e \in Issued, t \in Sessions :
          ~ enrollment[e].activated /\ enrollment'[e].activated /\ Opens(t, e, 0)
    BY <1>2 DEF Roots
  <2>2. /\ t \notin Opened /\ Opened' = Opened \cup {t}
        /\ session'[t].enrollment = e /\ session'[t].from = 0
    BY <2>1 DEF Opens, NewSession
  <2>3. \A s \in Opened : session[s].enrollment # e
    BY <2>1 DEF RootActivated
  <2>4. RootActivated'
    BY <2>1, <2>2 DEF RootActivated, Grows
  <2>5. OneLiveSession'
    BY <2>2, <2>3 DEF OneLiveSession, Grows, Live
  <2>6. OneChain'
    BY <2>2, <2>3 DEF OneChain, Grows, Live
  <2> QED BY <2>4, <2>5, <2>6
<1>3. CASE Rotates
  <2>1. PICK s \in Opened, t \in Sessions :
          Live(s) /\ session'[s].revoked /\ Opens(t, session[s].enrollment, s)
    BY <1>3 DEF Rotates
  <2>2. /\ t \notin Opened /\ Opened' = Opened \cup {t}
        /\ session'[t].enrollment = session[s].enrollment /\ session'[t].from = s
    BY <2>1 DEF Opens, NewSession
  <2>3. \A u \in Opened : session[u].from # s
    <3>1. s # 0
      BY DEF Opened, Sessions
    <3> QED BY <2>1, <3>1 DEF OneChain
  <2>4. RootActivated'
    BY <2>1, <2>2 DEF RootActivated, Grows
  <2>5. OneLiveSession'
    BY <2>1, <2>2 DEF OneLiveSession, Grows, Live
  <2>6. OneChain'
    BY <2>1, <2>2, <2>3 DEF OneChain, Grows, Live
  <2> QED BY <2>4, <2>5, <2>6
<1> QED BY <1>1, <1>2, <1>3

-----------------------------------------------------------------------------
(* What a step must do, of the tables and of the request it serves, for    *)
(* the invariant to be kept.                                               *)

(* A request that waits for a session that is not opened, and so on, is    *)
(* not begun.                                                              *)
RequestOK(r) ==
  /\ r \in Request
  /\ r.op = "activate" => r.key \in Issued
  /\ r.op = "refresh" => r.key \in Opened
  /\ r.pc = "tokens" => r.seen \subseteq Issued
  /\ r.pc \in {"burning", "sessions"} => r.seen \subseteq Opened
  /\ r.pc \in {"tokens", "sessions"} => r.customer \in Customers
  /\ r.held \subseteq Issued

LEMMA Idle == RequestOK(NoRequest)
PROOF BY DEF RequestOK, NoRequest, Request

(* A step on one request, whose tables only grow.                          *)
LEMMA RequestsKeep ==
  ASSUME IInv, Grows, NEW w \in Workers, NEW r, RequestOK(r),
         work' = [work EXCEPT ![w] = r]
  PROVE  work' \in [Workers -> Request] /\ RequestsOK'
PROOF
<1>1. \A v \in Workers : work'[v] = r \/ work'[v] = work[v]
  BY DEF IInv, TypeOK
<1>2. work' \in [Workers -> Request]
  BY DEF IInv, TypeOK, RequestOK
<1>3. Issued \subseteq Issued' /\ Opened \subseteq Opened'
  BY DEF Grows
<1>4. RequestsOK'
  BY <1>1, <1>3 DEF RequestsOK, RequestOK, IInv
<1> QED BY <1>2, <1>4

(* Sessions and enrollments that are only revoked.                         *)
LEMMA RevokeStep ==
  ASSUME IInv, NEW R \in SUBSET Opened, NEW Q \in SUBSET Issued,
         session' = Revoke(session, R), enrollment' = Revoke(enrollment, Q)
  PROVE  /\ Grows /\ Opened' = Opened
         /\ session' \in [Sessions -> SessionRow \cup {NoRow}]
         /\ enrollment' \in [Enrollments -> EnrollmentRow \cup {NoRow}]
PROOF
<1>0. TypeOK
  BY DEF IInv
<1>1. \A s \in Opened : session'[s] # NoRow
  BY <1>0, RevokeSessions, SessionRows
<1>2. \A s \in Sessions \ Opened : session'[s] = NoRow
  BY <1>0, RevokeSessions
<1>3. Opened' = Opened
  BY <1>1, <1>2 DEF Opened
<1>4. \A e \in Issued : e \in Enrollments /\ enrollment'[e] # NoRow
  <2>1. \A e \in Issued : enrollment'[e] \in EnrollmentRow
    BY <1>0, RevokeEnrollments
  <2> QED BY <2>1, EnrollmentRows DEF Issued
<1>5. Grows
  BY <1>0, <1>3, <1>4, RevokeSessions, RevokeEnrollments DEF Grows, Issued
<1> QED
  BY <1>0, <1>3, <1>5, RevokeSessions, RevokeEnrollments

(* One of the two tables is left alone: it is revoked for no row.          *)
LEMMA RevokeNone ==
  ASSUME TypeOK
  PROVE  Revoke(session, {}) = session /\ Revoke(enrollment, {}) = enrollment
PROOF
<1>1. session = [s \in DOMAIN session |-> session[s]]
      /\ enrollment = [e \in DOMAIN enrollment |-> enrollment[e]]
  BY DEF TypeOK
<1> QED BY <1>1 DEF Revoke

-----------------------------------------------------------------------------
(* A step keeps the invariant when its tables do and its request does.     *)
Kept == Tables /\ RequestsOK'

(* The steps that at most revoke rows.                                     *)
LEMMA Quiet ==
  ASSUME IInv, NEW w \in Workers, NEW r, RequestOK(r),
         NEW R \in SUBSET Opened, NEW Q \in SUBSET Issued,
         session' = Revoke(session, R), enrollment' = Revoke(enrollment, Q),
         work' = [work EXCEPT ![w] = r]
  PROVE  Kept
PROOF
<1>1. /\ Grows /\ Opened' = Opened
      /\ session' \in [Sessions -> SessionRow \cup {NoRow}]
      /\ enrollment' \in [Enrollments -> EnrollmentRow \cup {NoRow}]
  BY RevokeStep
<1>2. work' \in [Workers -> Request] /\ RequestsOK'
  BY <1>1, RequestsKeep
<1> QED BY <1>1, <1>2 DEF Kept, Tables, TypeOK

(* The steps that change no row, but their request.                        *)
LEMMA Silent ==
  ASSUME IInv, NEW w \in Workers, NEW r, RequestOK(r),
         UNCHANGED <<enrollment, session>>, work' = [work EXCEPT ![w] = r]
  PROVE  Kept
PROOF
<1>1. session' = Revoke(session, {}) /\ enrollment' = Revoke(enrollment, {})
  BY RevokeNone DEF IInv
<1>2. {} \in SUBSET Opened /\ {} \in SUBSET Issued
  OBVIOUS
<1>3. session' = Revoke(session, {}) /\ enrollment' = Revoke(enrollment, {}) => Kept
  BY <1>2, Quiet
<1> QED BY <1>1, <1>3

(* The steps that revoke sessions and leave the enrollments alone.         *)
LEMMA Burn ==
  ASSUME IInv, NEW w \in Workers, NEW r, RequestOK(r), NEW R \in SUBSET Opened,
         session' = Revoke(session, R), UNCHANGED enrollment,
         work' = [work EXCEPT ![w] = r]
  PROVE  Kept
PROOF
<1>1. enrollment' = Revoke(enrollment, {}) /\ {} \in SUBSET Issued
  BY RevokeNone DEF IInv
<1> QED BY ONLY <1>1, IInv, RequestOK(r), session' = Revoke(session, R),
             work' = [work EXCEPT ![w] = r], Quiet

(* The request of worker w, and what it is known of it.                    *)
LEMMA Served ==
  ASSUME IInv, NEW w \in Workers
  PROVE  /\ RequestOK(work[w])
         /\ \A q : [work EXCEPT ![w].pc = q] = [work EXCEPT ![w] = [work[w] EXCEPT !.pc = q]]
PROOF
<1>1. RequestOK(work[w])
  BY DEF IInv, TypeOK, RequestsOK, RequestOK
<1> QED BY <1>1

(* activate: the lookup, the wrong PIN and the lock.                       *)
LEMMA ActivateFindKeeps ==
  ASSUME IInv, NEW w \in Workers, NEW e \in Enrollments, ActivateFind(w, e)
  PROVE  Kept
PROOF
<1> DEFINE r == [NoRequest EXCEPT !.op = "activate", !.pc = "found", !.key = e]
<1>1. RequestOK(r)
  BY DEF ActivateFind, RequestOK, NoRequest, Request
<1> QED BY <1>1, Silent DEF ActivateFind, Begin

LEMMA ActivateMissKeeps ==
  ASSUME IInv, NEW w \in Workers, ActivateMiss(w)
  PROVE  Kept
PROOF
<1> DEFINE e == work[w].key
           n == enrollment[e].misses + 1
<1>1. RequestOK(work[w]) /\ work[w].pc = "found"
  BY Served DEF ActivateMiss, At
<1>2. e \in Issued
  BY <1>1 DEF RequestOK, ActivateMiss, At
<1>3. /\ enrollment[e] \in EnrollmentRow
      /\ enrollment' = [enrollment EXCEPT ![e] = [enrollment[e] EXCEPT !.misses = n]]
  BY <1>2 DEF ActivateMiss, IInv, TypeOK, Issued
<1>4. [enrollment[e] EXCEPT !.misses = n] \in EnrollmentRow
  BY <1>3 DEF EnrollmentRow
<1>5. /\ enrollment' \in [Enrollments -> EnrollmentRow \cup {NoRow}]
      /\ \A f \in Issued : /\ enrollment'[f] # NoRow
                           /\ enrollment'[f].revoked = enrollment[f].revoked
                           /\ enrollment'[f].activated = enrollment[f].activated
  BY <1>3, <1>4, EnrollmentRows DEF IInv, TypeOK, Issued, EnrollmentRow
<1>6. session' = session /\ Opened' = Opened
  BY DEF ActivateMiss, Opened
<1>7. Grows
  BY <1>5, <1>6 DEF Grows, Issued
<1>8. PICK r : RequestOK(r) /\ work' = [work EXCEPT ![w] = r]
  <2>1. CASE Finish(w)
    BY <2>1, Idle DEF Finish
  <2>2. CASE GoTo(w, "locking")
    <3>1. RequestOK([work[w] EXCEPT !.pc = "locking"])
      BY <1>1 DEF RequestOK, Request
    <3> QED BY <2>2, <3>1, Served DEF GoTo
  <2> QED BY <2>1, <2>2 DEF ActivateMiss
<1>9. work' \in [Workers -> Request] /\ RequestsOK'
  BY <1>7, <1>8, RequestsKeep
<1> QED BY <1>5, <1>6, <1>7, <1>9 DEF Kept, Tables, TypeOK, IInv

LEMMA ActivateLockKeeps ==
  ASSUME IInv, NEW w \in Workers, ActivateLock(w)
  PROVE  Kept
PROOF
<1>1. work[w].key \in Issued
  BY Served DEF ActivateLock, At, RequestOK
<1>2. session' = Revoke(session, {})
  BY RevokeNone DEF IInv, ActivateLock
<1> QED BY <1>1, <1>2, Idle, Quiet DEF ActivateLock, Finish

(* Steps that give a worker back, or end in a rotation: the refresh.       *)
LEMMA RefreshFindKeeps ==
  ASSUME IInv, NEW w \in Workers, NEW s \in Sessions, RefreshFind(w, s)
  PROVE  Kept
PROOF
<1> DEFINE r == [NoRequest EXCEPT !.op = "refresh", !.key = s,
                   !.pc = IF session[s].revoked THEN "reused" ELSE "found"]
<1>1. RequestOK(r)
  BY DEF RefreshFind, RequestOK, NoRequest, Request
<1> QED BY <1>1, Silent DEF RefreshFind, Begin

LEMMA ReuseReadKeeps ==
  ASSUME IInv, NEW w \in Workers, ReuseRead(w)
  PROVE  Kept
PROOF
<1> DEFINE S == { t \in Opened : /\ Live(t)
                                /\ session[t].enrollment =
                                     session[work[w].key].enrollment }
           r == [work[w] EXCEPT !.pc = "burning", !.seen = S]
<1>1. RequestOK(work[w]) /\ work \in [Workers -> Request]
  BY Served DEF IInv, TypeOK
<1>2. S \subseteq Opened /\ Opened \subseteq Sessions
  BY DEF Opened
<1> HIDE DEF S
<1>3. RequestOK(r)
  BY <1>1, <1>2 DEF RequestOK, Request, ReuseRead, At
<1>4. work' = [work EXCEPT ![w] = r]
  BY <1>1 DEF ReuseRead, S
<1> QED BY <1>3, <1>4, Silent DEF ReuseRead

LEMMA ReuseWriteKeeps ==
  ASSUME IInv, NEW w \in Workers, ReuseWrite(w)
  PROVE  Kept
PROOF
<1>1. work[w].seen \in SUBSET Opened
  BY Served DEF ReuseWrite, At, RequestOK
<1> QED BY <1>1, Idle, Burn DEF ReuseWrite, Finish

LEMMA LogoutKeeps ==
  ASSUME IInv, NEW w \in Workers, NEW s \in Sessions, Logout(w, s)
  PROVE  Kept
PROOF
<1>1. {s} \in SUBSET Opened /\ session' = Revoke(session, {s})
  BY DEF Logout, Live
<1>2. RequestOK(work[w]) /\ work' = [work EXCEPT ![w] = work[w]]
  BY Served DEF IInv, TypeOK, Logout
<1> QED BY <1>1, <1>2, Burn DEF Logout

LEMMA AbortKeeps ==
  ASSUME IInv, NEW w \in Workers, Abort(w)
  PROVE  Kept
PROOF BY Idle, Silent DEF Abort, Finish

(* A session more, beside revocations: what the table becomes.             *)
LEMMA OpenSession ==
  ASSUME IInv, NEW R \in SUBSET Opened, NEW t \in NextSession,
         NEW e \in Issued, NEW from \in Opened \cup {0},
         session' = [Revoke(session, R) EXCEPT ![t] = NewSession(e, from)]
  PROVE  /\ session' \in [Sessions -> SessionRow \cup {NoRow}]
         /\ Opens(t, e, from)
         /\ \A s \in Opened :
               /\ session'[s].enrollment = session[s].enrollment
               /\ session'[s].from = session[s].from
               /\ session'[s].revoked = (session[s].revoked \/ s \in R)
PROOF
<1>1. t \in Sessions \ Opened /\ TypeOK
  BY DEF NextSession, IInv
<1>2. NewSession(e, from) \in SessionRow
  BY SessionRows DEF Issued, Opened
<1>3. /\ Revoke(session, R) \in [Sessions -> SessionRow \cup {NoRow}]
      /\ \A s \in Opened : Revoke(session, R)[s] \in SessionRow
      /\ \A s \in Sessions \ Opened : Revoke(session, R)[s] = NoRow
  BY <1>1, RevokeSessions
<1>4. /\ session' \in [Sessions -> SessionRow \cup {NoRow}]
      /\ session'[t] = NewSession(e, from)
      /\ \A s \in Sessions : s # t => session'[s] = Revoke(session, R)[s]
  BY <1>1, <1>2, <1>3
<1>5. \A s \in Opened : session'[s] \in SessionRow
  BY <1>1, <1>3, <1>4 DEF Opened
<1>6. \A s \in Sessions : session'[s] # NoRow <=> s \in Opened \cup {t}
  BY <1>2, <1>3, <1>4, <1>5, SessionRows
<1>7. Opened' = Opened \cup {t}
  BY <1>1, <1>6 DEF Opened
<1>8. \A s \in Opened :
        /\ session'[s].enrollment = session[s].enrollment
        /\ session'[s].from = session[s].from
        /\ session'[s].revoked = (session[s].revoked \/ s \in R)
  BY <1>1, <1>4, RevokeSessions DEF Opened
<1> QED BY <1>1, <1>4, <1>7, <1>8 DEF Opens

LEMMA ActivateClaimKeeps ==
  ASSUME IInv, NEW w \in Workers, ActivateClaim(w)
  PROVE  Kept
PROOF
<1> DEFINE e == work[w].key
<1>1. e \in Issued
  BY Served DEF ActivateClaim, At, RequestOK
<1>2. PICK t \in NextSession : session' = [session EXCEPT ![t] = NewSession(e, 0)]
  BY DEF ActivateClaim
<1> HIDE DEF e
<1>3. session' = [Revoke(session, {}) EXCEPT ![t] = NewSession(e, 0)]
  BY <1>2, RevokeNone DEF IInv
<1>4. {} \in SUBSET Opened /\ 0 \in Opened \cup {0}
  OBVIOUS
<1>5. /\ session' \in [Sessions -> SessionRow \cup {NoRow}]
      /\ Opens(t, e, 0)
      /\ \A s \in Opened : /\ session'[s].enrollment = session[s].enrollment
                           /\ session'[s].from = session[s].from
                           /\ session'[s].revoked = (session[s].revoked \/ s \in {})
  BY <1>1, <1>3, <1>4, OpenSession
<1>6. /\ ~ enrollment[e].activated /\ ~ enrollment[e].revoked
      /\ enrollment' = [enrollment EXCEPT ![e].activated = TRUE]
      /\ enrollment[e] \in EnrollmentRow
  BY <1>1 DEF ActivateClaim, e, IInv, TypeOK, Issued
<1>7. [enrollment[e] EXCEPT !.activated = TRUE] \in EnrollmentRow
  BY <1>6 DEF EnrollmentRow
<1>8. /\ enrollment' \in [Enrollments -> EnrollmentRow \cup {NoRow}]
      /\ enrollment'[e] = [enrollment[e] EXCEPT !.activated = TRUE]
      /\ \A f \in Issued : f # e => enrollment'[f] = enrollment[f]
  <2>1. enrollment \in [Enrollments -> EnrollmentRow \cup {NoRow}] /\ e \in Enrollments
    BY <1>1 DEF IInv, TypeOK, Issued
  <2>2. enrollment' = [enrollment EXCEPT ![e] = [enrollment[e] EXCEPT !.activated = TRUE]]
    BY <1>6, <2>1
  <2> QED BY <1>7, <2>1, <2>2 DEF Issued
<1>a. enrollment'[e] # NoRow
  BY <1>7, <1>8, EnrollmentRows
<1>b. enrollment'[e].activated /\ enrollment'[e].revoked = enrollment[e].revoked
  BY <1>6, <1>8 DEF EnrollmentRow
<1>9. Grows
  BY <1>5, <1>6, <1>8, <1>a, <1>b DEF Grows, Issued, Opens
<1>10. Roots
  BY <1>1, <1>5, <1>6, <1>b DEF Roots, Opens
<1>11. work' \in [Workers -> Request] /\ RequestsOK'
  BY <1>9, Idle, RequestsKeep DEF ActivateClaim, Finish
<1> QED BY <1>5, <1>8, <1>9, <1>10, <1>11 DEF Kept, Tables, TypeOK

LEMMA RefreshRotateKeeps ==
  ASSUME IInv, NEW w \in Workers, RefreshRotate(w)
  PROVE  Kept
PROOF
<1> DEFINE s == work[w].key
<1>1. s \in Opened
  BY Served DEF RefreshRotate, At, RequestOK
<1>2. PICK t \in NextSession :
        session' = [Revoke(session, {s}) EXCEPT ![t] = NewSession(session[s].enrollment, s)]
  BY DEF RefreshRotate
<1>3. Live(s) /\ session[s].enrollment \in Issued
  BY <1>1 DEF RefreshRotate, Live, IInv, RootActivated
<1> HIDE DEF s
<1>4. {s} \in SUBSET Opened /\ s \in Opened \cup {0}
  BY <1>1
<1>5. /\ session' \in [Sessions -> SessionRow \cup {NoRow}]
      /\ Opens(t, session[s].enrollment, s)
      /\ \A u \in Opened : /\ session'[u].enrollment = session[u].enrollment
                           /\ session'[u].from = session[u].from
                           /\ session'[u].revoked = (session[u].revoked \/ u \in {s})
  BY <1>2, <1>3, <1>4, OpenSession
<1>6. enrollment' = enrollment /\ Issued' = Issued
  BY DEF RefreshRotate, Issued
<1>7. Grows
  BY <1>5, <1>6 DEF Grows, Opens
<1>8. session'[s].revoked
  BY <1>1, <1>5
<1>9. Rotates
  BY <1>1, <1>3, <1>5, <1>8 DEF Rotates, Opens
<1>10. work' \in [Workers -> Request] /\ RequestsOK'
  BY <1>7, Idle, RequestsKeep DEF RefreshRotate, Finish
<1> QED BY <1>5, <1>6, <1>7, <1>9, <1>10 DEF Kept, Tables, TypeOK, IInv

LEMMA AccessBeginKeeps ==
  ASSUME IInv, NEW w \in Workers, AccessBegin(w)
  PROVE  Kept
PROOF
<1>1. PICK op \in {"provision", "revoke"}, c \in Customers :
        /\ Begin(w, [NoRequest EXCEPT
                       !.op = op, !.pc = "tokens", !.customer = c,
                       !.seen = { e \in Issued : /\ enrollment[e].customer = c
                                                 /\ ~ enrollment[e].revoked }])
        /\ UNCHANGED <<enrollment, session>>
  BY DEF AccessBegin
<1> DEFINE S == { e \in Issued : enrollment[e].customer = c /\ ~ enrollment[e].revoked }
           r == [NoRequest EXCEPT !.op = op, !.pc = "tokens", !.customer = c, !.seen = S]
<1>2. S \subseteq Issued /\ Issued \subseteq Enrollments
  BY DEF Issued
<1>3. work' = [work EXCEPT ![w] = r]
  BY <1>1 DEF Begin
<1> HIDE DEF S
<1>4. RequestOK(r)
  BY <1>2 DEF RequestOK, NoRequest, Request
<1> QED BY <1>1, <1>3, <1>4, Silent

LEMMA AccessHoldKeeps ==
  ASSUME IInv, NEW w \in Workers, AccessHold(w)
  PROVE  Kept
PROOF
<1> DEFINE H == { e \in work[w].seen : ~ enrollment[e].revoked }
           S == { s \in Opened : Live(s) /\ CustomerOf(s) = work[w].customer }
           r == [work[w] EXCEPT !.pc = "sessions", !.held = H, !.seen = S]
<1>1. RequestOK(work[w]) /\ work \in [Workers -> Request] /\ work[w].pc = "tokens"
  BY Served DEF IInv, TypeOK, AccessHold
<1>2. H \subseteq Issued /\ Issued \subseteq Enrollments
  BY <1>1 DEF RequestOK, Issued
<1>3. S \subseteq Opened /\ Opened \subseteq Sessions
  BY DEF Opened
<1>4. work' = [work EXCEPT ![w] = r]
  BY <1>1 DEF AccessHold
<1> HIDE DEF H, S
<1>5. RequestOK(r)
  BY <1>1, <1>2, <1>3 DEF RequestOK, Request
<1> QED BY <1>4, <1>5, Silent DEF AccessHold

LEMMA AccessWriteKeeps ==
  ASSUME IInv, NEW w \in Workers, AccessWrite(w)
  PROVE  Kept
PROOF
<1> DEFINE r == work[w]
           kept == Revoke(enrollment, r.held)
<1>1. RequestOK(r) /\ r.pc = "sessions"
  BY Served DEF AccessWrite
<1>2. r.held \in SUBSET Issued /\ r.seen \in SUBSET Opened
  BY <1>1 DEF RequestOK
<1>3. session' = Revoke(session, r.seen) /\ work' = [work EXCEPT ![w] = NoRequest]
  BY DEF AccessWrite, Finish
<1>4. CASE enrollment' = kept
  BY <1>2, <1>3, <1>4, Idle, Quiet
<1>5. CASE \E e \in NextEnrollment :
             enrollment' = [kept EXCEPT ![e] =
               [customer |-> r.customer, misses |-> 0, expired |-> FALSE,
                activated |-> FALSE, revoked |-> FALSE]]
           /\ r.op = "provision"
  <2> DEFINE new == [customer |-> r.customer, misses |-> 0, expired |-> FALSE,
                     activated |-> FALSE, revoked |-> FALSE]
  <2>1. PICK e \in NextEnrollment : enrollment' = [kept EXCEPT ![e] = new]
    BY <1>5
  <2>2. e \in Enrollments \ Issued /\ TypeOK
    BY DEF NextEnrollment, IInv
  <2>3. r.customer \in Customers
    BY <1>1 DEF RequestOK
  <2>4. new \in EnrollmentRow
    BY <2>3 DEF EnrollmentRow
  <2> HIDE DEF new, kept, r
  <2>5. /\ kept \in [Enrollments -> EnrollmentRow \cup {NoRow}]
        /\ \A f \in Issued : /\ kept[f] \in EnrollmentRow
                             /\ kept[f].activated = enrollment[f].activated
                             /\ kept[f].revoked = (enrollment[f].revoked \/ f \in r.held)
    BY <1>2, <2>2, RevokeEnrollments DEF kept
  <2>6. /\ enrollment' \in [Enrollments -> EnrollmentRow \cup {NoRow}]
        /\ \A f \in Issued : enrollment'[f] = kept[f]
    BY <2>1, <2>2, <2>4, <2>5 DEF Issued
  <2>7. \A f \in Issued : enrollment'[f] # NoRow
    BY <2>5, <2>6, EnrollmentRows
  <2>8. /\ session' \in [Sessions -> SessionRow \cup {NoRow}]
        /\ \A s \in Opened :
              /\ session'[s] \in SessionRow
              /\ session'[s].enrollment = session[s].enrollment
              /\ session'[s].from = session[s].from
              /\ session'[s].revoked = (session[s].revoked \/ s \in r.seen)
        /\ \A s \in Sessions \ Opened : session'[s] = NoRow
    BY <1>2, <1>3, <2>2, RevokeSessions
  <2>9. Opened' = Opened
    <3>1. \A s \in Opened : session'[s] # NoRow
      BY <2>8, SessionRows
    <3> QED BY <2>8, <3>1 DEF Opened
  <2>10. Grows
    BY <2>5, <2>6, <2>7, <2>8, <2>9 DEF Grows, Issued
  <2>11. work' \in [Workers -> Request] /\ RequestsOK'
    BY <1>3, <2>10, Idle, RequestsKeep
  <2> QED BY <2>6, <2>8, <2>9, <2>10, <2>11 DEF Kept, Tables, TypeOK
<1> QED BY <1>4, <1>5 DEF AccessWrite

(* Time passes: one row of one table expires.                              *)
LEMMA ExpireKeeps ==
  ASSUME IInv, Expire
  PROVE  Kept
PROOF
<1>0. TypeOK /\ work' = work
  BY DEF IInv, Expire
<1>1. CASE \E e \in Issued : /\ enrollment' = [enrollment EXCEPT ![e].expired = TRUE]
                             /\ session' = session
  <2>1. PICK e \in Issued : /\ enrollment' = [enrollment EXCEPT ![e].expired = TRUE]
                            /\ session' = session
    BY <1>1
  <2>2. enrollment[e] \in EnrollmentRow /\ e \in Enrollments
    BY <1>0 DEF TypeOK, Issued
  <2>3. [enrollment[e] EXCEPT !.expired = TRUE] \in EnrollmentRow
    BY <2>2 DEF EnrollmentRow
  <2>4. /\ enrollment' \in [Enrollments -> EnrollmentRow \cup {NoRow}]
        /\ enrollment'[e] = [enrollment[e] EXCEPT !.expired = TRUE]
        /\ \A f \in Issued : f # e => enrollment'[f] = enrollment[f]
    BY <1>0, <2>1, <2>2, <2>3 DEF TypeOK, Issued
  <2>5. /\ enrollment'[e] # NoRow
        /\ enrollment'[e].activated = enrollment[e].activated
        /\ enrollment'[e].revoked = enrollment[e].revoked
    <3>1. enrollment'[e] # NoRow
      BY <2>3, <2>4, EnrollmentRows
    <3> QED BY <2>2, <2>4, <3>1 DEF EnrollmentRow
  <2>6. Opened' = Opened
    BY <2>1 DEF Opened
  <2>7. Grows
    BY <2>1, <2>4, <2>5, <2>6 DEF Grows, Issued
  <2>8. RequestsOK'
    BY <1>0, <2>6, <2>7 DEF RequestsOK, IInv, Grows
  <2> QED BY <1>0, <2>1, <2>4, <2>6, <2>7, <2>8 DEF Kept, Tables, TypeOK
<1>2. CASE \E s \in Opened : /\ session' = [session EXCEPT ![s].expired = TRUE]
                             /\ enrollment' = enrollment
  <2>1. PICK s \in Opened : /\ session' = [session EXCEPT ![s].expired = TRUE]
                            /\ enrollment' = enrollment
    BY <1>2
  <2>2. session[s] \in SessionRow /\ s \in Sessions
    BY <1>0 DEF TypeOK, Opened
  <2>3. [session[s] EXCEPT !.expired = TRUE] \in SessionRow
    BY <2>2 DEF SessionRow
  <2>4. /\ session' \in [Sessions -> SessionRow \cup {NoRow}]
        /\ session'[s] = [session[s] EXCEPT !.expired = TRUE]
        /\ \A t \in Sessions : t # s => session'[t] = session[t]
    BY <1>0, <2>1, <2>2, <2>3 DEF TypeOK
  <2>5. /\ session'[s] # NoRow
        /\ session'[s].enrollment = session[s].enrollment
        /\ session'[s].from = session[s].from
        /\ session'[s].revoked = session[s].revoked
    <3>1. session'[s] # NoRow
      BY <2>3, <2>4, SessionRows
    <3> QED BY <2>2, <2>4, <3>1 DEF SessionRow
  <2>6. Opened' = Opened
    BY <2>4, <2>5 DEF Opened
  <2>7. Issued' = Issued
    BY <2>1 DEF Issued
  <2>8. Grows
    BY <2>1, <2>4, <2>5, <2>6, <2>7 DEF Grows, Opened
  <2>9. RequestsOK'
    BY <1>0, <2>6, <2>7 DEF RequestsOK, IInv
  <2> QED BY <1>0, <2>1, <2>4, <2>6, <2>8, <2>9 DEF Kept, Tables, TypeOK
<1> QED BY <1>1, <1>2 DEF Expire

LEMMA StutterKeeps ==
  ASSUME IInv, UNCHANGED vars
  PROVE  Kept
PROOF
<1>1. Opened' = Opened /\ Issued' = Issued
  BY DEF vars, Opened, Issued
<1> QED BY <1>1 DEF Kept, Tables, Grows, IInv, TypeOK, RequestsOK, vars

-----------------------------------------------------------------------------
LEMMA StepKeeps ==
  ASSUME IInv, [Next]_vars
  PROVE  Kept
PROOF
<1>1. CASE Expire
  BY <1>1, ExpireKeeps
<1>2. ASSUME NEW w \in Workers, \E e \in Enrollments : ActivateFind(w, e)
      PROVE  Kept
  BY <1>2, ActivateFindKeeps
<1>3. ASSUME NEW w \in Workers, \E s \in Sessions : RefreshFind(w, s) \/ Logout(w, s)
      PROVE  Kept
  BY <1>3, RefreshFindKeeps, LogoutKeeps
<1>4. ASSUME NEW w \in Workers, AccessBegin(w)
      PROVE  Kept
  BY <1>4, AccessBeginKeeps
<1>5. ASSUME NEW w \in Workers, Serve(w)
      PROVE  Kept
  BY <1>5, ActivateMissKeeps, ActivateLockKeeps, ActivateClaimKeeps, RefreshRotateKeeps,
     ReuseReadKeeps, ReuseWriteKeeps, AccessHoldKeeps, AccessWriteKeeps, AbortKeeps
     DEF Serve
<1>6. CASE UNCHANGED vars
  BY <1>6, StutterKeeps
<1> QED BY <1>1, <1>2, <1>3, <1>4, <1>5, <1>6 DEF Next

LEMMA InitInvariant ==
  ASSUME Init
  PROVE  IInv
PROOF
<1>1. Opened = {} /\ Issued = {}
  BY DEF Init, Opened, Issued
<1>2. TypeOK
  BY Idle DEF Init, TypeOK, RequestOK
<1>3. RequestsOK
  BY Idle DEF Init, RequestsOK, RequestOK
<1> QED BY <1>1, <1>2, <1>3 DEF IInv, RootActivated, OneLiveSession, OneChain

LEMMA StepInvariant ==
  ASSUME IInv, [Next]_vars
  PROVE  IInv'
PROOF
<1>1. Kept
  BY StepKeeps
<1>2. RootActivated' /\ OneLiveSession' /\ OneChain'
  BY <1>1, TablesKeep DEF Kept
<1> QED BY <1>1, <1>2 DEF Kept, Tables, IInv

LEMMA SessionsInvariant == Spec => []IInv
PROOF BY InitInvariant, StepInvariant, PTL DEF Spec

(* The rows and the requests keep their types.                             *)
THEOREM TypeCorrect == Spec => []TypeOK
PROOF
<1>1. IInv => TypeOK
  BY DEF IInv
<1> QED BY <1>1, SessionsInvariant, PTL

(* However many requests overlap, an enrollment has at most one session    *)
(* that can be refreshed (customer-session.service.ts, activate, refresh). *)
THEOREM AtMostOneLiveSession == Spec => []OneLiveSession
PROOF
<1>1. IInv => OneLiveSession
  BY DEF IInv
<1> QED BY <1>1, SessionsInvariant, PTL

(* And its sessions are one chain, from its one activation.                *)
THEOREM SessionsAreOneChain == Spec => []OneChain
PROOF
<1>1. IInv => OneChain
  BY DEF IInv
<1> QED BY <1>1, SessionsInvariant, PTL

(* No step undoes a lock, a revocation or an activation.                   *)
THEOREM RevocationsStay == Spec => RevokedForGood
PROOF
<1> DEFINE Stays ==
      /\ \A e \in Issued :
            /\ enrollment[e].revoked => enrollment'[e].revoked
            /\ enrollment[e].activated => enrollment'[e].activated
            /\ ~ enrollment[e].activated /\ enrollment'[e].activated
                 => ~ enrollment[e].revoked
      /\ \A s \in Opened : session[s].revoked => session'[s].revoked
<1>1. IInv /\ [Next]_vars => Stays
  BY StepKeeps DEF Kept, Tables, Grows
<1>2. IInv /\ [Next]_vars => [Stays]_vars
  BY <1>1
<1> HIDE DEF Stays
<1>3. Spec => [][Stays]_vars
  BY <1>2, SessionsInvariant, PTL DEF Spec
<1> QED BY <1>3 DEF RevokedForGood, Stays
=============================================================================
