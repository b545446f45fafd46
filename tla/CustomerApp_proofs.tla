------------------------- MODULE CustomerApp_proofs --------------------------
(***************************************************************************)
(* That the page of a customer never presents a token that was rotated,    *)
(* that its exit leaves no good session behind, and that what it asks for  *)
(* is served as CustomerSessions says: for any number of calls, requests   *)
(* under way, customers, enrollments and sessions. What is known of the    *)
(* chains of sessions comes from CustomerSessions_proofs.                  *)
(***************************************************************************)
EXTENDS CustomerApp, TLAPS

Chain == INSTANCE CustomerSessions_proofs

-----------------------------------------------------------------------------
(* The sessions                                                            *)

(* The two instances of CustomerSessions say the same.                     *)
LEMMA SameTables ==
  /\ Chain!Opened = Server!Opened /\ Chain!Issued = Server!Issued
  /\ Chain!Sessions = Server!Sessions /\ Chain!Enrollments = Server!Enrollments
  /\ Chain!NextSession = Server!NextSession /\ Chain!NoRequest = Server!NoRequest
  /\ \A s : Chain!Live(s) <=> Server!Live(s)
  /\ \A t, rows : Chain!Revoke(t, rows) = Server!Revoke(t, rows)
  /\ \A e, s : Chain!NewSession(e, s) = Server!NewSession(e, s)
<1> USE DEF Chain!Sessions, Server!Sessions, Chain!Enrollments, Server!Enrollments,
            Chain!NoRow, Server!NoRow, Chain!Opened, Server!Opened
<1>1. Chain!Opened = Server!Opened /\ Chain!NextSession = Server!NextSession
  BY DEF Chain!NextSession, Server!NextSession
<1>2. Chain!Issued = Server!Issued
  BY DEF Chain!Issued, Server!Issued
<1>3. Chain!NoRequest = Server!NoRequest
  BY DEF Chain!NoRequest, Server!NoRequest, Chain!Nobody, Server!Nobody
<1>4. \A s : Chain!Live(s) <=> Server!Live(s)
  BY DEF Chain!Live, Server!Live
<1>5. \A t, rows : Chain!Revoke(t, rows) = Server!Revoke(t, rows)
  BY DEF Chain!Revoke, Server!Revoke
<1>6. \A e, s : Chain!NewSession(e, s) = Server!NewSession(e, s)
  BY DEF Chain!NewSession, Server!NewSession
<1> QED
  BY <1>1, <1>2, <1>3, <1>4, <1>5, <1>6

(* What the API does for the page it does for any worker.                  *)
LEMMA ServerSteps ==
  ASSUME NEW w \in Workers
  PROVE  /\ \A e : Server!ActivateFind(w, e) => e \in Chain!Enrollments /\ Chain!ActivateFind(w, e)
         /\ \A s : Server!RefreshFind(w, s) => s \in Chain!Sessions /\ Chain!RefreshFind(w, s)
         /\ \A s : Server!Logout(w, s) => s \in Chain!Sessions /\ Chain!Logout(w, s)
         /\ Server!AccessBegin(w) => Chain!AccessBegin(w)
         /\ Server!Serve(w) => Chain!Serve(w)
<1> USE SameTables
    DEF Chain!Begin, Server!Begin, Chain!At, Server!At, Chain!GoTo, Server!GoTo,
        Chain!Finish, Server!Finish, Chain!Unlocked, Server!Unlocked
<1>1. \A e : Server!ActivateFind(w, e) => e \in Chain!Enrollments /\ Chain!ActivateFind(w, e)
  BY DEF Chain!ActivateFind, Server!ActivateFind, Chain!Issued
<1>2. \A s : Server!RefreshFind(w, s) => s \in Chain!Sessions /\ Chain!RefreshFind(w, s)
  BY DEF Chain!RefreshFind, Server!RefreshFind, Chain!Opened
<1>3. \A s : Server!Logout(w, s) => s \in Chain!Sessions /\ Chain!Logout(w, s)
  BY DEF Chain!Logout, Server!Logout, Chain!Opened, Chain!Live
<1>4. Server!AccessBegin(w) => Chain!AccessBegin(w)
  BY DEF Chain!AccessBegin, Server!AccessBegin
<1>5. Server!ActivateMiss(w) => Chain!ActivateMiss(w)
  BY DEF Chain!ActivateMiss, Server!ActivateMiss
<1>6. Server!ActivateLock(w) => Chain!ActivateLock(w)
  BY DEF Chain!ActivateLock, Server!ActivateLock
<1>7. Server!ActivateClaim(w) => Chain!ActivateClaim(w)
  BY DEF Chain!ActivateClaim, Server!ActivateClaim
<1>8. Server!RefreshRotate(w) => Chain!RefreshRotate(w)
  BY DEF Chain!RefreshRotate, Server!RefreshRotate
<1>9. Server!ReuseRead(w) => Chain!ReuseRead(w)
  BY DEF Chain!ReuseRead, Server!ReuseRead
<1>10. Server!ReuseWrite(w) => Chain!ReuseWrite(w)
  BY DEF Chain!ReuseWrite, Server!ReuseWrite
<1>11. Server!AccessHold(w) => Chain!AccessHold(w)
  BY DEF Chain!AccessHold, Server!AccessHold, Chain!CustomerOf, Server!CustomerOf
<1>12. Server!AccessWrite(w) => Chain!AccessWrite(w)
  BY DEF Chain!AccessWrite, Server!AccessWrite, Chain!NextEnrollment, Server!NextEnrollment
<1>13. Server!Abort(w) => Chain!Abort(w)
  BY DEF Chain!Abort, Server!Abort
<1> QED
  BY <1>1, <1>2, <1>3, <1>4, <1>5, <1>6, <1>7, <1>8, <1>9, <1>10, <1>11, <1>12, <1>13
  DEF Chain!Serve, Server!Serve

(* A step of the application is a step of the sessions, or leaves them     *)
(* alone.                                                                  *)
LEMMA StepOfSessions ==
  ASSUME [Next]_vars
  PROVE  [Server!Next]_(Server!vars)
<1> USE DEF Server!vars, tables, browser
<1>1. ASSUME NEW f \in Fetches, Completed(f) \/ Drop(f)
      PROVE  UNCHANGED tables
  BY <1>1 DEF Completed, RefreshDone, RefreshFails, ActivateDone, LogoutDone, Drop
<1>2. ASSUME NEW c \in Calls \cup {Load}, Answered(c) \/ MakeCall(c)
      PROVE  UNCHANGED tables
  BY <1>2 DEF Answered, CallOk, CallFails, CallDenied, CallDeniedAgain, MakeCall
<1>3. ASSUME Reload \/ ActivateSend \/ LogoutSend \/ ExpireAccess
      PROVE  UNCHANGED tables
  BY <1>3 DEF Reload, ActivateSend, LogoutSend, ExpireAccess
<1>4. ASSUME NEW f \in Fetches, Arrive(f) \/ Grant(f) \/ Deny(f)
      PROVE  [Server!Next]_(Server!vars)
  <2>1. f \in Workers
    BY DEF Workers
  <2>2. CASE Arrive(f)
    BY <2>1, <2>2 DEF Arrive, Server!Next, Server!RefreshFind, Server!ActivateFind, Server!Logout,
       Server!Live, Server!Opened, Server!Issued
  <2>3. CASE Grant(f)
    BY <2>1, <2>3 DEF Grant, Server!Next, Server!Serve
  <2>4. CASE Deny(f)
    BY <2>1, <2>4 DEF Deny, Server!Next, Server!Serve
  <2> QED
    BY <1>4, <2>2, <2>3, <2>4
<1>5. CASE Desk
  <2>1. Staff \in Workers
    BY DEF Workers
  <2> QED
    BY <1>5, <2>1 DEF Desk, Server!Next, Server!Serve
<1>6. CASE UNCHANGED vars
  BY <1>6 DEF vars
<1> QED
  BY <1>1, <1>2, <1>3, <1>4, <1>5, <1>6 DEF Next

(* What the page asks for and the API serves is a behaviour of             *)
(* CustomerSessions, in which each fetch is a worker.                      *)
THEOREM ServesSessions == Spec => Server!Spec
<1>1. Init => Server!Init
  BY DEF Init
<1> QED
  BY <1>1, StepOfSessions, PTL DEF Spec, Server!Spec

(* So the invariant of the sessions holds here too.                        *)
LEMMA SessionsKeep ==
  ASSUME Chain!IInv, [Next]_vars
  PROVE  Chain!IInv'
<1>1. [Chain!Next]_(Chain!vars)
  <2>1. CASE Server!Next
    <3>1. CASE Server!Expire
      BY <3>1, SameTables DEF Server!Expire, Chain!Expire, Chain!Next
    <3>2. CASE \E w \in Workers : \/ \E e \in Server!Enrollments : Server!ActivateFind(w, e)
                                  \/ \E s \in Server!Sessions : Server!RefreshFind(w, s) \/ Server!Logout(w, s)
                                  \/ Server!AccessBegin(w)
                                  \/ Server!Serve(w)
      <4>1. PICK w \in Workers :
              \/ \E e \in Server!Enrollments : Server!ActivateFind(w, e)
              \/ \E s \in Server!Sessions : Server!RefreshFind(w, s) \/ Server!Logout(w, s)
              \/ Server!AccessBegin(w)
              \/ Server!Serve(w)
        BY <3>2
      <4>2. ASSUME NEW e, Server!ActivateFind(w, e)
            PROVE  Chain!Next
        BY <4>2, ServerSteps DEF Chain!Next
      <4>3. ASSUME NEW s, Server!RefreshFind(w, s) \/ Server!Logout(w, s)
            PROVE  Chain!Next
        BY <4>3, ServerSteps DEF Chain!Next
      <4>4. Server!AccessBegin(w) => Chain!Next
        BY ServerSteps DEF Chain!Next
      <4>5. Server!Serve(w) => Chain!Next
        BY ServerSteps DEF Chain!Next
      <4> QED
        BY <4>1, <4>2, <4>3, <4>4, <4>5
    <3> QED
      BY <2>1, <3>1, <3>2 DEF Server!Next
  <2>2. CASE UNCHANGED Server!vars
    BY <2>2 DEF Server!vars, Chain!vars
  <2>3. Server!Next \/ UNCHANGED Server!vars
    BY StepOfSessions
  <2> QED
    BY <2>1, <2>2, <2>3
<1> QED
  BY <1>1, Chain!StepInvariant, NumbersAssumption

(* And at first.                                                           *)
LEMMA SessionsBegin == Init => Chain!IInv
<1>1. Init => Chain!Init
  BY SameTables DEF Init, Server!Init, Chain!Init, Chain!NoRow, Server!NoRow
<1> QED
  BY <1>1, Chain!InitInvariant, NumbersAssumption
-----------------------------------------------------------------------------
(* The inductive invariant                                                 *)

(* A session that nothing has taken the place of, and the only one of its  *)
(* enrollment that may be good.                                            *)
Tip(s) ==
  /\ s \in Server!Opened
  /\ \A t \in Server!Opened :
       /\ session[t].from # s
       /\ Server!Live(t) /\ session[t].enrollment = session[s].enrollment => t = s

(* The worker that serves a fetch, and the fetch it serves.                *)
Served(f) ==
  /\ fetch[f].pc = "free" => fetch[f] = NoFetch
  /\ fetch[f].pc # "free" => fetch[f].use # None
  /\ ~ fetch[f].waited => fetch[f].pc \in {"free", "sent", "served"}
  /\ fetch[f].pc # "served" => work[f] = Server!NoRequest
  /\ fetch[f].pc = "served" =>
       /\ work[f].op = fetch[f].use /\ work[f].key = fetch[f].key
       /\ \/ work[f].op = "refresh" /\ work[f].pc \in {"found", "reused", "burning"}
          \/ work[f].op = "activate" /\ work[f].pc \in {"found", "locking"}
  /\ fetch[f].use \in {"refresh", "logout"} => fetch[f].key \in Server!Opened
  /\ fetch[f].pc = "answered" /\ fetch[f].use # "logout" => fetch[f].new \in Server!Opened

AllServed == \A f \in Fetches : Served(f)

(* The page has been opened by a link, or does not show a view yet.        *)
Starting == page.link \/ page.phase = "boot"

(* What the page may be doing at once: refreshes are one at a time, and    *)
(* while it starts there are no calls of a view and no exit.               *)
PageInOrder ==
  /\ stored.refresh # 0 => stored.refresh \in Server!Opened
  /\ \A f \in Fetches : Waited(f, "refresh") => page.flight = f
  /\ page.flight # None => \E c \in Calls \cup {Load} : call[c].pc = "waiting"
  /\ page.phase = "boot" => ~ page.me
  /\ Starting => \A c \in Calls : call[c].pc = "settled"
  /\ Starting => \A f \in Fetches : ~ Waited(f, "logout")
  /\ call[Load].pc # "settled" =>
       Starting /\ \A f \in Fetches : ~ Waited(f, "activate")
  /\ InFlight(Load) /\ call[Load].good => stored.access = "good"
  /\ \A f, g \in Fetches :
       Waited(f, "activate") => page.link /\ (Waited(g, "activate") => f = g)

(* As long as no answer to a refresh is lost: the page holds the tip of    *)
(* its chain, or waits for the answer that brings it.                      *)
Holding ==
  /\ \A f \in Fetches :
       /\ fetch[f].use = "refresh" =>
            fetch[f].waited /\ stored.refresh \in {0, fetch[f].key}
       /\ fetch[f].use = "refresh" /\ fetch[f].pc \in {"sent", "served"} => Tip(fetch[f].key)
       /\ fetch[f].pc = "answered" /\ fetch[f].use # "logout" => Tip(fetch[f].new)
  /\ stored.refresh # 0 =>
       \/ Tip(stored.refresh)
       \/ \E f \in Fetches : Waited(f, "refresh") /\ fetch[f].pc = "answered"

(* No other session of the enrollment of s is good.                        *)
Last(s) ==
  \A t \in Server!Opened :
     Server!Live(t) /\ session[t].enrollment = session[s].enrollment => t = s

(* An exit with no refresh in flight, from its request on.                 *)
Leaving ==
  /\ exit.how \in {"clean", "left"} =>
       /\ page.flight = None /\ exit.of \in Server!Opened
       /\ lost \/ Last(exit.of)
  /\ exit.how = "clean" =>
       \A f \in Fetches : Waited(f, "logout") =>
          /\ fetch[f].key = exit.of
          /\ fetch[f].pc = "answered" => ~ Server!Live(exit.of)
  /\ exit.how = "left" =>
       /\ stored.refresh = 0 /\ ~ Server!Live(exit.of)
       /\ \A f \in Fetches : ~ Waited(f, "activate")

AppInv ==
  /\ AppTypeOK /\ AllServed /\ PageInOrder
  /\ lost \/ Holding
  /\ Leaving

-----------------------------------------------------------------------------
(* What a step does to the tables: it opens no session, and revokes some   *)
(* or none.                                                                *)
Keeps ==
  /\ Server!Opened' = Server!Opened
  /\ \A s \in Server!Opened :
       /\ session'[s].from = session[s].from
       /\ session'[s].enrollment = session[s].enrollment
       /\ Server!Live(s)' => Server!Live(s)

(* A step that leaves the sessions alone.                                  *)
LEMMA TablesStay ==
  ASSUME UNCHANGED session
  PROVE  /\ Keeps
         /\ \A s : Server!Live(s)' <=> Server!Live(s)
BY DEF Keeps, Server!Opened, Server!Live, Server!Sessions, Server!NoRow

(* Revocations: what they leave alone, and what they end.                  *)
LEMMA RevokeKeeps ==
  ASSUME Chain!IInv, NEW R \in SUBSET Server!Opened, session' = Server!Revoke(session, R)
  PROVE  Keeps /\ \A s \in R : ~ Server!Live(s)'
<1>1. Chain!TypeOK
  BY DEF Chain!IInv
<1>2. /\ \A s \in Server!Opened :
           /\ session'[s] \in Chain!SessionRow
           /\ session'[s].enrollment = session[s].enrollment
           /\ session'[s].from = session[s].from
           /\ session'[s].revoked = (session[s].revoked \/ s \in R)
      /\ \A s \in Server!Sessions \ Server!Opened : session'[s] = Server!NoRow
  BY <1>1, Chain!RevokeSessions, SameTables, NumbersAssumption DEF Chain!NoRow, Server!NoRow
<1>3. \A r \in Chain!SessionRow : r # Server!NoRow
  BY Chain!SessionRows, NumbersAssumption DEF Chain!NoRow, Server!NoRow
<1>4. Server!Opened' = Server!Opened
  BY <1>2, <1>3 DEF Server!Opened, Server!Sessions
<1> QED
  BY <1>2, <1>4 DEF Keeps, Server!Live

(* A tip stays one.                                                        *)
LEMMA TipStays ==
  ASSUME Keeps
  PROVE  /\ \A s : Tip(s) => Tip(s)'
         /\ \A s \in Server!Opened : Last(s) => Last(s)'
BY DEF Keeps, Tip, Last

(* Opened rows, and what is known of the chains.                           *)
LEMMA ChainFacts ==
  ASSUME Chain!IInv
  PROVE  /\ Server!Opened \subseteq 1 .. MaxSessions /\ 0 \notin Server!Opened
         /\ Server!Issued \subseteq 1 .. MaxEnrollments
         /\ \A s, t \in Server!Opened :
              Server!Live(s) /\ Server!Live(t) /\ session[s].enrollment = session[t].enrollment
                => s = t
         /\ \A s \in Server!Opened : session[s].from \in Server!Opened \cup {0}
         /\ \A s \in Server!Opened : enrollment[session[s].enrollment].activated
         /\ \A w \in Workers : work[w].op = "refresh" => work[w].key \in Server!Opened
         /\ work \in [Workers -> Chain!Request]
         /\ \A w \in Workers : work[w].pc \in {"burning", "sessions"} => work[w].seen \subseteq Server!Opened
         /\ session \in [Server!Sessions -> Chain!SessionRow \cup {Chain!NoRow}]
<1>1. Server!Opened \subseteq 1 .. MaxSessions /\ 0 \notin Server!Opened
      /\ Server!Issued \subseteq 1 .. MaxEnrollments
  BY DEF Server!Opened, Server!Sessions, Server!Issued, Server!Enrollments
<1>2. \A s, t \in Server!Opened :
        Server!Live(s) /\ Server!Live(t) /\ session[s].enrollment = session[t].enrollment => s = t
  BY SameTables DEF Chain!IInv, Chain!OneLiveSession
<1>3. \A s \in Server!Opened : session[s].from \in Server!Opened \cup {0}
  BY SameTables DEF Chain!IInv, Chain!OneChain
<1>4. \A s \in Server!Opened : enrollment[session[s].enrollment].activated
  BY SameTables DEF Chain!IInv, Chain!RootActivated
<1>5. /\ \A w \in Workers : work[w].op = "refresh" => work[w].key \in Server!Opened
      /\ \A w \in Workers : work[w].pc \in {"burning", "sessions"} => work[w].seen \subseteq Server!Opened
  BY SameTables DEF Chain!IInv, Chain!RequestsOK
<1>6. /\ work \in [Workers -> Chain!Request]
      /\ session \in [Server!Sessions -> Chain!SessionRow \cup {Chain!NoRow}]
  BY SameTables DEF Chain!IInv, Chain!TypeOK
<1> QED
  BY <1>1, <1>2, <1>3, <1>4, <1>5, <1>6

(* The session that is opened: a tip, that takes the place of one of its   *)
(* chain or begins a chain.                                                *)
LEMMA Granted ==
  ASSUME Chain!IInv, Chain!IInv', NEW f \in Fetches,
         Server!RefreshRotate(f) \/ Server!ActivateClaim(f), NEW s \in Server!NextSession
  PROVE  /\ Server!Opened' = Server!Opened \cup {s} /\ s \notin Server!Opened
         /\ \A t \in Server!Opened :
              /\ session'[t].from = session[t].from
              /\ session'[t].enrollment = session[t].enrollment
              /\ Server!Live(t)' => Server!Live(t)
         /\ \/ /\ Server!RefreshRotate(f)
               /\ work[f].key \in Server!Opened
               /\ session'[s].from = work[f].key
               /\ session'[s].enrollment = session[work[f].key].enrollment
            \/ /\ Server!ActivateClaim(f)
               /\ session'[s].from = 0
               /\ \A t \in Server!Opened : session[t].enrollment # session'[s].enrollment
         /\ Tip(s)'
         /\ work' = [work EXCEPT ![f] = Server!NoRequest]
<1> DEFINE e == work[f].key
<1>1. /\ \A t \in Server!NextSession : t = s
      /\ s \in Server!Sessions /\ s \notin Server!Opened /\ s \in 1 .. MaxSessions
  BY NumbersAssumption DEF Server!NextSession, Server!Sessions
<1>2. /\ session \in [Server!Sessions -> Chain!SessionRow \cup {Chain!NoRow}]
      /\ \A t \in Server!Opened : session[t] \in Chain!SessionRow /\ t \in Server!Sessions
      /\ \A t \in Server!Sessions \ Server!Opened : session[t] = Server!NoRow
  BY ChainFacts DEF Server!Opened, Chain!NoRow, Server!NoRow
<1>3. \A r \in Chain!SessionRow : r # Server!NoRow
  BY Chain!SessionRows, NumbersAssumption DEF Chain!NoRow, Server!NoRow
<1>4. f \in Workers /\ work \in [Workers -> Chain!Request]
  BY ChainFacts DEF Workers
<1>5. \A t, u \in Server!Opened' :
        Server!Live(t)' /\ Server!Live(u)' /\ session'[t].enrollment = session'[u].enrollment
          => t = u
  BY DEF Chain!IInv, Chain!OneLiveSession, Chain!Live, Server!Live, Chain!Opened, Server!Opened,
     Chain!Sessions, Server!Sessions, Chain!NoRow, Server!NoRow
<1>6. \A t \in Server!Opened : session[t].from # s
  BY <1>1, ChainFacts
<1>7. CASE Server!RefreshRotate(f)
  <2>1. /\ session' = [Server!Revoke(session, {e}) EXCEPT
                         ![s] = Server!NewSession(session[e].enrollment, e)]
        /\ work' = [work EXCEPT ![f] = Server!NoRequest]
        /\ work[f].op = "refresh"
    BY <1>1, <1>7 DEF Server!RefreshRotate, Server!Finish, Server!At
  <2>2. e \in Server!Opened
    BY <1>4, <2>1, ChainFacts
  <2>3. /\ session'[s] = Server!NewSession(session[e].enrollment, e)
        /\ \A t \in Server!Sessions \ {s} :
             session'[t] = IF t = e THEN [session[t] EXCEPT !.revoked = TRUE] ELSE session[t]
    BY <1>1, <1>2, <2>1 DEF Server!Revoke
  <2>4. \A t \in Server!Opened :
          /\ session'[t] # Server!NoRow
          /\ session'[t].from = session[t].from
          /\ session'[t].enrollment = session[t].enrollment
          /\ session'[t].revoked = (session[t].revoked \/ t = e)
    <3>1. \A t \in Server!Opened : t # s
      BY <1>1
    <3>2. \A t \in Server!Opened : session'[t] \in Chain!SessionRow
      BY <1>2, <2>3, <3>1, Chain!SessionRows, NumbersAssumption
    <3> QED
      BY <1>2, <1>3, <2>3, <3>1, <3>2 DEF Chain!SessionRow
  <2>5. session'[s].from = e /\ session'[s].enrollment = session[e].enrollment
        /\ session'[s] # Server!NoRow /\ ~ session'[s].revoked
    BY <2>3 DEF Server!NewSession, Server!NoRow
  <2>6. Server!Opened' = Server!Opened \cup {s}
    BY <1>1, <1>2, <2>2, <2>3, <2>4, <2>5 DEF Server!Opened, Server!Sessions, Server!NoRow
  <2>7. Tip(s)'
    BY <1>1, <1>5, <1>6, <2>2, <2>4, <2>5, <2>6 DEF Tip, Server!Live
  <2>8. \A t \in Server!Opened : Server!Live(t)' => Server!Live(t)
    BY <2>4 DEF Server!Live
  <2> QED
    BY <1>1, <1>7, <2>1, <2>2, <2>4, <2>5, <2>6, <2>7, <2>8
<1>8. CASE Server!ActivateClaim(f)
  <2>1. /\ session' = [session EXCEPT ![s] = Server!NewSession(e, 0)]
        /\ work' = [work EXCEPT ![f] = Server!NoRequest]
        /\ ~ enrollment[e].activated
    BY <1>1, <1>8 DEF Server!ActivateClaim, Server!Finish
  <2>2. /\ session'[s] = Server!NewSession(e, 0)
        /\ \A t \in Server!Sessions \ {s} : session'[t] = session[t]
    BY <1>1, <1>2, <2>1
  <2>3. session'[s].from = 0 /\ session'[s].enrollment = e
        /\ session'[s] # Server!NoRow /\ ~ session'[s].revoked
    BY <2>2 DEF Server!NewSession, Server!NoRow
  <2>4. Server!Opened' = Server!Opened \cup {s}
    BY <1>1, <1>2, <2>2, <2>3 DEF Server!Opened, Server!Sessions, Server!NoRow
  <2>5. \A t \in Server!Opened : session'[t] = session[t] /\ t # s /\ t \in Server!Sessions
    BY <1>1, <1>2, <2>2
  <2>6. \A t \in Server!Opened : session[t].enrollment # e
    BY <2>1, ChainFacts
  <2>7. Tip(s)'
    BY <1>1, <1>5, <1>6, <2>3, <2>4, <2>5, <2>6 DEF Tip, Server!Live
  <2>8. \A t \in Server!Opened : Server!Live(t)' => Server!Live(t)
    BY <2>4, <2>5 DEF Server!Live
  <2> QED
    BY <1>1, <1>8, <2>1, <2>3, <2>4, <2>5, <2>6, <2>7, <2>8
<1> QED
  BY <1>7, <1>8

-----------------------------------------------------------------------------
(* The page                                                                *)

FetchRow ==
  [use: {None, "refresh", "activate", "logout"},
   pc: {"free", "sent", "served", "answered", "refused"},
   key: 0 .. (MaxSessions + MaxEnrollments), new: 0 .. MaxSessions, waited: BOOLEAN]

CallRow == [pc: {"settled", "sent", "waiting", "resent"}, good: BOOLEAN]

(* The rows, and what is left of a fetch that is forgotten.                *)
LEMMA Rows ==
  ASSUME AppTypeOK
  PROVE  /\ fetch \in [Fetches -> FetchRow] /\ call \in [Calls \cup {Load} -> CallRow]
         /\ NoFetch \in FetchRow /\ Settled \in CallRow
         /\ \A x \in FetchRow :
              /\ Forgotten(x) \in FetchRow
              /\ ~ Forgotten(x).waited
              /\ x.pc \notin {"sent", "served"} => Forgotten(x) = NoFetch
              /\ x.pc \in {"sent", "served"} =>
                   /\ Forgotten(x).pc = x.pc /\ Forgotten(x).use = x.use
                   /\ Forgotten(x).key = x.key /\ Forgotten(x).new = x.new
<1>1. fetch \in [Fetches -> FetchRow] /\ call \in [Calls \cup {Load} -> CallRow]
  BY DEF AppTypeOK, FetchRow, CallRow
<1>2. NoFetch \in FetchRow /\ Settled \in CallRow
  BY NumbersAssumption DEF NoFetch, FetchRow, Settled, CallRow, None
<1>3. \A x \in FetchRow :
        /\ Forgotten(x) \in FetchRow
        /\ ~ Forgotten(x).waited
        /\ x.pc \notin {"sent", "served"} => Forgotten(x) = NoFetch
        /\ x.pc \in {"sent", "served"} =>
             /\ Forgotten(x).pc = x.pc /\ Forgotten(x).use = x.use
             /\ Forgotten(x).key = x.key /\ Forgotten(x).new = x.new
  BY <1>2 DEF Forgotten, FetchRow, NoFetch
<1> QED
  BY <1>1, <1>2, <1>3

(* A step of the page, that gives up some fetches or none.                 *)
GivesUp == \A f \in Fetches : fetch'[f] \in {fetch[f], Forgotten(fetch[f])}

(* It makes no fetch that is waited for.                                   *)
LEMMA ServedStays ==
  ASSUME AppTypeOK, AllServed, UNCHANGED tables, GivesUp
  PROVE  /\ AllServed'
         /\ \A f \in Fetches : \A u : Waited(f, u)' => Waited(f, u) /\ fetch'[f] = fetch[f]
<1>1. /\ session' = session /\ work' = work /\ Server!Opened' = Server!Opened
  BY DEF tables, Server!Opened, Server!Sessions, Server!NoRow
<1>2. ASSUME NEW f \in Fetches
      PROVE  Served(f)'
  <2>1. CASE fetch'[f] = fetch[f]
    BY <1>1, <2>1 DEF AllServed, Served
  <2>2. CASE fetch'[f] = Forgotten(fetch[f])
    <3>1. fetch[f] \in FetchRow
      BY Rows
    <3>2. CASE fetch[f].pc \in {"sent", "served"}
      BY <1>1, <2>2, <3>1, <3>2, Rows DEF AllServed, Served
    <3>3. CASE fetch[f].pc \notin {"sent", "served"}
      <4>1. fetch'[f] = NoFetch
        BY <2>2, <3>1, <3>3, Rows
      <4>2. work'[f] = Server!NoRequest
        BY <1>1, <3>3 DEF AllServed, Served
      <4> QED
        BY <4>1, <4>2 DEF Served, NoFetch, None, Server!NoRequest
    <3> QED
      BY <3>2, <3>3
  <2> QED
    BY <2>1, <2>2 DEF GivesUp
<1>3. \A f \in Fetches : \A u : Waited(f, u)' => Waited(f, u) /\ fetch'[f] = fetch[f]
  BY Rows DEF Waited, GivesUp
<1> QED
  BY <1>2, <1>3 DEF AllServed

(* A call is answered: with loadMe, the page shows the customer.           *)
LEMMA CallOkKeeps ==
  ASSUME AppInv, NEW c \in Calls \cup {Load}, CallOk(c)
  PROVE  AppInv'
<1>1. /\ UNCHANGED tables /\ UNCHANGED <<stored, fetch, lost, exit>> /\ GivesUp
      /\ InFlight(c) /\ call[c].good /\ call' = [call EXCEPT ![c] = Settled]
      /\ page' = IF c # Load THEN page
                 ELSE [page EXCEPT !.me = TRUE, !.phase = "open",
                               !.link = page.link /\ page.phase = "boot"]
  BY DEF CallOk, tables, GivesUp
<1>2. AllServed' /\ \A f \in Fetches : \A u : Waited(f, u)' <=> Waited(f, u)
  BY <1>1, ServedStays DEF AppInv, Waited
<1>3. AppTypeOK'
  BY <1>1, <1>2 DEF AppInv, AppTypeOK, PageInOrder, InFlight, Settled, None
<1>4. Keeps /\ \A s : Server!Live(s)' <=> Server!Live(s)
  BY <1>1, TablesStay DEF tables
<1>5. PageInOrder'
  BY <1>1, <1>2, <1>4 DEF AppInv, AppTypeOK, PageInOrder, InFlight, Settled, Starting, Keeps
<1>6. lost' \/ Holding'
  BY <1>1, <1>2, <1>4, TipStays DEF AppInv, Holding, Keeps
<1>7. Leaving'
  BY <1>1, <1>2, <1>4, TipStays DEF AppInv, Leaving, Keeps
<1> QED
  BY <1>2, <1>3, <1>5, <1>6, <1>7 DEF AppInv

(* A view makes a call, which it does only once the page has started.      *)
LEMMA MakeCallKeeps ==
  ASSUME AppInv, NEW c \in Calls, MakeCall(c)
  PROVE  AppInv'
<1>1. /\ UNCHANGED tables /\ UNCHANGED <<stored, page, fetch, lost, exit>> /\ GivesUp
      /\ page.me /\ ~ page.link /\ call' = [call EXCEPT ![c] = Made("sent")]
  BY DEF MakeCall, tables, GivesUp
<1>2. AllServed' /\ \A f \in Fetches : \A u : Waited(f, u)' <=> Waited(f, u)
  BY <1>1, ServedStays DEF AppInv, Waited
<1>3. AppTypeOK'
  BY <1>1, <1>2 DEF AppInv, AppTypeOK, Made
<1>4. Keeps /\ \A s : Server!Live(s)' <=> Server!Live(s)
  BY <1>1, TablesStay DEF tables
<1>5. PageInOrder'
  <2>1. /\ c # Load /\ ~ Starting
        /\ \A d \in Calls \cup {Load} : d # c => call'[d] = call[d]
    BY <1>1, DeviceAssumption DEF AppInv, AppTypeOK, PageInOrder, Starting
  <2>2. page.flight # None => \E d \in Calls \cup {Load} : call'[d].pc = "waiting"
    <3>1. ASSUME page.flight # None
          PROVE  \E d \in Calls \cup {Load} : d # c /\ call[d].pc = "waiting"
      BY <1>1, <3>1 DEF AppInv, PageInOrder, MakeCall, Settled
    <3> QED
      BY <2>1, <3>1
  <2> QED
    BY <1>1, <1>2, <1>4, <2>1, <2>2 DEF AppInv, PageInOrder, InFlight, Starting, Keeps
<1>6. lost' \/ Holding'
  BY <1>1, <1>2, <1>4, TipStays DEF AppInv, Holding, Keeps
<1>7. Leaving'
  BY <1>1, <1>2, <1>4, TipStays DEF AppInv, Leaving, Keeps
<1> QED
  BY <1>2, <1>3, <1>5, <1>6, <1>7 DEF AppInv

(* The session of the page ends, and with it a call.                       *)
LEMMA CallEndsKeeps ==
  ASSUME AppInv, NEW c \in Calls \cup {Load}, InFlight(c),
         call' = [call EXCEPT ![c] = Settled],
         UNCHANGED <<enrollment, session, work, fetch, lost, exit>>,
         \/ stored' = NoTokens /\ page' = SignedOut
         \/ UNCHANGED <<stored, page>> /\ page.phase # "boot"
  PROVE  AppInv'
<1>1. UNCHANGED tables /\ GivesUp
  BY DEF tables, GivesUp
<1>2. AllServed' /\ \A f \in Fetches : \A u : Waited(f, u)' <=> Waited(f, u)
  BY <1>1, ServedStays DEF AppInv, Waited
<1>3. AppTypeOK'
  <2>1. /\ call' \in [Calls \cup {Load} -> CallRow]
        /\ \A d \in Calls \cup {Load} : call'[d].pc = "waiting" => call[d].pc = "waiting"
    BY Rows DEF AppInv, Settled, CallRow
  <2>2. /\ stored' \in [access: {None, "good", "stale"}, refresh: 0 .. MaxSessions]
        /\ stored'.refresh = 0 <=> stored'.access = None
        /\ page' \in [phase: {"boot", "open"}, link: BOOLEAN, me: BOOLEAN,
                      flight: Fetches \cup {None}]
        /\ page'.me => stored'.refresh # 0
        /\ page'.flight = page.flight
    <3>1. CASE stored' = NoTokens /\ page' = SignedOut
      <4>1. page' = [page EXCEPT !.me = FALSE, !.phase = "open"]
        BY <3>1 DEF SignedOut
      <4>2. stored' = [access |-> None, refresh |-> 0] /\ 0 \in 0 .. MaxSessions
        BY <3>1, NumbersAssumption DEF NoTokens
      <4> QED
        BY <4>1, <4>2 DEF AppInv, AppTypeOK
    <3>2. CASE UNCHANGED <<stored, page>>
      BY <3>2 DEF AppInv, AppTypeOK
    <3> QED
      BY <3>1, <3>2
  <2> QED
    BY <1>2, <2>1, <2>2 DEF AppInv, AppTypeOK, CallRow
<1>4. Keeps /\ \A s : Server!Live(s)' <=> Server!Live(s)
  BY <1>1, TablesStay DEF tables
<1>5. PageInOrder'
  <2>1. \A d \in Calls \cup {Load} : call'[d] = IF d = c THEN Settled ELSE call[d]
    BY DEF AppInv, AppTypeOK
  <2>2. Starting' => Starting
    BY DEF AppInv, AppTypeOK, Starting, SignedOut
  <2>3. c # Load => ~ Starting /\ call[Load].pc = "settled"
    BY DEF AppInv, PageInOrder, InFlight
  <2>4. \/ stored' = NoTokens /\ page'.flight = page.flight /\ page'.link = page.link
                              /\ ~ page'.me /\ page'.phase = "open"
        \/ stored' = stored /\ page' = page
    BY DEF AppInv, AppTypeOK, SignedOut
  <2>5. page.flight # None => \E d \in Calls \cup {Load} : call'[d].pc = "waiting"
    BY <2>1 DEF AppInv, PageInOrder, InFlight
  <2>6. InFlight(Load)' /\ call'[Load].good => stored'.access = "good"
    BY <2>1, <2>3 DEF AppInv, PageInOrder, InFlight, Settled
  <2>7. Starting' => \A d \in Calls : call'[d].pc = "settled"
    BY <2>1, <2>2 DEF AppInv, PageInOrder, Settled
  <2>8. call'[Load].pc # "settled" => Starting' /\ c # Load
    BY <2>1, <2>3 DEF AppInv, PageInOrder, Settled
  <2> QED
    BY <1>1, <1>2, <1>4, <2>1, <2>2, <2>3, <2>4, <2>5, <2>6, <2>7, <2>8
    DEF AppInv, PageInOrder, Keeps, NoTokens
<1>6. lost' \/ Holding'
  BY <1>1, <1>2, <1>4, TipStays DEF AppInv, Holding, Keeps, NoTokens
<1>7. Leaving'
  BY <1>1, <1>2, <1>4, TipStays DEF AppInv, AppTypeOK, Leaving, Keeps, NoTokens, SignedOut
<1> QED
  BY <1>2, <1>3, <1>5, <1>6, <1>7 DEF AppInv

(* A call fails, or is answered 401 again.                                 *)
LEMMA CallFailsKeeps ==
  ASSUME AppInv, NEW c \in Calls \cup {Load}, CallFails(c) \/ CallDeniedAgain(c)
  PROVE  AppInv'
BY CallEndsKeeps DEF CallFails, CallDeniedAgain, InFlight

(* A fetch is made.                                                        *)
LEMMA Posted ==
  ASSUME AppTypeOK, AllServed, UNCHANGED tables, NEW f \in Free,
         NEW use \in {"refresh", "activate", "logout"}, NEW key, Post(f, use, key),
         key \in Server!Opened \/ (use = "activate" /\ key \in Server!Issued)
  PROVE  /\ f \in Fetches /\ AllServed' /\ fetch' \in [Fetches -> FetchRow]
         /\ fetch'[f] = [use |-> use, pc |-> "sent", key |-> key, new |-> 0, waited |-> TRUE]
         /\ \A g \in Fetches \ {f} : fetch'[g] = fetch[g]
         /\ \A g \in Fetches : \A u : Waited(g, u)' <=> Waited(g, u) \/ (g = f /\ u = use)
         /\ fetch[f] = NoFetch
<1>1. /\ session' = session /\ work' = work /\ Server!Opened' = Server!Opened
  BY DEF tables, Server!Opened, Server!Sessions, Server!NoRow
<1>2. f \in Fetches /\ fetch[f] = NoFetch /\ work[f] = Server!NoRequest
  BY DEF Free
<1>3. fetch \in [Fetches -> FetchRow]
  BY Rows
<1>4. [use |-> use, pc |-> "sent", key |-> key, new |-> 0, waited |-> TRUE] \in FetchRow
  BY NumbersAssumption
  DEF FetchRow, Server!Opened, Server!Sessions, Server!Issued, Server!Enrollments
<1>5. /\ fetch'[f] = [use |-> use, pc |-> "sent", key |-> key, new |-> 0, waited |-> TRUE]
      /\ \A g \in Fetches \ {f} : fetch'[g] = fetch[g]
      /\ fetch' \in [Fetches -> FetchRow]
  BY <1>2, <1>3, <1>4 DEF Post
<1>6. \A g \in Fetches : \A u : Waited(g, u)' <=> Waited(g, u) \/ (g = f /\ u = use)
  BY <1>2, <1>5 DEF Waited, NoFetch
<1>7. Served(f)'
  BY <1>1, <1>2, <1>5 DEF Served, None, Server!Issued, Server!Opened
<1>8. \A g \in Fetches \ {f} : Served(g)'
  BY <1>1, <1>5 DEF AllServed, Served
<1> QED
  BY <1>2, <1>5, <1>6, <1>7, <1>8 DEF AllServed

(* 401: the refresh in flight, or one of its own, or the end.              *)
LEMMA CallWaitsKeeps ==
  ASSUME AppInv, NEW c \in Calls \cup {Load}, call[c].pc = "sent", page.flight # None,
         call' = [call EXCEPT ![c].pc = "waiting"],
         UNCHANGED <<enrollment, session, work, stored, page, fetch, lost, exit>>
  PROVE  AppInv'
<1>1. UNCHANGED tables /\ GivesUp
  BY DEF tables, GivesUp
<1>2. AllServed' /\ \A f \in Fetches : \A u : Waited(f, u)' <=> Waited(f, u)
  BY <1>1, ServedStays DEF AppInv, Waited
<1>3. /\ call' \in [Calls \cup {Load} -> CallRow] /\ call'[c].pc = "waiting"
      /\ \A d \in Calls \cup {Load} : d # c => call'[d] = call[d]
  BY Rows DEF AppInv, CallRow
<1>4. AppTypeOK'
  BY <1>2, <1>3 DEF AppInv, AppTypeOK, CallRow
<1>5. Keeps /\ \A s : Server!Live(s)' <=> Server!Live(s)
  BY <1>1, TablesStay DEF tables
<1>6. PageInOrder'
  BY <1>2, <1>3, <1>5 DEF AppInv, PageInOrder, InFlight, Starting, Keeps
<1>7. lost' \/ Holding'
  BY <1>2, <1>5, TipStays DEF AppInv, Holding, Keeps
<1>8. Leaving'
  BY DEF AppInv, Leaving
<1> QED
  BY <1>2, <1>4, <1>6, <1>7, <1>8 DEF AppInv

(* The refresh it makes presents what the page holds: the tip.             *)
LEMMA CallRefreshesKeeps ==
  ASSUME AppInv, Chain!IInv, NEW c \in Calls \cup {Load}, call[c].pc = "sent", NEW f \in Free,
         page.flight = None, stored.refresh # 0,
         call' = [call EXCEPT ![c].pc = "waiting"],
         page' = [page EXCEPT !.flight = f],
         Post(f, "refresh", stored.refresh), exit' = Raced,
         UNCHANGED <<enrollment, session, work, stored, lost>>
  PROVE  AppInv'
<1>1. UNCHANGED tables
  BY DEF tables
<1>2. stored.refresh \in Server!Opened
  BY DEF AppInv, PageInOrder
<1>3. /\ f \in Fetches /\ AllServed' /\ fetch' \in [Fetches -> FetchRow]
      /\ fetch'[f] = [use |-> "refresh", pc |-> "sent", key |-> stored.refresh, new |-> 0,
                      waited |-> TRUE]
      /\ \A g \in Fetches \ {f} : fetch'[g] = fetch[g]
      /\ \A g \in Fetches : \A u : Waited(g, u)' <=> Waited(g, u) \/ (g = f /\ u = "refresh")
  BY <1>1, <1>2, Posted DEF AppInv
<1>4. /\ call' \in [Calls \cup {Load} -> CallRow] /\ call'[c].pc = "waiting"
      /\ \A d \in Calls \cup {Load} : d # c => call'[d] = call[d]
  BY Rows DEF AppInv, CallRow
<1>5. /\ page' \in [phase: {"boot", "open"}, link: BOOLEAN, me: BOOLEAN,
                    flight: Fetches \cup {None}]
      /\ page'.flight = f /\ page'.link = page.link /\ page'.phase = page.phase
      /\ page'.me = page.me
  BY <1>3 DEF AppInv, AppTypeOK
<1>6. f # None /\ \A g \in Fetches : ~ Waited(g, "refresh")
  BY <1>3, DeviceAssumption DEF AppInv, PageInOrder, None
<1>7. /\ exit' \in [how: {"no", "clean", "raced", "left"}, of: 0 .. MaxSessions]
      /\ exit'.how \notin {"clean", "left"}
  BY DEF AppInv, AppTypeOK, Leaving, Raced
<1>8. AppTypeOK'
  BY <1>3, <1>4, <1>5, <1>6, <1>7 DEF AppInv, AppTypeOK, CallRow, FetchRow
<1>9. Keeps
  BY <1>1, TablesStay DEF tables
<1>10. PageInOrder'
  BY <1>3, <1>4, <1>5, <1>6, <1>9 DEF AppInv, PageInOrder, InFlight, Starting, Keeps
<1>11. lost' \/ Holding'
  <2>1. lost \/ Tip(stored.refresh)
    BY <1>6 DEF AppInv, Holding
  <2>2. \A g \in Fetches : lost \/ fetch[g].use # "refresh"
    BY <1>6 DEF AppInv, Holding, Waited
  <2> QED
    BY <1>3, <1>9, <2>1, <2>2, TipStays DEF AppInv, Holding
<1>12. Leaving'
  BY <1>7 DEF Leaving
<1> QED
  BY <1>3, <1>8, <1>10, <1>11, <1>12 DEF AppInv

(* The three answers to a 401 together.                                    *)
LEMMA CallDeniedKeeps ==
  ASSUME AppInv, Chain!IInv, NEW c \in Calls \cup {Load}, CallDenied(c)
  PROVE  AppInv'
<1>1. CASE page.flight # None /\ call' = [call EXCEPT ![c].pc = "waiting"]
           /\ UNCHANGED <<stored, page, fetch, exit>>
  BY <1>1, CallWaitsKeeps DEF CallDenied
<1>2. CASE \E f \in Free :
             /\ page.flight = None /\ stored.refresh # 0
             /\ call' = [call EXCEPT ![c].pc = "waiting"]
             /\ page' = [page EXCEPT !.flight = f]
             /\ Post(f, "refresh", stored.refresh)
             /\ exit' = Raced
             /\ UNCHANGED stored
  BY <1>2, CallRefreshesKeeps DEF CallDenied
<1>3. CASE /\ page.flight = None /\ stored.refresh = 0
           /\ call' = [call EXCEPT ![c] = Settled]
           /\ stored' = NoTokens /\ page' = SignedOut
           /\ UNCHANGED <<fetch, exit>>
  BY <1>3, CallEndsKeeps DEF CallDenied, InFlight
<1> QED
  BY <1>1, <1>2, <1>3 DEF CallDenied

(* The page is loaded again: what it waited for is forgotten.              *)
LEMMA ReloadKeeps ==
  ASSUME AppInv, Reload
  PROVE  AppInv'
<1>1. PICK link \in BOOLEAN :
        /\ page' = [phase |-> IF stored.refresh # 0 THEN "boot" ELSE "open", link |-> link,
                    me |-> FALSE, flight |-> None]
        /\ call' = [c \in Calls \cup {Load} |->
                      IF c = Load /\ stored.refresh # 0 THEN Made("sent") ELSE Settled]
        /\ fetch' = [f \in Fetches |-> Forgotten(fetch[f])]
        /\ lost' = (lost \/ \E f \in Fetches : Waited(f, "refresh") /\ fetch[f].pc # "refused")
        /\ exit' = IF exit.how = "left" THEN exit ELSE NoExit
        /\ UNCHANGED stored /\ UNCHANGED tables
  BY DEF Reload, tables
<1>2. GivesUp
  BY <1>1 DEF GivesUp
<1>3. AllServed' /\ fetch' \in [Fetches -> FetchRow]
      /\ \A f \in Fetches : \A u : ~ Waited(f, u)'
  BY <1>1, <1>2, ServedStays, Rows DEF AppInv, Waited
<1>4. /\ call' \in [Calls \cup {Load} -> CallRow]
      /\ \A c \in Calls : call'[c].pc = "settled"
      /\ call'[Load].pc \in {"settled", "sent"}
      /\ call'[Load].pc = "sent" => stored.refresh # 0
      /\ call'[Load].good => stored.access = "good"
  BY <1>1, Rows, DeviceAssumption DEF AppInv, Made, Settled, CallRow
<1>5. exit' \in [how: {"no", "clean", "raced", "left"}, of: 0 .. MaxSessions]
      /\ (exit'.how \in {"clean", "left"} => exit' = exit /\ exit.how = "left")
  BY <1>1, NumbersAssumption DEF AppInv, AppTypeOK, NoExit
<1>6. AppTypeOK'
  <2>1. lost' \in BOOLEAN
    BY <1>1 DEF AppInv, AppTypeOK
  <2>2. page' \in [phase: {"boot", "open"}, link: BOOLEAN, me: BOOLEAN,
                   flight: Fetches \cup {None}]
        /\ page'.flight = None /\ ~ page'.me
    BY <1>1
  <2>3. \A c \in Calls \cup {Load} : call'[c].pc # "waiting"
    BY <1>4
  <2> QED
    BY <1>1, <1>3, <1>4, <1>5, <2>1, <2>2, <2>3 DEF AppInv, AppTypeOK, CallRow, FetchRow
<1>7. Keeps /\ \A s : Server!Live(s)' <=> Server!Live(s)
  BY <1>1, TablesStay DEF tables
<1>8. PageInOrder'
  BY <1>1, <1>3, <1>4, <1>7 DEF AppInv, PageInOrder, InFlight, Starting, Keeps
<1>9. lost' \/ Holding'
  <2> SUFFICES ASSUME ~ lost'
               PROVE  Holding'
    OBVIOUS
  <2>1. Holding /\ \A f \in Fetches : Waited(f, "refresh") => fetch[f].pc = "refused"
    BY <1>1 DEF AppInv
  <2>2. \A f \in Fetches : fetch[f] \in FetchRow
    BY Rows DEF AppInv
  <2>3. \A f \in Fetches :
          /\ fetch'[f].pc # "answered"
          /\ fetch'[f].use # None => fetch'[f].use = fetch[f].use /\ fetch[f].pc \in {"sent", "served"}
    BY <1>1, <2>2, Rows DEF AppInv, NoFetch, None
  <2>4. \A f \in Fetches : fetch'[f].use # "refresh"
    BY <2>1, <2>3 DEF Holding, Waited, None
  <2>5. stored.refresh # 0 => Tip(stored.refresh)
    BY <2>1 DEF Holding
  <2> QED
    BY <1>1, <1>7, <2>3, <2>4, <2>5, TipStays DEF Holding
<1>10. Leaving'
  BY <1>1, <1>3, <1>5, <1>7, TipStays DEF AppInv, Leaving, Keeps
<1> QED
  BY <1>3, <1>6, <1>8, <1>9, <1>10 DEF AppInv

(* A refresh is the one in flight, and some call waits for it: so loadMe   *)
(* is not asking too.                                                      *)
LEMMA OneRefresh ==
  ASSUME AppInv, NEW f \in Fetches, Waited(f, "refresh")
  PROVE  /\ page.flight = f /\ f # None
         /\ \A g \in Fetches : Waited(g, "refresh") => g = f
         /\ \A g \in Fetches : ~ Waited(g, "activate")
         /\ call[Load].pc \in {"settled", "waiting"}
         /\ exit.how \notin {"clean", "left"}
<1>1. page.flight = f /\ f # None /\ \A g \in Fetches : Waited(g, "refresh") => g = f
  BY DeviceAssumption DEF AppInv, PageInOrder, None
<1>2. PICK c \in Calls \cup {Load} : call[c].pc = "waiting"
  BY <1>1 DEF AppInv, PageInOrder
<1>3. call[Load].pc \in {"settled", "waiting"}
  BY <1>2 DEF AppInv, PageInOrder
<1>4. \A g \in Fetches : ~ Waited(g, "activate")
  BY <1>2 DEF AppInv, PageInOrder, Starting
<1>5. exit.how \notin {"clean", "left"}
  BY <1>1 DEF AppInv, Leaving
<1> QED
  BY <1>1, <1>3, <1>4, <1>5

(* The refresh succeeds.                                                   *)
LEMMA RefreshDoneKeeps ==
  ASSUME AppInv, Chain!IInv, NEW f \in Fetches, RefreshDone(f)
  PROVE  AppInv'
<1>1. /\ UNCHANGED tables /\ UNCHANGED <<lost, exit>>
      /\ Waited(f, "refresh") /\ fetch[f].pc = "answered"
      /\ stored' = [access |-> "good", refresh |-> fetch[f].new]
      /\ page' = [page EXCEPT !.flight = None]
      /\ call' = [c \in Calls \cup {Load} |->
                    IF call[c].pc = "waiting" THEN [pc |-> "resent", good |-> TRUE] ELSE call[c]]
      /\ fetch' = [fetch EXCEPT ![f] = Forgotten(fetch[f])]
  BY DEF RefreshDone, tables, Forget
<1>2. /\ fetch \in [Fetches -> FetchRow] /\ fetch[f] \in FetchRow
      /\ fetch' \in [Fetches -> FetchRow] /\ fetch'[f] = NoFetch
      /\ \A g \in Fetches \ {f} : fetch'[g] = fetch[g]
  BY <1>1, Rows DEF AppInv
<1>3. GivesUp
  BY <1>1, <1>2 DEF GivesUp
<1>4. AllServed' /\ (\A g \in Fetches : \A u : Waited(g, u)' => Waited(g, u)) /\ \A u : ~ Waited(f, u)'
  BY <1>1, <1>2, <1>3, ServedStays DEF AppInv, Waited, NoFetch
<1>5. /\ page.flight = f /\ f # None
      /\ \A g \in Fetches : Waited(g, "refresh") => g = f
      /\ call[Load].pc \in {"settled", "waiting"}
      /\ exit.how \notin {"clean", "left"}
  BY <1>1, OneRefresh
<1>6. fetch[f].new \in Server!Opened /\ fetch[f].new # 0 /\ fetch[f].new \in 0 .. MaxSessions
  BY <1>1, <1>2, ChainFacts DEF AppInv, AllServed, Served, Waited, FetchRow
<1>7. /\ call' \in [Calls \cup {Load} -> CallRow]
      /\ \A c \in Calls \cup {Load} :
           /\ call'[c].pc # "waiting"
           /\ call[c].pc = "settled" => call'[c].pc = "settled"
           /\ call'[c].pc = "settled" => call[c].pc = "settled"
  BY <1>1, Rows DEF AppInv, CallRow
<1>8. /\ page' \in [phase: {"boot", "open"}, link: BOOLEAN, me: BOOLEAN,
                    flight: Fetches \cup {None}]
      /\ page'.flight = None /\ page'.link = page.link /\ page'.phase = page.phase
      /\ page'.me = page.me
  BY <1>1 DEF AppInv, AppTypeOK
<1>9. AppTypeOK'
  BY <1>1, <1>2, <1>6, <1>7, <1>8 DEF AppInv, AppTypeOK, CallRow, FetchRow, None
<1>10. Keeps
  BY <1>1, TablesStay DEF tables
<1>11. PageInOrder'
  BY <1>1, <1>4, <1>5, <1>6, <1>7, <1>8, <1>10 DEF AppInv, PageInOrder, InFlight, Starting, Keeps
<1>12. lost' \/ Holding'
  <2> SUFFICES ASSUME ~ lost
               PROVE  Holding'
    BY <1>1
  <2>1. Holding /\ \A g \in Fetches \ {f} : fetch[g].use # "refresh"
    BY <1>5 DEF AppInv, Holding, Waited
  <2>2. Tip(fetch[f].new)
    BY <1>1, <2>1 DEF Holding, Waited
  <2> QED
    BY <1>1, <1>2, <1>10, <2>1, <2>2, TipStays DEF Holding, NoFetch, None
<1>13. Leaving'
  BY <1>1, <1>5 DEF Leaving
<1> QED
  BY <1>4, <1>9, <1>11, <1>12, <1>13 DEF AppInv

(* It fails: the session of the page ends.                                 *)
LEMMA RefreshFailsKeeps ==
  ASSUME AppInv, NEW f \in Fetches, RefreshFails(f)
  PROVE  AppInv'
<1>1. /\ UNCHANGED tables /\ UNCHANGED exit
      /\ Waited(f, "refresh")
      /\ stored' = NoTokens
      /\ page' = [SignedOut EXCEPT !.flight = None]
      /\ call' = [c \in Calls \cup {Load} |->
                    IF call[c].pc = "waiting" THEN Settled ELSE call[c]]
      /\ fetch' = [fetch EXCEPT ![f] = Forgotten(fetch[f])]
      /\ lost' = (lost \/ fetch[f].pc # "refused")
  BY DEF RefreshFails, tables, Forget
<1>2. /\ fetch \in [Fetches -> FetchRow] /\ fetch[f] \in FetchRow
      /\ fetch' \in [Fetches -> FetchRow] /\ ~ fetch'[f].waited
      /\ fetch'[f] = Forgotten(fetch[f])
      /\ \A g \in Fetches \ {f} : fetch'[g] = fetch[g]
  BY <1>1, Rows DEF AppInv
<1>3. GivesUp
  BY <1>2 DEF GivesUp
<1>4. AllServed' /\ (\A g \in Fetches : \A u : Waited(g, u)' => Waited(g, u)) /\ \A u : ~ Waited(f, u)'
  BY <1>1, <1>2, <1>3, ServedStays DEF AppInv, Waited
<1>5. /\ page.flight = f /\ f # None
      /\ \A g \in Fetches : Waited(g, "refresh") => g = f
      /\ \A g \in Fetches : ~ Waited(g, "activate")
      /\ call[Load].pc \in {"settled", "waiting"}
      /\ exit.how \notin {"clean", "left"}
  BY <1>1, OneRefresh
<1>6. /\ call' \in [Calls \cup {Load} -> CallRow]
      /\ call'[Load].pc = "settled"
      /\ \A c \in Calls \cup {Load} :
           /\ call'[c].pc # "waiting"
           /\ call[c].pc = "settled" => call'[c].pc = "settled"
  BY <1>1, <1>5, Rows DEF AppInv, CallRow, Settled
<1>7. /\ page' \in [phase: {"boot", "open"}, link: BOOLEAN, me: BOOLEAN,
                    flight: Fetches \cup {None}]
      /\ page'.flight = None /\ page'.link = page.link /\ page'.phase = "open"
      /\ ~ page'.me
  BY <1>1 DEF AppInv, AppTypeOK, SignedOut
<1>8. AppTypeOK'
  <2>1. stored' = [access |-> None, refresh |-> 0] /\ 0 \in 0 .. MaxSessions
    BY <1>1, NumbersAssumption DEF NoTokens
  <2>2. /\ stored' \in [access: {None, "good", "stale"}, refresh: 0 .. MaxSessions]
        /\ stored'.refresh = 0 <=> stored'.access = None
    BY <2>1
  <2>3. lost' \in BOOLEAN /\ exit' \in [how: {"no", "clean", "raced", "left"}, of: 0 .. MaxSessions]
    BY <1>1 DEF AppInv, AppTypeOK
  <2> QED
    BY <1>2, <1>6, <1>7, <2>2, <2>3 DEF AppTypeOK, CallRow, FetchRow
<1>9. Keeps
  BY <1>1, TablesStay DEF tables
<1>10. PageInOrder'
  BY <1>1, <1>4, <1>5, <1>6, <1>7, <1>9 DEF AppInv, PageInOrder, InFlight, Starting, Keeps, NoTokens
<1>11. lost' \/ Holding'
  <2> SUFFICES ASSUME ~ lost'
               PROVE  Holding'
    OBVIOUS
  <2>1. Holding /\ fetch[f].pc = "refused"
    BY <1>1 DEF AppInv
  <2>2. fetch'[f] = NoFetch
    BY <1>2, <2>1, Rows DEF AppInv
  <2>3. \A g \in Fetches \ {f} : fetch[g].use # "refresh"
    BY <1>5, <2>1 DEF Holding, Waited
  <2> QED
    BY <1>1, <1>2, <1>9, <2>1, <2>2, <2>3, TipStays DEF Holding, NoFetch, NoTokens, None
<1>12. Leaving'
  BY <1>1, <1>5 DEF Leaving
<1> QED
  BY <1>4, <1>8, <1>10, <1>11, <1>12 DEF AppInv

(* activate is sent, by a page opened by a link that asks nothing else.    *)
LEMMA ActivateSendKeeps ==
  ASSUME AppInv, ActivateSend
  PROVE  AppInv'
<1>1. PICK f \in Free, e \in Server!Issued :
        /\ page.phase = "open" /\ page.link /\ call[Load] = Settled
        /\ \A g \in Fetches : ~ Waited(g, "activate")
        /\ Post(f, "activate", e) /\ exit' = NoExit
        /\ UNCHANGED tables /\ UNCHANGED <<stored, page, call, lost>>
  BY DEF ActivateSend, tables
<1>2. /\ f \in Fetches /\ AllServed' /\ fetch' \in [Fetches -> FetchRow]
      /\ fetch'[f] = [use |-> "activate", pc |-> "sent", key |-> e, new |-> 0, waited |-> TRUE]
      /\ \A g \in Fetches \ {f} : fetch'[g] = fetch[g]
      /\ \A g \in Fetches : \A u : Waited(g, u)' <=> Waited(g, u) \/ (g = f /\ u = "activate")
      /\ fetch[f] = NoFetch
  BY <1>1, Posted DEF AppInv
<1>3. AppTypeOK'
  <2>1. NoExit \in [how: {"no", "clean", "raced", "left"}, of: 0 .. MaxSessions]
    BY NumbersAssumption DEF NoExit
  <2> QED
    BY <1>1, <1>2, <2>1 DEF AppInv, AppTypeOK, FetchRow
<1>4. Keeps
  BY <1>1, TablesStay DEF tables
<1>5. PageInOrder'
  BY <1>1, <1>2, <1>4 DEF AppInv, PageInOrder, InFlight, Starting, Keeps, Settled
<1>6. lost' \/ Holding'
  BY <1>1, <1>2, <1>4, TipStays DEF AppInv, Holding, NoFetch, Waited
<1>7. Leaving'
  BY <1>1 DEF Leaving, NoExit
<1> QED
  BY <1>2, <1>3, <1>5, <1>6, <1>7 DEF AppInv

(* Its answer, followed by loadMe, or its failure.                         *)
LEMMA ActivateDoneKeeps ==
  ASSUME AppInv, Chain!IInv, NEW f \in Fetches, ActivateDone(f)
  PROVE  AppInv'
<1>1. /\ UNCHANGED tables /\ UNCHANGED <<page, lost, exit>>
      /\ Waited(f, "activate")
      /\ fetch' = [fetch EXCEPT ![f] = Forgotten(fetch[f])]
      /\ \/ /\ fetch[f].pc = "answered"
            /\ stored' = [access |-> "good", refresh |-> fetch[f].new]
            /\ call' = [call EXCEPT ![Load] = [pc |-> "sent", good |-> TRUE]]
         \/ UNCHANGED <<stored, call>>
  BY DEF ActivateDone, tables, Forget
<1>2. /\ fetch \in [Fetches -> FetchRow] /\ fetch[f] \in FetchRow
      /\ fetch' \in [Fetches -> FetchRow] /\ ~ fetch'[f].waited
      /\ fetch'[f] = Forgotten(fetch[f])
      /\ fetch'[f].use \in {None, "activate"} /\ fetch'[f].pc # "answered"
      /\ \A g \in Fetches \ {f} : fetch'[g] = fetch[g]
  BY <1>1, Rows DEF AppInv, Waited, NoFetch
<1>3. GivesUp
  BY <1>2 DEF GivesUp
<1>4. /\ AllServed' /\ \A u : ~ Waited(f, u)'
      /\ \A g \in Fetches : \A u : Waited(g, u)' <=> Waited(g, u) /\ g # f
  BY <1>1, <1>2, <1>3, ServedStays DEF AppInv, Waited
<1>5. /\ page.link /\ call[Load].pc = "settled" /\ \A c \in Calls : call[c].pc = "settled"
      /\ \A g \in Fetches : Waited(g, "activate") => g = f
      /\ \A g \in Fetches : ~ Waited(g, "logout")
  BY <1>1 DEF AppInv, PageInOrder, Starting
<1>6. page.flight = None /\ exit.how # "left" /\ \A g \in Fetches : ~ Waited(g, "refresh")
  <2>1. page.flight = None
    BY <1>5 DEF AppInv, PageInOrder
  <2> QED
    BY <2>1, <1>1, DeviceAssumption DEF AppInv, PageInOrder, Leaving, None
<1>7. fetch[f].pc = "answered" =>
        fetch[f].new \in Server!Opened /\ fetch[f].new # 0 /\ fetch[f].new \in 0 .. MaxSessions
  BY <1>1, <1>2, ChainFacts DEF AppInv, AllServed, Served, Waited, FetchRow
<1>8. /\ call' \in [Calls \cup {Load} -> CallRow]
      /\ \A c \in Calls \cup {Load} : call'[c].pc # "waiting"
      /\ \A c \in Calls : call'[c].pc = "settled"
      /\ call'[Load].pc # "settled" => stored'.access = "good"
  <2>1. call \in [Calls \cup {Load} -> CallRow] /\ [pc |-> "sent", good |-> TRUE] \in CallRow
    BY Rows DEF AppInv, CallRow
  <2>2. CASE UNCHANGED call
    BY <1>5, <2>1, <2>2
  <2>3. CASE /\ stored' = [access |-> "good", refresh |-> fetch[f].new]
             /\ call' = [call EXCEPT ![Load] = [pc |-> "sent", good |-> TRUE]]
    BY <1>5, <2>1, <2>3, DeviceAssumption
  <2> QED
    BY <1>1, <2>2, <2>3
<1>9. /\ stored' \in [access: {None, "good", "stale"}, refresh: 0 .. MaxSessions]
      /\ stored'.refresh = 0 <=> stored'.access = None
      /\ page.me => stored'.refresh # 0
      /\ stored'.refresh # 0 => stored'.refresh \in Server!Opened
  <2>1. CASE UNCHANGED stored
    BY <2>1 DEF AppInv, AppTypeOK, PageInOrder
  <2>2. CASE fetch[f].pc = "answered" /\ stored' = [access |-> "good", refresh |-> fetch[f].new]
    BY <2>2, <1>7 DEF None
  <2> QED
    BY <1>1, <2>1, <2>2
<1>10. AppTypeOK'
  BY <1>1, <1>2, <1>6, <1>8, <1>9 DEF AppInv, AppTypeOK, CallRow, FetchRow
<1>11. Keeps
  BY <1>1, TablesStay DEF tables
<1>12. PageInOrder'
  BY <1>1, <1>4, <1>5, <1>6, <1>8, <1>9, <1>11 DEF AppInv, PageInOrder, InFlight, Starting, Keeps
<1>13. lost' \/ Holding'
  <2> SUFFICES ASSUME ~ lost
               PROVE  Holding'
    BY <1>1
  <2>1. Holding /\ \A g \in Fetches : fetch[g].use # "refresh"
    BY <1>6 DEF AppInv, Holding, Waited
  <2>2. stored'.refresh # 0 => Tip(stored'.refresh)
    <3>1. CASE UNCHANGED stored
      BY <1>6, <2>1, <3>1 DEF Holding
    <3>2. CASE fetch[f].pc = "answered" /\ stored' = [access |-> "good", refresh |-> fetch[f].new]
      BY <1>1, <2>1, <3>2 DEF Holding, Waited
    <3> QED
      BY <1>1, <3>1, <3>2
  <2> QED
    BY <1>1, <1>2, <1>11, <2>1, <2>2, TipStays DEF Holding, None
<1>14. Leaving'
  BY <1>1, <1>4, <1>5, <1>6, <1>11, TipStays DEF AppInv, Leaving, Keeps
<1> QED
  BY <1>4, <1>10, <1>12, <1>13, <1>14 DEF AppInv

(* logout is sent: with no refresh in flight the page holds the tip, so no *)
(* other session of the enrollment is good.                                *)
LEMMA LogoutSendKeeps ==
  ASSUME AppInv, LogoutSend
  PROVE  AppInv'
<1>1. PICK f \in Free :
        /\ page.me /\ ~ page.link
        /\ \A g \in Fetches : ~ Waited(g, "logout")
        /\ Post(f, "logout", stored.refresh)
        /\ exit' = [how |-> IF page.flight = None THEN "clean" ELSE "raced", of |-> stored.refresh]
        /\ UNCHANGED tables /\ UNCHANGED <<stored, page, call, lost>>
  BY DEF LogoutSend, tables
<1>2. stored.refresh \in Server!Opened /\ stored.refresh \in 0 .. MaxSessions /\ ~ Starting
  BY <1>1 DEF AppInv, AppTypeOK, PageInOrder, Starting
<1>3. /\ f \in Fetches /\ AllServed' /\ fetch' \in [Fetches -> FetchRow]
      /\ fetch'[f] = [use |-> "logout", pc |-> "sent", key |-> stored.refresh, new |-> 0,
                      waited |-> TRUE]
      /\ \A g \in Fetches \ {f} : fetch'[g] = fetch[g]
      /\ \A g \in Fetches : \A u : Waited(g, u)' <=> Waited(g, u) \/ (g = f /\ u = "logout")
      /\ fetch[f] = NoFetch
  BY <1>1, <1>2, Posted DEF AppInv
<1>4. AppTypeOK'
  <2>1. exit' \in [how: {"no", "clean", "raced", "left"}, of: 0 .. MaxSessions]
    BY <1>1, <1>2
  <2> QED
    BY <1>1, <1>3, <2>1 DEF AppInv, AppTypeOK, FetchRow
<1>5. Keeps
  BY <1>1, TablesStay DEF tables
<1>6. PageInOrder'
  BY <1>1, <1>2, <1>3, <1>5 DEF AppInv, PageInOrder, InFlight, Starting, Keeps
<1>7. lost' \/ Holding'
  BY <1>1, <1>3, <1>5, TipStays DEF AppInv, Holding, NoFetch, Waited
<1>8. Leaving'
  <2>1. page.flight = None => lost \/ Tip(stored.refresh)
    BY <1>2, DeviceAssumption, <1>1 DEF AppInv, AppTypeOK, Holding, PageInOrder, None
  <2>2. page.flight = None => lost \/ Last(stored.refresh)'
    BY <1>1, <1>2, <1>5, <2>1 DEF Tip, Last, Keeps
  <2>3. exit'.how \in {"clean", "left"} => page.flight = None /\ exit'.of = stored.refresh
        /\ exit'.how # "left"
    BY <1>1
  <2> QED
    BY <1>1, <1>2, <1>3, <1>5, <2>2, <2>3 DEF Leaving, Keeps
<1> QED
  BY <1>3, <1>4, <1>6, <1>7, <1>8 DEF AppInv

(* The session of the page ends, whatever the answer.                      *)
LEMMA LogoutDoneKeeps ==
  ASSUME AppInv, NEW f \in Fetches, LogoutDone(f)
  PROVE  AppInv'
<1>1. /\ UNCHANGED tables /\ UNCHANGED <<call, lost>>
      /\ Waited(f, "logout")
      /\ stored' = NoTokens /\ page' = SignedOut
      /\ fetch' = [fetch EXCEPT ![f] = Forgotten(fetch[f])]
      /\ exit' = IF exit.how = "clean" /\ fetch[f].pc = "answered"
                   THEN [exit EXCEPT !.how = "left"] ELSE NoExit
  BY DEF LogoutDone, tables, Forget
<1>2. /\ fetch \in [Fetches -> FetchRow] /\ fetch[f] \in FetchRow
      /\ fetch' \in [Fetches -> FetchRow] /\ ~ fetch'[f].waited
      /\ fetch'[f] = Forgotten(fetch[f])
      /\ fetch'[f].use \in {None, "logout"} /\ fetch'[f].pc # "answered"
      /\ \A g \in Fetches \ {f} : fetch'[g] = fetch[g]
  BY <1>1, Rows DEF AppInv, Waited, NoFetch
<1>3. GivesUp
  BY <1>2 DEF GivesUp
<1>4. /\ AllServed' /\ \A u : ~ Waited(f, u)'
      /\ \A g \in Fetches : \A u : Waited(g, u)' <=> Waited(g, u) /\ g # f
  BY <1>1, <1>2, <1>3, ServedStays DEF AppInv, Waited
<1>5. ~ page.link /\ page.phase = "open" /\ call[Load].pc = "settled"
      /\ \A g \in Fetches : ~ Waited(g, "activate")
  BY <1>1 DEF AppInv, AppTypeOK, PageInOrder, Starting
<1>6. /\ page' \in [phase: {"boot", "open"}, link: BOOLEAN, me: BOOLEAN,
                    flight: Fetches \cup {None}]
      /\ page'.flight = page.flight /\ ~ page'.link /\ page'.phase = "open" /\ ~ page'.me
  BY <1>1, <1>5 DEF AppInv, AppTypeOK, SignedOut
<1>7. /\ exit' \in [how: {"no", "clean", "raced", "left"}, of: 0 .. MaxSessions]
      /\ exit'.how # "clean"
      /\ exit'.how = "left" => exit.how = "clean" /\ fetch[f].pc = "answered" /\ exit'.of = exit.of
  BY <1>1, NumbersAssumption DEF AppInv, AppTypeOK, NoExit
<1>8. AppTypeOK'
  <2>1. stored' = [access |-> None, refresh |-> 0] /\ 0 \in 0 .. MaxSessions
    BY <1>1, NumbersAssumption DEF NoTokens
  <2>2. /\ stored' \in [access: {None, "good", "stale"}, refresh: 0 .. MaxSessions]
        /\ stored'.refresh = 0 <=> stored'.access = None
    BY <2>1
  <2>3. page'.flight # None => Waited(page.flight, "refresh") /\ page.flight # f
    BY <1>1, <1>6 DEF AppInv, AppTypeOK, Waited
  <2>4. lost' \in BOOLEAN /\ call' \in [Calls \cup {Load} -> CallRow]
        /\ \A c \in Calls \cup {Load} : call'[c].pc = "waiting" => page'.flight # None
    BY <1>1, <1>6 DEF AppInv, AppTypeOK, CallRow
  <2> QED
    BY <1>2, <1>6, <1>7, <2>2, <2>3, <2>4 DEF AppTypeOK, CallRow, FetchRow, Waited
<1>9. Keeps /\ \A s : Server!Live(s)' <=> Server!Live(s)
  BY <1>1, TablesStay DEF tables
<1>10. PageInOrder'
  BY <1>1, <1>4, <1>5, <1>6, <1>9 DEF AppInv, PageInOrder, InFlight, Starting, Keeps, NoTokens
<1>11. lost' \/ Holding'
  <2> SUFFICES ASSUME ~ lost
               PROVE  Holding'
    BY <1>1
  <2>1. Holding /\ stored'.refresh = 0
    BY <1>1 DEF AppInv, NoTokens
  <2> QED
    BY <1>2, <1>9, <2>1, TipStays DEF Holding, None
<1>12. Leaving'
  <2>1. stored'.refresh = 0
    BY <1>1 DEF NoTokens
  <2>2. exit'.how = "left" =>
          /\ page.flight = None /\ exit.of \in Server!Opened
          /\ lost \/ Last(exit.of)
          /\ ~ Server!Live(exit.of)
    BY <1>1, <1>7 DEF AppInv, Leaving
  <2>3. exit'.how = "left" => lost \/ Last(exit.of)'
    BY <1>7, <1>9, <2>2 DEF Last, Keeps
  <2> QED
    BY <1>1, <1>4, <1>5, <1>6, <1>7, <1>9, <2>1, <2>2, <2>3 DEF Leaving, Keeps
<1> QED
  BY <1>4, <1>8, <1>10, <1>11, <1>12 DEF AppInv

(* The access token of the page and of its calls runs out.                 *)
LEMMA ExpireAccessKeeps ==
  ASSUME AppInv, ExpireAccess
  PROVE  AppInv'
<1>1. /\ UNCHANGED tables /\ UNCHANGED <<page, fetch, lost, exit>> /\ GivesUp
      /\ stored.access = "good" /\ stored' = [stored EXCEPT !.access = "stale"]
      /\ call' = [c \in Calls \cup {Load} |-> [call[c] EXCEPT !.good = FALSE]]
  BY DEF ExpireAccess, tables, GivesUp
<1>2. AllServed' /\ \A f \in Fetches : \A u : Waited(f, u)' <=> Waited(f, u)
  BY <1>1, ServedStays DEF AppInv, Waited
<1>3. /\ call' \in [Calls \cup {Load} -> CallRow]
      /\ \A c \in Calls \cup {Load} : call'[c].pc = call[c].pc /\ ~ call'[c].good
  BY <1>1, Rows DEF AppInv, CallRow
<1>4. /\ stored' \in [access: {None, "good", "stale"}, refresh: 0 .. MaxSessions]
      /\ stored'.refresh = stored.refresh /\ stored'.access = "stale"
  BY <1>1 DEF AppInv, AppTypeOK
<1>5. AppTypeOK'
  BY <1>1, <1>2, <1>3, <1>4 DEF AppInv, AppTypeOK, CallRow, None
<1>6. Keeps /\ \A s : Server!Live(s)' <=> Server!Live(s)
  BY <1>1, TablesStay DEF tables
<1>7. PageInOrder'
  BY <1>1, <1>2, <1>3, <1>4, <1>6 DEF AppInv, PageInOrder, InFlight, Starting, Keeps
<1>8. lost' \/ Holding'
  BY <1>1, <1>2, <1>4, <1>6, TipStays DEF AppInv, Holding, Keeps
<1>9. Leaving'
  BY <1>1, <1>2, <1>4, <1>6, TipStays DEF AppInv, Leaving, Keeps
<1> QED
  BY <1>2, <1>5, <1>7, <1>8, <1>9 DEF AppInv

-----------------------------------------------------------------------------
(* The API                                                                 *)

(* A step of the API that grants no tokens: the fetch goes on, or is       *)
(* answered if the page still waits for it.                                *)
LEMMA ApiKeeps ==
  ASSUME AppInv, Chain!IInv, Keeps, UNCHANGED browser,
         NEW f \in Fetches, NEW x \in FetchRow,
         fetch' = [fetch EXCEPT ![f] = x],
         Served(f)', \A g \in Fetches \ {f} : work'[g] = work[g],
         \/ x = NoFetch /\ ~ fetch[f].waited
         \/ /\ x.use = fetch[f].use /\ x.key = fetch[f].key /\ x.waited = fetch[f].waited
            /\ x.pc \in {"sent", "served", "answered", "refused"}
            /\ x.pc = "answered" => x.use = "logout" /\ ~ Server!Live(x.key)'
            /\ fetch[f].pc \in {"sent", "served"}
  PROVE  AppInv'
<1>1. UNCHANGED <<stored, page, call, lost, exit>>
  BY DEF browser
<1>2. /\ fetch \in [Fetches -> FetchRow] /\ fetch' \in [Fetches -> FetchRow]
      /\ fetch'[f] = x /\ \A g \in Fetches \ {f} : fetch'[g] = fetch[g]
  BY Rows DEF AppInv
<1>3. \A g \in Fetches : \A u : Waited(g, u)' <=> Waited(g, u)
  BY <1>2 DEF Waited, NoFetch
<1>4. AllServed'
  <2>1. ASSUME NEW g \in Fetches \ {f}
        PROVE  Served(g)'
    BY <1>2, <2>1 DEF AppInv, AllServed, Served, Keeps
  <2> QED
    BY <2>1 DEF AllServed
<1>5. AppTypeOK'
  BY <1>1, <1>2, <1>3 DEF AppInv, AppTypeOK, FetchRow
<1>6. PageInOrder'
  BY <1>1, <1>3 DEF AppInv, PageInOrder, InFlight, Starting, Keeps
<1>7. lost' \/ Holding'
  <2> SUFFICES ASSUME ~ lost
               PROVE  Holding'
    BY <1>1
  <2>1. Holding
    BY DEF AppInv
  <2>2. ASSUME NEW g \in Fetches
        PROVE  /\ fetch'[g].use = "refresh" => fetch'[g].waited /\ stored.refresh \in {0, fetch'[g].key}
               /\ fetch'[g].use = "refresh" /\ fetch'[g].pc \in {"sent", "served"} => Tip(fetch[g].key)'
               /\ fetch'[g].pc = "answered" /\ fetch'[g].use # "logout" => Tip(fetch[g].new)'
    <3>1. CASE g # f
      BY <1>2, <2>1, <3>1, TipStays DEF Holding
    <3>2. CASE g = f
      BY <1>2, <2>1, <3>2, TipStays DEF Holding, NoFetch, None
    <3> QED
      BY <3>1, <3>2
  <2>3. stored.refresh # 0 =>
          \/ Tip(stored.refresh)'
          \/ \E g \in Fetches : Waited(g, "refresh")' /\ fetch'[g].pc = "answered"
    <3>1. CASE Tip(stored.refresh)
      BY <1>1, <3>1 DEF Tip, Keeps
    <3>2. ASSUME NEW g \in Fetches, Waited(g, "refresh"), fetch[g].pc = "answered"
          PROVE  Waited(g, "refresh")' /\ fetch'[g].pc = "answered"
      BY <1>2, <1>3, <3>2 DEF Waited
    <3> QED
      BY <2>1, <3>1, <3>2 DEF Holding
  <2> QED
    BY <1>1, <2>2, <2>3 DEF Holding
<1>8. Leaving'
  <2>1. ASSUME exit.how = "clean", NEW g \in Fetches, Waited(g, "logout")
        PROVE  /\ fetch'[g].key = exit.of
               /\ fetch'[g].pc = "answered" => ~ Server!Live(exit.of)'
    <3>1. fetch[g].key = exit.of /\ exit.of \in Server!Opened
          /\ (fetch[g].pc = "answered" => ~ Server!Live(exit.of))
      BY <2>1 DEF AppInv, Leaving
    <3>2. CASE g # f
      BY <1>1, <1>2, <3>1, <3>2 DEF Keeps
    <3>3. CASE g = f
      BY <1>1, <1>2, <1>3, <2>1, <3>1, <3>3 DEF Waited, NoFetch
    <3> QED
      BY <3>2, <3>3
  <2>2. exit.how \in {"clean", "left"} =>
          page.flight = None /\ exit.of \in Server!Opened' /\ (lost \/ Last(exit.of)')
    BY <1>1 DEF AppInv, Leaving, Last, Keeps
  <2>3. exit.how = "left" => stored.refresh = 0 /\ ~ Server!Live(exit.of)'
    BY <1>1 DEF AppInv, Leaving, Keeps
  <2>4. exit.how = "left" => \A g \in Fetches : ~ Waited(g, "activate")'
    BY <1>3 DEF AppInv, Leaving
  <2> QED
    BY <1>1, <1>3, <2>1, <2>2, <2>3, <2>4 DEF Leaving
<1> QED
  BY <1>4, <1>5, <1>6, <1>7, <1>8 DEF AppInv

(* Only a fetch that is being served has a request.                        *)
LEMMA ServedFetch ==
  ASSUME AppInv, Chain!IInv, NEW f \in Fetches
  PROVE  /\ f \in Workers /\ work \in [Workers -> Chain!Request]
         /\ fetch \in [Fetches -> FetchRow] /\ Served(f)
         /\ fetch[f].pc = "sent" => work[f] = Server!NoRequest
         /\ work[f] # Server!NoRequest =>
              /\ fetch[f].pc = "served" /\ work[f].op = fetch[f].use
              /\ fetch[f].use \in {"refresh", "activate"}
              /\ [fetch[f] EXCEPT !.pc = "refused"] \in FetchRow
<1>1. /\ f \in Workers /\ work \in [Workers -> Chain!Request]
      /\ fetch \in [Fetches -> FetchRow] /\ Served(f)
  BY ChainFacts, Rows DEF Workers, AppInv, AllServed
<1>2. \A r \in FetchRow : [r EXCEPT !.pc = "refused"] \in FetchRow
  BY DEF FetchRow
<1> QED
  BY <1>1, <1>2 DEF Served

(* A fetch that is refused, or lost.                                       *)
LEMMA DropKeeps ==
  ASSUME AppInv, Chain!IInv, NEW f \in Fetches, Drop(f)
  PROVE  AppInv'
<1> DEFINE x == IF fetch[f].waited THEN [fetch[f] EXCEPT !.pc = "refused"] ELSE NoFetch
<1>1. /\ fetch[f].pc = "sent" /\ fetch' = [fetch EXCEPT ![f] = x]
      /\ UNCHANGED tables /\ UNCHANGED browser
  BY DEF Drop, Reply, Refused, tables, browser
<1>2. /\ work[f] = Server!NoRequest /\ fetch[f] \in FetchRow /\ fetch \in [Fetches -> FetchRow]
      /\ Served(f)
  BY <1>1, ServedFetch
<1>3. x \in FetchRow /\ fetch'[f] = x
      /\ \/ x = NoFetch /\ ~ fetch[f].waited
         \/ /\ x.use = fetch[f].use /\ x.key = fetch[f].key /\ x.waited = fetch[f].waited
            /\ x.pc = "refused" /\ fetch[f].waited
  BY <1>1, <1>2, Rows DEF AppInv, FetchRow
<1> HIDE DEF x
<1>4. Keeps
  BY <1>1, TablesStay DEF tables
<1>5. Served(f)'
  BY <1>1, <1>2, <1>3, <1>4 DEF tables, Served, NoFetch, None, Keeps, Server!NoRequest
<1> QED
  BY <1>1, <1>2, <1>3, <1>4, <1>5, ApiKeeps DEF tables

(* A fetch arrives: its request begins, or the session is closed.          *)
LEMMA ArriveKeeps ==
  ASSUME AppInv, Chain!IInv, NEW f \in Fetches, Arrive(f)
  PROVE  AppInv'
<1>1. fetch[f].pc = "sent" /\ UNCHANGED browser
  BY DEF Arrive
<1>2. /\ f \in Workers /\ work \in [Workers -> Chain!Request]
      /\ fetch[f] \in FetchRow /\ fetch \in [Fetches -> FetchRow]
      /\ Served(f) /\ work[f] = Server!NoRequest
  BY <1>1, ServedFetch
<1>3. CASE /\ \/ fetch[f].use = "refresh" /\ Server!RefreshFind(f, fetch[f].key)
              \/ fetch[f].use = "activate" /\ Server!ActivateFind(f, fetch[f].key)
           /\ fetch' = [fetch EXCEPT ![f].pc = "served"]
  <2> DEFINE x == [fetch[f] EXCEPT !.pc = "served"]
  <2>1. /\ x \in FetchRow /\ fetch' = [fetch EXCEPT ![f] = x] /\ fetch'[f] = x
        /\ x.use = fetch[f].use /\ x.key = fetch[f].key /\ x.waited = fetch[f].waited
        /\ x.new = fetch[f].new /\ x.pc = "served"
    BY <1>2, <1>3 DEF FetchRow
  <2> HIDE DEF x
  <2>2. /\ UNCHANGED session
        /\ \A g \in Fetches \ {f} : work'[g] = work[g]
        /\ work'[f].op = fetch[f].use /\ work'[f].key = fetch[f].key
        /\ \/ work'[f].op = "refresh" /\ work'[f].pc \in {"found", "reused", "burning"}
           \/ work'[f].op = "activate" /\ work'[f].pc \in {"found", "locking"}
    <3>1. CASE fetch[f].use = "refresh" /\ Server!RefreshFind(f, fetch[f].key)
      BY <1>2, <3>1 DEF Server!RefreshFind, Server!Begin, Server!NoRequest, Workers
    <3>2. CASE fetch[f].use = "activate" /\ Server!ActivateFind(f, fetch[f].key)
      BY <1>2, <3>2 DEF Server!ActivateFind, Server!Begin, Server!NoRequest, Workers
    <3> QED
      BY <1>3, <3>1, <3>2
  <2>3. Keeps
    BY <2>2, TablesStay
  <2>4. Served(f)'
    BY <1>1, <1>2, <2>1, <2>2, <2>3 DEF Served, Keeps
  <2> QED
    BY <1>1, <2>1, <2>2, <2>3, <2>4, ApiKeeps
<1>4. CASE /\ fetch[f].use = "logout"
           /\ Server!Logout(f, fetch[f].key) \/ (~ Server!Live(fetch[f].key) /\ UNCHANGED tables)
           /\ Reply(f, [fetch[f] EXCEPT !.pc = "answered"])
  <2> DEFINE x == IF fetch[f].waited THEN [fetch[f] EXCEPT !.pc = "answered"] ELSE NoFetch
  <2>1. x \in FetchRow /\ fetch' = [fetch EXCEPT ![f] = x] /\ fetch'[f] = x
        /\ \/ x = NoFetch /\ ~ fetch[f].waited
           \/ /\ x.use = "logout" /\ x.key = fetch[f].key /\ x.waited = fetch[f].waited
              /\ x.pc = "answered" /\ fetch[f].waited
    BY <1>2, <1>4, Rows DEF AppInv, FetchRow, Reply
  <2> HIDE DEF x
  <2>2. work' = work /\ Keeps /\ \A k : k = fetch[f].key => ~ Server!Live(k)'
    <3>1. CASE Server!Logout(f, fetch[f].key)
      <4>1. /\ work' = work /\ {fetch[f].key} \in SUBSET Server!Opened
            /\ session' = Server!Revoke(session, {fetch[f].key})
        BY <3>1 DEF Server!Logout, Server!Live
      <4>2. Keeps /\ \A s \in {fetch[f].key} : ~ Server!Live(s)'
        BY <4>1, RevokeKeeps
      <4> QED
        BY <4>1, <4>2
    <3>2. CASE ~ Server!Live(fetch[f].key) /\ UNCHANGED tables
      BY <3>2, TablesStay DEF tables
    <3> QED
      BY <1>4, <3>1, <3>2
  <2>3. Served(f)'
    BY <1>1, <1>2, <1>4, <2>1, <2>2 DEF Served, NoFetch, None, Keeps, Server!NoRequest
  <2> QED
    BY <1>1, <1>4, <2>1, <2>2, <2>3, ApiKeeps
<1> QED
  BY <1>3, <1>4 DEF Arrive

(* A request that is refused, or that goes on: a wrong PIN, the lock, the  *)
(* chain of a reused token, an error.                                      *)
LEMMA DenyKeeps ==
  ASSUME AppInv, Chain!IInv, NEW f \in Fetches, Deny(f)
  PROVE  AppInv'
<1>1. /\ \/ Server!ActivateMiss(f) \/ Server!ActivateLock(f)
         \/ Server!ReuseRead(f) \/ Server!ReuseWrite(f) \/ Server!Abort(f)
      /\ IF work'[f] = Server!NoRequest THEN Reply(f, Refused(f)) ELSE UNCHANGED fetch
      /\ UNCHANGED browser
  BY DEF Deny
<1>2. work[f] # Server!NoRequest
  BY <1>1 DEF Server!ActivateMiss, Server!ActivateLock, Server!ReuseRead, Server!ReuseWrite,
              Server!Abort, Server!At, Server!NoRequest
<1>3. /\ f \in Workers /\ work \in [Workers -> Chain!Request]
      /\ fetch \in [Fetches -> FetchRow] /\ fetch[f] \in FetchRow /\ Served(f)
      /\ fetch[f].pc = "served" /\ work[f].op = fetch[f].use
      /\ fetch[f].use \in {"refresh", "activate"}
      /\ [fetch[f] EXCEPT !.pc = "refused"] \in FetchRow
  BY <1>2, ServedFetch
<1>4. Keeps
  <2>1. CASE Server!ReuseWrite(f)
    <3>1. work[f].seen \in SUBSET Server!Opened
      BY <1>3, <2>1, ChainFacts DEF Server!ReuseWrite, Server!At
    <3> QED
      BY <2>1, <3>1, RevokeKeeps DEF Server!ReuseWrite
  <2>2. CASE UNCHANGED session
    BY <2>2, TablesStay
  <2> QED
    BY <1>1, <2>1, <2>2 DEF Server!ActivateMiss, Server!ActivateLock, Server!ReuseRead, Server!Abort
<1>5. /\ \A g \in Fetches \ {f} : work'[g] = work[g]
      /\ \/ work'[f] = Server!NoRequest
         \/ /\ work'[f].op = work[f].op /\ work'[f].key = work[f].key
            /\ \/ work'[f].op = "activate" /\ work'[f].pc = "locking"
               \/ work'[f].op = "refresh" /\ work'[f].pc = "burning"
            /\ work'[f] # Server!NoRequest
  <2>1. CASE Server!Finish(f)
    BY <1>3, <2>1 DEF Server!Finish, Workers
  <2>2. CASE Server!At(f, "activate", "found") /\ Server!GoTo(f, "locking")
    BY <1>3, <2>2 DEF Server!GoTo, Server!At, Workers, Server!NoRequest, Chain!Request
  <2>3. CASE Server!ReuseRead(f)
    <3> DEFINE S == { t \in Server!Opened : /\ Server!Live(t)
                                           /\ session[t].enrollment =
                                                session[work[f].key].enrollment }
    <3>1. /\ work' = [work EXCEPT ![f].pc = "burning", ![f].seen = S]
          /\ work[f].op = "refresh"
      BY <2>3 DEF Server!ReuseRead, Server!At
    <3> HIDE DEF S
    <3>2. /\ \A g \in Workers \ {f} : work'[g] = work[g]
          /\ work'[f] = [[work[f] EXCEPT !.pc = "burning"] EXCEPT !.seen = S]
      BY <1>3, <3>1
    <3>3. work'[f].op = work[f].op /\ work'[f].key = work[f].key /\ work'[f].pc = "burning"
      BY <1>3, <3>2 DEF Chain!Request
    <3> QED
      BY <3>1, <3>2, <3>3 DEF Workers, Server!NoRequest
  <2> QED
    BY <1>1, <2>1, <2>2, <2>3
    DEF Server!ActivateMiss, Server!ActivateLock, Server!ReuseWrite, Server!Abort
<1>6. CASE work'[f] = Server!NoRequest
  <2> DEFINE x == IF fetch[f].waited THEN [fetch[f] EXCEPT !.pc = "refused"] ELSE NoFetch
  <2>1. x \in FetchRow /\ fetch' = [fetch EXCEPT ![f] = x] /\ fetch'[f] = x
        /\ \/ x = NoFetch /\ ~ fetch[f].waited
           \/ /\ x.use = fetch[f].use /\ x.key = fetch[f].key /\ x.waited = fetch[f].waited
              /\ x.pc = "refused" /\ fetch[f].waited
    BY <1>1, <1>3, <1>6, Rows DEF AppInv, FetchRow, Reply, Refused
  <2> HIDE DEF x
  <2>2. Served(f)'
    BY <1>3, <1>4, <1>6, <2>1 DEF Served, NoFetch, None, Keeps, Server!NoRequest
  <2> QED
    BY <1>1, <1>3, <1>4, <1>5, <2>1, <2>2, ApiKeeps
<1>7. CASE work'[f] # Server!NoRequest
  <2>1. fetch' = fetch /\ fetch' = [fetch EXCEPT ![f] = fetch[f]]
    BY <1>1, <1>3, <1>7
  <2>2. Served(f)'
    BY <1>3, <1>4, <1>5, <1>7, <2>1 DEF Served, Keeps
  <2> QED
    BY <1>1, <1>3, <1>4, <1>5, <2>1, <2>2, ApiKeeps
<1> QED
  BY <1>6, <1>7

(* Tokens are granted: the new session is the tip of its chain.            *)
LEMMA GrantKeeps ==
  ASSUME AppInv, Chain!IInv, Chain!IInv', NEW f \in Fetches, Grant(f)
  PROVE  AppInv'
<1>1. /\ Server!RefreshRotate(f) \/ Server!ActivateClaim(f)
      /\ UNCHANGED <<stored, page, call, lost, exit>>
  BY DEF Grant, browser
<1>2. PICK s \in Server!NextSession : Reply(f, [fetch[f] EXCEPT !.pc = "answered", !.new = s])
  BY DEF Grant
<1>3. /\ f \in Workers /\ work \in [Workers -> Chain!Request]
      /\ fetch \in [Fetches -> FetchRow] /\ fetch[f] \in FetchRow /\ Served(f)
      /\ fetch[f].pc = "served" /\ work[f].op = fetch[f].use
      /\ fetch[f].use \in {"refresh", "activate"}
  <2>1. work[f] # Server!NoRequest
    BY <1>1 DEF Server!RefreshRotate, Server!ActivateClaim, Server!At, Server!NoRequest
  <2> QED
    BY <2>1, ServedFetch
<1>4. /\ Server!Opened' = Server!Opened \cup {s} /\ s \notin Server!Opened
      /\ \A t \in Server!Opened :
           /\ session'[t].from = session[t].from
           /\ session'[t].enrollment = session[t].enrollment
           /\ Server!Live(t)' => Server!Live(t)
      /\ Tip(s)'
      /\ work' = [work EXCEPT ![f] = Server!NoRequest]
  BY <1>1, Granted
<1>5. \/ /\ fetch[f].use = "refresh" /\ work[f].key = fetch[f].key
         /\ session'[s].from = fetch[f].key
      \/ /\ fetch[f].use = "activate"
         /\ session'[s].from = 0
         /\ \A t \in Server!Opened : session[t].enrollment # session'[s].enrollment
  BY <1>1, <1>3, Granted DEF Server!RefreshRotate, Server!ActivateClaim, Server!At, Served
<1>6. s \in 0 .. MaxSessions
  BY NumbersAssumption DEF Server!NextSession, Server!Sessions
<1> DEFINE x == IF fetch[f].waited THEN [fetch[f] EXCEPT !.pc = "answered", !.new = s] ELSE NoFetch
<1>7. /\ x \in FetchRow /\ fetch' = [fetch EXCEPT ![f] = x] /\ fetch'[f] = x
      /\ \/ x = NoFetch /\ ~ fetch[f].waited
         \/ /\ x.use = fetch[f].use /\ x.key = fetch[f].key /\ x.waited = fetch[f].waited
            /\ x.pc = "answered" /\ x.new = s /\ fetch[f].waited
      /\ fetch' \in [Fetches -> FetchRow]
      /\ \A g \in Fetches \ {f} : fetch'[g] = fetch[g]
  BY <1>2, <1>3, <1>6, Rows DEF AppInv, FetchRow, Reply
<1> HIDE DEF x
<1>8. \A g \in Fetches : \A u : Waited(g, u)' <=> Waited(g, u)
  BY <1>7 DEF Waited, NoFetch
<1>9. AllServed'
  <2>1. ASSUME NEW g \in Fetches \ {f}
        PROVE  Served(g)'
    <3>1. g \in Workers
      BY DEF Workers
    <3> QED
      BY <1>3, <1>4, <1>7, <2>1, <3>1 DEF AppInv, AllServed, Served
  <2>2. work'[f] = Server!NoRequest
    BY <1>3, <1>4
  <2>3. fetch[f].use = "refresh" => fetch[f].key \in Server!Opened
    BY <1>3 DEF Served
  <2>4. Served(f)'
    BY <1>3, <1>4, <1>7, <2>2, <2>3 DEF Served, NoFetch, None
  <2> QED
    BY <2>1, <2>4 DEF AllServed
<1>10. AppTypeOK'
  BY <1>1, <1>7, <1>8 DEF AppInv, AppTypeOK, FetchRow
<1>11. PageInOrder'
  BY <1>1, <1>4, <1>8 DEF AppInv, PageInOrder, InFlight, Starting
<1>12. fetch[f].use = "activate" => \A t \in Server!Opened : (Tip(t) => Tip(t)') /\ (Last(t) => Last(t)')
  BY <1>4, <1>5, ChainFacts DEF Tip, Last
<1>13. lost' \/ Holding'
  <2> SUFFICES ASSUME ~ lost
               PROVE  Holding'
    BY <1>1
  <2>1. Holding
    BY DEF AppInv
  <2>2. CASE fetch[f].use = "refresh"
    <3>1. Waited(f, "refresh") /\ stored.refresh \in {0, fetch[f].key}
      BY <2>1, <2>2 DEF Holding, Waited
    <3>2. /\ \A g \in Fetches : Waited(g, "refresh") => g = f
          /\ \A g \in Fetches : ~ Waited(g, "activate")
      BY <3>1, OneRefresh
    <3>3. /\ \A g \in Fetches \ {f} : fetch[g].use # "refresh"
          /\ \A g \in Fetches \ {f} : fetch[g].pc = "answered" => fetch[g].use = "logout"
      BY <2>1, <3>2, Rows DEF AppInv, AllServed, Served, Holding, Waited, FetchRow, None
    <3>4. /\ fetch'[f].use = "refresh" /\ fetch'[f].waited /\ fetch'[f].key = fetch[f].key
          /\ fetch'[f].pc = "answered" /\ fetch'[f].new = s
      BY <1>7, <2>2, <3>1 DEF Waited
    <3> QED
      BY <1>1, <1>4, <1>7, <1>8, <3>1, <3>3, <3>4 DEF Holding
  <2>3. CASE fetch[f].use = "activate"
    <3>1. ASSUME NEW g \in Fetches \ {f}
          PROVE  /\ fetch[g].use = "refresh" => fetch[g].waited /\ stored.refresh \in {0, fetch[g].key}
                 /\ fetch[g].use = "refresh" /\ fetch[g].pc \in {"sent", "served"} => Tip(fetch[g].key)'
                 /\ fetch[g].pc = "answered" /\ fetch[g].use # "logout" => Tip(fetch[g].new)'
      BY <1>7, <1>12, <2>1, <2>3 DEF Holding, Tip
    <3>2. /\ fetch'[f].use # "refresh"
          /\ fetch'[f].pc = "answered" => fetch'[f].new = s
      BY <1>7, <2>3 DEF NoFetch, None
    <3>3. stored.refresh # 0 =>
            \/ Tip(stored.refresh)'
            \/ \E g \in Fetches : Waited(g, "refresh")' /\ fetch'[g].pc = "answered"
      <4>1. CASE Tip(stored.refresh)
        BY <1>1, <1>12, <2>3, <4>1 DEF Tip
      <4>2. ASSUME NEW g \in Fetches, Waited(g, "refresh"), fetch[g].pc = "answered"
            PROVE  Waited(g, "refresh")' /\ fetch'[g].pc = "answered"
        BY <1>3, <1>7, <1>8, <4>2
      <4> QED
        BY <2>1, <4>1, <4>2 DEF Holding
    <3> QED
      BY <1>1, <1>4, <1>7, <3>1, <3>2, <3>3 DEF Holding
  <2> QED
    BY <1>3, <2>2, <2>3
<1>14. Leaving'
  <2>1. ASSUME exit.how \in {"clean", "left"}
        PROVE  /\ page.flight = None /\ exit.of \in Server!Opened'
               /\ lost \/ Last(exit.of)'
               /\ ~ Server!Live(exit.of) => ~ Server!Live(exit.of)'
    <3>1. /\ page.flight = None /\ exit.of \in Server!Opened
          /\ lost \/ Last(exit.of)
      BY <2>1 DEF AppInv, Leaving
    <3>2. ~ lost => fetch[f].use = "activate"
      BY <1>3, <2>1, OneRefresh DEF AppInv, Holding, Waited
    <3>3. lost \/ Last(exit.of)'
      BY <1>1, <1>12, <3>1, <3>2 DEF Last
    <3> QED
      BY <1>1, <1>4, <3>1, <3>3
  <2>2. ASSUME exit.how = "clean", NEW g \in Fetches, Waited(g, "logout")
        PROVE  /\ fetch'[g].key = exit.of
               /\ fetch'[g].pc = "answered" => ~ Server!Live(exit.of)'
    <3>1. g # f
      BY <1>3, <2>2 DEF Waited
    <3> QED
      BY <1>1, <1>7, <2>1, <2>2, <3>1 DEF AppInv, Leaving
  <2>3. exit.how = "left" => stored.refresh = 0 /\ ~ Server!Live(exit.of)'
        /\ \A g \in Fetches : ~ Waited(g, "activate")'
    BY <1>8, <2>1 DEF AppInv, Leaving
  <2> QED
    BY <1>1, <1>8, <2>1, <2>2, <2>3 DEF Leaving
<1> QED
  BY <1>9, <1>10, <1>11, <1>13, <1>14 DEF AppInv

(* The staff opens no session and serves no fetch.                         *)
LEMMA DeskKeeps ==
  ASSUME AppInv, Chain!IInv, Desk
  PROVE  AppInv'
<1>1. /\ Server!AccessBegin(Staff) \/ Server!AccessHold(Staff) \/ Server!AccessWrite(Staff)
      /\ UNCHANGED <<stored, page, call, fetch, lost, exit>>
  BY DEF Desk
<1>2. /\ Staff \in Workers /\ work \in [Workers -> Chain!Request]
      /\ \A f \in Fetches : f \in Workers /\ f # Staff
  BY ChainFacts, DeviceAssumption DEF Workers
<1>3. \A f \in Fetches : work'[f] = work[f]
  <2>1. \E r : work' = [work EXCEPT ![Staff] = r]
    <3>1. CASE Server!AccessBegin(Staff)
      BY <3>1 DEF Server!AccessBegin, Server!Begin
    <3>2. CASE Server!AccessHold(Staff)
      <4>1. \E p, h, S : work' = [work EXCEPT ![Staff].pc = p, ![Staff].held = h, ![Staff].seen = S]
        BY <3>2 DEF Server!AccessHold
      <4>2. PICK p, h, S : work' = [work EXCEPT ![Staff].pc = p, ![Staff].held = h, ![Staff].seen = S]
        BY <4>1
      <4>3. work' = [work EXCEPT ![Staff] =
                       [[[work[Staff] EXCEPT !.pc = p] EXCEPT !.held = h] EXCEPT !.seen = S]]
        BY <1>2, <4>2
      <4> QED
        BY <4>3
    <3>3. CASE Server!AccessWrite(Staff)
      BY <3>3 DEF Server!AccessWrite, Server!Finish
    <3> QED
      BY <1>1, <3>1, <3>2, <3>3
  <2> QED
    BY <1>2, <2>1
<1>4. Keeps
  <2>1. CASE Server!AccessWrite(Staff)
    <3>1. work[Staff].seen \in SUBSET Server!Opened
      BY <1>2, <2>1, ChainFacts DEF Server!AccessWrite
    <3> QED
      BY <2>1, <3>1, RevokeKeeps DEF Server!AccessWrite
  <2>2. CASE UNCHANGED session
    BY <2>2, TablesStay
  <2> QED
    BY <1>1, <2>1, <2>2 DEF Server!AccessBegin, Server!AccessHold
<1>5. AllServed'
  BY <1>1, <1>3, <1>4 DEF AppInv, AllServed, Served, Keeps
<1>6. AppTypeOK'
  BY <1>1 DEF AppInv, AppTypeOK, Waited
<1>7. PageInOrder'
  BY <1>1, <1>4 DEF AppInv, PageInOrder, InFlight, Starting, Keeps, Waited
<1>8. lost' \/ Holding'
  BY <1>1, <1>4, TipStays DEF AppInv, Holding, Keeps, Waited
<1>9. Leaving'
  BY <1>1, <1>4, TipStays DEF AppInv, Leaving, Keeps, Waited
<1> QED
  BY <1>5, <1>6, <1>7, <1>8, <1>9 DEF AppInv

(* Nothing changes.                                                        *)
LEMMA StutterKeeps ==
  ASSUME AppInv, UNCHANGED vars
  PROVE  AppInv'
<1>1. UNCHANGED <<session, work, stored, page, call, fetch, lost, exit>>
  BY DEF vars
<1>2. Keeps
  BY <1>1, TablesStay
<1>3. AllServed'
  BY <1>1, <1>2 DEF AppInv, AllServed, Served, Keeps
<1>4. AppTypeOK'
  BY <1>1 DEF AppInv, AppTypeOK, Waited
<1>5. PageInOrder'
  BY <1>1, <1>2 DEF AppInv, PageInOrder, InFlight, Starting, Keeps, Waited
<1>6. lost' \/ Holding'
  BY <1>1, <1>2, TipStays DEF AppInv, Holding, Keeps, Waited
<1>7. Leaving'
  BY <1>1, <1>2, TipStays DEF AppInv, Leaving, Keeps, Waited
<1> QED
  BY <1>3, <1>4, <1>5, <1>6, <1>7 DEF AppInv

-----------------------------------------------------------------------------
(* The application is opened by a link.                                    *)
LEMMA BeginsInOrder ==
  ASSUME Init
  PROVE  AppInv
<1>1. /\ stored = NoTokens
      /\ page = [phase |-> "open", link |-> TRUE, me |-> FALSE, flight |-> None]
      /\ call = [c \in Calls \cup {Load} |-> Settled]
      /\ fetch = [f \in Fetches |-> NoFetch]
      /\ lost = FALSE /\ exit = NoExit
      /\ work = [w \in Workers |-> Server!NoRequest]
  BY DEF Init, Server!Init
<1>2. NoFetch \in FetchRow /\ Settled \in CallRow
  BY NumbersAssumption DEF NoFetch, FetchRow, Settled, CallRow, None
<1>3. AppTypeOK
  <2>1. /\ 0 \in 0 .. MaxSessions
        /\ stored \in [access: {None, "good", "stale"}, refresh: 0 .. MaxSessions]
        /\ exit \in [how: {"no", "clean", "raced", "left"}, of: 0 .. MaxSessions]
    BY <1>1, NumbersAssumption DEF NoTokens, NoExit
  <2>2. /\ call \in [Calls \cup {Load} -> CallRow] /\ fetch \in [Fetches -> FetchRow]
        /\ \A c \in Calls \cup {Load} : call[c].pc # "waiting"
    BY <1>1, <1>2 DEF Settled
  <2> QED
    BY <1>1, <2>1, <2>2 DEF AppTypeOK, CallRow, FetchRow, NoTokens
<1>4. AllServed
  BY <1>1 DEF AllServed, Served, NoFetch, Workers, None
<1>5. PageInOrder
  BY <1>1 DEF PageInOrder, Waited, NoFetch, NoTokens, Settled, InFlight, None, Starting
<1>6. Holding
  BY <1>1 DEF Holding, NoFetch, NoTokens, None
<1>7. Leaving
  BY <1>1 DEF Leaving, NoExit
<1> QED
  BY <1>3, <1>4, <1>5, <1>6, <1>7 DEF AppInv

(* One step of any kind.                                                   *)
LEMMA StepKeeps ==
  ASSUME AppInv, Chain!IInv, [Next]_vars
  PROVE  AppInv'
<1>1. Chain!IInv'
  BY SessionsKeep
<1>2. ASSUME NEW c \in Calls \cup {Load}, Answered(c)
      PROVE  AppInv'
  BY <1>2, CallOkKeeps, CallFailsKeeps, CallDeniedKeeps DEF Answered
<1>3. ASSUME NEW f \in Fetches, Completed(f)
      PROVE  AppInv'
  BY <1>3, RefreshDoneKeeps, RefreshFailsKeeps, ActivateDoneKeeps, LogoutDoneKeeps DEF Completed
<1>4. ASSUME NEW f \in Fetches, Arrive(f) \/ Grant(f) \/ Deny(f) \/ Drop(f)
      PROVE  AppInv'
  BY <1>1, <1>4, ArriveKeeps, GrantKeeps, DenyKeeps, DropKeeps
<1>5. ASSUME NEW c \in Calls, MakeCall(c)
      PROVE  AppInv'
  BY <1>5, MakeCallKeeps
<1> QED
  BY <1>2, <1>3, <1>4, <1>5, ReloadKeeps, ActivateSendKeeps, LogoutSendKeeps, ExpireAccessKeeps,
     DeskKeeps, StutterKeeps DEF Next

(* The inductive invariant, with that of the sessions.                     *)
LEMMA AppInvariant == Spec => [](AppInv /\ Chain!IInv)
<1>1. Init => AppInv /\ Chain!IInv
  BY BeginsInOrder, SessionsBegin
<1>2. AppInv /\ Chain!IInv /\ [Next]_vars => (AppInv /\ Chain!IInv)'
  BY StepKeeps, SessionsKeep
<1> QED
  BY <1>1, <1>2, PTL DEF Spec

(* The types; a call waits only for the refresh in flight, the page holds  *)
(* both tokens or none, and shows a customer only as long as it holds      *)
(* them (session.ts, http.ts), whatever ends at once.                      *)
THEOREM PageInStep == Spec => []AppTypeOK
<1>1. AppInv => AppTypeOK
  BY DEF AppInv
<1> QED
  BY <1>1, AppInvariant, PTL

(* The API takes no token of the page for a stolen one, unless the answer  *)
(* to a refresh was lost: the refreshes of a page are one at a time, and   *)
(* each presents the tip of the chain (refresh, session.ts).               *)
THEOREM NoTheftAlarm == Spec => []NoFalseAlarm
<1>1. AppInv /\ Chain!IInv => NoFalseAlarm
  <2> SUFFICES ASSUME AppInv, Chain!IInv, NEW f \in Fetches,
                      work[f].pc \in {"reused", "burning"}, ~ lost
               PROVE  \A s \in Server!Opened : session[s].from # work[f].key
    BY DEF NoFalseAlarm
  <2>1. work[f] # Server!NoRequest
    BY DEF Server!NoRequest
  <2>2. /\ fetch[f].pc = "served" /\ work[f].key = fetch[f].key
        /\ fetch[f].use = "refresh"
    BY <2>1, ServedFetch DEF Served
  <2>3. Tip(fetch[f].key)
    BY <2>2 DEF AppInv, Holding
  <2> QED
    BY <2>2, <2>3 DEF Tip
<1> QED
  BY <1>1, AppInvariant, PTL

(* An exit that the server has answered, and that no refresh overlapped,   *)
(* leaves no good session of the enrollment that the device had (logout,   *)
(* session.ts): the token it revokes is the only one that could be.        *)
THEOREM ExitEndsSessions == Spec => []ExitRevokes
<1>1. AppInv => ExitRevokes
  BY DEF AppInv, Leaving, Last, ExitRevokes
<1> QED
  BY <1>1, AppInvariant, PTL
=============================================================================
