----------------------------- MODULE CustomerApp -----------------------------
(***************************************************************************)
(* The customer application (apps/web-customer) against the sessions of    *)
(* CustomerSessions: one device, its localStorage, the page it shows and   *)
(* the requests the page has in flight, over a network that loses requests *)
(* and answers. A call that is answered 401 waits for one refresh, shared  *)
(* by all the calls of the page, and is made again once.                   *)
(*                                                                         *)
(* A call (GET or POST on the bookings, /customer/me) carries the access   *)
(* token the page had when it was made, which the API verifies without the *)
(* database: a call is answered 200 or 401 by that token alone. A fetch is *)
(* a request on the session tables; it is served by the worker of          *)
(* CustomerSessions with its name, also after the page has given it up.    *)
(* The page is single-threaded: what follows an answer up to the next      *)
(* request (the continuations of its promise) is one step with it.         *)
(*                                                                         *)
(* lost and exit are history variables: an answer to a refresh has been    *)
(* lost, and how far an explicit exit has got, of which session.           *)
(***************************************************************************)
EXTENDS Integers

CONSTANTS Calls,        \* the calls a view may have in flight
          Load,         \* the call of loadMe
          Fetches,      \* the requests to /customer/activate, refresh, logout
          Staff,        \* the worker that serves the staff
          Customers, MaxPinAttempts, MaxEnrollments, MaxSessions, MaxMisses

ASSUME DeviceAssumption ==
  Load \notin Calls /\ Staff \notin Fetches /\ "none" \notin Fetches
ASSUME NumbersAssumption ==
  /\ MaxPinAttempts \in Nat \ {0} /\ MaxMisses \in Nat
  /\ MaxEnrollments \in Nat /\ MaxSessions \in Nat

VARIABLES
  enrollment, session, work,    \* of CustomerSessions
  stored,       \* localStorage: the access token and the refresh token
  page,         \* the page: bootstrap, the link it was opened by, me, refreshInFlight
  call,         \* the calls of the page
  fetch,        \* the fetches
  lost, exit

Workers == Fetches \cup {Staff}

Server == INSTANCE CustomerSessions

tables == <<enrollment, session, work>>
vars == <<enrollment, session, work, stored, page, call, fetch, lost, exit>>

None == "none"
NoTokens == [access |-> None, refresh |-> 0]
Settled == [pc |-> "settled", good |-> FALSE]
NoExit == [how |-> "no", of |-> 0]
NoFetch == [use |-> None, pc |-> "free", key |-> 0, new |-> 0, waited |-> FALSE]

-----------------------------------------------------------------------------
(* apiFetch and the fetches                                                *)

Made(pc) == [pc |-> pc, good |-> stored.access = "good"]

Waited(f, use) == fetch[f].waited /\ fetch[f].use = use

Free == { f \in Fetches : fetch[f] = NoFetch /\ work[f] = Server!NoRequest }

Post(f, use, key) ==
  fetch' = [fetch EXCEPT ![f] =
    [use |-> use, pc |-> "sent", key |-> key, new |-> 0, waited |-> TRUE]]

(* The client is done with the fetch; the server may not be.               *)
Forgotten(x) ==
  IF x.pc \in {"sent", "served"} THEN [x EXCEPT !.waited = FALSE] ELSE NoFetch

Forget(f) == fetch' = [fetch EXCEPT ![f] = Forgotten(fetch[f])]

(* A refresh overlaps an exit that is under way.                           *)
Raced == IF exit.how = "clean" THEN [exit EXCEPT !.how = "raced"] ELSE exit

-----------------------------------------------------------------------------
(* The page                                                                *)

(* clearSession, and the end of the bootstrap if it was waiting.           *)
SignedOut == [page EXCEPT !.me = FALSE, !.phase = "open"]

(* The application is opened, or loaded again, by the link of an           *)
(* enrollment or not; rehydrate asks for /customer/me before the view.     *)
Reload ==
  \E link \in BOOLEAN :
     LET known == stored.refresh # 0
     IN  /\ page' = [phase |-> IF known THEN "boot" ELSE "open", link |-> link,
                     me |-> FALSE, flight |-> None]
         /\ call' = [c \in Calls \cup {Load} |->
                       IF c = Load /\ known THEN Made("sent") ELSE Settled]
         /\ fetch' = [f \in Fetches |-> Forgotten(fetch[f])]
         /\ lost' = (lost \/ \E f \in Fetches : Waited(f, "refresh") /\ fetch[f].pc # "refused")
         /\ exit' = IF exit.how = "left" THEN exit ELSE NoExit
         /\ UNCHANGED <<enrollment, session, work, stored>>

(* A view makes a call.                                                    *)
MakeCall(c) ==
  /\ page.me /\ ~ page.link
  /\ call[c] = Settled
  /\ call' = [call EXCEPT ![c] = Made("sent")]
  /\ UNCHANGED <<enrollment, session, work, stored, page, fetch, lost, exit>>

InFlight(c) == call[c].pc \in {"sent", "resent"}

(* loadMe sets me; the other calls leave the session alone.                *)
CallOk(c) ==
  /\ InFlight(c) /\ call[c].good
  /\ call' = [call EXCEPT ![c] = Settled]
  /\ page' = IF c # Load THEN page
             ELSE [page EXCEPT !.me = TRUE, !.phase = "open",
                               !.link = page.link /\ page.phase = "boot"]
  /\ UNCHANGED <<enrollment, session, work, stored, fetch, lost, exit>>

(* No answer, or an error other than 401: rehydrate ends the session.      *)
CallFails(c) ==
  /\ InFlight(c)
  /\ call' = [call EXCEPT ![c] = Settled]
  /\ IF page.phase = "boot" THEN stored' = NoTokens /\ page' = SignedOut
                            ELSE UNCHANGED <<stored, page>>
  /\ UNCHANGED <<enrollment, session, work, fetch, lost, exit>>

(* A variant that is not the code: each call has a refresh of its own.     *)
CallDeniedAlone(c) ==
  /\ call[c].pc = "sent" /\ ~ call[c].good
  /\ \E f \in Free :
        /\ stored.refresh # 0
        /\ call' = [call EXCEPT ![c].pc = "waiting"]
        /\ page' = [page EXCEPT !.flight = f]
        /\ Post(f, "refresh", stored.refresh)
        /\ exit' = Raced
        /\ UNCHANGED stored
  /\ UNCHANGED <<enrollment, session, work, lost>>

(* 401: refresh, the one in flight if there is one.                        *)
CallDenied(c) ==
  /\ call[c].pc = "sent" /\ ~ call[c].good
  /\ \/ /\ page.flight # None
        /\ call' = [call EXCEPT ![c].pc = "waiting"]
        /\ UNCHANGED <<stored, page, fetch, exit>>
     \/ \E f \in Free :
        /\ page.flight = None /\ stored.refresh # 0
        /\ call' = [call EXCEPT ![c].pc = "waiting"]
        /\ page' = [page EXCEPT !.flight = f]
        /\ Post(f, "refresh", stored.refresh)
        /\ exit' = Raced
        /\ UNCHANGED stored
     \/ /\ page.flight = None /\ stored.refresh = 0
        /\ call' = [call EXCEPT ![c] = Settled]
        /\ stored' = NoTokens /\ page' = SignedOut
        /\ UNCHANGED <<fetch, exit>>
  /\ UNCHANGED <<enrollment, session, work, lost>>

(* 401 again, after the refresh: onAuthFailure.                            *)
CallDeniedAgain(c) ==
  /\ call[c].pc = "resent" /\ ~ call[c].good
  /\ call' = [call EXCEPT ![c] = Settled]
  /\ stored' = NoTokens /\ page' = SignedOut
  /\ UNCHANGED <<enrollment, session, work, fetch, lost, exit>>

(* doRefresh succeeds: the tokens, and the calls that waited again.        *)
RefreshDone(f) ==
  /\ Waited(f, "refresh") /\ fetch[f].pc = "answered"
  /\ stored' = [access |-> "good", refresh |-> fetch[f].new]
  /\ page' = [page EXCEPT !.flight = None]
  /\ call' = [c \in Calls \cup {Load} |->
                IF call[c].pc = "waiting" THEN [pc |-> "resent", good |-> TRUE] ELSE call[c]]
  /\ Forget(f)
  /\ UNCHANGED <<enrollment, session, work, lost, exit>>

(* A variant that is not the code: the refresh goes through the            *)
(* interceptor, and its own 401 waits for the refresh in flight: itself.   *)
RefreshFailsWaiting(f) ==
  /\ Waited(f, "refresh") /\ fetch[f].pc # "refused"
  /\ stored' = NoTokens
  /\ page' = [SignedOut EXCEPT !.flight = None]
  /\ call' = [c \in Calls \cup {Load} |->
                IF call[c].pc = "waiting" THEN Settled ELSE call[c]]
  /\ Forget(f)
  /\ lost' = TRUE
  /\ UNCHANGED <<enrollment, session, work, exit>>

(* A variant that is not the code: refreshInFlight is not reset.           *)
RefreshFailsStays(f) ==
  /\ Waited(f, "refresh")
  /\ stored' = NoTokens
  /\ page' = SignedOut
  /\ call' = [c \in Calls \cup {Load} |->
                IF call[c].pc = "waiting" THEN Settled ELSE call[c]]
  /\ Forget(f)
  /\ lost' = (lost \/ fetch[f].pc # "refused")
  /\ UNCHANGED <<enrollment, session, work, exit>>

(* It is refused, or there is no answer: every call that waited ends the   *)
(* session and fails.                                                      *)
RefreshFails(f) ==
  /\ Waited(f, "refresh")
  /\ stored' = NoTokens
  /\ page' = [SignedOut EXCEPT !.flight = None]
  /\ call' = [c \in Calls \cup {Load} |->
                IF call[c].pc = "waiting" THEN Settled ELSE call[c]]
  /\ Forget(f)
  /\ lost' = (lost \/ fetch[f].pc # "refused")
  /\ UNCHANGED <<enrollment, session, work, exit>>

(* activate, and loadMe after it                                           *)
ActivateSend ==
  \E f \in Free, e \in Server!Issued :
     /\ page.phase = "open" /\ page.link
     /\ call[Load] = Settled
     /\ \A g \in Fetches : ~ Waited(g, "activate")
     /\ Post(f, "activate", e)
     /\ exit' = NoExit
     /\ UNCHANGED <<enrollment, session, work, stored, page, call, lost>>

ActivateDone(f) ==
  /\ Waited(f, "activate")
  /\ Forget(f)
  /\ \/ /\ fetch[f].pc = "answered"
        /\ stored' = [access |-> "good", refresh |-> fetch[f].new]
        /\ call' = [call EXCEPT ![Load] = [pc |-> "sent", good |-> TRUE]]
     \/ UNCHANGED <<stored, call>>
  /\ UNCHANGED <<enrollment, session, work, page, lost, exit>>

(* A variant that is not the code: the exit is local.                      *)
LogoutSendNothing ==
  /\ page.me /\ ~ page.link
  /\ stored' = NoTokens /\ page' = SignedOut
  /\ exit' = IF page.flight = None THEN [how |-> "left", of |-> stored.refresh] ELSE NoExit
  /\ UNCHANGED <<enrollment, session, work, call, fetch, lost>>

(* logout: the server first                                                *)
LogoutSend ==
  \E f \in Free :
     /\ page.me /\ ~ page.link
     /\ \A g \in Fetches : ~ Waited(g, "logout")
     /\ Post(f, "logout", stored.refresh)
     /\ exit' = [how |-> IF page.flight = None THEN "clean" ELSE "raced", of |-> stored.refresh]
     /\ UNCHANGED <<enrollment, session, work, stored, page, call, lost>>

(* A variant that is not the code: the exit waits for the server's answer. *)
LogoutDoneIfAnswered(f) ==
  /\ Waited(f, "logout") /\ fetch[f].pc = "answered"
  /\ stored' = NoTokens /\ page' = SignedOut
  /\ Forget(f)
  /\ exit' = IF exit.how = "clean" THEN [exit EXCEPT !.how = "left"] ELSE NoExit
  /\ UNCHANGED <<enrollment, session, work, call, lost>>

(* The local session ends whatever the answer is, if there is one.         *)
LogoutDone(f) ==
  /\ Waited(f, "logout")
  /\ stored' = NoTokens /\ page' = SignedOut
  /\ Forget(f)
  /\ exit' = IF exit.how = "clean" /\ fetch[f].pc = "answered"
               THEN [exit EXCEPT !.how = "left"] ELSE NoExit
  /\ UNCHANGED <<enrollment, session, work, call, lost>>

(* CUSTOMER_JWT_EXPIRES_IN passes.                                         *)
ExpireAccess ==
  /\ stored.access = "good"
  /\ stored' = [stored EXCEPT !.access = "stale"]
  /\ call' = [c \in Calls \cup {Load} |-> [call[c] EXCEPT !.good = FALSE]]
  /\ UNCHANGED <<enrollment, session, work, page, fetch, lost, exit>>

-----------------------------------------------------------------------------
(* The API                                                                 *)

browser == <<stored, page, call, lost, exit>>

Reply(f, r) == fetch' = [fetch EXCEPT ![f] = IF fetch[f].waited THEN r ELSE NoFetch]

Refused(f) == [fetch[f] EXCEPT !.pc = "refused"]

(* A fetch arrives and is looked up.                                       *)
Arrive(f) ==
  LET x == fetch[f]
  IN  /\ x.pc = "sent"
      /\ \/ /\ x.use = "refresh" /\ Server!RefreshFind(f, x.key)
            /\ fetch' = [fetch EXCEPT ![f].pc = "served"]
         \/ /\ x.use = "activate" /\ Server!ActivateFind(f, x.key)
            /\ fetch' = [fetch EXCEPT ![f].pc = "served"]
         \/ /\ x.use = "logout"
            /\ Server!Logout(f, x.key) \/ (~ Server!Live(x.key) /\ UNCHANGED tables)
            /\ Reply(f, [x EXCEPT !.pc = "answered"])
      /\ UNCHANGED browser

(* Tokens are granted.                                                     *)
Grant(f) ==
  /\ Server!RefreshRotate(f) \/ Server!ActivateClaim(f)
  /\ \E s \in Server!NextSession : Reply(f, [fetch[f] EXCEPT !.pc = "answered", !.new = s])
  /\ UNCHANGED browser

(* The other steps of a request end with a refusal.                        *)
Deny(f) ==
  /\ \/ Server!ActivateMiss(f) \/ Server!ActivateLock(f)
     \/ Server!ReuseRead(f) \/ Server!ReuseWrite(f) \/ Server!Abort(f)
  /\ IF work'[f] = Server!NoRequest THEN Reply(f, Refused(f)) ELSE UNCHANGED fetch
  /\ UNCHANGED browser

(* It is refused at once, or never arrives.                                *)
Drop(f) ==
  /\ fetch[f].pc = "sent"
  /\ Reply(f, Refused(f))
  /\ UNCHANGED <<enrollment, session, work, stored, page, call, lost, exit>>

(* The staff gives the access, as long as the bound on the table allows, or *)
(* revokes it; a revocation that finds no enrollment to revoke is left out. *)
Desk ==
  /\ \/ /\ Server!AccessBegin(Staff)
        /\ IF work'[Staff].op = "provision" THEN Server!NextEnrollment # {}
           ELSE \E e \in Server!Issued : ~ enrollment[e].revoked
     \/ Server!AccessHold(Staff)
     \/ Server!AccessWrite(Staff)
  /\ UNCHANGED <<stored, page, call, fetch, lost, exit>>

Init ==
  /\ Server!Init
  /\ stored = NoTokens
  /\ page = [phase |-> "open", link |-> TRUE, me |-> FALSE, flight |-> None]
  /\ call = [c \in Calls \cup {Load} |-> Settled]
  /\ fetch = [f \in Fetches |-> NoFetch]
  /\ lost = FALSE /\ exit = NoExit

Answered(c) ==
  CallOk(c) \/ CallFails(c) \/ CallDenied(c) \/ CallDeniedAgain(c)

Completed(f) ==
  RefreshDone(f) \/ RefreshFails(f) \/ ActivateDone(f) \/ LogoutDone(f)

Next ==
  \/ Reload
  \/ ActivateSend
  \/ LogoutSend
  \/ ExpireAccess
  \/ Desk
  \/ \E c \in Calls : MakeCall(c)
  \/ \E c \in Calls \cup {Load} : Answered(c)
  \/ \E f \in Fetches :
       Completed(f) \/ Arrive(f) \/ Grant(f) \/ Deny(f) \/ Drop(f)

(* The browser settles every request: with an answer, or with an error     *)
(* when the connection ends. Nothing is asked of the network or the API.   *)
Fairness ==
  /\ \A c \in Calls \cup {Load} : WF_vars(Answered(c))
  /\ \A f \in Fetches : WF_vars(Completed(f))

Spec == Init /\ [][Next]_vars /\ Fairness
-----------------------------------------------------------------------------
(* Types; and a call waits only for the refresh in flight, the page holds  *)
(* both tokens or none, and shows a customer only as long as it holds      *)
(* them, whatever calls, refreshes and exits end at once.                  *)
AppTypeOK ==
  /\ stored \in [access: {None, "good", "stale"}, refresh: 0 .. MaxSessions]
  /\ stored.refresh = 0 <=> stored.access = None
  /\ page.me => stored.refresh # 0
  /\ page \in [phase: {"boot", "open"}, link: BOOLEAN, me: BOOLEAN,
               flight: Fetches \cup {None}]
  /\ page.flight # None => Waited(page.flight, "refresh")
  /\ call \in [Calls \cup {Load} ->
                 [pc: {"settled", "sent", "waiting", "resent"}, good: BOOLEAN]]
  /\ \A c \in Calls \cup {Load} : call[c].pc = "waiting" => page.flight # None
  /\ fetch \in [Fetches ->
                  [use: {None, "refresh", "activate", "logout"},
                   pc: {"free", "sent", "served", "answered", "refused"},
                   key: 0 .. (MaxSessions + MaxEnrollments), new: 0 .. MaxSessions,
                   waited: BOOLEAN]]
  /\ lost \in BOOLEAN
  /\ exit \in [how: {"no", "clean", "raced", "left"}, of: 0 .. MaxSessions]

(* The page never presents a token that was rotated, which would burn the  *)
(* chain as a theft, however many calls are denied at once, unless the     *)
(* answer that brought the next token was lost (single-flight refresh).    *)
NoFalseAlarm ==
  \A f \in Fetches :
     work[f].pc \in {"reused", "burning"} =>
       lost \/ \A s \in Server!Opened : session[s].from # work[f].key

(* An explicit exit that the server has answered leaves no session of the  *)
(* enrollment that the device had, "il refresh token resterebbe valido"    *)
(* (session.ts), provided that no refresh was in flight during it.         *)
ExitRevokes ==
  exit.how = "left" /\ ~ lost =>
    /\ stored.refresh = 0
    /\ \A s \in Server!Opened :
         Server!Live(s) => session[s].enrollment # session[exit.of].enrollment

(* Every call of the page is settled in the end, unless the page is loaded *)
(* again for ever: none waits for ever for a refresh, be it refused, lost  *)
(* or overtaken by an exit.                                                *)
CallsSettle ==
  \/ []<><<Reload>>_vars
  \/ \A c \in Calls \cup {Load} : call[c] # Settled ~> call[c] = Settled

(* Who asks to leave is signed out, with the network down too ("la         *)
(* sessione locale finisce comunque").                                     *)
ExitEnds ==
  (\E f \in Fetches : Waited(f, "logout")) ~> ~ page.me
=============================================================================
