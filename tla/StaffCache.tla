----------------------------- MODULE StaffCache -----------------------------
(***************************************************************************)
(* The cache of server state of the staff application, with the reads and  *)
(* the writes of StaffQueries.                                             *)
(*                                                                         *)
(* An entry of the cache remembers the writes that changed what it shows   *)
(* since its read was served.  The keys that a write invalidates are       *)
(* worked out when it is answered, from what the page then shows.          *)
(*                                                                         *)
(* The steps of the cache itself (a page that mounts, a read, a prefix     *)
(* that is invalidated) are those of TanStack Query, as the code uses it.  *)
(* The user holds every permission, so that every query is enabled.        *)
(***************************************************************************)
EXTENDS Naturals, StaffQueries

CONSTANTS
    Desks,    \* a desk: the screens it visits, the calls it makes, the keys followed
    MaxCalls  \* calls under way at once

VARIABLES
    desk,    \* the part of the application that is followed
    screen,
    cache,   \* of the keys with data: fresh or not, and the writes it is behind
    reads,   \* of the keys with a read under way: served or not, and the same,
             \* or overtaken, by an invalidation that let it go on
    failed,  \* the keys without data whose read failed
    calls

vars == <<desk, screen, cache, reads, failed, calls>>

Mounted(s) == (Page(s) \cup Shell) \cap desk.keys

(* The screen as the closures of a call see it: the date is that of the    *)
(* session, the rest belongs to the page that made the call and stays as   *)
(* it was when that page was left.                                         *)
SeenBy(c) == [(IF c.live THEN screen ELSE c.view) EXCEPT !.date = screen.date]

(* A read that is asked for.                                               *)
Asked == [served |-> FALSE, behind |-> {}, overtaken |-> FALSE]

(* f, with the value r at the keys given.                                  *)
With(f, keys, r) == [k \in DOMAIN f \cup keys |-> IF k \in keys THEN r ELSE f[k]]

Init ==
    /\ desk \in Desks
    /\ screen \in desk.screens
    /\ cache = <<>>
    /\ reads = [k \in Mounted(screen) |-> Asked]
    /\ failed = {}
    /\ calls = {}

(* A query that mounts joins the read under way, or asks for what it has   *)
(* not or has no longer fresh.                                             *)
Mount(keys) ==
    LET asked == {k \in keys \ DOMAIN reads :
                    k \in DOMAIN cache => ~cache[k].fresh} IN
    /\ reads' = With(reads, asked, Asked)
    /\ failed' = failed \ asked

(* Calls whose component is gone: their closures keep what it showed last. *)
Leave(gone) ==
    calls' = (calls \ gone) \cup {[c EXCEPT !.live = FALSE, !.view = SeenBy(c)] : c \in gone}

(* A page is left for another: its calls go on without it. *)
Navigate(s) ==
    /\ s.page # screen.page
    /\ s.date = screen.date
    /\ screen' = s
    /\ Mount(Page(s) \cap desk.keys)
    /\ Leave(calls)
    /\ UNCHANGED <<desk, cache>>

(* The same page on another date, customer, season or user: it stays, and  *)
(* only the queries whose key changed are new.  The card of a customer     *)
(* that has to be loaded puts away the modals of the one before.           *)
Turn(s) ==
    /\ s # screen
    /\ s.page = screen.page
    /\ s.date # screen.date => s.page \in DatePages
    /\ screen' = s
    /\ Mount(Mounted(s) \ Mounted(screen))
    /\ \E gone \in SUBSET calls :
         /\ gone # {} => s.customer # screen.customer
         /\ Leave(gone)
    /\ UNCHANGED <<desk, cache>>

Serve(k) ==
    /\ ~reads[k].served
    /\ reads' = [reads EXCEPT ![k].served = TRUE]
    /\ UNCHANGED <<desk, screen, cache, failed, calls>>

Drop(k) == Restrict(reads, DOMAIN reads \ {k})

(* Data that arrives is fresh, whatever happened while it travelled.       *)
Arrive(k) ==
    /\ reads[k].served
    /\ cache' = With(cache, {k}, [fresh |-> TRUE, behind |-> reads[k].behind])
    /\ reads' = Drop(k)
    /\ UNCHANGED <<desk, screen, failed, calls>>

(* A read and its one retry fail: the data that is there is no longer fresh. *)
ReadFails(k) ==
    /\ reads' = Drop(k)
    /\ cache' = [x \in DOMAIN cache |->
                   IF x = k THEN [cache[x] EXCEPT !.fresh = FALSE] ELSE cache[x]]
    /\ failed' = IF k \in DOMAIN cache THEN failed ELSE failed \cup {k}
    /\ UNCHANGED <<desk, screen, calls>>

(* staleTime *)
Age(k) ==
    /\ cache[k].fresh
    /\ cache' = [cache EXCEPT ![k].fresh = FALSE]
    /\ UNCHANGED <<desk, screen, reads, failed, calls>>

Send(x) ==
    LET c == [op |-> x.op, of |-> x.of, writes |-> Writes(x, screen), view |-> screen,
              live |-> TRUE, phase |-> "sent", answered |-> FALSE] IN
    /\ x.op \in Offered[screen.page]
    /\ screen.page \in {"map", "bookings"} => screen.date \in x.of
    /\ Cardinality(calls) < MaxCalls
    /\ c \notin calls
    /\ calls' = calls \cup {c}
    /\ UNCHANGED <<desk, screen, cache, reads, failed>>

Becomes(c, ok) ==
    calls' = (calls \ {c})
               \cup {[c EXCEPT !.phase = "done", !.answered = ok, !.writes = {}]}

(* The server writes; the answer may be lost. *)
Commit(c) ==
    LET Leaves(k) == IF c.writes \cap Shows[k] = {} THEN {} ELSE {c.op} IN
    /\ c.phase = "sent"
    /\ \E ok \in BOOLEAN : Becomes(c, ok)
    /\ cache' = [k \in DOMAIN cache |-> [cache[k] EXCEPT !.behind = @ \cup Leaves(k)]]
    /\ reads' = [k \in DOMAIN reads |->
                   IF reads[k].served /\ ~reads[k].overtaken
                   THEN [reads[k] EXCEPT !.behind = @ \cup Leaves(k)]
                   ELSE reads[k]]
    /\ UNCHANGED <<desk, screen, failed>>

(* The server refuses, or the request is lost. *)
Refuse(c) ==
    /\ c.phase = "sent"
    /\ Becomes(c, FALSE)
    /\ UNCHANGED <<desk, screen, cache, reads, failed>>

(* invalidateQueries: all that matches is no longer fresh, and what is on  *)
(* screen is read again.  A read under way is dropped for a new one if     *)
(* there is data to show meanwhile; a first read, or one of a page that    *)
(* was left, goes on, and what it brings is no longer held to account.     *)
Invalidate(prefixes) ==
    LET Matches(k) == \E p \in prefixes : IsPrefix(p, k)
        again == {k \in Mounted(screen) : Matches(k) /\ (k \in DOMAIN reads => k \in DOMAIN cache)}
    IN
    /\ cache' = [k \in DOMAIN cache |->
                   IF Matches(k) THEN [cache[k] EXCEPT !.fresh = FALSE] ELSE cache[k]]
    /\ reads' = With([k \in DOMAIN reads |->
                        IF Matches(k) THEN [reads[k] EXCEPT !.overtaken = TRUE, !.behind = {}]
                                      ELSE reads[k]],
                     again, Asked)
    /\ failed' = failed \ again

(* What an ended call makes out of date: also a refused one, whose refusal *)
(* says that the page is out of date.                                      *)
SettledKeys(c) == Invalidates(c.op, SeenBy(c))

Settle(c) ==
    /\ c.phase = "done"
    /\ Invalidate(SettledKeys(c))
    /\ calls' = calls \ {c}
    /\ UNCHANGED <<desk, screen>>

Next ==
    \/ \E s \in desk.screens : Navigate(s) \/ Turn(s)
    \/ \E k \in DOMAIN reads : Serve(k) \/ Arrive(k) \/ ReadFails(k)
    \/ \E k \in DOMAIN cache : Age(k)
    \/ \E x \in desk.calls : Send(x)
    \/ \E c \in calls : Commit(c) \/ Refuse(c) \/ Settle(c)

Spec == Init /\ [][Next]_vars

----------------------------------------------------------------------------
(* Entries and reads are of keys that are followed, and what is on screen  *)
(* has data, or is being read, or has failed: no query is left idle.       *)
StaffCacheTypeOK ==
    /\ desk \in Desks
    /\ screen \in Screens
    /\ DOMAIN cache \subseteq desk.keys
    /\ DOMAIN reads \subseteq desk.keys
    /\ failed \subseteq desk.keys \ DOMAIN cache
    /\ Mounted(screen) \subseteq DOMAIN cache \cup DOMAIN reads \cup failed
    /\ \A c \in calls : [op |-> c.op, of |-> c.of] \in CallTypes

(* Data held for current although a write of this application, answered   *)
(* since, changed what it shows after it was read.                         *)
Missed(k, op) ==
    /\ k \in DOMAIN cache
    /\ cache[k].fresh
    /\ op \in cache[k].behind
    /\ \A c \in calls : c.op = op => c.phase = "sent"

KeepsFresh(ops, keys) == \A k \in keys, op \in ops : ~Missed(k, op)

(* After a write in the editor of the beach no map of any day, no card of  *)
(* a customer, no count is shown as current with the old layout; nor the   *)
(* list of retired umbrellas after a retirement or a return.               *)
LayoutShownFresh ==
    /\ KeepsFresh({"structure", "retire"},
                  {EstablishmentStructure, EstablishmentOverview}
                    \cup Maps \cup Cards \cup CededLists)
    /\ KeepsFresh({"retire"}, {RetiredUmbrellas})

(* The permissions of a user, read before they were changed, are not shown *)
(* as current when the modal opens again: the key is under that of the     *)
(* team, which the write invalidates.                                      *)
PermissionsShownFresh ==
    KeepsFresh({"permissions"}, {StaffPermissions(u) : u \in Staff})

(* After a renewal, or the closing of a campaign, the lists of both        *)
(* seasons, the campaign and every map show it, whatever season the page   *)
(* has gone on to.                                                         *)
RenewalShownFresh ==
    KeepsFresh({"renew", "closeCampaign", "openCampaign"},
               {Subscriptions(s) : s \in Seasons} \cup {RenewalCampaign(s) : s \in Seasons}
                 \cup Maps)

(* After any write of the price list, of the packages, of the equipment or *)
(* of the rental items, ended well or badly, the list of the archived ones *)
(* too and, for the slots, every map.                                      *)
CatalogShownFresh ==
    /\ KeepsFresh({"slot"}, {TimeSlots} \cup Maps)
    /\ KeepsFresh({"package"}, {Packages, AllPackages})
    /\ KeepsFresh({"equipment"}, {EquipmentTypes, AllEquipmentTypes})
    /\ KeepsFresh({"item"}, {RentalItems, AllRentalItems})

(* The guided setup never shows a step as it was before a write of any of  *)
(* the pages that complete it.                                             *)
SetupShownFresh ==
    KeepsFresh({"structure", "retire", "slot", "season", "rate"}, {SetupStatus})

(* The map and the list of a day are not shown as current with a booking   *)
(* cancelled, or without one made or paid, from this application.          *)
DayShownFresh ==
    KeepsFresh({"createBooking", "cancelBooking", "settlePayment"},
               {Bookings(d) : d \in Days})
      /\ KeepsFresh({"createBooking", "cancelBooking"}, Maps)

(* The card of a customer is not shown as current with a contract as it    *)
(* was before it was ended, suspended, taken up again or handed over.      *)
CardShownFresh == KeepsFresh({"contract", "transfer"}, Cards)

(* What a page shows as current is never older than the last answered      *)
(* write of this application that changed it, in all these respects.       *)
ShownFresh ==
    /\ LayoutShownFresh /\ PermissionsShownFresh /\ RenewalShownFresh
    /\ CatalogShownFresh /\ SetupShownFresh /\ DayShownFresh /\ CardShownFresh
=============================================================================
