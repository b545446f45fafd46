-------------------------- MODULE StaffCache_proofs --------------------------
(***************************************************************************)
(* That no page of the staff application shows as current what it read     *)
(* before a write of its own, answered since, changed it: whatever pages   *)
(* are visited, whatever is read or sent meanwhile, and however it ends.   *)
(***************************************************************************)
EXTENDS StaffCache, TLAPS

(* A desk visits screens of the application and makes its calls.           *)
DesksWellFormed ==
  \A d \in Desks : d.screens \subseteq Screens /\ d.calls \subseteq CallTypes

----------------------------------------------------------------------------
(* The screens that the closures of a call can see.                        *)
Sights == {[s EXCEPT !.date = t.date] : s \in desk.screens, t \in desk.screens}

(* The keys that some screen of the desk mounts.                           *)
Reached == UNION {Mounted(s) : s \in desk.screens}

Ops == {x.op : x \in desk.calls}

Entry == [fresh : BOOLEAN, behind : SUBSET Ops]
Read == [served : BOOLEAN, behind : SUBSET Ops, overtaken : BOOLEAN]

(* A call, with what it writes as long as it is not served.                *)
Subjects == {x.of : x \in desk.calls}
Effects == {{}} \cup {Writes(x, s) : x \in desk.calls, s \in desk.screens}
Call ==
  [op : Ops, of : Subjects, writes : Effects, view : Sights, live : BOOLEAN,
   phase : {"sent", "done"}, answered : BOOLEAN]

CallOK(c) ==
  /\ c \in Call
  /\ [op |-> c.op, of |-> c.of] \in desk.calls
  /\ c.writes = {} \/ \E x \in desk.calls, s \in desk.screens :
                         x.op = c.op /\ c.writes = Writes(x, s)

CallsOK == \A c \in calls : CallOK(c)

EntriesOK ==
  /\ cache \in [DOMAIN cache -> Entry]
  /\ reads \in [DOMAIN reads -> Read]

(* What is followed was mounted by some screen; what is on screen has      *)
(* data, or is being read, or has failed, and what has failed is neither.  *)
KeysOK ==
  /\ DOMAIN cache \subseteq Reached /\ DOMAIN reads \subseteq Reached
  /\ failed \subseteq Reached \ (DOMAIN cache \cup DOMAIN reads)
  /\ Mounted(screen) \subseteq DOMAIN cache \cup DOMAIN reads \cup failed

DeskOK == desk \in Desks /\ screen \in desk.screens

TypeInv == DeskOK /\ CallsOK /\ EntriesOK /\ KeysOK

----------------------------------------------------------------------------
(* A call of that kind has been served or refused, and is yet to settle.   *)
Awaited(op) == \E c \in calls : c.op = op /\ c.phase = "done"

(* Whatever a call of that kind sees when it settles, it expires the key.  *)
Expires(op, k) == \A s \in Sights : \E p \in Invalidates(op, s) : IsPrefix(p, k)

(* No call of that kind changes what the key shows.                        *)
Spares(op, k) ==
  \A x \in desk.calls, s \in desk.screens : x.op = op => Writes(x, s) \cap Shows[k] = {}

(* What is held is behind a write of that kind.                            *)
CacheBehind(k, op) == k \in DOMAIN cache /\ op \in cache[k].behind
FreshBehind(k, op) == CacheBehind(k, op) /\ cache[k].fresh
ReadBehind(k, op) == k \in DOMAIN reads /\ op \in reads[k].behind

(* Fresh data, or a read that is held to account, that is behind a write   *)
(* has that write still to settle: it will expire it.                      *)
Accounted(k, op) == FreshBehind(k, op) \/ ReadBehind(k, op) => Awaited(op)

NeverBehind(k, op) == ~CacheBehind(k, op) /\ ~ReadBehind(k, op)

ExpiredInTime == \A op, k : Expires(op, k) => Accounted(k, op)
SparedIsUpToDate == \A op, k : Spares(op, k) => NeverBehind(k, op)

IInv == TypeInv /\ ExpiredInTime /\ SparedIsUpToDate

----------------------------------------------------------------------------
(* Drop: its domain, and its values.                                       *)
LEMMA DropIs ==
  ASSUME NEW k
  PROVE  /\ DOMAIN Drop(k) = DOMAIN reads \ {k}
         /\ \A x \in DOMAIN reads \ {k} : Drop(k)[x] = reads[x]
         /\ Drop(k) = [x \in DOMAIN Drop(k) |-> Drop(k)[x]]
BY DEF Drop, Restrict

(* No step changes the desk, nor what is derived from it.                  *)
LEMMA DeskStays ==
  ASSUME [Next]_vars
  PROVE  /\ desk' = desk
         /\ Sights' = Sights /\ Reached' = Reached /\ Ops' = Ops
         /\ Entry' = Entry /\ Read' = Read /\ Call' = Call
<1>1. desk' = desk
  BY DEF Next, vars, Navigate, Turn, Serve, Arrive, ReadFails, Age, Send, Commit, Refuse, Settle
<1>2. \A s : Mounted(s)' = Mounted(s)
  BY <1>1 DEF Mounted
<1> QED
  BY <1>1, <1>2 DEF Sights, Reached, Ops, Entry, Read, Call,
               Subjects, Effects

(* What the sights are.                                                    *)
LEMMA SightsAre ==
  ASSUME NEW v
  PROVE  v \in Sights <=>
           \E s \in desk.screens, t \in desk.screens : v = [s EXCEPT !.date = t.date]
BY DEF Sights

(* A screen is one of the sights, and so is what a call sees.              *)
LEMMA ScreenIsSight ==
  ASSUME DesksWellFormed, desk \in Desks, NEW s \in desk.screens
  PROVE  s \in Sights
<1>1. s \in Screens
  BY DEF DesksWellFormed
<1>2. s = [s EXCEPT !.date = s.date]
  BY <1>1 DEF Screens
<1>3. \E t \in desk.screens : s = [s EXCEPT !.date = t.date]
  BY <1>2
<1> QED
  BY <1>3, SightsAre

LEMMA SeenIsSight ==
  ASSUME DesksWellFormed, DeskOK, NEW c, c.view \in Sights
  PROVE  SeenBy(c) \in Sights
<1> DEFINE seen == IF c.live THEN screen ELSE c.view
<1>1. seen \in Sights
  BY ScreenIsSight DEF DeskOK
<1>2. PICK s \in desk.screens, t \in desk.screens : seen = [s EXCEPT !.date = t.date]
  BY <1>1, SightsAre
<1>3. s \in Screens
  BY DEF DesksWellFormed, DeskOK
<1>4. [seen EXCEPT !.date = screen.date] = [s EXCEPT !.date = screen.date]
  BY <1>2, <1>3 DEF Screens
<1>5. SeenBy(c) = [s EXCEPT !.date = screen.date]
  BY <1>4 DEF SeenBy
<1>6. screen \in desk.screens
  BY DEF DeskOK
<1> QED
  BY <1>5, <1>6, SightsAre

(* A call that is left keeps everything but what it sees.                  *)
LEMMA LeftIsOK ==
  ASSUME DesksWellFormed, DeskOK, NEW c, CallOK(c)
  PROVE  LET d == [c EXCEPT !.live = FALSE, !.view = SeenBy(c)] IN
         CallOK(d) /\ d.op = c.op /\ d.phase = c.phase
<1> DEFINE d == [c EXCEPT !.live = FALSE, !.view = SeenBy(c)]
<1>1. SeenBy(c) \in Sights
  BY SeenIsSight DEF CallOK, Call
<1>2. /\ d \in Call
      /\ d.op = c.op /\ d.of = c.of /\ d.writes = c.writes /\ d.phase = c.phase
  BY <1>1 DEF CallOK, Call
<1>3. CallOK(d)
  BY <1>2 DEF CallOK
<1> QED
  BY <1>2, <1>3

(* So is a call that has been served or refused.                           *)
LEMMA DoneIsOK ==
  ASSUME NEW c, CallOK(c), NEW ok \in BOOLEAN
  PROVE  LET d == [c EXCEPT !.phase = "done", !.answered = ok, !.writes = {}] IN
         CallOK(d) /\ d.op = c.op /\ d.phase = "done"
<1> DEFINE d == [c EXCEPT !.phase = "done", !.answered = ok, !.writes = {}]
<1> {} \in Effects
  BY DEF Effects
<1>1. /\ d \in Call
      /\ d.op = c.op /\ d.of = c.of /\ d.writes = {} /\ d.phase = "done"
  BY DEF CallOK, Call
<1>2. CallOK(d)
  BY <1>1 DEF CallOK
<1> QED
  BY <1>1, <1>2

----------------------------------------------------------------------------
(* The calls of a step: those that are left, the one that is sent, served, *)
(* refused or settled.  What was awaited still is, unless it settles.      *)
LEMMA LeaveKeepsCalls ==
  ASSUME DesksWellFormed, DeskOK, CallsOK, NEW gone \in SUBSET calls, Leave(gone)
  PROVE  /\ \A c \in calls' : CallOK(c)
         /\ \A op : Awaited(op) => Awaited(op)'
<1> DEFINE left(c) == [c EXCEPT !.live = FALSE, !.view = SeenBy(c)]
<1>1. \A c \in calls : CallOK(left(c)) /\ left(c).op = c.op /\ left(c).phase = c.phase
  BY LeftIsOK DEF CallsOK
<1>2. calls' = (calls \ gone) \cup {left(c) : c \in gone}
  BY DEF Leave
<1>3. \A c \in calls' : CallOK(c)
  <2> HIDE DEF left
  <2> QED
    BY <1>1, <1>2 DEF CallsOK
<1>4. ASSUME NEW op, Awaited(op) PROVE Awaited(op)'
  <2>1. PICK c \in calls : c.op = op /\ c.phase = "done"
    BY <1>4 DEF Awaited
  <2>2. c \in calls' \/ left(c) \in calls'
    BY <1>2
  <2> HIDE DEF left
  <2> QED
    BY <1>1, <2>1, <2>2 DEF Awaited
<1> QED
  BY <1>3, <1>4

LEMMA BecomesKeepsCalls ==
  ASSUME CallsOK, NEW c \in calls, c.phase = "sent", NEW ok \in BOOLEAN, Becomes(c, ok)
  PROVE  /\ \A d \in calls' : CallOK(d)
         /\ Awaited(c.op)'
         /\ \A op : Awaited(op) => Awaited(op)'
<1> DEFINE done == [c EXCEPT !.phase = "done", !.answered = ok, !.writes = {}]
<1>1. CallOK(done) /\ done.op = c.op /\ done.phase = "done"
  BY DoneIsOK DEF CallsOK
<1>2. calls' = (calls \ {c}) \cup {done}
  BY DEF Becomes
<1> HIDE DEF done
<1>3. \A d \in calls' : CallOK(d)
  BY <1>1, <1>2 DEF CallsOK
<1>4. Awaited(c.op)'
  BY <1>1, <1>2 DEF Awaited
<1>5. \A op : Awaited(op) => Awaited(op)'
  BY <1>2 DEF Awaited
<1> QED
  BY <1>3, <1>4, <1>5

LEMMA SendKeepsCalls ==
  ASSUME DesksWellFormed, DeskOK, CallsOK, NEW x \in desk.calls, Send(x)
  PROVE  /\ \A c \in calls' : CallOK(c)
         /\ \A op : Awaited(op) => Awaited(op)'
<1> DEFINE new == [op |-> x.op, of |-> x.of, writes |-> Writes(x, screen), view |-> screen,
                   live |-> TRUE, phase |-> "sent", answered |-> FALSE]
<1>1. calls' = calls \cup {new}
  BY DEF Send
<1>2. x.op \in Ops /\ x.of \in Subjects
  BY DEF Ops, Subjects
<1>3. screen \in desk.screens /\ screen \in Sights
  BY ScreenIsSight DEF DeskOK
<1>4. Writes(x, screen) \in Effects
  BY <1>3 DEF Effects
<1>5. /\ new \in Call
      /\ new.op = x.op /\ new.of = x.of /\ new.writes = Writes(x, screen)
  BY <1>2, <1>3, <1>4 DEF Call
<1>6. x = [op |-> x.op, of |-> x.of]
  BY DEF DesksWellFormed, DeskOK, CallTypes
<1> HIDE DEF new
<1>7. CallOK(new)
  BY <1>3, <1>5, <1>6 DEF CallOK
<1>8. \A c \in calls' : CallOK(c)
  BY <1>1, <1>7 DEF CallsOK
<1>9. \A op : Awaited(op) => Awaited(op)'
  BY <1>1 DEF Awaited
<1> QED
  BY <1>8, <1>9

LEMMA SettleKeepsCalls ==
  ASSUME CallsOK, NEW c \in calls, Settle(c)
  PROVE  /\ \A d \in calls' : CallOK(d)
         /\ \A op : Awaited(op) => Awaited(op)' \/ op = c.op
BY DEF Settle, Awaited, CallsOK

(* Whatever happens, a call that is awaited stays so until it settles.     *)
LEMMA CallsStep ==
  ASSUME DesksWellFormed, DeskOK, CallsOK, Next
  PROVE  /\ CallsOK'
         /\ \A op : Awaited(op) => \/ Awaited(op)'
                                   \/ \E c \in calls : Settle(c) /\ c.op = op
<1>0. ASSUME \A c \in calls' : CallOK(c) PROVE CallsOK'
  <2>1. desk' = desk /\ Sights' = Sights /\ Call' = Call
    BY DeskStays
  <2> QED
    BY <1>0, <2>1 DEF CallsOK, CallOK
<1>1. CASE \E s \in desk.screens : Navigate(s)
  BY <1>0, <1>1, LeaveKeepsCalls DEF Navigate
<1>2. CASE \E s \in desk.screens : Turn(s)
  BY <1>0, <1>2, LeaveKeepsCalls DEF Turn
<1>3. CASE calls' = calls
  BY <1>0, <1>3 DEF CallsOK, Awaited
<1>4. CASE \E x \in desk.calls : Send(x)
  BY <1>0, <1>4, SendKeepsCalls
<1>5. CASE \E c \in calls : Commit(c) \/ Refuse(c)
  <2>1. PICK c \in calls : Commit(c) \/ Refuse(c)
    BY <1>5
  <2>2. PICK ok \in BOOLEAN : c.phase = "sent" /\ Becomes(c, ok)
    BY <2>1 DEF Commit, Refuse
  <2> QED
    BY <1>0, <2>2, BecomesKeepsCalls
<1>6. CASE \E c \in calls : Settle(c)
  BY <1>0, <1>6, SettleKeepsCalls
<1>7. ASSUME NEW k, Serve(k) \/ Arrive(k) \/ ReadFails(k) \/ Age(k) PROVE calls' = calls
  BY <1>7 DEF Serve, Arrive, ReadFails, Age
<1> QED
  BY <1>1, <1>2, <1>3, <1>4, <1>5, <1>6, <1>7 DEF Next

----------------------------------------------------------------------------
(* The entries and the reads of a step keep their form.                    *)
LEMMA AskedIsRead == Asked \in Read
BY DEF Asked, Read

LEMMA EntryUpdates ==
  ASSUME NEW e \in Entry, NEW b \in SUBSET Ops
  PROVE  /\ [e EXCEPT !.behind = @ \cup b] \in Entry
         /\ [e EXCEPT !.behind = @ \cup b].fresh = e.fresh
         /\ [e EXCEPT !.behind = @ \cup b].behind = e.behind \cup b
         /\ [e EXCEPT !.fresh = FALSE] \in Entry
         /\ [e EXCEPT !.fresh = FALSE].fresh = FALSE
         /\ [e EXCEPT !.fresh = FALSE].behind = e.behind
BY DEF Entry

LEMMA ReadUpdates ==
  ASSUME NEW r \in Read, NEW b \in SUBSET Ops
  PROVE  /\ [r EXCEPT !.behind = @ \cup b] \in Read
         /\ [r EXCEPT !.behind = @ \cup b].behind = r.behind \cup b
         /\ [r EXCEPT !.served = TRUE] \in Read
         /\ [r EXCEPT !.served = TRUE].behind = r.behind
         /\ [r EXCEPT !.overtaken = TRUE, !.behind = {}] \in Read
         /\ [r EXCEPT !.overtaken = TRUE, !.behind = {}].behind = {}
BY DEF Read

LEMMA MountKeepsEntries ==
  ASSUME EntriesOK, NEW keys, Mount(keys)
  PROVE  reads' \in [DOMAIN reads' -> Read]
<1> DEFINE asked == {k \in keys \ DOMAIN reads : k \in DOMAIN cache => ~cache[k].fresh}
<1>1. reads' = With(reads, asked, Asked)
  BY DEF Mount
<1> HIDE DEF asked
<1>2. \A k \in DOMAIN reads' : reads'[k] \in Read
  BY <1>1, AskedIsRead DEF EntriesOK, With
<1>3. reads' = [k \in DOMAIN reads' |-> reads'[k]]
  BY <1>1 DEF With
<1> QED
  BY <1>2, <1>3

LEMMA DropKeepsEntries ==
  ASSUME EntriesOK, NEW k, reads' = Drop(k)
  PROVE  reads' \in [DOMAIN reads' -> Read]
<1>1. \A x \in DOMAIN reads' : reads'[x] \in Read
  BY DropIs DEF EntriesOK
<1>2. reads' = [x \in DOMAIN reads' |-> reads'[x]]
  BY DropIs
<1> QED
  BY <1>1, <1>2

LEMMA ArriveKeepsEntries ==
  ASSUME EntriesOK, NEW k \in DOMAIN reads, Arrive(k)
  PROVE  cache' \in [DOMAIN cache' -> Entry] /\ reads' \in [DOMAIN reads' -> Read]
<1> DEFINE new == [fresh |-> TRUE, behind |-> reads[k].behind]
<1>1. new \in Entry
  BY DEF EntriesOK, Entry, Read
<1>2. cache' = With(cache, {k}, new) /\ reads' = Drop(k)
  BY DEF Arrive
<1> HIDE DEF new
<1>3. \A x \in DOMAIN cache' : cache'[x] \in Entry
  BY <1>1, <1>2 DEF EntriesOK, With
<1>4. cache' = [x \in DOMAIN cache' |-> cache'[x]]
  BY <1>2 DEF With
<1> QED
  BY <1>2, <1>3, <1>4, DropKeepsEntries

LEMMA CommitKeepsEntries ==
  ASSUME EntriesOK, CallsOK, NEW c \in calls, Commit(c)
  PROVE  cache' \in [DOMAIN cache' -> Entry] /\ reads' \in [DOMAIN reads' -> Read]
<1> DEFINE Leaves(k) == IF c.writes \cap Shows[k] = {} THEN {} ELSE {c.op}
<1>1. c.op \in Ops
  BY DEF CallsOK, CallOK, Call
<1>2. \A k : Leaves(k) \subseteq Ops
  BY <1>1
<1>3. /\ cache' = [k \in DOMAIN cache |-> [cache[k] EXCEPT !.behind = @ \cup Leaves(k)]]
      /\ reads' = [k \in DOMAIN reads |->
                     IF reads[k].served /\ ~reads[k].overtaken
                     THEN [reads[k] EXCEPT !.behind = @ \cup Leaves(k)]
                     ELSE reads[k]]
  BY DEF Commit
<1> HIDE DEF Leaves
<1>4. cache' \in [DOMAIN cache' -> Entry]
  <2>1. ASSUME NEW k \in DOMAIN cache PROVE [cache[k] EXCEPT !.behind = @ \cup Leaves(k)] \in Entry
    BY <1>2, EntryUpdates DEF EntriesOK
  <2> QED
    BY <1>3, <2>1
<1>5. reads' \in [DOMAIN reads' -> Read]
  <2>1. ASSUME NEW k \in DOMAIN reads
        PROVE  reads[k] \in Read /\ [reads[k] EXCEPT !.behind = @ \cup Leaves(k)] \in Read
    BY <1>2, ReadUpdates DEF EntriesOK
  <2> QED
    BY <1>3, <2>1
<1> QED
  BY <1>4, <1>5

LEMMA InvalidateKeepsEntries ==
  ASSUME EntriesOK, NEW prefixes, Invalidate(prefixes)
  PROVE  cache' \in [DOMAIN cache' -> Entry] /\ reads' \in [DOMAIN reads' -> Read]
<1> DEFINE Matches(k) == \E p \in prefixes : IsPrefix(p, k)
           again == {k \in Mounted(screen) : Matches(k) /\ (k \in DOMAIN reads => k \in DOMAIN cache)}
           kept == [k \in DOMAIN reads |->
                      IF Matches(k) THEN [reads[k] EXCEPT !.overtaken = TRUE, !.behind = {}]
                                    ELSE reads[k]]
<1>1. cache' = [k \in DOMAIN cache |->
                  IF Matches(k) THEN [cache[k] EXCEPT !.fresh = FALSE] ELSE cache[k]]
  BY DEF Invalidate
<1>2. reads' = With(kept, again, Asked)
  BY DEF Invalidate
<1> HIDE DEF Matches, again
<1>3. cache' \in [DOMAIN cache' -> Entry]
  <2>1. ASSUME NEW k \in DOMAIN cache
        PROVE  cache[k] \in Entry /\ [cache[k] EXCEPT !.fresh = FALSE] \in Entry
    BY EntryUpdates DEF EntriesOK
  <2> QED
    BY <1>1, <2>1
<1>4. DOMAIN kept = DOMAIN reads /\ \A k \in DOMAIN reads : kept[k] \in Read
  <2>1. ASSUME NEW k \in DOMAIN reads
        PROVE  reads[k] \in Read /\ [reads[k] EXCEPT !.overtaken = TRUE, !.behind = {}] \in Read
    BY ReadUpdates DEF EntriesOK
  <2> QED
    BY <2>1
<1> HIDE DEF kept
<1>5. \A k \in DOMAIN reads' : reads'[k] \in Read
  BY <1>2, <1>4, AskedIsRead DEF With
<1>6. reads' = [k \in DOMAIN reads' |-> reads'[k]]
  BY <1>2 DEF With
<1> QED
  BY <1>3, <1>5, <1>6

LEMMA EntriesStep ==
  ASSUME EntriesOK, CallsOK, Next
  PROVE  EntriesOK'
<1>0. Entry' = Entry /\ Read' = Read
  BY DeskStays
<1> SUFFICES cache' \in [DOMAIN cache' -> Entry] /\ reads' \in [DOMAIN reads' -> Read]
  BY <1>0 DEF EntriesOK
<1>1. CASE \E s \in desk.screens : Navigate(s) \/ Turn(s)
  BY <1>1, MountKeepsEntries DEF EntriesOK, Navigate, Turn
<1>2. ASSUME NEW k \in DOMAIN reads, Serve(k)
      PROVE  cache' \in [DOMAIN cache' -> Entry] /\ reads' \in [DOMAIN reads' -> Read]
  BY <1>2 DEF EntriesOK, Serve, Read
<1>3. CASE \E k \in DOMAIN reads : Arrive(k)
  BY <1>3, ArriveKeepsEntries
<1>4. ASSUME NEW k \in DOMAIN reads, ReadFails(k)
      PROVE  cache' \in [DOMAIN cache' -> Entry] /\ reads' \in [DOMAIN reads' -> Read]
  <2>1. cache' \in [DOMAIN cache' -> Entry]
    BY <1>4 DEF EntriesOK, ReadFails, Entry
  <2> QED
    BY <1>4, <2>1, DropKeepsEntries DEF ReadFails
<1>5. ASSUME NEW k \in DOMAIN cache, Age(k)
      PROVE  cache' \in [DOMAIN cache' -> Entry] /\ reads' \in [DOMAIN reads' -> Read]
  BY <1>5 DEF EntriesOK, Age, Entry
<1>6. CASE (\E x \in desk.calls : Send(x)) \/ (\E c \in calls : Refuse(c))
  BY <1>6 DEF EntriesOK, Send, Refuse
<1>7. CASE \E c \in calls : Commit(c)
  BY <1>7, CommitKeepsEntries
<1>8. CASE \E c \in calls : Settle(c)
  BY <1>8, InvalidateKeepsEntries DEF Settle
<1> QED
  BY <1>1, <1>2, <1>3, <1>4, <1>5, <1>6, <1>7, <1>8 DEF Next

----------------------------------------------------------------------------
(* The keys of a step: what mounts is asked for unless it is fresh, and    *)
(* what was on screen without data is being read or has failed.            *)
LEMMA MountedIsReached ==
  ASSUME NEW s \in desk.screens
  PROVE  Mounted(s) \subseteq Reached
BY DEF Reached

LEMMA MountKeepsKeys ==
  ASSUME KeysOK, NEW keys \in SUBSET Reached, Mount(keys)
  PROVE  /\ DOMAIN reads' \subseteq Reached
         /\ failed' \subseteq Reached \ (DOMAIN cache \cup DOMAIN reads')
         /\ keys \cup Mounted(screen) \subseteq DOMAIN cache \cup DOMAIN reads' \cup failed'
<1> DEFINE asked == {k \in keys \ DOMAIN reads : k \in DOMAIN cache => ~cache[k].fresh}
<1>1. DOMAIN reads' = DOMAIN reads \cup asked
  BY DEF Mount, With
<1>2. failed' = failed \ asked
  BY DEF Mount
<1>3. keys \subseteq DOMAIN cache \cup DOMAIN reads \cup asked
  OBVIOUS
<1>4. asked \subseteq Reached
  OBVIOUS
<1> HIDE DEF asked
<1> QED
  BY <1>1, <1>2, <1>3, <1>4 DEF KeysOK

LEMMA InvalidateKeepsKeys ==
  ASSUME KeysOK, DeskOK, NEW prefixes, Invalidate(prefixes)
  PROVE  /\ DOMAIN cache' = DOMAIN cache
         /\ DOMAIN reads' \subseteq Reached
         /\ failed' \subseteq Reached \ (DOMAIN cache \cup DOMAIN reads')
         /\ Mounted(screen) \subseteq DOMAIN cache \cup DOMAIN reads' \cup failed'
<1> DEFINE Matches(k) == \E p \in prefixes : IsPrefix(p, k)
           again == {k \in Mounted(screen) : Matches(k) /\ (k \in DOMAIN reads => k \in DOMAIN cache)}
<1>1. DOMAIN cache' = DOMAIN cache /\ DOMAIN reads' = DOMAIN reads \cup again
  BY DEF Invalidate, With
<1>2. failed' = failed \ again
  BY DEF Invalidate
<1>3. again \subseteq Reached
  BY MountedIsReached DEF DeskOK
<1> HIDE DEF again
<1> QED
  BY <1>1, <1>2, <1>3 DEF KeysOK

LEMMA KeysStep ==
  ASSUME DeskOK, KeysOK, Next
  PROVE  KeysOK'
<1>0. desk' = desk /\ Reached' = Reached /\ Mounted(screen)' = Mounted(screen')
  BY DeskStays DEF Mounted
<1> SUFFICES /\ DOMAIN cache' \subseteq Reached /\ DOMAIN reads' \subseteq Reached
             /\ failed' \subseteq Reached \ (DOMAIN cache' \cup DOMAIN reads')
             /\ Mounted(screen') \subseteq DOMAIN cache' \cup DOMAIN reads' \cup failed'
  BY <1>0 DEF KeysOK
<1>1. ASSUME NEW s \in desk.screens, Navigate(s)
      PROVE  /\ cache' = cache /\ DOMAIN reads' \subseteq Reached
             /\ failed' \subseteq Reached \ (DOMAIN cache \cup DOMAIN reads')
             /\ Mounted(screen') \subseteq DOMAIN cache \cup DOMAIN reads' \cup failed'
  <2>1. screen' = s /\ cache' = cache /\ Mount(Page(s) \cap desk.keys)
    BY <1>1 DEF Navigate
  <2>2. Page(s) \cap desk.keys \subseteq Reached
    BY MountedIsReached DEF Mounted
  <2>3. Mounted(s) \subseteq (Page(s) \cap desk.keys) \cup Mounted(screen)
    BY DEF Mounted
  <2> QED
    BY <2>1, <2>2, <2>3, MountKeepsKeys
<1>2. ASSUME NEW s \in desk.screens, Turn(s)
      PROVE  /\ cache' = cache /\ DOMAIN reads' \subseteq Reached
             /\ failed' \subseteq Reached \ (DOMAIN cache \cup DOMAIN reads')
             /\ Mounted(screen') \subseteq DOMAIN cache \cup DOMAIN reads' \cup failed'
  <2>1. screen' = s /\ cache' = cache /\ Mount(Mounted(s) \ Mounted(screen))
    BY <1>2 DEF Turn
  <2>2. Mounted(s) \ Mounted(screen) \subseteq Reached
    BY MountedIsReached
  <2> QED
    BY <2>1, <2>2, MountKeepsKeys
<1>3. ASSUME NEW k, Serve(k) \/ Age(k)
      PROVE  /\ screen' = screen /\ failed' = failed
             /\ DOMAIN cache' = DOMAIN cache /\ DOMAIN reads' = DOMAIN reads
  BY <1>3 DEF Serve, Age
<1>4. ASSUME NEW k \in DOMAIN reads, Arrive(k)
      PROVE  /\ screen' = screen /\ failed' = failed
             /\ DOMAIN cache' = DOMAIN cache \cup {k} /\ DOMAIN reads' = DOMAIN reads \ {k}
  BY <1>4, DropIs DEF Arrive, With
<1>5. ASSUME NEW k \in DOMAIN reads, ReadFails(k)
      PROVE  /\ screen' = screen /\ DOMAIN cache' = DOMAIN cache
             /\ DOMAIN reads' = DOMAIN reads \ {k}
             /\ failed' = IF k \in DOMAIN cache THEN failed ELSE failed \cup {k}
  BY <1>5, DropIs DEF ReadFails
<1>6. ASSUME NEW c, Commit(c) \/ Refuse(c)
      PROVE  /\ screen' = screen /\ failed' = failed
             /\ DOMAIN cache' = DOMAIN cache /\ DOMAIN reads' = DOMAIN reads
  BY <1>6 DEF Commit, Refuse
<1>7. ASSUME NEW x, Send(x)
      PROVE  screen' = screen /\ cache' = cache /\ reads' = reads /\ failed' = failed
  BY <1>7 DEF Send
<1>8. CASE \E c \in calls : Settle(c)
  BY <1>8, InvalidateKeepsKeys DEF Settle, KeysOK
<1>9. CASE \E s \in desk.screens : Navigate(s) \/ Turn(s)
  BY <1>1, <1>2, <1>9 DEF KeysOK
<1>10. CASE (\E k \in DOMAIN reads : Serve(k)) \/ (\E k \in DOMAIN cache : Age(k))
  BY <1>3, <1>10 DEF KeysOK
<1>11. CASE \E k \in DOMAIN reads : Arrive(k)
  <2>1. PICK k \in DOMAIN reads : Arrive(k)
    BY <1>11
  <2>2. k \in Reached /\ k \notin failed
    BY DEF KeysOK
  <2>3. failed' \cap (DOMAIN cache' \cup DOMAIN reads') = {}
    BY <1>4, <2>1, <2>2 DEF KeysOK
  <2>4. Mounted(screen') \subseteq DOMAIN cache' \cup DOMAIN reads' \cup failed'
    BY <1>4, <2>1 DEF KeysOK
  <2> QED
    BY <1>4, <2>1, <2>2, <2>3, <2>4 DEF KeysOK
<1>12. CASE \E k \in DOMAIN reads : ReadFails(k)
  BY <1>5, <1>12 DEF KeysOK
<1>13. CASE (\E c \in calls : Commit(c) \/ Refuse(c)) \/ (\E x \in desk.calls : Send(x))
  BY <1>6, <1>7, <1>13 DEF KeysOK
<1> QED
  BY <1>8, <1>9, <1>10, <1>11, <1>12, <1>13 DEF Next

LEMMA DeskStep ==
  ASSUME DeskOK, Next
  PROVE  DeskOK'
BY DEF DeskOK, Next, Navigate, Turn, Serve, Arrive, ReadFails, Age, Send, Commit, Refuse, Settle

LEMMA TypeInit ==
  ASSUME DesksWellFormed, Init
  PROVE  TypeInv
<1>1. DeskOK /\ CallsOK
  BY DEF Init, DeskOK, CallsOK
<1>2. EntriesOK
  BY AskedIsRead DEF Init, EntriesOK
<1>3. KeysOK
  BY MountedIsReached DEF Init, KeysOK
<1> QED
  BY <1>1, <1>2, <1>3 DEF TypeInv

LEMMA TypeStep ==
  ASSUME DesksWellFormed, TypeInv, [Next]_vars
  PROVE  TypeInv'
<1>1. CASE Next
  BY <1>1, DeskStep, CallsStep, EntriesStep, KeysStep DEF TypeInv
<1>2. CASE UNCHANGED vars
  <2>1. Sights' = Sights /\ Call' = Call /\ Reached' = Reached /\ Entry' = Entry /\ Read' = Read
    BY DeskStays
  <2>2. \A s : Mounted(s)' = Mounted(s)
    BY <1>2 DEF vars, Mounted
  <2> QED
    BY <1>2, <2>1, <2>2 DEF vars, TypeInv, DeskOK, CallsOK, CallOK, EntriesOK, KeysOK
<1> QED
  BY <1>1, <1>2

----------------------------------------------------------------------------
(* Data gets behind by a write that is served, or arrives so.              *)
Changes(k, op) ==
  \E c \in calls : Commit(c) /\ c.op = op /\ c.writes \cap Shows[k] # {}

LEMMA CommitLeavesBehind ==
  ASSUME EntriesOK, CallsOK, NEW c \in calls, Commit(c), NEW k, NEW op
  PROVE  /\ FreshBehind(k, op)' => FreshBehind(k, op) \/ Changes(k, op)
         /\ CacheBehind(k, op)' => CacheBehind(k, op) \/ Changes(k, op)
         /\ ReadBehind(k, op)' => ReadBehind(k, op) \/ Changes(k, op)
<1> DEFINE Leaves(x) == IF c.writes \cap Shows[x] = {} THEN {} ELSE {c.op}
<1>1. c.op \in Ops
  BY DEF CallsOK, CallOK, Call
<1>2. Leaves(k) \in SUBSET Ops
  BY <1>1
<1>3. op \in Leaves(k) => Changes(k, op)
  BY DEF Changes
<1>4. /\ DOMAIN cache' = DOMAIN cache /\ DOMAIN reads' = DOMAIN reads
      /\ k \in DOMAIN cache => cache'[k] = [cache[k] EXCEPT !.behind = @ \cup Leaves(k)]
      /\ k \in DOMAIN reads => \/ reads'[k] = [reads[k] EXCEPT !.behind = @ \cup Leaves(k)]
                               \/ reads'[k] = reads[k]
  BY DEF Commit
<1> HIDE DEF Leaves
<1>5. k \in DOMAIN cache => /\ cache'[k].fresh = cache[k].fresh
                            /\ cache'[k].behind = cache[k].behind \cup Leaves(k)
  <2> DEFINE e == cache[k]
             b == Leaves(k)
  <2>1. k \in DOMAIN cache => e \in Entry
    BY DEF EntriesOK
  <2>2. e \in Entry => /\ [e EXCEPT !.behind = @ \cup b].fresh = e.fresh
                       /\ [e EXCEPT !.behind = @ \cup b].behind = e.behind \cup b
    <3> HIDE DEF e
    <3> QED
      BY <1>2, EntryUpdates
  <2> QED
    BY <1>4, <2>1, <2>2
<1>6. k \in DOMAIN reads => reads'[k].behind \subseteq reads[k].behind \cup Leaves(k)
  <2> DEFINE r == reads[k]
             b == Leaves(k)
  <2>1. k \in DOMAIN reads => r \in Read
    BY DEF EntriesOK
  <2>2. r \in Read => [r EXCEPT !.behind = @ \cup b].behind = r.behind \cup b
    <3> HIDE DEF r
    <3> QED
      BY <1>2, ReadUpdates
  <2> QED
    BY <1>4, <2>1, <2>2
<1> QED
  BY <1>3, <1>4, <1>5, <1>6 DEF FreshBehind, CacheBehind, ReadBehind

(* What is invalidated is no longer fresh, nor held to account.            *)
LEMMA InvalidateExpires ==
  ASSUME EntriesOK, NEW prefixes, Invalidate(prefixes), NEW k, NEW op
  PROVE  /\ FreshBehind(k, op)' => FreshBehind(k, op)
         /\ CacheBehind(k, op)' => CacheBehind(k, op)
         /\ ReadBehind(k, op)' => ReadBehind(k, op)
         /\ (\E p \in prefixes : IsPrefix(p, k)) =>
              ~FreshBehind(k, op)' /\ ~ReadBehind(k, op)'
<1> DEFINE Matches(x) == \E p \in prefixes : IsPrefix(p, x)
           again == {x \in Mounted(screen) : Matches(x) /\ (x \in DOMAIN reads => x \in DOMAIN cache)}
           kept == [x \in DOMAIN reads |->
                      IF Matches(x) THEN [reads[x] EXCEPT !.overtaken = TRUE, !.behind = {}]
                                    ELSE reads[x]]
<1>1. /\ DOMAIN cache' = DOMAIN cache
      /\ k \in DOMAIN cache => cache'[k] = IF Matches(k) THEN [cache[k] EXCEPT !.fresh = FALSE]
                                                         ELSE cache[k]
  BY DEF Invalidate
<1>2. reads' = With(kept, again, Asked)
  BY DEF Invalidate
<1> HIDE DEF Matches, again
<1>3. k \in DOMAIN cache => /\ cache'[k].behind = cache[k].behind
                            /\ cache'[k].fresh => cache[k].fresh /\ ~Matches(k)
  <2>1. k \in DOMAIN cache => /\ [cache[k] EXCEPT !.fresh = FALSE].fresh = FALSE
                              /\ [cache[k] EXCEPT !.fresh = FALSE].behind = cache[k].behind
    BY EntryUpdates DEF EntriesOK
  <2> QED
    BY <1>1, <2>1
<1>4. DOMAIN kept = DOMAIN reads
  OBVIOUS
<1>5. k \in DOMAIN reads => /\ kept[k].behind \subseteq reads[k].behind
                            /\ Matches(k) => kept[k].behind = {}
  <2>1. k \in DOMAIN reads => kept[k] = IF Matches(k)
                                        THEN [reads[k] EXCEPT !.overtaken = TRUE, !.behind = {}]
                                        ELSE reads[k]
    OBVIOUS
  <2> QED
    BY <2>1, ReadUpdates DEF EntriesOK
<1> HIDE DEF kept
<1>6. k \in DOMAIN reads' => \/ reads'[k] = Asked
                             \/ k \in DOMAIN reads /\ reads'[k] = kept[k]
  BY <1>2, <1>4 DEF With
<1>7. Asked.behind = {}
  BY DEF Asked
<1>8. Matches(k) <=> \E p \in prefixes : IsPrefix(p, k)
  BY DEF Matches
<1> QED
  BY <1>1, <1>3, <1>5, <1>6, <1>7, <1>8 DEF FreshBehind, CacheBehind, ReadBehind

LEMMA MountLeavesBehind ==
  ASSUME NEW keys, Mount(keys), NEW k, NEW op, ReadBehind(k, op)'
  PROVE  ReadBehind(k, op)
<1> DEFINE asked == {x \in keys \ DOMAIN reads : x \in DOMAIN cache => ~cache[x].fresh}
<1>1. reads' = With(reads, asked, Asked)
  BY DEF Mount
<1> HIDE DEF asked
<1>2. Asked.behind = {}
  BY DEF Asked
<1> QED
  BY <1>1, <1>2 DEF With, ReadBehind

LEMMA BehindStep ==
  ASSUME EntriesOK, CallsOK, Next, NEW k, NEW op
  PROVE  /\ FreshBehind(k, op)' => FreshBehind(k, op) \/ ReadBehind(k, op) \/ Changes(k, op)
         /\ CacheBehind(k, op)' => CacheBehind(k, op) \/ ReadBehind(k, op) \/ Changes(k, op)
         /\ ReadBehind(k, op)' => ReadBehind(k, op) \/ Changes(k, op)
<1>1. CASE \E s \in desk.screens : Navigate(s) \/ Turn(s)
  <2>1. cache' = cache /\ \E keys : Mount(keys)
    BY <1>1 DEF Navigate, Turn
  <2> QED
    BY <2>1, MountLeavesBehind DEF FreshBehind, CacheBehind
<1>2. CASE \E x \in DOMAIN reads : Serve(x)
  <2>1. PICK x \in DOMAIN reads : Serve(x)
    BY <1>2
  <2>2. /\ cache' = cache /\ DOMAIN reads' = DOMAIN reads
        /\ k \in DOMAIN reads => \/ reads'[k] = reads[k]
                                 \/ reads'[k] = [reads[k] EXCEPT !.served = TRUE]
    BY <2>1 DEF Serve
  <2>3. k \in DOMAIN reads => reads'[k].behind = reads[k].behind
    BY <2>2, ReadUpdates DEF EntriesOK
  <2> QED
    BY <2>2, <2>3 DEF FreshBehind, CacheBehind, ReadBehind
<1>3. CASE \E x \in DOMAIN reads : Arrive(x)
  <2>1. PICK x \in DOMAIN reads : Arrive(x)
    BY <1>3
  <2>2. reads' = Drop(x)
    BY <2>1 DEF Arrive
  <2>3. ReadBehind(k, op)' => ReadBehind(k, op)
    BY <2>2, DropIs DEF ReadBehind
  <2>4. /\ k \in DOMAIN cache' => k \in DOMAIN cache \/ k = x
        /\ k # x /\ k \in DOMAIN cache => cache'[k] = cache[k]
        /\ cache'[x] = [fresh |-> TRUE, behind |-> reads[x].behind]
    BY <2>1 DEF Arrive, With
  <2>5. CacheBehind(k, op)' /\ k = x => ReadBehind(k, op)
    BY <2>4 DEF CacheBehind, ReadBehind
  <2> QED
    BY <2>3, <2>4, <2>5 DEF FreshBehind, CacheBehind
<1>4. CASE \E x \in DOMAIN reads : ReadFails(x)
  <2>1. PICK x \in DOMAIN reads : ReadFails(x)
    BY <1>4
  <2>2. ReadBehind(k, op)' => ReadBehind(k, op)
    BY <2>1, DropIs DEF ReadFails, ReadBehind
  <2>3. /\ DOMAIN cache' = DOMAIN cache
        /\ k \in DOMAIN cache => \/ cache'[k] = cache[k]
                                 \/ cache'[k] = [cache[k] EXCEPT !.fresh = FALSE]
    BY <2>1 DEF ReadFails
  <2>4. k \in DOMAIN cache => /\ cache'[k].behind = cache[k].behind
                              /\ cache'[k].fresh => cache[k].fresh
    BY <2>3, EntryUpdates DEF EntriesOK
  <2> QED
    BY <2>2, <2>3, <2>4 DEF FreshBehind, CacheBehind
<1>5. CASE \E x \in DOMAIN cache : Age(x)
  <2>1. /\ DOMAIN cache' = DOMAIN cache /\ reads' = reads
        /\ k \in DOMAIN cache => \/ cache'[k] = cache[k]
                                 \/ cache'[k] = [cache[k] EXCEPT !.fresh = FALSE]
    BY <1>5 DEF Age
  <2>2. k \in DOMAIN cache => /\ cache'[k].behind = cache[k].behind
                              /\ cache'[k].fresh => cache[k].fresh
    BY <2>1, EntryUpdates DEF EntriesOK
  <2> QED
    BY <2>1, <2>2 DEF FreshBehind, CacheBehind, ReadBehind
<1>6. CASE (\E x \in desk.calls : Send(x)) \/ (\E c \in calls : Refuse(c))
  BY <1>6 DEF Send, Refuse, FreshBehind, CacheBehind, ReadBehind
<1>7. CASE \E c \in calls : Commit(c)
  BY <1>7, CommitLeavesBehind
<1>8. CASE \E c \in calls : Settle(c)
  BY <1>8, InvalidateExpires DEF Settle
<1> QED
  BY <1>1, <1>2, <1>3, <1>4, <1>5, <1>6, <1>7, <1>8 DEF Next

(* A call that settles expires what it is bound to expire.                 *)
LEMMA SettleExpires ==
  ASSUME DesksWellFormed, DeskOK, EntriesOK, CallsOK, NEW c \in calls, Settle(c),
         NEW k, Expires(c.op, k), NEW op
  PROVE  ~FreshBehind(k, op)' /\ ~ReadBehind(k, op)'
<1>1. SeenBy(c) \in Sights
  BY SeenIsSight DEF CallsOK, CallOK, Call
<1>2. \E p \in SettledKeys(c) : IsPrefix(p, k)
  BY <1>1 DEF SettledKeys, Expires
<1> QED
  BY <1>2, InvalidateExpires DEF Settle

LEMMA ExpiredStep ==
  ASSUME DesksWellFormed, TypeInv, ExpiredInTime, Next
  PROVE  ExpiredInTime'
<1> SUFFICES ASSUME NEW op, NEW k, Expires(op, k),
                    FreshBehind(k, op)' \/ ReadBehind(k, op)'
             PROVE  Awaited(op)'
  <2>1. Sights' = Sights
    BY DeskStays
  <2> QED
    BY <2>1 DEF ExpiredInTime, Accounted, Expires
<1>1. FreshBehind(k, op) \/ ReadBehind(k, op) \/ Changes(k, op)
  BY BehindStep DEF TypeInv
<1>2. CASE Changes(k, op)
  <2>1. PICK c \in calls : Commit(c) /\ c.op = op
    BY <1>2 DEF Changes
  <2>2. PICK ok \in BOOLEAN : c.phase = "sent" /\ Becomes(c, ok)
    BY <2>1 DEF Commit
  <2>3. Awaited(c.op)'
    BY <2>2, BecomesKeepsCalls DEF TypeInv
  <2> QED
    BY <2>1, <2>3 DEF Awaited
<1>3. CASE FreshBehind(k, op) \/ ReadBehind(k, op)
  <2>1. Awaited(op)
    BY <1>3 DEF ExpiredInTime, Accounted
  <2>2. CASE \E c \in calls : Settle(c) /\ c.op = op
    <3>1. PICK c \in calls : Settle(c) /\ c.op = op
      BY <2>2
    <3>2. Expires(c.op, k)
      BY <3>1
    <3> QED
      BY <3>1, <3>2, SettleExpires DEF TypeInv
  <2> QED
    BY <2>1, <2>2, CallsStep DEF TypeInv
<1> QED
  BY <1>1, <1>2, <1>3

LEMMA SparedStep ==
  ASSUME TypeInv, SparedIsUpToDate, Next
  PROVE  SparedIsUpToDate'
<1> SUFFICES ASSUME NEW op, NEW k, Spares(op, k), CacheBehind(k, op)' \/ ReadBehind(k, op)'
             PROVE  FALSE
  <2>1. desk' = desk
    BY DeskStays
  <2> QED
    BY <2>1 DEF SparedIsUpToDate, NeverBehind, Spares
<1>1. ~CacheBehind(k, op) /\ ~ReadBehind(k, op)
  BY DEF SparedIsUpToDate, NeverBehind
<1>2. Changes(k, op)
  BY <1>1, BehindStep DEF TypeInv
<1>3. PICK c \in calls : c.op = op /\ c.writes \cap Shows[k] # {}
  BY <1>2 DEF Changes
<1>4. PICK x \in desk.calls, s \in desk.screens : x.op = c.op /\ c.writes = Writes(x, s)
  BY <1>3 DEF TypeInv, CallsOK, CallOK
<1> QED
  BY <1>3, <1>4 DEF Spares

THEOREM Inductive == DesksWellFormed /\ Spec => []IInv
<1> SUFFICES ASSUME DesksWellFormed PROVE Spec => []IInv
  OBVIOUS
<1>1. Init => IInv
  <2> SUFFICES ASSUME Init PROVE IInv
    OBVIOUS
  <2>1. TypeInv
    BY TypeInit
  <2>2. \A k, op : ~CacheBehind(k, op) /\ ~ReadBehind(k, op)
    BY DEF Init, CacheBehind, ReadBehind, Asked
  <2> QED
    BY <2>1, <2>2
    DEF IInv, ExpiredInTime, SparedIsUpToDate, Accounted, NeverBehind, FreshBehind
<1>2. IInv /\ [Next]_vars => IInv'
  <2> SUFFICES ASSUME IInv, [Next]_vars PROVE IInv'
    OBVIOUS
  <2>1. CASE Next
    BY <2>1, TypeStep, ExpiredStep, SparedStep DEF IInv
  <2>2. CASE UNCHANGED vars
    <3>1. TypeInv'
      BY TypeStep DEF IInv
    <3>2. Sights' = Sights
      BY DeskStays
    <3>3. ExpiredInTime' /\ SparedIsUpToDate'
      BY <2>2, <3>2
      DEF IInv, vars, ExpiredInTime, SparedIsUpToDate, Accounted, NeverBehind, FreshBehind,
          CacheBehind, ReadBehind, Awaited, Expires, Spares
    <3> QED
      BY <3>1, <3>3 DEF IInv
  <2> QED
    BY <2>1, <2>2
<1> QED
  BY <1>1, <1>2, PTL DEF Spec

----------------------------------------------------------------------------
(* A key is under its own, and under what it begins with.                  *)
LEMMA KeyPrefixes ==
  ASSUME NEW a, NEW b, NEW c, NEW d
  PROVE  /\ IsPrefix(<<a>>, <<a>>) /\ IsPrefix(<<a>>, <<a, b>>)
         /\ IsPrefix(<<a>>, <<a, b, c>>)
         /\ IsPrefix(<<a, b>>, <<a, b>>) /\ IsPrefix(<<a, b>>, <<a, b, c>>)
         /\ IsPrefix(<<a, b>>, <<a, b, c, d>>)
         /\ IsPrefix(<<a, b, c>>, <<a, b, c>>)
<1>1. IsPrefix(<<a>>, <<a>>) /\ IsPrefix(<<a>>, <<a, b>>) /\ IsPrefix(<<a>>, <<a, b, c>>)
  BY DEF IsPrefix
<1>2. IsPrefix(<<a, b>>, <<a, b>>) /\ IsPrefix(<<a, b>>, <<a, b, c>>)
  BY DEF IsPrefix
<1>3. IsPrefix(<<a, b>>, <<a, b, c, d>>)
  BY DEF IsPrefix
<1>4. IsPrefix(<<a, b, c>>, <<a, b, c>>)
  BY DEF IsPrefix
<1> QED
  BY <1>1, <1>2, <1>3, <1>4

(* What each write declares out of date.                                   *)
LEMMA OwnKeysAre ==
  ASSUME NEW s
  PROVE  /\ Invalidates("structure", s) = structureKeys
         /\ Invalidates("retire", s) = retireKeys
         /\ Invalidates("slot", s) = invalidateSlotsAndMap
         /\ Invalidates("season", s) = SeasonKeys
         /\ Invalidates("rate", s) = RateKeys(s)
         /\ Invalidates("package", s) = PackageKeys
         /\ Invalidates("equipment", s) = EquipmentKeys
         /\ Invalidates("item", s) = ItemKeys
BY DEF Invalidates, BookingKeys, RenewalKeys, CustomerKeys, EstablishmentKeys, OwnKeys

LEMMA SoldKeysAre ==
  ASSUME NEW s
  PROVE  /\ Invalidates("createBooking", s) = {Bookings(s.date), DayMap(s.date)}
         /\ Invalidates("cancelBooking", s) = {Bookings(s.date), DayMap(s.date)}
         /\ Invalidates("settlePayment", s) = {Bookings(s.date)}
BY DEF Invalidates, BookingKeys, RenewalKeys, CustomerKeys, EstablishmentKeys

LEMMA ContractKeysAre ==
  ASSUME NEW s
  PROVE  /\ CustomerBookings(s.customer) \in Invalidates("contract", s)
         /\ CustomerBookings(s.customer) \in Invalidates("transfer", s)
BY DEF Invalidates, BookingKeys, RenewalKeys, CustomerKeys, EstablishmentKeys

LEMMA RenewalKeysAre ==
  ASSUME NEW s
  PROVE  /\ Invalidates("renew", s) = {<<"subscriptions">>, <<"map">>, <<"renewalCampaign">>}
         /\ Invalidates("closeCampaign", s) =
              {<<"renewalCampaign">>, <<"subscriptions">>, <<"map">>}
         /\ Invalidates("openCampaign", s) = {<<"renewalCampaign">>}
         /\ Invalidates("permissions", s) = {EstablishmentTeam}
BY DEF Invalidates, BookingKeys, RenewalKeys, CustomerKeys, EstablishmentKeys

(* So the keys that show it expire, whatever screen the call sees.        *)
LEMMA LayoutExpires ==
  ASSUME NEW op \in {"structure", "retire"},
         NEW k \in {EstablishmentStructure, EstablishmentOverview}
                     \cup Maps \cup Cards \cup CededLists
  PROVE  Expires(op, k)
<1>1. \E p \in structureKeys : IsPrefix(p, k)
  BY KeyPrefixes DEF structureKeys, EstablishmentStructure, EstablishmentOverview, SetupStatus,
     DayMaps, CustomerScope, Maps, Cards, CededLists, DayMap, CustomerBookings,
     CededSubscriptions
<1>2. \A s : structureKeys \subseteq Invalidates(op, s)
  BY OwnKeysAre DEF retireKeys
<1> QED
  BY <1>1, <1>2 DEF Expires

LEMMA RetiredExpires == Expires("retire", RetiredUmbrellas)
BY OwnKeysAre, KeyPrefixes DEF Expires, retireKeys, RetiredUmbrellas

LEMMA PermissionsExpire ==
  ASSUME NEW u
  PROVE  Expires("permissions", StaffPermissions(u))
BY RenewalKeysAre, KeyPrefixes DEF Expires, EstablishmentTeam, StaffPermissions

LEMMA RenewalsExpire ==
  ASSUME NEW op \in {"renew", "closeCampaign"}, NEW x
  PROVE  /\ Expires(op, Subscriptions(x)) /\ Expires(op, RenewalCampaign(x))
         /\ Expires(op, DayMap(x))
<1>1. \A s : {<<"subscriptions">>, <<"map">>, <<"renewalCampaign">>} \subseteq Invalidates(op, s)
  BY RenewalKeysAre
<1>2. /\ IsPrefix(<<"subscriptions">>, Subscriptions(x))
      /\ IsPrefix(<<"renewalCampaign">>, RenewalCampaign(x))
      /\ IsPrefix(<<"map">>, DayMap(x))
  BY KeyPrefixes DEF Subscriptions, RenewalCampaign, DayMap
<1> QED
  BY <1>1, <1>2 DEF Expires

LEMMA OpeningExpires ==
  ASSUME NEW x
  PROVE  Expires("openCampaign", RenewalCampaign(x))
BY RenewalKeysAre, KeyPrefixes DEF Expires, RenewalCampaign

LEMMA SlotExpires ==
  ASSUME NEW k \in {TimeSlots, SetupStatus} \cup Maps
  PROVE  Expires("slot", k)
<1>1. \E p \in invalidateSlotsAndMap : IsPrefix(p, k)
  BY KeyPrefixes DEF invalidateSlotsAndMap, TimeSlots, DayMaps, SetupStatus, Maps, DayMap
<1> QED
  BY <1>1, OwnKeysAre DEF Expires

LEMMA CatalogExpires ==
  /\ Expires("package", Packages) /\ Expires("package", AllPackages)
  /\ Expires("equipment", EquipmentTypes) /\ Expires("equipment", AllEquipmentTypes)
  /\ Expires("item", RentalItems) /\ Expires("item", AllRentalItems)
<1>1. /\ \E p \in PackageKeys : IsPrefix(p, Packages)
      /\ \E p \in PackageKeys : IsPrefix(p, AllPackages)
  BY KeyPrefixes DEF PackageKeys, Packages, AllPackages
<1>2. /\ \E p \in EquipmentKeys : IsPrefix(p, EquipmentTypes)
      /\ \E p \in EquipmentKeys : IsPrefix(p, AllEquipmentTypes)
  BY KeyPrefixes DEF EquipmentKeys, EquipmentTypes, AllEquipmentTypes
<1>3. /\ \E p \in ItemKeys : IsPrefix(p, RentalItems)
      /\ \E p \in ItemKeys : IsPrefix(p, AllRentalItems)
  BY KeyPrefixes DEF ItemKeys, RentalItems, AllRentalItems
<1> QED
  BY <1>1, <1>2, <1>3, OwnKeysAre DEF Expires

LEMMA SetupExpires ==
  ASSUME NEW op \in {"structure", "retire", "slot", "season", "rate"}
  PROVE  Expires(op, SetupStatus)
<1>1. \A s : SetupStatus \in Invalidates(op, s)
  BY OwnKeysAre DEF structureKeys, retireKeys, invalidateSlotsAndMap, SeasonKeys, RateKeys
<1>2. IsPrefix(SetupStatus, SetupStatus)
  BY KeyPrefixes DEF SetupStatus
<1> QED
  BY <1>1, <1>2 DEF Expires

----------------------------------------------------------------------------
(* The pages show the day of the session and the card of the customer they *)
(* are opened on, and no other.                                            *)
LEMMA PageOfDay ==
  ASSUME NEW s \in Screens, NEW d, NEW k \in {Bookings(d), DayMap(d)}, k \in Page(s) \cup Shell
  PROVE  s.date = d
<1> USE DEF CustomersKey, Customer, CustomerBookings, CededSubscriptions, CustomerAccess,
    DayMap, Bookings, Packages, AllPackages, EquipmentTypes, AllEquipmentTypes, RentalItems,
    AllRentalItems, RentalTariffs, Rentals, Subscriptions, SeasonsKey, Rates, TimeSlots,
    RenewalCampaign, EstablishmentOverview, EstablishmentTeam, StaffPermissions,
    EstablishmentStructure, RetiredUmbrellas, SetupStatus, LegalProfile
<1>1. k \notin Shell
  BY DEF Shell
<1>2. k \in EntityLabels(s) => s.date = d
  BY DEF EntityLabels
<1>3. k \in RenewalsView(s) => s.date = d
  BY <1>2 DEF RenewalsView
<1>4. k \in PricingView(s) => s.date = d
  BY DEF PricingView
<1>5. k \notin CustomerDetail(s) /\ k \notin EstablishmentView(s)
  BY DEF CustomerDetail, EstablishmentView
<1>6. s.page \in DatePages \cup {"renewals", "customers", "customerDetail", "pricing",
                                 "rentalCatalog", "establishment", "structure", "onboarding"}
  BY DEF Screens
<1>7. CASE s.page \in {"map", "bookings", "rentals"}
  BY <1>1, <1>2, <1>7 DEF Page
<1>8. CASE s.page \in {"renewals", "pricing", "customerDetail", "establishment"}
  BY <1>1, <1>3, <1>4, <1>5, <1>8 DEF Page
<1>9. CASE s.page \in {"customers", "rentalCatalog", "structure", "onboarding"}
  BY <1>1, <1>9 DEF Page
<1> QED
  BY <1>6, <1>7, <1>8, <1>9 DEF DatePages

LEMMA PageOfCard ==
  ASSUME NEW s \in Screens, NEW c, CustomerBookings(c) \in Page(s) \cup Shell
  PROVE  s.customer = c
<1> DEFINE k == CustomerBookings(c)
<1> USE DEF CustomersKey, Customer, CustomerBookings, CededSubscriptions, CustomerAccess,
    DayMap, Bookings, Packages, AllPackages, EquipmentTypes, AllEquipmentTypes, RentalItems,
    AllRentalItems, RentalTariffs, Rentals, Subscriptions, SeasonsKey, Rates, TimeSlots,
    RenewalCampaign, EstablishmentOverview, EstablishmentTeam, StaffPermissions,
    EstablishmentStructure, RetiredUmbrellas, SetupStatus, LegalProfile
<1>1. k \notin Shell /\ k \notin EntityLabels(s)
  BY DEF Shell, EntityLabels
<1>2. k \notin RenewalsView(s) /\ k \notin PricingView(s)
  BY <1>1 DEF RenewalsView, PricingView
<1>3. k \in CustomerDetail(s) => s.customer = c
  BY DEF CustomerDetail
<1>4. k \notin EstablishmentView(s)
  BY DEF EstablishmentView
<1>6. s.page \in DatePages \cup {"renewals", "customers", "customerDetail", "pricing",
                                 "rentalCatalog", "establishment", "structure", "onboarding"}
  BY DEF Screens
<1>7. CASE s.page \in {"map", "bookings", "rentals"}
  BY <1>1, <1>7 DEF Page
<1>8. CASE s.page \in {"renewals", "pricing", "customerDetail", "establishment"}
  BY <1>1, <1>2, <1>3, <1>4, <1>8 DEF Page
<1>9. CASE s.page \in {"customers", "rentalCatalog", "structure", "onboarding"}
  BY <1>1, <1>9 DEF Page
<1> QED
  BY <1>6, <1>7, <1>8, <1>9 DEF DatePages

(* The map of a day shows nothing of a campaign, nor does the list of the  *)
(* subscriptions of a season.                                              *)
LEMMA CampaignShows ==
  ASSUME NEW s, NEW k, <<Campaign(s), k>> \in Shown
  PROVE  k \in Cards \/ \E x \in Seasons : k = RenewalCampaign(x)
<1> DEFINE r == <<Campaign(s), k>>
<1> USE DEF Layout, Retired, Slots, SeasonList, RateList, PackageList, EquipmentList, ItemList,
    TariffList, RentalList, Sold, Paid, Contract, Ceded, Access, Person, Subscribed, Campaign,
    Team, Granted, Name, Legal
<1>1. r \notin StructureReads
  BY DEF StructureReads
<1>2. r \notin CatalogReads
  <2>1. r \notin RateReads
    BY DEF RateReads
  <2>2. r \notin {<<TariffList(x), RentalTariffs(x)>> : x \in Seasons}
    OBVIOUS
  <2> QED
    BY <2>1, <2>2 DEF CatalogReads
<1>3. r \notin CustomerReads /\ r \notin TeamReads
  BY DEF CustomerReads, TeamReads
<1>4. r \notin DayReads
  BY DEF DayReads
<1>5. r \in SeasonReads
  BY <1>1, <1>2, <1>3, <1>4 DEF Shown, BookingReads
<1>6. PICK x \in Seasons :
        r \in ({Campaign(x)} \X ({RenewalCampaign(x)} \cup Cards))
                \cup ({Subscribed(x)} \X ({Subscriptions(x)}
                        \cup {RenewalCampaign(o) : o \in Seasons}))
  BY <1>5 DEF SeasonReads
<1>7. k \in {RenewalCampaign(x)} \cup Cards
  BY <1>6
<1> QED
  BY <1>7

LEMMA OpeningSpares ==
  ASSUME NEW k \in {Subscriptions(x) : x \in Seasons} \cup Maps
  PROVE  Spares("openCampaign", k)
<1>1. k \in Keys
  <2>1. CASE k \in Maps
    <3>1. <<Layout, k>> \in StructureReads
      BY <2>1 DEF StructureReads
    <3> QED
      BY <3>1 DEF Shown, Keys
  <2>2. CASE k \in {Subscriptions(x) : x \in Seasons}
    <3>1. PICK x \in Seasons : k = Subscriptions(x)
      BY <2>2
    <3>2. <<Subscribed(x), k>> \in SeasonReads
      BY <3>1 DEF SeasonReads
    <3> QED
      BY <3>2 DEF Shown, BookingReads, Keys
  <2> QED
    BY <2>1, <2>2
<1>2. Shows[k] = {f \in Facts : <<f, k>> \in Shown}
  BY <1>1 DEF Shows
<1>3. \A x, s : x.op = "openCampaign" => Writes(x, s) = {Campaign(s.season)}
  BY DEF Writes
<1>4. ASSUME NEW s PROVE <<Campaign(s), k>> \notin Shown
  <2>1. \A x : k # RenewalCampaign(x)
    BY DEF Maps, Subscriptions, DayMap, RenewalCampaign
  <2>2. k \notin Cards
    BY DEF Maps, Subscriptions, DayMap, CustomerBookings, Cards
  <2> QED
    BY <2>1, <2>2, CampaignShows
<1> QED
  BY <1>2, <1>3, <1>4 DEF Spares

----------------------------------------------------------------------------
(* What is not missed: a key that expires, one the call does not touch,    *)
(* one no screen mounts, a call the desk does not make.                    *)
LEMMA NotMissed ==
  ASSUME IInv, NEW k, NEW op,
         Expires(op, k) \/ Spares(op, k) \/ k \notin Reached \/ op \notin Ops
  PROVE  ~Missed(k, op)
<1> SUFFICES ASSUME Missed(k, op) PROVE FALSE
  OBVIOUS
<1>1. FreshBehind(k, op)
  BY DEF Missed, FreshBehind, CacheBehind
<1>2. ~Awaited(op)
  BY DEF Missed, Awaited
<1>3. ~Expires(op, k) /\ ~Spares(op, k)
  BY <1>1, <1>2
  DEF IInv, ExpiredInTime, SparedIsUpToDate, Accounted, NeverBehind, FreshBehind
<1>4. k \in Reached /\ op \in Ops
  BY <1>1 DEF IInv, TypeInv, KeysOK, EntriesOK, Entry, FreshBehind, CacheBehind
<1> QED
  BY <1>3, <1>4

LEMMA LayoutHolds == IInv => LayoutShownFresh
BY NotMissed, LayoutExpires, RetiredExpires DEF LayoutShownFresh, KeepsFresh

LEMMA PermissionsHold == IInv => PermissionsShownFresh
BY NotMissed, PermissionsExpire DEF PermissionsShownFresh, KeepsFresh

LEMMA RenewalHolds == IInv => RenewalShownFresh
<1> DEFINE ops == {"renew", "closeCampaign", "openCampaign"}
<1> SUFFICES ASSUME IInv PROVE RenewalShownFresh
  OBVIOUS
<1>1. ASSUME NEW op \in ops, NEW x \in Seasons
      PROVE  ~Missed(Subscriptions(x), op) /\ ~Missed(RenewalCampaign(x), op)
  <2>1. CASE op = "openCampaign"
    BY <2>1, NotMissed, OpeningExpires, OpeningSpares
  <2>2. CASE op \in {"renew", "closeCampaign"}
    BY <2>2, NotMissed, RenewalsExpire
  <2> QED
    BY <2>1, <2>2
<1>2. ASSUME NEW op \in ops, NEW k \in Maps PROVE ~Missed(k, op)
  <2>1. CASE op = "openCampaign"
    BY <2>1, NotMissed, OpeningSpares
  <2>2. CASE op \in {"renew", "closeCampaign"}
    BY <2>2, NotMissed, RenewalsExpire DEF Maps
  <2> QED
    BY <2>1, <2>2
<1> QED
  BY <1>1, <1>2 DEF RenewalShownFresh, KeepsFresh

LEMMA CatalogHolds == IInv => CatalogShownFresh
BY NotMissed, SlotExpires, CatalogExpires DEF CatalogShownFresh, KeepsFresh

LEMMA SetupHolds == IInv => SetupShownFresh
BY NotMissed, SetupExpires DEF SetupShownFresh, KeepsFresh

(* Where bookings are made, cancelled or paid the date does not change     *)
(* under the call, nor the customer where contracts are ended, suspended,  *)
(* taken up again or handed over.                                          *)
DesksSteady ==
  \A d \in Desks : \A x \in d.calls : \A s, t \in d.screens :
     /\ x.op \in {"createBooking", "cancelBooking", "settlePayment"} => s.date = t.date
     /\ x.op \in {"contract", "transfer"} => s.customer = t.customer

(* A sight has the customer of a screen of the desk, and the date of one.  *)
LEMMA SightOf ==
  ASSUME DesksWellFormed, desk \in Desks, NEW v \in Sights
  PROVE  \E s \in desk.screens, t \in desk.screens : v.date = t.date /\ v.customer = s.customer
<1>1. PICK s \in desk.screens, t \in desk.screens : v = [s EXCEPT !.date = t.date]
  BY SightsAre
<1>2. s \in Screens
  BY DEF DesksWellFormed
<1>3. v.date = t.date /\ v.customer = s.customer
  BY <1>1, <1>2 DEF Screens
<1> QED
  BY <1>3

LEMMA DayExpires ==
  ASSUME DesksWellFormed, DesksSteady, desk \in Desks, NEW d,
         NEW op \in {"createBooking", "cancelBooking", "settlePayment"}, op \in Ops,
         NEW k \in {Bookings(d), DayMap(d)}, k \in Reached,
         op = "settlePayment" => k = Bookings(d)
  PROVE  Expires(op, k)
<1>1. PICK s \in desk.screens : k \in Page(s) \cup Shell
  BY DEF Reached, Mounted
<1>2. s.date = d
  BY <1>1, PageOfDay DEF DesksWellFormed
<1>3. PICK x \in desk.calls : x.op = op
  BY DEF Ops
<1>4. ASSUME NEW v \in Sights PROVE v.date = d
  BY <1>2, <1>3, SightOf DEF DesksSteady
<1>5. ASSUME NEW v \in Sights PROVE k \in Invalidates(op, v)
  <2>1. v.date = d
    BY <1>4
  <2>2. CASE op = "settlePayment"
    BY <2>1, <2>2, SoldKeysAre
  <2>3. CASE op \in {"createBooking", "cancelBooking"}
    BY <2>1, <2>3, SoldKeysAre
  <2> QED
    BY <2>2, <2>3
<1>6. IsPrefix(k, k)
  BY KeyPrefixes DEF Bookings, DayMap
<1> QED
  BY <1>5, <1>6 DEF Expires

LEMMA DayHolds ==
  ASSUME DesksWellFormed, DesksSteady, IInv
  PROVE  DayShownFresh
<1> SUFFICES ASSUME NEW d \in Days, NEW op \in {"createBooking", "cancelBooking", "settlePayment"},
                    NEW k \in {Bookings(d), DayMap(d)}, op = "settlePayment" => k = Bookings(d)
             PROVE  ~Missed(k, op)
  BY DEF DayShownFresh, KeepsFresh, Maps
<1>1. desk \in Desks
  BY DEF IInv, TypeInv, DeskOK
<1> QED
  BY <1>1, NotMissed, DayExpires

LEMMA CardExpires ==
  ASSUME DesksWellFormed, DesksSteady, desk \in Desks, NEW c,
         NEW op \in {"contract", "transfer"}, op \in Ops, CustomerBookings(c) \in Reached
  PROVE  Expires(op, CustomerBookings(c))
<1>1. PICK s \in desk.screens : CustomerBookings(c) \in Page(s) \cup Shell
  BY DEF Reached, Mounted
<1>2. s.customer = c
  BY <1>1, PageOfCard DEF DesksWellFormed
<1>3. PICK x \in desk.calls : x.op = op
  BY DEF Ops
<1>4. ASSUME NEW v \in Sights PROVE v.customer = c
  BY <1>2, <1>3, SightOf DEF DesksSteady
<1>5. ASSUME NEW v \in Sights PROVE CustomerBookings(c) \in Invalidates(op, v)
  BY <1>4, ContractKeysAre
<1>6. IsPrefix(CustomerBookings(c), CustomerBookings(c))
  BY KeyPrefixes DEF CustomerBookings
<1> QED
  BY <1>5, <1>6 DEF Expires

LEMMA CardHolds ==
  ASSUME DesksWellFormed, DesksSteady, IInv
  PROVE  CardShownFresh
<1>1. desk \in Desks
  BY DEF IInv, TypeInv, DeskOK
<1> QED
  BY <1>1, NotMissed, CardExpires DEF CardShownFresh, KeepsFresh, Cards

----------------------------------------------------------------------------
(* Every variable keeps its type; no query of what is on screen is left    *)
(* idle: it has data, or is being read, or has failed.                     *)
THEOREM CacheTypeCorrect == DesksWellFormed /\ Spec => []StaffCacheTypeOK
<1> SUFFICES ASSUME DesksWellFormed PROVE Spec => []StaffCacheTypeOK
  OBVIOUS
<1>1. IInv => StaffCacheTypeOK
  <2> SUFFICES ASSUME IInv PROVE StaffCacheTypeOK
    OBVIOUS
  <2>1. desk \in Desks /\ screen \in Screens
    BY DEF IInv, TypeInv, DeskOK, DesksWellFormed
  <2>2. Reached \subseteq desk.keys
    BY DEF Reached, Mounted
  <2>3. \A c \in calls : [op |-> c.op, of |-> c.of] \in CallTypes
    BY <2>1 DEF IInv, TypeInv, CallsOK, CallOK, DesksWellFormed
  <2> QED
    BY <2>1, <2>2, <2>3 DEF IInv, TypeInv, KeysOK, StaffCacheTypeOK
<1> QED
  BY <1>1, Inductive, PTL

(* After a write of the editor, of the team, of the renewals, of the       *)
(* catalogue or of the guided setup, no page of any date, customer or      *)
(* season shows as current what it read before: the keys the write lists   *)
(* are prefixes of the keys of all that shows it.                          *)
THEOREM ListsAreComplete ==
  DesksWellFormed /\ Spec =>
    [](/\ LayoutShownFresh /\ PermissionsShownFresh /\ RenewalShownFresh
       /\ CatalogShownFresh /\ SetupShownFresh)
<1> SUFFICES ASSUME DesksWellFormed
             PROVE  Spec => [](/\ LayoutShownFresh /\ PermissionsShownFresh /\ RenewalShownFresh
                               /\ CatalogShownFresh /\ SetupShownFresh)
  OBVIOUS
<1> QED
  BY Inductive, LayoutHolds, PermissionsHold, RenewalHolds, CatalogHolds, SetupHolds, PTL

(* What a page shows as current is never older than the last answered      *)
(* write of this application that changed it; of bookings and contracts,   *)
(* as long as the day, or the customer, that the page is of stays.         *)
THEOREM NothingStaleShown ==
  DesksWellFormed /\ DesksSteady /\ Spec => []ShownFresh
<1> SUFFICES ASSUME DesksWellFormed, DesksSteady PROVE Spec => []ShownFresh
  OBVIOUS
<1>1. IInv => ShownFresh
  BY LayoutHolds, PermissionsHold, RenewalHolds, CatalogHolds, SetupHolds, DayHolds, CardHolds
  DEF ShownFresh
<1> QED
  BY <1>1, Inductive, PTL
=============================================================================
