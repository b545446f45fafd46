-------------------------- MODULE BackOffice_proofs --------------------------
(***************************************************************************)
(* What the parts of the back office promise, for any number of workers,   *)
(* users, links, umbrellas, rates, rentals and packages, and the whole of  *)
(* them. Each part is a specification of its own first; the back office is *)
(* then shown to be the part that moves beside the others, which are as    *)
(* they were at first (BackOffice, focus). The slots of the day are proved *)
(* about in DaySlots_proofs.                                               *)
(***************************************************************************)
EXTENDS BackOffice, DaySlots_proofs, FiniteSetTheorems, WellFoundedInduction,
        NaturalsInduction, TLAPS

-----------------------------------------------------------------------------
(* How a step changes the requests of a part: one begins, one ends, none   *)
(* does.                                                                   *)
OneBusy ==
  \A w \in Workers : work[w] # NoRequest => \A v \in Workers \ {w} : work[v] = NoRequest

LEMMA RequestBegins ==
  ASSUME NEW R, work \in [Workers -> R \cup {NoRequest}], serial \in BOOLEAN,
         NEW w \in Workers, NEW r \in R, Begin(w, r)
  PROVE  /\ work' \in [Workers -> R \cup {NoRequest}] /\ serial' \in BOOLEAN
         /\ serial' => serial /\ OneBusy'
         /\ work'[w] = r /\ \A v \in Workers \ {w} : work'[v] = work[v]
         /\ serial' => \A v \in Workers \ {w} : work'[v] = NoRequest
<1>1. /\ work' \in [Workers -> R \cup {NoRequest}] /\ serial' \in BOOLEAN
      /\ work'[w] = r /\ \A v \in Workers \ {w} : work'[v] = work[v]
      /\ serial' => serial /\ \A v \in Workers : work[v] = NoRequest
  BY DEF Begin, Alone, Idle, Busy
<1>2. serial' => \A v \in Workers \ {w} : work'[v] = NoRequest
  BY <1>1
<1> QED
  BY <1>1, <1>2 DEF OneBusy

LEMMA RequestEnds ==
  ASSUME NEW R, work \in [Workers -> R \cup {NoRequest}], serial \in BOOLEAN,
         serial => OneBusy, NEW w \in Workers, work[w] # NoRequest, Finish(w)
  PROVE  /\ work' \in [Workers -> R \cup {NoRequest}]
         /\ serial' = serial /\ (serial' => OneBusy')
         /\ work'[w] = NoRequest /\ \A v \in Workers \ {w} : work'[v] = work[v]
         /\ serial => \A v \in Workers : work'[v] = NoRequest
<1>1. /\ work' \in [Workers -> R \cup {NoRequest}] /\ serial' = serial
      /\ work'[w] = NoRequest /\ \A v \in Workers \ {w} : work'[v] = work[v]
  BY DEF Finish
<1>2. serial => \A v \in Workers : work'[v] = NoRequest
  BY <1>1 DEF OneBusy
<1> QED
  BY <1>1, <1>2 DEF OneBusy

LEMMA RequestAlone ==
  ASSUME serial \in BOOLEAN, Alone, UNCHANGED work
  PROVE  /\ serial' \in BOOLEAN
         /\ serial' => serial /\ OneBusy'
         /\ serial' => \A v \in Workers : work'[v] = NoRequest
  BY DEF Alone, Idle, Busy, OneBusy

-----------------------------------------------------------------------------
(* The staff                                                               *)

(* What the request in flight has found, when there is no other.           *)
StaffStillSo(r) ==
  /\ r.op = "disable" => \E a \in ActiveAdmins : a # r.u
  /\ r.op = "issue" => r.seen = Unconsumed(r.u)
  /\ r.op = "permissions" => r.old = override[r.u]

StaffSerial ==
  serial =>
    \A w \in Workers :
       work[w] # NoRequest =>
         (\A v \in Workers \ {w} : work[v] = NoRequest) /\ StaffStillSo(work[w])

OneLinkEach == \A u \in Users : \A s, t \in LiveLinks(u) : s = t

StaffKept ==
  /\ serial => ActiveAdmins # {} /\ OneLinkEach
  /\ PermissionsAsAsked

(* The user and the links that a request has found are there still.        *)
StaffFound(r) ==
  r.u \in Members /\ (r.op \in {"issue", "redeem"} => r.seen \subseteq Issued)

StaffSeen == \A w \in Workers : work[w] # NoRequest => StaffFound(work[w])

NothingGone == Issued \subseteq Issued' /\ Members \subseteq Members'

StaffInv == StaffTypeOK /\ StaffSeen /\ StaffSerial /\ StaffKept

LEMMA StaffRows ==
  /\ \A r \in UserRow : DOMAIN r = {"role", "disabled", "password"}
  /\ \A r \in TokenRow : DOMAIN r = {"user", "consumed", "expired"}
  /\ \A r \in StaffRequest : r # NoRequest /\ r.op # "none"
PROOF
<1>1. \A r \in StaffRequest : r.op # "none"
  BY DEF StaffRequest
<1>2. \A r \in StaffRequest : r # NoRequest
  BY <1>1 DEF NoRequest
<1> QED BY <1>1, <1>2 DEF UserRow, TokenRow

LEMMA StaffServed ==
  ASSUME StaffTypeOK
  PROVE  /\ \A w \in Workers : work[w].op # "none" => work[w] \in StaffRequest
         /\ \A w \in Workers : work[w] # NoRequest => work[w] \in StaffRequest
         /\ \A u \in Members : user[u] \in UserRow
         /\ \A t \in Issued : token[t] \in TokenRow
         /\ Members \subseteq Users /\ Issued \subseteq Tokens
PROOF BY DEF StaffTypeOK, NoRequest, Members, Issued

(* How a step changes the requests: one begins, one ends, none does.       *)
LEMMA StaffBegins ==
  ASSUME StaffInv, NEW w \in Workers, NEW r \in StaffRequest, Begin(w, r),
         StaffStillSo(r)', StaffFound(r)', NothingGone
  PROVE  StaffSeen' /\ StaffSerial' /\ (serial' => serial) /\ serial' \in BOOLEAN
         /\ work' \in [Workers -> StaffRequest \cup {NoRequest}]
PROOF
<1>1. /\ serial' => serial /\ Idle
      /\ work' \in [Workers -> StaffRequest \cup {NoRequest}]
      /\ serial' \in BOOLEAN
      /\ \A v \in Workers : work'[v] = IF v = w THEN r ELSE work[v]
  BY DEF Begin, Alone, StaffInv, StaffTypeOK
<1>2. serial' => \A v \in Workers \ {w} : work'[v] = NoRequest
  BY <1>1 DEF Idle, Busy
<1>3. work'[w] = r
  BY <1>1
<1>4. StaffStillSo(work[w])'
  BY <1>3 DEF StaffStillSo
<1>5. ASSUME NEW v \in Workers, work'[v] # NoRequest PROVE StaffFound(work[v])'
  <2>1. CASE v = w
    BY <1>3, <2>1 DEF StaffFound
  <2>2. CASE v # w
    BY <1>1, <1>5, <2>2 DEF StaffSeen, StaffFound, StaffInv, NothingGone
  <2> QED BY <2>1, <2>2
<1> QED BY <1>1, <1>2, <1>4, <1>5 DEF StaffSerial, StaffSeen

LEMMA StaffEnds ==
  ASSUME StaffInv, NEW w \in Workers, work[w] # NoRequest, Finish(w),
         NothingGone
  PROVE  StaffSeen' /\ StaffSerial' /\ serial' = serial /\ serial' \in BOOLEAN
         /\ work' \in [Workers -> StaffRequest \cup {NoRequest}]
PROOF
<1>1. /\ serial' = serial /\ serial \in BOOLEAN
      /\ work' \in [Workers -> StaffRequest \cup {NoRequest}]
      /\ \A v \in Workers : work'[v] = IF v = w THEN NoRequest ELSE work[v]
  BY DEF Finish, StaffInv, StaffTypeOK
<1>2. serial => \A v \in Workers : work'[v] = NoRequest
  BY <1>1 DEF StaffInv, StaffSerial
<1>3. StaffSeen'
  BY <1>1 DEF StaffSeen, StaffFound, StaffInv, NothingGone
<1> QED BY <1>1, <1>2, <1>3 DEF StaffSerial

LEMMA StaffAlone ==
  ASSUME StaffInv, Alone, UNCHANGED work, NothingGone
  PROVE  StaffSeen' /\ StaffSerial' /\ (serial' => serial) /\ serial' \in BOOLEAN
         /\ work' \in [Workers -> StaffRequest \cup {NoRequest}]
PROOF BY DEF Alone, Idle, Busy, StaffSeen, StaffFound, NothingGone, StaffSerial, StaffInv, StaffTypeOK

(* What is kept of tables that have not changed.                           *)
LEMMA StaffSame ==
  ASSUME StaffInv, UNCHANGED staff, serial' => serial
  PROVE  StaffKept'
PROOF BY DEF StaffInv, StaffKept, OneLinkEach, LiveLinks, Unconsumed, Issued, ActiveAdmins,
             Admins, Members, PermissionsAsAsked, EffectiveFor, OverrideRow, staff

-----------------------------------------------------------------------------
(* Requests that begin.                                                    *)
LEMMA AboutRequest ==
  ASSUME NEW op \in {"invite", "issue", "redeem", "disable", "permissions"}, NEW u \in Users
  PROVE  /\ About(op, u) \in StaffRequest /\ About(op, u).op = op /\ About(op, u).u = u
         /\ \A seen \in SUBSET Tokens :
              [About(op, u) EXCEPT !.seen = seen] \in StaffRequest
         /\ \A desired \in SUBSET Permissions, old \in SUBSET OverrideRow :
              [About(op, u) EXCEPT !.desired = desired, !.old = old] \in StaffRequest
PROOF BY DEF About, StaffRequest

LEMMA StaffReads ==
  ASSUME StaffInv, UNCHANGED staff, NEW w \in Workers, NEW r \in StaffRequest,
         Begin(w, r), StaffStillSo(r),
         StaffFound(r)
  PROVE  StaffInv'
PROOF
<1>0. NothingGone /\ StaffFound(r)'
  BY DEF NothingGone, StaffFound, Issued, Members, staff
<1>1. StaffStillSo(r)'
  BY DEF StaffStillSo, ActiveAdmins, Admins, Members, Unconsumed, Issued, staff
<1> QED BY <1>0, <1>1, StaffBegins, StaffSame DEF StaffInv, StaffTypeOK, staff

(* A user more: nobody that was there goes away.                           *)
LEMMA CreateUserKeeps ==
  ASSUME StaffInv, NEW w \in Workers, CreateUser(w)
  PROVE  StaffInv'
PROOF
<1>1. PICK u \in Users \ Members, role \in {"admin", "staff"} :
         /\ user' = [user EXCEPT ![u] = [role |-> role, disabled |-> FALSE, password |-> FALSE]]
         /\ Begin(w, About("invite", u))
  BY DEF CreateUser
<1>2. UNCHANGED <<token, override, jwt, asked>>
  BY DEF CreateUser
<1>3. user' \in [Users -> UserRow \cup {None}] /\ user'[u] \in UserRow
  BY <1>1 DEF StaffInv, StaffTypeOK, UserRow
<1>4. About("invite", u) \in StaffRequest /\ About("invite", u).op = "invite"
      /\ About("invite", u).u = u
  BY AboutRequest
<1>5. StaffStillSo(About("invite", u))'
  BY <1>4 DEF StaffStillSo
<1>6. u \in Members' /\ Members \subseteq Members'
  <2>1. u \in Members'
    BY <1>3, NoRowAssumption DEF Members
  <2>2. \A v \in Users \ {u} : user'[v] = user[v]
    BY <1>1 DEF StaffInv, StaffTypeOK
  <2> QED BY <2>1, <2>2 DEF Members
<1>7. NothingGone /\ StaffFound(About("invite", u))'
  BY <1>2, <1>4, <1>6 DEF NothingGone, StaffFound, Issued
<1>8. /\ StaffSeen' /\ StaffSerial' /\ (serial' => serial) /\ serial' \in BOOLEAN
      /\ work' \in [Workers -> StaffRequest \cup {NoRequest}]
  BY <1>1, <1>4, <1>5, <1>7, StaffBegins
<1>9. \A v \in ActiveAdmins : v \in ActiveAdmins'
  BY <1>1 DEF ActiveAdmins, Admins, Members, StaffInv, StaffTypeOK
<1>10. StaffKept'
  BY <1>2, <1>8, <1>9 DEF StaffInv, StaffKept, OneLinkEach, LiveLinks, Unconsumed, Issued,
                          PermissionsAsAsked, EffectiveFor
<1> QED BY <1>2, <1>3, <1>8, <1>10 DEF StaffInv, StaffTypeOK

LEMMA ResetPasswordKeeps ==
  ASSUME StaffInv, NEW w \in Workers, ResetPassword(w) \/ ResetAdminPassword(w)
  PROVE  StaffInv'
PROOF
<1>1. PICK u \in Members : Begin(w, About("invite", u))
  BY DEF ResetPassword, ResetAdminPassword, ActiveAdmins, Admins
<1>2. About("invite", u) \in StaffRequest /\ About("invite", u).op = "invite"
      /\ StaffStillSo(About("invite", u)) /\ StaffFound(About("invite", u))
  BY AboutRequest DEF StaffStillSo, StaffFound, Members
<1> QED BY <1>1, <1>2, StaffReads DEF ResetPassword, ResetAdminPassword

LEMMA RedeemFindKeeps ==
  ASSUME StaffInv, NEW w \in Workers, RedeemFind(w)
  PROVE  StaffInv'
PROOF
<1>1. PICK u \in Members, t \in Issued : Begin(w, [About("redeem", u) EXCEPT !.seen = {t}])
  BY DEF RedeemFind, LiveLinks, Unconsumed
<1> DEFINE r == [About("redeem", u) EXCEPT !.seen = {t}]
<1>2. r \in StaffRequest
  <2>1. {t} \in SUBSET Tokens
    BY DEF Issued
  <2> QED BY <2>1, AboutRequest DEF Members
<1>3. r.op = "redeem" /\ r.seen = {t} /\ r.u = u
  BY DEF About
<1> HIDE DEF r
<1>4. StaffStillSo(r) /\ StaffFound(r)
  BY <1>3 DEF StaffStillSo, StaffFound
<1> QED BY <1>1, <1>2, <1>3, <1>4, StaffReads DEF RedeemFind, r

(* Whoever is disabled leaves another administrator that is active.        *)
LEMMA DisableCheckKeeps ==
  ASSUME StaffInv, NEW w \in Workers, DisableCheck(w)
  PROVE  StaffInv'
PROOF
<1>0. PICK m \in Managers, u \in Members :
         /\ m # u
         /\ u \in ActiveAdmins => Cardinality(ActiveAdmins) > 1
         /\ Begin(w, About("disable", u))
         /\ UNCHANGED staff
  BY DEF DisableCheck
<1>1. /\ u \in Users /\ u \in Members
      /\ u \in ActiveAdmins => Cardinality(ActiveAdmins) > 1
      /\ Begin(w, About("disable", u))
  BY <1>0 DEF Members
<1>2. About("disable", u) \in StaffRequest /\ About("disable", u).op = "disable"
      /\ About("disable", u).u = u
  BY <1>1, AboutRequest
<1>3. serial' => \E a \in ActiveAdmins : a # u
  <2> SUFFICES ASSUME serial', \A a \in ActiveAdmins : a = u PROVE FALSE
    OBVIOUS
  <2>1. serial
    BY <1>1 DEF Begin, Alone
  <2>2. ActiveAdmins = {u}
    BY <2>1 DEF StaffInv, StaffKept
  <2>3. Cardinality({u}) = 1
    BY FS_Singleton
  <2> QED BY <1>1, <2>2, <2>3
<1>4. UNCHANGED staff
  BY DEF DisableCheck
<1>5. CASE serial'
  <2>1. StaffStillSo(About("disable", u)) /\ StaffFound(About("disable", u))
    BY <1>1, <1>2, <1>3, <1>5 DEF StaffStillSo, StaffFound
  <2> QED BY <1>1, <1>2, <1>4, <2>1, StaffReads
<1>6. CASE ~ serial'
  <2>1. /\ work' \in [Workers -> StaffRequest \cup {NoRequest}]
        /\ serial' \in BOOLEAN
    BY <1>1, <1>2 DEF Begin, Alone, StaffInv, StaffTypeOK
  <2>2. StaffSeen'
    BY <1>1, <1>2, <1>4 DEF Begin, StaffSeen, StaffFound, Issued, Members, StaffInv,
                            StaffTypeOK, staff
  <2> QED BY <1>4, <1>6, <2>1, <2>2, StaffSame DEF StaffInv, StaffTypeOK, StaffSerial, staff
<1> QED BY <1>5, <1>6

LEMMA PermissionsDeleteKeeps ==
  ASSUME StaffInv, NEW w \in Workers, PermissionsDelete(w)
  PROVE  StaffInv'
PROOF
<1>1. PICK u \in Members, desired \in SUBSET Permissions :
         Begin(w, [About("permissions", u) EXCEPT !.desired = desired, !.old = override[u]])
  BY DEF PermissionsDelete
<1> DEFINE r == [About("permissions", u) EXCEPT !.desired = desired, !.old = override[u]]
<1>2. override[u] \in SUBSET OverrideRow
  BY DEF StaffInv, StaffTypeOK, Members
<1>3. r \in StaffRequest
  BY <1>2, AboutRequest DEF Members
<1>4. r.op = "permissions" /\ r.u = u /\ r.old = override[u]
  BY DEF About
<1> HIDE DEF r
<1>5. StaffStillSo(r) /\ StaffFound(r)
  BY <1>4 DEF StaffStillSo, StaffFound
<1> QED BY <1>1, <1>3, <1>4, <1>5, StaffReads DEF PermissionsDelete, r

LEMMA StaffAbortKeeps ==
  ASSUME StaffInv, NEW w \in Workers, Abort(w), UNCHANGED staff
  PROVE  StaffInv'
PROOF
<1>1. NothingGone
  BY DEF NothingGone, Issued, Members, staff
<1> QED BY <1>1, StaffEnds, StaffSame DEF Abort, StaffInv, StaffTypeOK, staff

-----------------------------------------------------------------------------
(* The links.                                                              *)
LEMMA IssueFindKeeps ==
  ASSUME StaffInv, NEW w \in Workers, IssueFind(w)
  PROVE  StaffInv'
PROOF
<1>1. work[w] \in StaffRequest /\ work[w] # NoRequest
  BY StaffServed DEF IssueFind, At, NoRequest, StaffInv
<1>2. PICK seen : seen = Unconsumed(work[w].u)
  OBVIOUS
<1>3. PICK r : r = [work[w] EXCEPT !.op = "issue", !.seen = seen]
  OBVIOUS
<1>4. seen \subseteq Tokens
  BY <1>2 DEF Unconsumed, Issued
<1>5. r \in StaffRequest /\ r.op = "issue" /\ r.seen = seen /\ r.u = work[w].u
  BY <1>1, <1>3, <1>4 DEF StaffRequest
<1>6. /\ work' = [work EXCEPT ![w] = r] /\ serial' = serial /\ UNCHANGED staff
  BY <1>1, <1>2, <1>3 DEF IssueFind, StaffRequest, StaffInv, StaffTypeOK
<1>7. /\ work' \in [Workers -> StaffRequest \cup {NoRequest}]
      /\ \A v \in Workers : work'[v] = IF v = w THEN r ELSE work[v]
  BY <1>5, <1>6 DEF StaffInv, StaffTypeOK
<1>8. serial => \A v \in Workers \ {w} : work'[v] = NoRequest
  BY <1>1, <1>7 DEF StaffInv, StaffSerial
<1>9. r.seen = Unconsumed(r.u)
  BY <1>2, <1>5
<1>10. r.seen = Unconsumed(r.u)'
  BY <1>6, <1>9 DEF Unconsumed, Issued, staff
<1>11. StaffStillSo(r)'
  BY <1>5, <1>10 DEF StaffStillSo
<1>12. StaffSerial'
  BY <1>6, <1>7, <1>8, <1>11 DEF StaffSerial, StaffStillSo
<1>13. StaffFound(r)
  BY <1>1, <1>5, <1>9 DEF StaffFound, Unconsumed, StaffSeen, StaffInv
<1>14. StaffSeen'
  BY <1>6, <1>7, <1>13 DEF StaffInv, StaffSeen, StaffFound, Issued, Members, staff
<1> QED BY <1>6, <1>7, <1>12, <1>14, StaffSame DEF StaffInv, StaffTypeOK, staff

LEMMA TokenRows ==
  ASSUME StaffTypeOK, NEW ts \in SUBSET Issued
  PROVE  /\ Consumed(ts) \in [Tokens -> TokenRow \cup {None}]
         /\ \A t \in Tokens : Consumed(ts)[t] # None => t \in Issued
         /\ \A t \in Issued : Consumed(ts)[t] \in TokenRow
         /\ \A t \in Issued :
              /\ Consumed(ts)[t].user = token[t].user
              /\ Consumed(ts)[t].expired = token[t].expired
              /\ Consumed(ts)[t].consumed <=> token[t].consumed \/ t \in ts
PROOF
<1>1. \A r \in TokenRow :
        /\ [r EXCEPT !.consumed = TRUE] \in TokenRow
        /\ [r EXCEPT !.consumed = TRUE].user = r.user
        /\ [r EXCEPT !.consumed = TRUE].expired = r.expired
        /\ [r EXCEPT !.consumed = TRUE].consumed
  BY DEF TokenRow
<1>2. \A t \in Tokens :
        Consumed(ts)[t] = IF t \in ts THEN [token[t] EXCEPT !.consumed = TRUE] ELSE token[t]
  BY DEF Consumed
<1>3. \A t \in Issued : token[t] \in TokenRow /\ t \in Tokens
  BY StaffServed DEF Issued
<1>4. \A t \in Issued : Consumed(ts)[t] \in TokenRow
  BY <1>1, <1>2, <1>3
<1> QED BY <1>1, <1>2, <1>3, <1>4 DEF Consumed, Issued

(* What is kept of the users who have no link more than before.            *)
LEMMA LinksKeep ==
  ASSUME StaffInv, UNCHANGED <<override, asked>>, serial' => serial,
         serial => ActiveAdmins' # {}, serial => OneLinkEach'
  PROVE  StaffKept'
PROOF BY DEF StaffInv, StaffKept, PermissionsAsAsked, EffectiveFor

LEMMA IssueWriteKeeps ==
  ASSUME StaffInv, NEW w \in Workers, IssueWrite(w)
  PROVE  StaffInv'
PROOF
<1>1. /\ work[w] # NoRequest /\ work[w] \in StaffRequest
      /\ work[w].op = "issue" /\ work[w].seen \subseteq Issued
  BY StaffServed DEF IssueWrite, At, NoRequest, StaffInv, StaffSeen, StaffFound
<1>2. PICK u \in Users, seen \in SUBSET Issued : u = work[w].u /\ seen = work[w].seen
  BY <1>1 DEF StaffRequest
<1>3. PICK n \in Tokens \ Issued :
        token' = [Consumed(seen) EXCEPT ![n] =
                    [user |-> u, consumed |-> FALSE, expired |-> FALSE]]
  BY <1>2 DEF IssueWrite
<1>4. UNCHANGED <<user, override, jwt, asked>> /\ Finish(w)
  BY DEF IssueWrite
<1>5. Consumed(seen) \in [Tokens -> TokenRow \cup {None}]
  BY TokenRows DEF StaffInv
<1>6. /\ token' \in [Tokens -> TokenRow \cup {None}]
      /\ token'[n].user = u
      /\ \A t \in Tokens \ {n} : token'[t] = Consumed(seen)[t]
  BY <1>3, <1>5 DEF TokenRow
<1>7. Issued \subseteq Issued'
  <2> SUFFICES ASSUME NEW t \in Issued PROVE t \in Issued'
    OBVIOUS
  <2>1. t \in Tokens /\ token'[t] = Consumed(seen)[t]
    BY <1>3, <1>6 DEF Issued
  <2>2. Consumed(seen)[t] \in TokenRow
    BY TokenRows DEF StaffInv
  <2> QED BY <2>1, <2>2, NoRowAssumption DEF Issued
<1>8. serial => seen = Unconsumed(u)
  BY <1>1, <1>2 DEF StaffInv, StaffSerial, StaffStillSo
<1>9. serial => OneLinkEach'
  <2> SUFFICES ASSUME serial, NEW v \in Users, NEW s \in LiveLinks(v)', NEW t \in LiveLinks(v)'
               PROVE  s = t
    BY DEF OneLinkEach
  <2>1. \A x \in LiveLinks(v)' : x = n \/ x \in LiveLinks(v)
    BY <1>6, TokenRows DEF StaffInv, LiveLinks, Unconsumed, Issued
  <2>2. \A x \in LiveLinks(v)' : x # n => x \notin seen
    BY <1>6, TokenRows DEF StaffInv, LiveLinks, Unconsumed, Issued
  <2>3. CASE v = u
    BY <1>8, <2>1, <2>2, <2>3 DEF LiveLinks
  <2>4. CASE v # u
    <3>1. n \notin LiveLinks(v)'
      BY <1>6, <2>4 DEF LiveLinks, Unconsumed
    <3> QED BY <2>1, <3>1 DEF StaffInv, StaffKept, OneLinkEach
  <2> QED BY <2>3, <2>4
<1>10. ActiveAdmins' = ActiveAdmins
  BY <1>4 DEF ActiveAdmins, Admins, Members
<1>11. /\ StaffSeen' /\ StaffSerial' /\ serial' = serial /\ serial' \in BOOLEAN
       /\ work' \in [Workers -> StaffRequest \cup {NoRequest}]
  BY <1>1, <1>4, <1>7, StaffEnds DEF NothingGone, Members
<1>12. StaffKept'
  BY <1>4, <1>9, <1>10, <1>11, LinksKeep DEF StaffInv, StaffKept
<1> QED BY <1>4, <1>6, <1>11, <1>12 DEF StaffInv, StaffTypeOK

LEMMA RedeemWriteKeeps ==
  ASSUME StaffInv, NEW w \in Workers, RedeemWrite(w)
  PROVE  StaffInv'
PROOF
<1>1. /\ work[w] # NoRequest /\ work[w] \in StaffRequest
      /\ work[w].u \in Members /\ work[w].seen \subseteq Issued
  BY StaffServed DEF RedeemWrite, At, NoRequest, StaffInv, StaffSeen, StaffFound
<1>2. PICK u \in Members : u = work[w].u
  BY <1>1
<1>3. PICK ts \in SUBSET Issued : ts = work[w].seen \cup Unconsumed(u)
  BY <1>1 DEF Unconsumed
<1>4. /\ user' = [user EXCEPT ![u].password = TRUE]
      /\ token' = Consumed(ts)
      /\ UNCHANGED <<override, jwt, asked>> /\ Finish(w)
  BY <1>2, <1>3 DEF RedeemWrite, Redeemed
<1>5. token' \in [Tokens -> TokenRow \cup {None}] /\ Issued \subseteq Issued'
  BY <1>4, TokenRows, NoRowAssumption DEF StaffInv, Issued
<1>6. user[u] \in UserRow /\ u \in Users
  BY StaffServed DEF StaffInv, Members
<1>7. /\ user' \in [Users -> UserRow \cup {None}]
      /\ user'[u] \in UserRow /\ user'[u].disabled = user[u].disabled
      /\ user'[u].role = user[u].role
      /\ \A v \in Users \ {u} : user'[v] = user[v]
  BY <1>4, <1>6 DEF StaffInv, StaffTypeOK, UserRow
<1>8. Members \subseteq Members' /\ ActiveAdmins \subseteq ActiveAdmins'
  BY <1>7, NoRowAssumption DEF Members, Admins, ActiveAdmins
<1>9. serial => OneLinkEach'
  BY <1>4, TokenRows DEF StaffInv, StaffKept, OneLinkEach, LiveLinks, Unconsumed, Issued
<1>10. /\ StaffSeen' /\ StaffSerial' /\ serial' = serial /\ serial' \in BOOLEAN
       /\ work' \in [Workers -> StaffRequest \cup {NoRequest}]
  BY <1>1, <1>4, <1>5, <1>8, StaffEnds DEF NothingGone
<1>11. StaffKept'
  BY <1>4, <1>8, <1>9, <1>10, LinksKeep DEF StaffInv, StaffKept
<1> QED BY <1>4, <1>5, <1>7, <1>10, <1>11 DEF StaffInv, StaffTypeOK

LEMMA ExpireTokenKeeps ==
  ASSUME StaffInv, NEW t \in Tokens, ExpireToken(t)
  PROVE  StaffInv'
PROOF
<1>1. /\ t \in Issued /\ token[t] \in TokenRow
      /\ token' = [token EXCEPT ![t].expired = TRUE]
      /\ Alone /\ UNCHANGED <<user, override, jwt, asked, work>>
  BY StaffServed DEF ExpireToken, StaffInv
<1>2. /\ token' \in [Tokens -> TokenRow \cup {None}]
      /\ token'[t] \in TokenRow /\ token'[t].user = token[t].user
      /\ token'[t].consumed = token[t].consumed /\ token'[t].expired
      /\ \A s \in Tokens \ {t} : token'[s] = token[s]
  BY <1>1 DEF StaffInv, StaffTypeOK, TokenRow
<1>3. \A s \in Issued : s \in Issued'
  BY <1>2, NoRowAssumption DEF Issued
<1>4. NothingGone
  BY <1>1, <1>3 DEF NothingGone, Members
<1>5. \A u \in Users : LiveLinks(u)' \subseteq LiveLinks(u)
  BY <1>1, <1>2 DEF LiveLinks, Unconsumed, Issued
<1>6. \A u \in Users : \A s \in Unconsumed(u)' : s \in Unconsumed(u)
  BY <1>1, <1>2 DEF Unconsumed, Issued
<1>7. /\ StaffSeen' /\ StaffSerial' /\ (serial' => serial) /\ serial' \in BOOLEAN
      /\ work' \in [Workers -> StaffRequest \cup {NoRequest}]
  BY <1>1, <1>4, StaffAlone
<1>8. StaffKept'
  BY <1>1, <1>5, <1>7, LinksKeep DEF StaffInv, StaffKept, OneLinkEach, ActiveAdmins, Admins,
                                     Members
<1> QED BY <1>1, <1>2, <1>7, <1>8 DEF StaffInv, StaffTypeOK

-----------------------------------------------------------------------------
(* The users.                                                              *)
LEMMA UsersKeep ==
  ASSUME StaffInv, UNCHANGED <<token, override, asked>>, serial' => serial,
         serial => ActiveAdmins' # {}
  PROVE  StaffKept'
PROOF
<1>1. serial => OneLinkEach'
  BY DEF StaffInv, StaffKept, OneLinkEach, LiveLinks, Unconsumed, Issued
<1> QED BY <1>1, LinksKeep

LEMMA SetDisabled ==
  ASSUME StaffInv, NEW u \in Members, NEW disabled \in BOOLEAN,
         user' = [user EXCEPT ![u].disabled = disabled]
  PROVE  /\ user' \in [Users -> UserRow \cup {None}]
         /\ Members \subseteq Members'
         /\ ActiveAdmins \ {u} \subseteq ActiveAdmins'
         /\ ~ disabled => ActiveAdmins \subseteq ActiveAdmins'
PROOF
<1>1. user[u] \in UserRow /\ u \in Users
  BY StaffServed DEF StaffInv, Members
<1>2. /\ user' \in [Users -> UserRow \cup {None}]
      /\ user'[u] \in UserRow /\ user'[u].role = user[u].role
      /\ user'[u].disabled = disabled
      /\ \A v \in Users \ {u} : user'[v] = user[v]
  BY <1>1 DEF StaffInv, StaffTypeOK, UserRow
<1>3. \A v \in Members : v \in Members'
  BY <1>2, NoRowAssumption DEF Members
<1>4. \A v \in ActiveAdmins : v # u \/ ~ disabled => v \in ActiveAdmins'
  BY <1>2, <1>3 DEF Members, Admins, ActiveAdmins
<1> QED BY <1>2, <1>3, <1>4

LEMMA DisableWriteKeeps ==
  ASSUME StaffInv, NEW w \in Workers, DisableWrite(w)
  PROVE  StaffInv'
PROOF
<1>1. /\ work[w] # NoRequest /\ work[w].op = "disable" /\ work[w].u \in Members
  BY DEF DisableWrite, At, NoRequest, StaffInv, StaffSeen, StaffFound
<1>2. PICK u \in Members : u = work[w].u
  BY <1>1
<1>3. /\ user' = [user EXCEPT ![u].disabled = TRUE]
      /\ Finish(w) /\ UNCHANGED <<token, override, jwt, asked>>
  BY <1>2 DEF DisableWrite
<1>4. /\ user' \in [Users -> UserRow \cup {None}]
      /\ Members \subseteq Members'
      /\ ActiveAdmins \ {u} \subseteq ActiveAdmins'
  BY <1>3, SetDisabled
<1>5. serial => \E a \in ActiveAdmins : a # u
  BY <1>1, <1>2 DEF StaffInv, StaffSerial, StaffStillSo
<1>6. NothingGone
  BY <1>3, <1>4 DEF NothingGone, Issued
<1>7. /\ StaffSeen' /\ StaffSerial' /\ serial' = serial /\ serial' \in BOOLEAN
      /\ work' \in [Workers -> StaffRequest \cup {NoRequest}]
  BY <1>1, <1>3, <1>6, StaffEnds
<1>8. StaffKept'
  BY <1>3, <1>4, <1>5, <1>7, UsersKeep
<1> QED BY <1>3, <1>4, <1>7, <1>8 DEF StaffInv, StaffTypeOK

LEMMA EnableKeeps ==
  ASSUME StaffInv, NEW u \in Users, Enable(u)
  PROVE  StaffInv'
PROOF
<1>1. /\ u \in Members /\ user' = [user EXCEPT ![u].disabled = FALSE]
      /\ Alone /\ UNCHANGED <<token, override, jwt, asked, work>>
  BY DEF Enable
<1>2. /\ user' \in [Users -> UserRow \cup {None}]
      /\ Members \subseteq Members' /\ ActiveAdmins \subseteq ActiveAdmins'
  BY <1>1, SetDisabled
<1>3. NothingGone
  BY <1>1, <1>2 DEF NothingGone, Issued
<1>4. /\ StaffSeen' /\ StaffSerial' /\ (serial' => serial) /\ serial' \in BOOLEAN
      /\ work' \in [Workers -> StaffRequest \cup {NoRequest}]
  BY <1>1, <1>3, StaffAlone
<1>5. StaffKept'
  BY <1>1, <1>2, <1>4, UsersKeep DEF StaffInv, StaffKept
<1> QED BY <1>1, <1>2, <1>4, <1>5 DEF StaffInv, StaffTypeOK

LEMMA JwtKeeps ==
  ASSUME StaffInv, NEW u \in Users, Login(u) \/ ExpireJwt(u)
  PROVE  StaffInv'
PROOF
<1>1. /\ jwt' \subseteq Users
      /\ Alone /\ UNCHANGED <<user, token, override, asked, work>>
  BY DEF Login, ExpireJwt, StaffInv, StaffTypeOK
<1>2. NothingGone
  BY <1>1 DEF NothingGone, Issued, Members
<1>3. /\ StaffSeen' /\ StaffSerial' /\ (serial' => serial) /\ serial' \in BOOLEAN
      /\ work' \in [Workers -> StaffRequest \cup {NoRequest}]
  BY <1>1, <1>2, StaffAlone
<1>4. StaffKept'
  BY <1>1, <1>3, UsersKeep DEF StaffInv, StaffKept, ActiveAdmins, Admins, Members
<1> QED BY <1>1, <1>3, <1>4 DEF StaffInv, StaffTypeOK

-----------------------------------------------------------------------------
(* The permissions.                                                        *)

(* What differs from the default, and no more, gives what was desired.     *)
LEMMA OverridesGive ==
  ASSUME NEW desired \in SUBSET Permissions
  PROVE  OverridesFor(desired) \in SUBSET OverrideRow
         /\ EffectiveFor(OverridesFor(desired)) = desired
PROOF
<1>1. \A p \in Permissions :
        /\ [permission |-> p, granted |-> TRUE] \in OverridesFor(desired)
              <=> p \in desired /\ p \notin StaffDefault
        /\ [permission |-> p, granted |-> FALSE] \in OverridesFor(desired)
              <=> p \notin desired /\ p \in StaffDefault
  <2> SUFFICES ASSUME NEW p \in Permissions
               PROVE  /\ [permission |-> p, granted |-> TRUE] \in OverridesFor(desired)
                            <=> p \in desired /\ p \notin StaffDefault
                      /\ [permission |-> p, granted |-> FALSE] \in OverridesFor(desired)
                            <=> p \notin desired /\ p \in StaffDefault
    OBVIOUS
  <2>1. PICK y \in OverrideRow, n \in OverrideRow :
          /\ y = [permission |-> p, granted |-> TRUE]
          /\ n = [permission |-> p, granted |-> FALSE]
    BY DEF OverrideRow
  <2>2. y.permission = p /\ n.permission = p /\ y.granted = TRUE /\ n.granted = FALSE
    BY <2>1
  <2>3. y \in OverridesFor(desired) <=>
          TRUE = (p \in desired) /\ TRUE # (p \in StaffDefault)
    BY <2>2, Zenon DEF OverridesFor
  <2>4. n \in OverridesFor(desired) <=>
          FALSE = (p \in desired) /\ FALSE # (p \in StaffDefault)
    BY <2>2, Zenon DEF OverridesFor
  <2>5. y \in OverridesFor(desired) <=> p \in desired /\ p \notin StaffDefault
    BY <2>3, Zenon
  <2>6. n \in OverridesFor(desired) <=> p \notin desired /\ p \in StaffDefault
    <3>1. FALSE = (p \in desired) <=> p \notin desired
      BY SMT
    <3>2. FALSE = (p \in StaffDefault) <=> p \notin StaffDefault
      BY SMT
    <3> QED BY <2>4, <3>1, <3>2, Zenon
  <2> QED BY <2>1, <2>5, <2>6, Zenon
<1> QED BY <1>1 DEF EffectiveFor, OverridesFor

LEMMA PermissionsWriteKeeps ==
  ASSUME StaffInv, NEW w \in Workers, PermissionsWrite(w)
  PROVE  StaffInv'
PROOF
<1>1. /\ work[w] # NoRequest /\ work[w] \in StaffRequest
      /\ work[w].op = "permissions" /\ work[w].u \in Members
  BY StaffServed DEF PermissionsWrite, At, NoRequest, StaffInv, StaffSeen, StaffFound
<1>2. PICK u \in Members : u = work[w].u
  BY <1>1
<1>3. PICK desired \in SUBSET Permissions, old \in SUBSET OverrideRow :
        desired = work[w].desired /\ old = work[w].old
  BY <1>1 DEF StaffRequest
<1>4. PICK rows \in SUBSET OverrideRow :
        rows = OverridesFor(desired) /\ EffectiveFor(rows) = desired
  BY OverridesGive
<1>5. /\ override' = [override EXCEPT ![u] = (override[u] \ old) \cup rows]
      /\ asked' = [asked EXCEPT ![u] = desired]
      /\ UNCHANGED <<serial, user, token, jwt>>
      /\ \A v \in Workers :
           work'[v] = IF v = w THEN NoRequest
                      ELSE IF At(v, "permissions") /\ work[v].u = u
                      THEN [work[v] EXCEPT !.old = {}] ELSE work[v]
  BY <1>2, <1>3, <1>4 DEF PermissionsWrite
<1>6. u \in Users
  BY DEF Members
<1>7. override' \in [Users -> SUBSET OverrideRow] /\ asked' \in [Users -> SUBSET Permissions]
  BY <1>5, <1>6 DEF StaffInv, StaffTypeOK
<1>8. \A r \in StaffRequest :
        /\ [r EXCEPT !.old = {}] \in StaffRequest
        /\ [r EXCEPT !.old = {}].op = r.op /\ [r EXCEPT !.old = {}].u = r.u
        /\ [r EXCEPT !.old = {}].seen = r.seen
  BY DEF StaffRequest
<1>9. \A v \in Workers :
        /\ work'[v] \in StaffRequest \cup {NoRequest}
        /\ work'[v] # NoRequest => /\ work[v] # NoRequest
                                   /\ work'[v].op = work[v].op /\ work'[v].u = work[v].u
                                   /\ work'[v].seen = work[v].seen
  <2> SUFFICES ASSUME NEW v \in Workers
               PROVE  /\ work'[v] \in StaffRequest \cup {NoRequest}
                      /\ work'[v] # NoRequest =>
                           /\ work[v] # NoRequest
                           /\ work'[v].op = work[v].op /\ work'[v].u = work[v].u
                           /\ work'[v].seen = work[v].seen
    OBVIOUS
  <2>1. work[v] \in StaffRequest \cup {NoRequest}
    BY DEF StaffInv, StaffTypeOK
  <2>2. CASE At(v, "permissions")
    <3>1. work[v] \in StaffRequest /\ work[v] # NoRequest
      BY <2>2, StaffServed DEF At, NoRequest, StaffInv
    <3> QED BY <1>5, <1>8, <3>1
  <2>3. CASE ~ At(v, "permissions")
    BY <1>5, <2>1, <2>3
  <2> QED BY <2>2, <2>3
<1>10. work' \in [Workers -> StaffRequest \cup {NoRequest}]
  BY <1>9 DEF PermissionsWrite
<1>11. StaffSeen'
  BY <1>5, <1>9 DEF StaffInv, StaffSeen, StaffFound, Members, Issued
<1>12. serial => \A v \in Workers : work'[v] = NoRequest
  <2> SUFFICES ASSUME serial, NEW v \in Workers PROVE work'[v] = NoRequest
    OBVIOUS
  <2>1. CASE v = w
    BY <1>5, <2>1
  <2>2. CASE v # w
    <3>1. work[v] = NoRequest
      BY <1>1, <2>2 DEF StaffInv, StaffSerial
    <3> QED BY <1>9, <3>1
  <2> QED BY <2>1, <2>2
<1>13. StaffSerial'
  BY <1>5, <1>12 DEF StaffSerial
<1>14. serial => override'[u] = rows
  BY <1>1, <1>2, <1>3, <1>5, <1>6 DEF StaffInv, StaffTypeOK, StaffSerial, StaffStillSo
<1>15. ASSUME serial, NEW v \in Users PROVE EffectiveFor(override'[v]) = asked'[v]
  <2>1. CASE v = u
    BY <1>4, <1>5, <1>14, <1>15, <2>1 DEF StaffInv, StaffTypeOK
  <2>2. CASE v # u
    BY <1>5, <1>15, <2>2 DEF StaffInv, StaffTypeOK, StaffKept, PermissionsAsAsked
  <2> QED BY <2>1, <2>2
<1>16. \A v \in Users : EffectiveFor(override[v])' = EffectiveFor(override'[v])
  BY DEF EffectiveFor
<1>17. PermissionsAsAsked'
  BY <1>5, <1>15, <1>16 DEF PermissionsAsAsked
<1>18. serial => ActiveAdmins' # {} /\ OneLinkEach'
  BY <1>5 DEF StaffInv, StaffKept, OneLinkEach, LiveLinks, Unconsumed, Issued, ActiveAdmins,
              Admins, Members
<1>19. StaffKept'
  BY <1>5, <1>17, <1>18 DEF StaffKept
<1> QED BY <1>5, <1>7, <1>10, <1>11, <1>13, <1>19 DEF StaffInv, StaffTypeOK

-----------------------------------------------------------------------------
LEMMA StaffStarts ==
  ASSUME StaffInit, work = [w \in Workers |-> NoRequest], serial = TRUE
  PROVE  StaffInv
PROOF
<1>1. StaffTypeOK
  BY StaffAssumption DEF StaffInit, StaffTypeOK, UserRow
<1>2. user[FirstAdmin].role = "admin" /\ ~ user[FirstAdmin].disabled
      /\ user[FirstAdmin] \in UserRow
  BY StaffAssumption DEF StaffInit, UserRow
<1>3. ActiveAdmins # {}
  BY <1>2, StaffAssumption, NoRowAssumption DEF ActiveAdmins, Admins, Members
<1>4. Issued = {}
  BY DEF StaffInit, Issued
<1>5. OneLinkEach
  BY <1>4 DEF OneLinkEach, LiveLinks, Unconsumed
<1>6. EffectiveFor({}) = StaffDefault
  BY StaffAssumption DEF EffectiveFor
<1>7. PermissionsAsAsked
  BY <1>6 DEF StaffInit, PermissionsAsAsked
<1> QED BY <1>1, <1>3, <1>5, <1>7 DEF StaffInv, StaffSeen, StaffSerial, StaffKept

LEMMA StaffSteps ==
  ASSUME StaffInv, [StaffNext]_<<staff, work, serial>>
  PROVE  StaffInv'
PROOF
<1>1. ASSUME NEW w \in Workers,
             CreateUser(w) \/ ResetPassword(w) \/ ResetAdminPassword(w)
               \/ DisableCheck(w) \/ DisableWrite(w)
      PROVE  StaffInv'
  BY <1>1, CreateUserKeeps, ResetPasswordKeeps, DisableCheckKeeps, DisableWriteKeeps
<1>2. ASSUME NEW w \in Workers,
             IssueFind(w) \/ IssueWrite(w) \/ RedeemFind(w) \/ RedeemWrite(w)
      PROVE  StaffInv'
  BY <1>2, IssueFindKeeps, IssueWriteKeeps, RedeemFindKeeps, RedeemWriteKeeps
<1>3. ASSUME NEW w \in Workers,
             PermissionsDelete(w) \/ PermissionsWrite(w) \/ (Abort(w) /\ UNCHANGED staff)
      PROVE  StaffInv'
  BY <1>3, PermissionsDeleteKeeps, PermissionsWriteKeeps, StaffAbortKeeps
<1>4. ASSUME NEW t \in Tokens, ExpireToken(t) PROVE StaffInv'
  BY <1>4, ExpireTokenKeeps
<1>5. ASSUME NEW u \in Users, Enable(u) \/ Login(u) \/ ExpireJwt(u) PROVE StaffInv'
  BY <1>5, EnableKeeps, JwtKeeps
<1>6. CASE UNCHANGED <<staff, work, serial>>
  <2>1. NothingGone /\ StaffTypeOK' /\ StaffKept'
    BY <1>6, StaffSame DEF NothingGone, Issued, Members, StaffInv, StaffTypeOK, staff
  <2>2. StaffSeen' /\ StaffSerial'
    BY <1>6, <2>1 DEF StaffInv, StaffSeen, StaffFound, StaffSerial, StaffStillSo, NothingGone,
                      ActiveAdmins, Admins, Members, Unconsumed, Issued, staff
  <2> QED BY <2>1, <2>2 DEF StaffInv
<1> QED BY <1>1, <1>2, <1>3, <1>4, <1>5, <1>6 DEF StaffNext

LEMMA StaffAlways == StaffSpec => []StaffInv
PROOF
<1>1. StaffInit /\ work = [w \in Workers |-> NoRequest] /\ serial = TRUE => StaffInv
  BY StaffStarts
<1>2. StaffInv /\ [StaffNext]_<<staff, work, serial>> => StaffInv'
  BY StaffSteps
<1> QED BY <1>1, <1>2, PTL DEF StaffSpec

(* While no two requests of the establishment have overlapped, some        *)
(* administrator is active, whoever has been disabled and by whom          *)
(* (setDisabled), for any number of users.                                 *)
THEOREM SomeAdminStays == StaffSpec => []AdminLeft
PROOF
<1>1. StaffInv => AdminLeft
  BY DEF StaffInv, StaffKept, AdminLeft
<1> QED BY <1>1, StaffAlways, PTL

(* While no two requests have overlapped, a user has at most one link that *)
(* works: a new one is issued with all the others spent (issueAndSend).    *)
THEOREM LinksReplaced == StaffSpec => []OneLiveLink
PROOF
<1>1. ASSUME StaffInv, serial, NEW u \in Users PROVE Cardinality(LiveLinks(u)) <= 1
  <2>1. CASE LiveLinks(u) = {}
    BY <2>1, FS_EmptySet
  <2>2. CASE LiveLinks(u) # {}
    <3>1. PICK t : t \in LiveLinks(u)
      BY <2>2
    <3>2. LiveLinks(u) = {t}
      BY <1>1, <3>1 DEF StaffInv, StaffKept, OneLinkEach
    <3> QED BY <3>2, FS_Singleton
  <2> QED BY <2>1, <2>2
<1>2. StaffInv => OneLiveLink
  BY <1>1 DEF OneLiveLink
<1> QED BY <1>2, StaffAlways, PTL

(* While no two requests have overlapped, the rows kept give every member  *)
(* of the staff exactly the permissions last asked for (setPermissions,    *)
(* effectiveFor), for any default.                                         *)
THEOREM PermissionsKept == StaffSpec => []PermissionsAsAsked
PROOF
<1>1. StaffInv => PermissionsAsAsked
  BY DEF StaffInv, StaffKept
<1> QED BY <1>1, StaffAlways, PTL

(* Whatever overlaps, the link that sets a password has not been used or   *)
(* replaced, and all the links of the user are spent with it (redeem), for *)
(* any number of users, links and workers.                                 *)
THEOREM LinkSpentOnce == StaffSpec => LinkWorksOnce
PROOF
<1> DEFINE Once ==
      \A w \in Workers :
        At(w, "redeem") /\ token' # token /\ work'[w] = NoRequest =>
          /\ \A t \in work[w].seen : ~ token[t].consumed
          /\ \A t \in Issued : token[t].user = work[w].u => token'[t].consumed
<1>1. StaffInv /\ [StaffNext]_<<staff, work, serial>> => Once
  <2> SUFFICES ASSUME StaffInv, [StaffNext]_<<staff, work, serial>>, NEW w \in Workers,
                      At(w, "redeem"), token' # token, work'[w] = NoRequest
               PROVE  /\ \A t \in work[w].seen : ~ token[t].consumed
                      /\ \A t \in Issued :
                           token[t].user = work[w].u => token'[t].consumed
    OBVIOUS
  <2>1. work[w] # NoRequest /\ work[w].op = "redeem"
    BY DEF At, NoRequest
  <2>2. (\E v \in Workers : IssueWrite(v) \/ RedeemWrite(v)) \/ \E t \in Tokens : ExpireToken(t)
    BY DEF StaffNext, staff, CreateUser, ResetPassword, ResetAdminPassword, IssueFind,
           RedeemFind, DisableCheck, DisableWrite, PermissionsDelete, PermissionsWrite,
           Enable, Login, ExpireJwt
  <2>3. ~ \E t \in Tokens : ExpireToken(t)
    BY <2>1 DEF ExpireToken
  <2>4. PICK v \in Workers : IssueWrite(v) \/ RedeemWrite(v)
    BY <2>2, <2>3
  <2>5. work' = [work EXCEPT ![v] = NoRequest]
    BY <2>4 DEF IssueWrite, RedeemWrite, Redeemed, Finish
  <2>6. v = w
    BY <2>1, <2>5 DEF StaffInv, StaffTypeOK
  <2>7. RedeemWrite(w)
    BY <2>1, <2>4, <2>6 DEF IssueWrite, At
  <2>8. work[w].seen \subseteq Unconsumed(work[w].u)
    BY <2>7 DEF RedeemWrite
  <2>9. PICK ts \in SUBSET Issued : ts = work[w].seen \cup Unconsumed(work[w].u)
    BY <2>8 DEF Unconsumed
  <2>10. token' = Consumed(ts)
    BY <2>7, <2>9 DEF RedeemWrite, Redeemed
  <2>11. \A t \in Issued : token'[t].consumed <=> token[t].consumed \/ t \in ts
    BY <2>10, TokenRows DEF StaffInv
  <2> QED BY <2>8, <2>9, <2>11 DEF Unconsumed
<1>2. StaffInv /\ [StaffNext]_<<staff, work, serial>> => [Once]_<<staff, work, serial>>
  BY <1>1
<1> QED BY <1>2, StaffAlways, PTL DEF StaffSpec, LinkWorksOnce

-----------------------------------------------------------------------------
(* The layout. Orders and plans have no part in it.                        *)

UmbrellaFits(x) ==
  /\ DOMAIN x = {"label", "row", "retired", "order"}
  /\ x.label \in Labels \cup {0} /\ x.row \in Rows \cup {None} /\ x.retired \in BOOLEAN

LayoutTables ==
  /\ row \in [Rows -> Sectors \cup {None}]
  /\ DOMAIN umbrella = Umbrellas /\ \A u \in Umbrellas : UmbrellaFits(umbrella[u])
  /\ ActiveLabelsUnique /\ ActiveIsPlaced

LayoutAsked ==
  /\ DOMAIN work = Workers
  /\ \A w \in Workers : work[w].op \in {"place", "label"} => work[w].labels \subseteq Labels

LayoutInv == LayoutTables /\ LayoutAsked

(* How a step changes the requests.                                        *)
LEMMA LayoutBegins ==
  ASSUME LayoutInv, NEW w \in Workers, NEW r, Begin(w, r), UNCHANGED layout,
         r.op \in {"place", "label"} => r.labels \subseteq Labels
  PROVE  LayoutInv'
PROOF
<1>1. DOMAIN work' = Workers /\ \A v \in Workers : work'[v] = IF v = w THEN r ELSE work[v]
  BY DEF Begin, LayoutInv, LayoutAsked
<1>2. LayoutAsked'
  BY <1>1 DEF LayoutInv, LayoutAsked
<1>3. LayoutTables'
  BY DEF LayoutInv, LayoutTables, ActiveLabelsUnique, ActiveIsPlaced, Active, Stored, LiveRows,
         layout
<1> QED BY <1>2, <1>3 DEF LayoutInv

LEMMA LayoutEnds ==
  ASSUME LayoutInv, NEW w \in Workers, Finish(w) \/ UNCHANGED work
  PROVE  LayoutAsked'
PROOF
<1>1. CASE Finish(w)
  <2>1. DOMAIN work' = Workers
        /\ \A v \in Workers : work'[v] = IF v = w THEN NoRequest ELSE work[v]
    BY <1>1 DEF Finish, LayoutInv, LayoutAsked
  <2> QED BY <2>1 DEF LayoutInv, LayoutAsked, NoRequest
<1>2. CASE UNCHANGED work
  BY <1>2 DEF LayoutInv, LayoutAsked
<1> QED BY <1>1, <1>2

LEMMA LayoutSame ==
  ASSUME LayoutInv, UNCHANGED <<row, umbrella>>
  PROVE  LayoutTables'
PROOF BY DEF LayoutInv, LayoutTables, ActiveLabelsUnique, ActiveIsPlaced, Active, Stored,
             LiveRows

(* One umbrella changes.                                                   *)
LEMMA SetKeeps ==
  ASSUME LayoutInv, NEW u \in Umbrellas, NEW x, Set(u, x), UmbrellaFits(x),
         x.label # 0 /\ x.retired => x.row = None,
         x.label # 0 /\ ~ x.retired =>
           x.row \in LiveRows /\ \A v \in Active \ {u} : umbrella[v].label # x.label
  PROVE  LayoutTables'
PROOF
<1>1. /\ DOMAIN umbrella' = Umbrellas
      /\ \A v \in Umbrellas : umbrella'[v] = IF v = u THEN x ELSE umbrella[v]
      /\ row' = row
  BY DEF Set, LayoutInv, LayoutTables
<1>2. \A v \in Umbrellas : UmbrellaFits(umbrella'[v])
  BY <1>1 DEF LayoutInv, LayoutTables
<1>3. \A v \in Active' : v = u \/ v \in Active
  BY <1>1 DEF Active, Stored
<1>4. u \in Active' => x.label # 0 /\ ~ x.retired
  BY <1>1 DEF Active, Stored
<1>5. ActiveLabelsUnique'
  <2> SUFFICES ASSUME NEW v \in Active', NEW y \in Active', v # y
               PROVE  umbrella'[v].label # umbrella'[y].label
    BY DEF ActiveLabelsUnique
  <2>1. v \in Umbrellas /\ y \in Umbrellas
    BY DEF Active, Stored
  <2>2. CASE v # u /\ y # u
    BY <1>1, <1>3, <2>1, <2>2 DEF LayoutInv, LayoutTables, ActiveLabelsUnique
  <2>3. CASE v = u
    <3>1. y \in Active \ {u} /\ u \in Active'
      BY <1>3, <2>3
    <3>2. umbrella[y].label # x.label
      BY <1>4, <3>1
    <3> QED BY <1>1, <2>1, <2>3, <3>2
  <2>4. CASE y = u
    <3>1. v \in Active \ {u} /\ u \in Active'
      BY <1>3, <2>4
    <3>2. umbrella[v].label # x.label
      BY <1>4, <3>1
    <3> QED BY <1>1, <2>1, <2>4, <3>2
  <2> QED BY <2>2, <2>3, <2>4
<1>6. ActiveIsPlaced'
  <2> SUFFICES ASSUME NEW v \in Stored'
               PROVE  /\ umbrella'[v].retired => umbrella'[v].row = None
                      /\ ~ umbrella'[v].retired => umbrella'[v].row \in LiveRows
    BY <1>1 DEF ActiveIsPlaced, LiveRows
  <2>1. v \in Umbrellas /\ umbrella'[v].label # 0
    BY DEF Stored
  <2>2. CASE v = u
    BY <1>1, <2>1, <2>2
  <2>3. CASE v # u
    BY <1>1, <2>1, <2>3 DEF LayoutInv, LayoutTables, ActiveIsPlaced, Stored
  <2> QED BY <2>2, <2>3
<1> QED BY <1>1, <1>2, <1>5, <1>6 DEF LayoutInv, LayoutTables

(* The reads.                                                              *)
LEMMA LayoutReads ==
  ASSUME LayoutInv, NEW w \in Workers,
         CreateLoad(w) \/ GenerateLoad(w) \/ LabelLoad(w) \/ BulkDeleteLoad(w)
           \/ MoveLoad(w) \/ RetireLoad(w) \/ RestoreLoad(w)
  PROVE  LayoutInv'
PROOF
<1>1. \A ids, r : /\ DOMAIN AskInto("place", ids, r) =
                       {"op", "ids", "row", "labels", "order", "plan"}
                  /\ AskInto("place", ids, r).op = "place"
                  /\ AskInto("restore", ids, r).op = "restore"
  BY DEF AskInto, Ask
<1>2. CASE CreateLoad(w)
  <2>1. PICK r \in LiveRows, l \in Labels :
          /\ ~ LabelTaken(l)
          /\ Begin(w, [AskInto("place", {}, r) EXCEPT !.labels = {l}])
          /\ UNCHANGED layout
    BY <1>2 DEF CreateLoad
  <2>2. PICK x : x = [AskInto("place", {}, r) EXCEPT !.labels = {l}]
    OBVIOUS
  <2>3. x.labels = {l}
    BY <1>1, <2>2
  <2> QED BY <2>1, <2>2, <2>3, LayoutBegins
<1>3. CASE GenerateLoad(w)
  <2>1. PICK r \in LiveRows, first \in Labels, last \in Labels :
          /\ first .. last \subseteq Labels
          /\ Begin(w, [AskInto("place", {}, r) EXCEPT
                         !.labels = { l \in first .. last : ~ LabelTaken(l) }])
          /\ UNCHANGED layout
    BY <1>3 DEF GenerateLoad
  <2>2. PICK ls \in SUBSET Labels : ls = { l \in first .. last : ~ LabelTaken(l) }
    BY <2>1
  <2>3. PICK x : x = [AskInto("place", {}, r) EXCEPT !.labels = ls]
    OBVIOUS
  <2>4. x.labels = ls
    BY <1>1, <2>3
  <2> QED BY <2>1, <2>2, <2>3, <2>4, LayoutBegins
<1>4. CASE LabelLoad(w)
  <2>1. PICK u \in Stored, l \in Labels :
          /\ Begin(w, [Ask("label", {u}) EXCEPT !.labels = {l}])
          /\ UNCHANGED layout
    BY <1>4 DEF LabelLoad
  <2>2. [Ask("label", {u}) EXCEPT !.labels = {l}].labels = {l}
    BY DEF Ask
  <2> QED BY <2>1, <2>2, LayoutBegins
<1>5. CASE BulkDeleteLoad(w)
  <2>1. PICK ids : Begin(w, Ask("bulkDelete", ids)) /\ UNCHANGED layout
    BY <1>5 DEF BulkDeleteLoad
  <2>2. Ask("bulkDelete", ids).op = "bulkDelete"
    BY DEF Ask
  <2> QED BY <2>1, <2>2, LayoutBegins
<1>6. CASE MoveLoad(w)
  <2>1. PICK u, r, position :
          /\ Begin(w, [Ask("move", {u}) EXCEPT !.row = r, !.plan = MovePlan(u, r, position)])
          /\ UNCHANGED layout
    BY <1>6 DEF MoveLoad
  <2>2. PICK plan : plan = MovePlan(u, r, position)
    OBVIOUS
  <2>3. PICK x : x = [Ask("move", {u}) EXCEPT !.row = r, !.plan = plan]
    OBVIOUS
  <2>4. x.op = "move"
    BY <2>3 DEF Ask
  <2> QED BY <2>1, <2>2, <2>3, <2>4, LayoutBegins
<1>7. CASE RetireLoad(w)
  <2>1. PICK u : Begin(w, Ask("retire", {u})) /\ UNCHANGED layout
    BY <1>7 DEF RetireLoad
  <2>2. Ask("retire", {u}).op = "retire"
    BY DEF Ask
  <2> QED BY <2>1, <2>2, LayoutBegins
<1>8. CASE RestoreLoad(w)
  <2>1. PICK u, r : Begin(w, AskInto("restore", {u}, r)) /\ UNCHANGED layout
    BY <1>8 DEF RestoreLoad
  <2> QED BY <1>1, <2>1, LayoutBegins
<1> QED BY <1>2, <1>3, <1>4, <1>5, <1>6, <1>7, <1>8

(* The writes.                                                             *)
LEMMA PlaceWriteKeeps ==
  ASSUME LayoutInv, NEW w \in Workers, PlaceWrite(w)
  PROVE  LayoutTables'
PROOF
<1>1. PICK ls \in SUBSET Labels : ls = work[w].labels
  BY DEF PlaceWrite, At, LayoutInv, LayoutAsked
<1>2. PICK r \in LiveRows : r = work[w].row
  BY DEF PlaceWrite
<1>3. PICK f \in NewIds(ls) : umbrella' = WithPlaced(work[w], f)
  BY <1>1 DEF PlaceWrite
<1>4. /\ \A l \in ls : f[l] \in Umbrellas \ Stored
      /\ \A k, l \in ls : k # l => f[k] # f[l]
  BY <1>3 DEF NewIds, FreshUmbrellas
<1>5. \A l \in ls, v \in Active : umbrella[v].label # l
  BY <1>1 DEF PlaceWrite, LabelTaken
<1>6. DOMAIN umbrella' = Umbrellas /\ row' = row
  BY <1>3 DEF WithPlaced, PlaceWrite
<1>7. ASSUME NEW l \in ls
      PROVE  /\ UmbrellaFits(umbrella'[f[l]]) /\ umbrella'[f[l]].label = l
             /\ umbrella'[f[l]].row = r /\ ~ umbrella'[f[l]].retired
  <2>1. PICK u : u = f[l]
    OBVIOUS
  <2>2. u \in Umbrellas /\ \A k \in ls : f[k] = u <=> k = l
    BY <1>4, <2>1
  <2>3. PICK k : k = CHOOSE j \in work[w].labels : f[j] = u
    OBVIOUS
  <2>4. k = l
    BY <1>1, <2>2, <2>3
  <2>5. PICK order : umbrella'[u] = Placed(l, r, order)
    BY <1>1, <1>2, <1>3, <2>2, <2>3, <2>4 DEF WithPlaced
  <2>6. l \in Labels /\ r \in Rows
    BY DEF LiveRows
  <2> QED BY <2>1, <2>5, <2>6 DEF Placed, UmbrellaFits
<1>8. \A u \in Umbrellas : (\E l \in ls : f[l] = u) \/ umbrella'[u] = umbrella[u]
  BY <1>1, <1>3 DEF WithPlaced
<1>9. \A u \in Umbrellas : UmbrellaFits(umbrella'[u])
  BY <1>7, <1>8 DEF LayoutInv, LayoutTables
<1>10. \A u \in Active' : (\E l \in ls : f[l] = u) \/ u \in Active
  BY <1>8 DEF Active, Stored
<1>11. \A u \in Active : u \in Umbrellas /\ umbrella'[u] = umbrella[u]
  BY <1>4, <1>8 DEF Active, Stored
<1>12. ActiveLabelsUnique'
  BY <1>5, <1>7, <1>10, <1>11 DEF LayoutInv, LayoutTables, ActiveLabelsUnique
<1>13. LiveRows' = LiveRows
  BY <1>6 DEF LiveRows
<1>14. \A u \in Stored' : (\E l \in ls : f[l] = u) \/ (u \in Stored /\ umbrella'[u] = umbrella[u])
  BY <1>8 DEF Stored
<1>15. ActiveIsPlaced'
  BY <1>7, <1>13, <1>14 DEF LayoutInv, LayoutTables, ActiveIsPlaced
<1> QED BY <1>6, <1>9, <1>12, <1>15 DEF LayoutInv, LayoutTables

LEMMA LabelWriteKeeps ==
  ASSUME LayoutInv, NEW w \in Workers, LabelWrite(w)
  PROVE  LayoutTables'
PROOF
<1>1. work[w].labels \subseteq Labels
  BY DEF LabelWrite, At, LayoutInv, LayoutAsked
<1>2. PICK u \in Stored, l \in Labels :
        /\ u \in Active => \A v \in Active \ {u} : umbrella[v].label # l
        /\ Set(u, [umbrella[u] EXCEPT !.label = l])
  BY <1>1 DEF LabelWrite
<1>3. u \in Umbrellas /\ UmbrellaFits(umbrella[u])
  BY DEF Stored, LayoutInv, LayoutTables
<1>4. PICK x : x = [umbrella[u] EXCEPT !.label = l]
  OBVIOUS
<1>5. UmbrellaFits(x) /\ x.label = l /\ x.row = umbrella[u].row
      /\ x.retired = umbrella[u].retired
  BY <1>3, <1>4 DEF UmbrellaFits
<1>6. /\ umbrella[u].retired => umbrella[u].row = None
      /\ ~ umbrella[u].retired => umbrella[u].row \in LiveRows /\ u \in Active
  BY DEF LayoutInv, LayoutTables, ActiveIsPlaced, Active
<1> QED BY <1>2, <1>3, <1>4, <1>5, <1>6, SetKeeps

LEMMA RetireWriteKeeps ==
  ASSUME LayoutInv, NEW w \in Workers, RetireWrite(w)
  PROVE  LayoutTables'
PROOF
<1>1. PICK u \in Stored : Set(u, [umbrella[u] EXCEPT !.retired = TRUE, !.row = None])
  BY DEF RetireWrite
<1>2. u \in Umbrellas /\ UmbrellaFits(umbrella[u])
  BY DEF Stored, LayoutInv, LayoutTables
<1>3. PICK x : x = [umbrella[u] EXCEPT !.retired = TRUE, !.row = None]
  OBVIOUS
<1>4. UmbrellaFits(x) /\ x.row = None /\ x.retired
  BY <1>2, <1>3 DEF UmbrellaFits
<1> QED BY <1>1, <1>2, <1>3, <1>4, SetKeeps

LEMMA RestoreWriteKeeps ==
  ASSUME LayoutInv, NEW w \in Workers, RestoreWrite(w)
  PROVE  LayoutTables'
PROOF
<1>1. PICK u \in Stored :
        /\ \A v \in Active \ {u} : umbrella[v].label # umbrella[u].label
        /\ Set(u, Placed(umbrella[u].label, work[w].row, work[w].order))
  BY DEF RestoreWrite
<1>2. u \in Umbrellas /\ UmbrellaFits(umbrella[u]) /\ work[w].row \in LiveRows
  BY DEF RestoreWrite, Stored, LayoutInv, LayoutTables
<1>3. PICK x : x = Placed(umbrella[u].label, work[w].row, work[w].order)
  OBVIOUS
<1>4. UmbrellaFits(x) /\ x.label = umbrella[u].label /\ x.row = work[w].row /\ ~ x.retired
  BY <1>2, <1>3 DEF UmbrellaFits, Placed, LiveRows
<1> QED BY <1>1, <1>2, <1>3, <1>4, SetKeeps

LEMMA MoveWriteKeeps ==
  ASSUME LayoutInv, NEW w \in Workers, MoveWrite(w)
  PROVE  LayoutTables'
PROOF
<1>1. PICK x : x = work[w]
  OBVIOUS
<1>2. /\ x.plan.noop \/ (x.ids \subseteq Active /\ x.row \in LiveRows)
      /\ umbrella' = Moved(x) /\ row' = row
  BY <1>1 DEF MoveWrite
<1>3. DOMAIN umbrella' = Umbrellas
  BY <1>2 DEF Moved
<1>4. ASSUME NEW v \in Umbrellas
      PROVE  /\ UmbrellaFits(umbrella'[v])
             /\ umbrella'[v].label = umbrella[v].label
             /\ umbrella'[v].retired = umbrella[v].retired
             /\ umbrella'[v].row = umbrella[v].row
                  \/ (v \in Active /\ umbrella'[v].row \in LiveRows)
  <2>1. UmbrellaFits(umbrella[v])
    BY DEF LayoutInv, LayoutTables
  <2>2. \/ umbrella'[v] = umbrella[v]
        \/ /\ ~ x.plan.noop /\ v \in x.ids
           /\ umbrella'[v] = [umbrella[v] EXCEPT !.row = x.row, !.order = x.plan.target]
        \/ umbrella'[v] = [umbrella[v] EXCEPT !.order = @ + x.plan.delta]
    BY <1>2, Zenon DEF Moved
  <2>3. CASE umbrella'[v] = umbrella[v]
    BY <2>1, <2>3
  <2>4. CASE /\ ~ x.plan.noop /\ v \in x.ids
             /\ umbrella'[v] = [umbrella[v] EXCEPT !.row = x.row, !.order = x.plan.target]
    <3>1. v \in Active /\ x.row \in LiveRows
      BY <1>2, <2>4
    <3>2. PICK y : y = [umbrella[v] EXCEPT !.row = x.row, !.order = x.plan.target]
      OBVIOUS
    <3>3. /\ DOMAIN y = {"label", "row", "retired", "order"}
          /\ y.label = umbrella[v].label /\ y.retired = umbrella[v].retired /\ y.row = x.row
      BY <2>1, <3>2 DEF UmbrellaFits
    <3>4. UmbrellaFits(y)
      BY <2>1, <3>1, <3>3 DEF UmbrellaFits, LiveRows
    <3> QED BY <2>4, <3>1, <3>2, <3>3, <3>4
  <2>5. CASE umbrella'[v] = [umbrella[v] EXCEPT !.order = @ + x.plan.delta]
    <3>1. PICK y : y = [umbrella[v] EXCEPT !.order = @ + x.plan.delta]
      OBVIOUS
    <3>2. /\ DOMAIN y = {"label", "row", "retired", "order"}
          /\ y.label = umbrella[v].label /\ y.retired = umbrella[v].retired
          /\ y.row = umbrella[v].row
      BY <2>1, <3>1 DEF UmbrellaFits
    <3>3. UmbrellaFits(y)
      BY <2>1, <3>2 DEF UmbrellaFits
    <3> QED BY <2>5, <3>1, <3>2, <3>3
  <2> QED BY <2>2, <2>3, <2>4, <2>5
<1>5. Active' = Active /\ Stored' = Stored /\ LiveRows' = LiveRows
  BY <1>2, <1>4 DEF Active, Stored, LiveRows
<1>6. ActiveLabelsUnique'
  BY <1>4, <1>5 DEF LayoutInv, LayoutTables, ActiveLabelsUnique, Active, Stored
<1>7. ActiveIsPlaced'
  <2> SUFFICES ASSUME NEW v \in Stored
               PROVE  /\ umbrella'[v].retired => umbrella'[v].row = None
                      /\ ~ umbrella'[v].retired => umbrella'[v].row \in LiveRows
    BY <1>5 DEF ActiveIsPlaced
  <2>1. v \in Umbrellas
    BY DEF Stored
  <2> QED BY <1>4, <2>1 DEF LayoutInv, LayoutTables, ActiveIsPlaced, Active
<1> QED BY <1>2, <1>3, <1>4, <1>6, <1>7 DEF LayoutInv, LayoutTables

LEMMA RemoveKeeps ==
  ASSUME LayoutInv,
         (\E u \in Umbrellas : Remove(u)) \/ (\E w \in Workers : BulkDeleteWrite(w))
  PROVE  LayoutTables'
PROOF
<1>1. /\ row' = row /\ DOMAIN umbrella' = Umbrellas
      /\ \A v \in Umbrellas : umbrella'[v] = umbrella[v] \/ umbrella'[v] = NoUmbrella
  BY DEF Remove, Set, BulkDeleteWrite, LayoutInv, LayoutTables
<1>2. UmbrellaFits(NoUmbrella) /\ NoUmbrella.label = 0
  BY DEF UmbrellaFits, NoUmbrella
<1>3. \A v \in Stored' : v \in Stored /\ umbrella'[v] = umbrella[v]
  BY <1>1, <1>2 DEF Stored
<1>4. ActiveLabelsUnique' /\ ActiveIsPlaced'
  BY <1>1, <1>3 DEF LayoutInv, LayoutTables, ActiveLabelsUnique, ActiveIsPlaced, Active,
                    LiveRows
<1> QED BY <1>1, <1>2, <1>4 DEF LayoutInv, LayoutTables

LEMMA RowsKeep ==
  ASSUME LayoutInv,
         (\E s \in Sectors : CreateRow(s)) \/ (\E r \in Rows : RemoveRow(r))
  PROVE  LayoutTables'
PROOF
<1>1. row' \in [Rows -> Sectors \cup {None}] /\ umbrella' = umbrella
  BY DEF CreateRow, RemoveRow, LayoutInv, LayoutTables
<1>2. ASSUME NEW u \in Umbrellas, umbrella[u].row \in LiveRows
      PROVE  umbrella[u].row \in LiveRows'
  <2>1. CASE \E s \in Sectors : CreateRow(s)
    BY <1>2, <2>1, LayoutAssumption DEF CreateRow, FreshRows, LiveRows, LayoutInv, LayoutTables
  <2>2. CASE \E r \in Rows : RemoveRow(r)
    BY <1>2, <2>2 DEF RemoveRow, InRow, LiveRows, LayoutInv, LayoutTables
  <2> QED BY <2>1, <2>2
<1>3. Stored' = Stored /\ Active' = Active
  BY <1>1 DEF Active, Stored
<1>4. ActiveIsPlaced'
  BY <1>1, <1>2, <1>3 DEF LayoutInv, LayoutTables, ActiveIsPlaced, Stored
<1> QED BY <1>1, <1>3, <1>4 DEF LayoutInv, LayoutTables, ActiveLabelsUnique

LEMMA LayoutSteps ==
  ASSUME LayoutInv, [LayoutNext]_<<layout, work, serial>>
  PROVE  LayoutInv'
PROOF
<1>1. ASSUME NEW w \in Workers,
             PlaceWrite(w) \/ LabelWrite(w) \/ RetireWrite(w) \/ RestoreWrite(w)
               \/ MoveWrite(w) \/ BulkDeleteWrite(w)
      PROVE  LayoutInv'
  <2>1. LayoutTables'
    BY <1>1, PlaceWriteKeeps, LabelWriteKeeps, RetireWriteKeeps, RestoreWriteKeeps,
       MoveWriteKeeps, RemoveKeeps
  <2>2. Finish(w)
    BY <1>1 DEF PlaceWrite, LabelWrite, RetireWrite, RestoreWrite, MoveWrite, BulkDeleteWrite
  <2> QED BY <2>1, <2>2, LayoutEnds DEF LayoutInv
<1>2. ASSUME NEW w \in Workers, Abort(w), UNCHANGED layout PROVE LayoutInv'
  BY <1>2, LayoutEnds, LayoutSame DEF Abort, LayoutInv, layout
<1>3. ASSUME UNCHANGED work, LayoutTables' PROVE LayoutInv'
  BY <1>3 DEF LayoutInv, LayoutAsked
<1>4. CASE \E u \in Umbrellas : Remove(u)
  BY <1>3, <1>4, RemoveKeeps DEF Remove
<1>5. CASE (\E s \in Sectors : CreateRow(s)) \/ (\E r \in Rows : RemoveRow(r))
  BY <1>3, <1>5, RowsKeep DEF CreateRow, RemoveRow
<1>6. CASE \/ \E k \in Kinds : CreateSector(k)
           \/ \E s \in Sectors : (\E k \in Kinds : UpdateSector(s, k)) \/ RemoveSector(s)
           \/ UNCHANGED <<layout, work, serial>>
  <2>1. UNCHANGED <<row, umbrella, work>>
    BY <1>6 DEF CreateSector, UpdateSector, RemoveSector, layout
  <2> QED BY <1>3, <2>1, LayoutSame
<1>7. ASSUME NEW w \in Workers,
             CreateLoad(w) \/ GenerateLoad(w) \/ LabelLoad(w) \/ BulkDeleteLoad(w)
               \/ MoveLoad(w) \/ RetireLoad(w) \/ RestoreLoad(w)
      PROVE  LayoutInv'
  BY <1>7, LayoutReads
<1> QED BY <1>1, <1>2, <1>4, <1>5, <1>6, <1>7 DEF LayoutNext

LEMMA LayoutAlways == LayoutSpec => []LayoutInv
PROOF
<1>1. LayoutInit /\ work = [w \in Workers |-> NoRequest] /\ serial = TRUE => LayoutInv
  <2> SUFFICES ASSUME LayoutInit, work = [w \in Workers |-> NoRequest] PROVE LayoutInv
    OBVIOUS
  <2>1. Stored = {} /\ UmbrellaFits(NoUmbrella)
    BY DEF LayoutInit, Stored, NoUmbrella, UmbrellaFits
  <2>2. LayoutAsked
    BY DEF LayoutAsked, NoRequest
  <2> QED BY <2>1, <2>2 DEF LayoutInv, LayoutTables, LayoutInit, ActiveLabelsUnique,
                            ActiveIsPlaced, Active
<1>2. LayoutInv /\ [LayoutNext]_<<layout, work, serial>> => LayoutInv'
  BY LayoutSteps
<1> QED BY <1>1, <1>2, PTL DEF LayoutSpec

(* No two active umbrellas ever have the same label, however creations,    *)
(* renamings and restorations overlap, for any number of workers: by the   *)
(* index alone, whatever the checks before it have read.                   *)
THEOREM LabelsStayUnique == LayoutSpec => []ActiveLabelsUnique
PROOF
<1>1. LayoutInv => ActiveLabelsUnique
  BY DEF LayoutInv, LayoutTables
<1> QED BY <1>1, LayoutAlways, PTL

(* An umbrella is in a row that exists if it is active, and in none if it  *)
(* is retired: no move, restoration or removal that was under way undoes   *)
(* it, for any number of workers and umbrellas.                            *)
THEOREM ActiveStaysPlaced == LayoutSpec => []ActiveIsPlaced
PROOF
<1>1. LayoutInv => ActiveIsPlaced
  BY DEF LayoutInv, LayoutTables
<1> QED BY <1>1, LayoutAlways, PTL

-----------------------------------------------------------------------------
(* The rows of the beach, listed by the orders of their umbrellas, what a  *)
(* move makes of them, and the page that shows it.                         *)

(* A set whose members at tells apart.                                     *)
Ranks(us, at) ==
  /\ IsFiniteSet(us)
  /\ \A u \in us : at[u] \in Int
  /\ \A u, v \in us : u # v => at[u] # at[v]

Below(us, at, n) == { v \in us : at[v] < n }

(* A list of the set that at goes up along.                                *)
Sorted(s, us, at) ==
  /\ s \in [1 .. Cardinality(us) -> us]
  /\ \A i, j \in 1 .. Cardinality(us) : i < j => at[s[i]] < at[s[j]]

LEMMA BelowGrows ==
  ASSUME NEW us, NEW at, Ranks(us, at), NEW u \in us
  PROVE  /\ IsFiniteSet(Below(us, at, at[u]))
         /\ Cardinality(Below(us, at, at[u])) \in 0 .. Cardinality(us) - 1
         /\ \A v \in us : at[u] < at[v] =>
              Cardinality(Below(us, at, at[u])) < Cardinality(Below(us, at, at[v]))
PROOF
<1>1. ASSUME NEW b \in SUBSET us, Below(us, at, at[u]) \subseteq b, u \in b
      PROVE  /\ IsFiniteSet(Below(us, at, at[u])) /\ IsFiniteSet(b)
             /\ Cardinality(Below(us, at, at[u])) < Cardinality(b)
             /\ Cardinality(Below(us, at, at[u])) \in Nat
  <2>1. IsFiniteSet(b)
    BY <1>1, FS_Subset DEF Ranks
  <2>2. Below(us, at, at[u]) \in SUBSET b /\ Below(us, at, at[u]) # b
    BY <1>1 DEF Below, Ranks
  <2>3. /\ IsFiniteSet(Below(us, at, at[u]))
        /\ Cardinality(Below(us, at, at[u])) <= Cardinality(b)
        /\ Cardinality(Below(us, at, at[u])) # Cardinality(b)
    BY <2>1, <2>2, FS_Subset
  <2>4. Cardinality(b) \in Nat /\ Cardinality(Below(us, at, at[u])) \in Nat
    BY <2>1, <2>3, FS_CardinalityType
  <2> QED BY <2>1, <2>3, <2>4
<1>2. Below(us, at, at[u]) \subseteq us
  BY DEF Below
<1>3. Cardinality(us) \in Nat
  BY FS_CardinalityType DEF Ranks
<1>4. /\ IsFiniteSet(Below(us, at, at[u]))
      /\ Cardinality(Below(us, at, at[u])) \in 0 .. Cardinality(us) - 1
  BY <1>1, <1>2, <1>3
<1>5. ASSUME NEW v \in us, at[u] < at[v]
      PROVE  Cardinality(Below(us, at, at[u])) < Cardinality(Below(us, at, at[v]))
  <2>1. /\ Below(us, at, at[v]) \in SUBSET us
        /\ Below(us, at, at[u]) \subseteq Below(us, at, at[v])
        /\ u \in Below(us, at, at[v])
    BY <1>5 DEF Below, Ranks
  <2> QED BY <1>1, <2>1
<1> QED BY <1>4, <1>5

(* Each place is taken, and by one.                                        *)
LEMMA PlacesTaken ==
  ASSUME NEW us, NEW at, Ranks(us, at), NEW k \in 0 .. Cardinality(us) - 1
  PROVE  \E u \in us : /\ Cardinality(Below(us, at, at[u])) = k
                       /\ \A v \in us : Cardinality(Below(us, at, at[v])) = k => v = u
PROOF
<1> DEFINE n == Cardinality(us)
           f == [u \in us |-> Cardinality(Below(us, at, at[u]))]
<1>1. n \in Nat
  BY FS_CardinalityType DEF Ranks
<1>2. f \in [us -> 0 .. n - 1]
  BY BelowGrows
<1>3. ASSUME NEW u \in us, NEW v \in us, f[u] = f[v]
      PROVE  u = v
  <2>1. f[u] \in Int /\ f[v] \in Int
    BY <1>1, <1>2
  <2>2. ~ at[u] < at[v]
    <3>1. at[u] < at[v] => f[u] < f[v]
      BY BelowGrows
    <3> QED BY <1>3, <2>1, <3>1
  <2>3. ~ at[v] < at[u]
    <3>1. at[v] < at[u] => f[v] < f[u]
      BY BelowGrows
    <3> QED BY <1>3, <2>1, <3>1
  <2> QED BY <2>2, <2>3 DEF Ranks
<1> HIDE DEF f
<1>4. f \in Injection(us, 0 .. n - 1)
  BY <1>2, <1>3 DEF Injection, IsInjective
<1>5. IsFiniteSet(0 .. n - 1) /\ Cardinality(0 .. n - 1) = n
  BY <1>1, FS_Interval
<1>6. f \in Surjection(us, 0 .. n - 1)
  BY <1>4, <1>5, FS_Injection
<1>7. PICK u \in us : f[u] = k
  BY <1>6 DEF Surjection
<1>8. \A v \in us : f[v] = Cardinality(Below(us, at, at[v]))
  BY DEF f
<1> QED BY <1>3, <1>7, <1>8

(* A list that goes up has them all, and at tells them apart.              *)
LEMMA SortedOnto ==
  ASSUME NEW us, IsFiniteSet(us), NEW at, \A u \in us : at[u] \in Int,
         NEW s, Sorted(s, us, at)
  PROVE  /\ \A u \in us : \E i \in 1 .. Cardinality(us) : s[i] = u
         /\ \A i, j \in 1 .. Cardinality(us) : s[i] = s[j] => i = j
         /\ Ranks(us, at)
PROOF
<1> DEFINE n == Cardinality(us)
<1>1. n \in Nat /\ s \in [1 .. n -> us]
  BY FS_CardinalityType DEF Sorted
<1>2. \A i \in 1 .. n : at[s[i]] \in Int
  BY <1>1
<1>3. ASSUME NEW i \in 1 .. n, NEW j \in 1 .. n, at[s[i]] = at[s[j]]
      PROVE  i = j
  BY <1>1, <1>2, <1>3 DEF Sorted
<1>4. s \in Injection(1 .. n, us)
  BY <1>1, <1>3 DEF Injection, IsInjective
<1>5. Cardinality(1 .. n) = n
  BY <1>1, FS_Interval
<1>6. s \in Surjection(1 .. n, us)
  BY <1>1, <1>4, <1>5, FS_Injection
<1>7. \A u \in us : \E i \in 1 .. n : s[i] = u
  BY <1>6 DEF Surjection
<1>8. Ranks(us, at)
  BY <1>3, <1>7 DEF Ranks
<1> QED BY <1>3, <1>7, <1>8

(* What it has at a place.                                                 *)
LEMMA SortedPlaces ==
  ASSUME NEW us, NEW at, Ranks(us, at), NEW s, Sorted(s, us, at)
  PROVE  /\ \A u \in us : \E i \in 1 .. Cardinality(us) : s[i] = u
         /\ \A i \in 1 .. Cardinality(us) : Cardinality(Below(us, at, at[s[i]])) = i - 1
PROOF
<1> DEFINE n == Cardinality(us)
<1>1. n \in Nat /\ IsFiniteSet(us) /\ s \in [1 .. n -> us]
  BY FS_CardinalityType DEF Ranks, Sorted
<1>2. \A i \in 1 .. n : at[s[i]] \in Int
  BY <1>1 DEF Ranks
<1>3. \A i, j \in 1 .. n : s[i] = s[j] => i = j
  BY SortedOnto DEF Ranks
<1>7. \A u \in us : \E i \in 1 .. n : s[i] = u
  BY SortedOnto DEF Ranks
<1>8. ASSUME NEW i \in 1 .. n
      PROVE  Cardinality(Below(us, at, at[s[i]])) = i - 1
  <2> DEFINE b == Below(us, at, at[s[i]])
             g == [j \in 1 .. i - 1 |-> s[j]]
  <2>1. g \in [1 .. i - 1 -> b]
    BY <1>1 DEF Below, Sorted
  <2>2. \A v \in b : \E j \in 1 .. i - 1 : g[j] = v
    <3> SUFFICES ASSUME NEW v \in b PROVE \E j \in 1 .. i - 1 : s[j] = v
      OBVIOUS
    <3>1. v \in us /\ at[v] < at[s[i]]
      BY DEF Below
    <3>2. PICK j \in 1 .. n : s[j] = v
      BY <1>7, <3>1
    <3>3. j # i /\ ~ i < j
      BY <1>1, <1>2, <3>1, <3>2 DEF Sorted
    <3> QED BY <1>1, <3>2, <3>3
  <2>3. \A j, l \in 1 .. i - 1 : g[j] = g[l] => j = l
    BY <1>1, <1>3
  <2> HIDE DEF g, b
  <2>4. g \in Bijection(1 .. i - 1, b)
    BY <2>1, <2>2, <2>3 DEF Bijection, Injection, IsInjective, Surjection
  <2>5. IsFiniteSet(1 .. i - 1) /\ Cardinality(1 .. i - 1) = i - 1
    <3>1. i - 1 \in Int /\ 1 \in Int
      BY <1>1
    <3>2. Cardinality(1 .. i - 1) = IF 1 > i - 1 THEN 0 ELSE (i - 1) - 1 + 1
      BY <3>1, FS_Interval, Zenon
    <3>3. IsFiniteSet(1 .. i - 1)
      BY <3>1, FS_Interval, Zenon
    <3> QED BY <1>1, <3>2, <3>3
  <2>6. Cardinality(b) = i - 1
    BY <2>4, <2>5, FS_Bijection DEF ExistsBijection
  <2> QED BY <2>6 DEF b
<1> QED BY <1>7, <1>8

(* The list that goes up is the one there is.                              *)
LEMMA SortedIsListed ==
  ASSUME NEW us, NEW at, Ranks(us, at), NEW s, Sorted(s, us, at)
  PROVE  s = Listed(us, at)
PROOF
<1>1. Cardinality(us) \in Nat
  BY FS_CardinalityType DEF Ranks
<1>2. ASSUME NEW i \in 1 .. Cardinality(us)
      PROVE  s[i] = Listed(us, at)[i]
  <2>1. i - 1 \in 0 .. Cardinality(us) - 1
    BY <1>1
  <2>2. PICK u \in us : /\ Cardinality(Below(us, at, at[u])) = i - 1
                        /\ \A v \in us : Cardinality(Below(us, at, at[v])) = i - 1 => v = u
    BY <2>1, PlacesTaken
  <2>3. s[i] \in us /\ Cardinality(Below(us, at, at[s[i]])) = i - 1
    <3>1. s[i] \in us
      BY DEF Sorted
    <3>2. \A j \in 1 .. Cardinality(us) : Cardinality(Below(us, at, at[s[j]])) = j - 1
      BY SortedPlaces
    <3> QED BY <3>1, <3>2
  <2>4. Listed(us, at)[i] = CHOOSE v \in us : Cardinality(Below(us, at, at[v])) = i - 1
    BY DEF Listed, Below
  <2> QED BY <2>2, <2>3, <2>4
<1>3. DOMAIN s = 1 .. Cardinality(us) /\ DOMAIN Listed(us, at) = 1 .. Cardinality(us)
  BY DEF Sorted, Listed
<1>4. s = [i \in 1 .. Cardinality(us) |-> s[i]]
  BY DEF Sorted
<1>5. Listed(us, at) = [i \in 1 .. Cardinality(us) |-> Listed(us, at)[i]]
  BY DEF Listed
<1> QED BY <1>2, <1>4, <1>5

LEMMA ListedSorted ==
  ASSUME NEW us, NEW at, Ranks(us, at)
  PROVE  Sorted(Listed(us, at), us, at)
PROOF
<1> DEFINE s == Listed(us, at)
           n == Cardinality(us)
<1>1. n \in Nat
  BY FS_CardinalityType DEF Ranks
<1>2. ASSUME NEW i \in 1 .. n
      PROVE  s[i] \in us /\ Cardinality(Below(us, at, at[s[i]])) = i - 1
  <2>1. i - 1 \in 0 .. n - 1
    BY <1>1
  <2>2. \E u \in us : Cardinality(Below(us, at, at[u])) = i - 1
    BY <2>1, PlacesTaken
  <2>3. s[i] = CHOOSE v \in us : Cardinality(Below(us, at, at[v])) = i - 1
    BY DEF Listed, Below
  <2> QED BY <2>2, <2>3
<1>3. s \in [1 .. n -> us]
  <2>1. s = [i \in 1 .. n |-> s[i]]
    BY DEF Listed
  <2> QED BY <1>2, <2>1
<1>4. ASSUME NEW i \in 1 .. n, NEW j \in 1 .. n, i < j
      PROVE  at[s[i]] < at[s[j]]
  <2>1. /\ s[i] \in us /\ Cardinality(Below(us, at, at[s[i]])) = i - 1
        /\ s[j] \in us /\ Cardinality(Below(us, at, at[s[j]])) = j - 1
    BY <1>2
  <2>2. PICK u \in us, v \in us : u = s[i] /\ v = s[j]
    BY <2>1
  <2>3. at[u] \in Int /\ at[v] \in Int /\ u # v /\ at[u] # at[v]
    BY <1>1, <1>4, <2>1, <2>2 DEF Ranks
  <2>4. ~ at[v] < at[u]
    <3>1. at[v] < at[u] => j - 1 < i - 1
      BY <2>1, <2>2, BelowGrows
    <3> QED BY <1>1, <1>4, <3>1
  <2> QED BY <2>2, <2>3, <2>4
<1> QED BY <1>3, <1>4 DEF Sorted

(* One less, and one more, in a list that goes up.                         *)
LEMMA WithoutSorted ==
  ASSUME NEW us, NEW at, Ranks(us, at), NEW s, Sorted(s, us, at), NEW u
  PROVE  Sorted(Without(s, u), us \ {u}, at)
PROOF
<1> DEFINE n == Cardinality(us)
           kept == { i \in DOMAIN s : s[i] # u }
           id == [i \in kept |-> i]
           ids == Listed(kept, id)
           f == [i \in kept |-> s[i]]
<1>1. n \in Nat /\ s \in [1 .. n -> us] /\ DOMAIN s = 1 .. n
  BY FS_CardinalityType DEF Ranks, Sorted
<1>2. kept \in SUBSET (1 .. n)
  BY <1>1
<1>3. IsFiniteSet(kept)
  <2>1. IsFiniteSet(1 .. n)
    BY <1>1, FS_Interval
  <2> HIDE DEF kept, n
  <2> QED BY <1>2, <2>1, FS_Subset
<1>4. Ranks(kept, id)
  BY <1>2, <1>3 DEF Ranks
<1>5. Sorted(ids, kept, id)
  BY <1>4, ListedSorted
<1>6. /\ ids \in [1 .. Cardinality(kept) -> kept] /\ DOMAIN ids = 1 .. Cardinality(kept)
      /\ \A i, j \in 1 .. Cardinality(kept) : i < j => ids[i] < ids[j]
  BY <1>5 DEF Sorted
<1>7. \A i \in kept : i \in 1 .. n /\ s[i] \in us \ {u}
  BY <1>1
<1>8. \A i, j \in kept : s[i] = s[j] => i = j
  <2> SUFFICES ASSUME NEW i \in kept, NEW j \in kept, s[i] = s[j] PROVE i = j
    OBVIOUS
  <2>1. at[s[i]] \in Int /\ i \in 1 .. n /\ j \in 1 .. n
    BY <1>1, <1>7 DEF Ranks
  <2>2. ~ i < j /\ ~ j < i
    BY <2>1 DEF Sorted
  <2> QED BY <1>1, <2>1, <2>2
<1>9. \A v \in us \ {u} : \E i \in kept : s[i] = v
  <2> SUFFICES ASSUME NEW v \in us \ {u} PROVE \E i \in kept : s[i] = v
    OBVIOUS
  <2>1. PICK i \in 1 .. n : s[i] = v
    BY SortedPlaces
  <2> QED BY <1>1, <2>1
<1>10. f \in Bijection(kept, us \ {u})
  <2>1. f \in [kept -> us \ {u}]
    BY <1>7
  <2> HIDE DEF kept
  <2> QED BY <1>8, <1>9, <2>1 DEF Bijection, Injection, IsInjective, Surjection
<1>11. Cardinality(kept) = Cardinality(us \ {u})
  BY <1>3, <1>10, FS_Bijection DEF ExistsBijection
<1>12. Without(s, u) = [i \in 1 .. Cardinality(us \ {u}) |-> s[ids[i]]]
  BY <1>6, <1>11 DEF Without
<1> HIDE DEF ids, id
<1>13. \A i \in 1 .. Cardinality(us \ {u}) : ids[i] \in kept
  BY <1>6, <1>11
<1>14. \A i, j \in 1 .. Cardinality(us \ {u}) : i < j => at[s[ids[i]]] < at[s[ids[j]]]
  BY <1>6, <1>7, <1>11, <1>13 DEF Sorted
<1> HIDE DEF kept
<1> QED BY <1>7, <1>12, <1>13, <1>14 DEF Sorted

(* u after p of the n that s has.                                          *)
HasIn(q, s, n, u, p) ==
  /\ DOMAIN q = 1 .. n + 1
  /\ \A i \in 1 .. n + 1 : q[i] = IF i <= p THEN s[i] ELSE IF i = p + 1 THEN u ELSE s[i - 1]
  /\ q = [i \in 1 .. n + 1 |-> q[i]]

LEMMA InsertedIs ==
  ASSUME NEW us, NEW n \in Nat, NEW s \in [1 .. n -> us], NEW u, NEW p \in 0 .. n
  PROVE  HasIn(Inserted(s, u, p), s, n, u, p)
PROOF
<1>1. s \in Seq(us) /\ Len(s) = n
  OBVIOUS
<1>2. CASE p = n
  <2>1. Inserted(s, u, p) = Append(s, u)
    BY <1>1, <1>2 DEF Inserted
  <2>2. PICK d : d = Append(s, u)
    OBVIOUS
  <2>3. s \in Seq(us \cup {u})
    BY <1>1
  <2>4. d \in Seq(us \cup {u}) /\ Len(d) = n + 1
    BY <1>1, <2>2, <2>3
  <2>5. \A i \in 1 .. n + 1 : d[i] = IF i <= n THEN s[i] ELSE u
    BY <1>1, <2>2, <2>3
  <2>6. DOMAIN d = 1 .. n + 1 /\ d = [i \in 1 .. n + 1 |-> d[i]]
    BY <2>4
  <2> QED BY <1>1, <1>2, <2>1, <2>2, <2>5, <2>6 DEF HasIn
<1>3. CASE p < n
  <2> DEFINE a == SubSeq(s, 1, p)
             b == SubSeq(s, p + 1, n)
  <2>1. Inserted(s, u, p) = a \o <<u>> \o b
    BY <1>1, <1>3 DEF Inserted
  <2>2. a \in Seq(us) /\ Len(a) = p /\ \A i \in 1 .. p : a[i] = s[i]
    BY <1>1, <1>3
  <2>3. b \in Seq(us) /\ Len(b) = n - p /\ \A i \in 1 .. n - p : b[i] = s[p + i]
    BY <1>1, <1>3
  <2> HIDE DEF a, b
  <2>4. PICK c : c = a \o <<u>>
    OBVIOUS
  <2>5. /\ c \in Seq(us \cup {u}) /\ Len(c) = p + 1
        /\ \A i \in 1 .. p + 1 : c[i] = IF i <= p THEN a[i] ELSE u
    BY <2>2, <2>4
  <2>6. PICK d : d = c \o b
    OBVIOUS
  <2>7. b \in Seq(us \cup {u})
    BY <2>3
  <2>8. /\ d \in Seq(us \cup {u}) /\ Len(d) = n + 1
        /\ \A i \in 1 .. n + 1 : d[i] = IF i <= p + 1 THEN c[i] ELSE b[i - (p + 1)]
    BY <2>3, <2>5, <2>6, <2>7
  <2>9. Inserted(s, u, p) = d
    BY <2>1, <2>4, <2>6
  <2>10. \A i \in 1 .. n + 1 :
           d[i] = IF i <= p THEN s[i] ELSE IF i = p + 1 THEN u ELSE s[i - 1]
    <3> SUFFICES ASSUME NEW i \in 1 .. n + 1
                 PROVE  d[i] = IF i <= p THEN s[i] ELSE IF i = p + 1 THEN u ELSE s[i - 1]
      OBVIOUS
    <3>1. CASE i <= p + 1
      <4>1. i \in 1 .. p + 1 /\ d[i] = c[i] /\ c[i] = IF i <= p THEN a[i] ELSE u
        BY <2>5, <2>8, <3>1
      <4>2. CASE i <= p
        BY <2>2, <4>1, <4>2
      <4>3. CASE i = p + 1
        BY <4>1, <4>3
      <4> QED BY <3>1, <4>2, <4>3
    <3>2. CASE i > p + 1
      <4>1. i - (p + 1) \in 1 .. n - p /\ p + (i - (p + 1)) = i - 1
        BY <1>3, <3>2
      <4>2. d[i] = b[i - (p + 1)]
        BY <2>8, <3>2
      <4> QED BY <2>3, <3>2, <4>1, <4>2
    <3> QED BY <3>1, <3>2
  <2>11. DOMAIN d = 1 .. n + 1 /\ d = [i \in 1 .. n + 1 |-> d[i]]
    BY <2>8
  <2> QED BY <2>9, <2>10, <2>11 DEF HasIn
<1> QED BY <1>2, <1>3

LEMMA InsertedSorted ==
  ASSUME NEW us, NEW at, Ranks(us, at), NEW u, u \notin us, at[u] \in Int,
         NEW s, Sorted(s, us, at), NEW p \in 0 .. Cardinality(us),
         \A i \in 1 .. Cardinality(us) :
           IF i <= p THEN at[s[i]] < at[u] ELSE at[u] < at[s[i]]
  PROVE  Sorted(Inserted(s, u, p), us \cup {u}, at)
PROOF
<1> DEFINE n == Cardinality(us)
           q == Inserted(s, u, p)
<1>1. n \in Nat /\ IsFiniteSet(us) /\ s \in [1 .. n -> us]
  BY FS_CardinalityType DEF Ranks, Sorted
<1>2. Cardinality(us \cup {u}) = n + 1
  BY <1>1, FS_AddElement
<1> HIDE DEF n
<1>3. /\ DOMAIN q = 1 .. n + 1
      /\ \A i \in 1 .. n + 1 : q[i] = IF i <= p THEN s[i] ELSE IF i = p + 1 THEN u ELSE s[i - 1]
      /\ q = [i \in 1 .. n + 1 |-> q[i]]
  <2>1. p \in 0 .. n
    BY DEF n
  <2>2. HasIn(q, s, n, u, p)
    BY <1>1, <2>1, InsertedIs
  <2> HIDE DEF q
  <2> QED BY <2>2 DEF HasIn
<1> HIDE DEF q
<1>4. \A i \in 1 .. n + 1 : q[i] \in us \cup {u}
  <2>1. p \in 0 .. n
    BY DEF n
  <2> QED BY <1>1, <1>3, <2>1
<1>5. ASSUME NEW i \in 1 .. n + 1, NEW j \in 1 .. n + 1, i < j
      PROVE  at[q[i]] < at[q[j]]
  <2>1. \A k, l \in 1 .. n : k < l => at[s[k]] < at[s[l]]
    BY DEF Sorted, n
  <2>6. p \in 0 .. n /\ \A k \in 1 .. n : IF k <= p THEN at[s[k]] < at[u] ELSE at[u] < at[s[k]]
    BY DEF n
  <2>2. \A k \in 1 .. n : at[s[k]] \in Int
    BY <1>1 DEF Ranks
  <2>3. CASE j <= p
    <3>1. q[i] = s[i] /\ q[j] = s[j] /\ i \in 1 .. n /\ j \in 1 .. n
      BY <1>1, <1>3, <1>5, <2>3, <2>6
    <3> QED BY <1>5, <2>1, <3>1
  <2>4. CASE j = p + 1
    <3>1. q[i] = s[i] /\ q[j] = u /\ i \in 1 .. n /\ i <= p
      BY <1>1, <1>3, <1>5, <2>4, <2>6
    <3> QED BY <2>6, <3>1
  <2>5. CASE j > p + 1
    <3>1. q[j] = s[j - 1] /\ j - 1 \in 1 .. n
      BY <1>1, <1>3, <2>5, <2>6
    <3>2. CASE i <= p
      <4>1. q[i] = s[i] /\ i \in 1 .. n /\ i < j - 1
        BY <1>1, <1>3, <2>5, <2>6, <3>2
      <4> QED BY <2>1, <3>1, <4>1
    <3>3. CASE i = p + 1
      <4>1. q[i] = u /\ ~ j - 1 <= p
        BY <1>1, <1>3, <2>5, <2>6, <3>3
      <4> QED BY <2>6, <3>1, <4>1
    <3>4. CASE i > p + 1
      <4>1. q[i] = s[i - 1] /\ i - 1 \in 1 .. n /\ i - 1 < j - 1
        BY <1>1, <1>3, <1>5, <2>6, <3>4
      <4> QED BY <2>1, <3>1, <4>1
    <3> QED BY <1>1, <2>6, <3>2, <3>3, <3>4
  <2> QED BY <1>1, <2>3, <2>4, <2>5, <2>6
<1>6. q \in [1 .. n + 1 -> us \cup {u}]
  BY <1>3, <1>4
<1> QED BY <1>2, <1>5, <1>6 DEF Sorted, q

OrderOf(t) == [u \in Umbrellas |-> t[u].order]

(* destOrders[k] is the order of the k-th.                                 *)
LEMMA OrderAtIs ==
  ASSUME NEW us \in SUBSET Umbrellas, Ranks(us, OrderOf(umbrella)),
         NEW s, Sorted(s, us, OrderOf(umbrella)), NEW k \in 1 .. Cardinality(us)
  PROVE  OrderAt(us, k - 1) = OrderOf(umbrella)[s[k]]
PROOF
<1> DEFINE n == Cardinality(us)
           o == OrderOf(umbrella)
<1>1. n \in Nat /\ s \in [1 .. n -> us] /\ IsFiniteSet(us)
  BY FS_CardinalityType DEF Ranks, Sorted
<1>2. \A u \in us : o[u] = umbrella[u].order
  BY DEF OrderOf
<1>10. Ranks(us, o) /\ Sorted(s, us, o)
  OBVIOUS
<1> HIDE DEF o, n
<1>3. \A u \in us : o[u] \in Int
  BY <1>10 DEF Ranks
<1>4. ASSUME NEW j \in 1 .. n
      PROVE  /\ Cardinality({ u \in us : umbrella[u].order < o[s[j]] }) = j - 1
             /\ Cardinality({ u \in us : umbrella[u].order <= o[s[j]] }) = j
  <2>1. Cardinality(Below(us, o, o[s[j]])) = j - 1 /\ s[j] \in us
    <3>1. \A i \in 1 .. n : Cardinality(Below(us, o, o[s[i]])) = i - 1
      BY <1>10, SortedPlaces DEF n
    <3> QED BY <1>1, <3>1
  <2>2. { u \in us : umbrella[u].order < o[s[j]] } = Below(us, o, o[s[j]])
    BY <1>2 DEF Below
  <2>3. { u \in us : umbrella[u].order <= o[s[j]] } = Below(us, o, o[s[j]]) \cup {s[j]}
    BY <1>2, <1>3, <1>10, <2>1 DEF Below, Ranks
  <2>4. IsFiniteSet(Below(us, o, o[s[j]])) /\ s[j] \notin Below(us, o, o[s[j]])
    <3>1. Below(us, o, o[s[j]]) \in SUBSET us
      BY DEF Below
    <3>2. ~ o[s[j]] < o[s[j]]
      BY <1>3, <2>1
    <3> QED BY <1>1, <3>1, <3>2, FS_Subset DEF Below
  <2>5. Cardinality(Below(us, o, o[s[j]]) \cup {s[j]}) = (j - 1) + 1
    BY <2>1, <2>4, FS_AddElement
  <2>6. (j - 1) + 1 = j
    BY <1>1
  <2> QED BY <2>1, <2>2, <2>3, <2>5, <2>6
<1>5. { umbrella[u].order : u \in us } = { o[u] : u \in us }
  BY <1>2
<1>6. \A m \in { o[u] : u \in us } : \E j \in 1 .. n : m = o[s[j]]
  <2>1. \A u \in us : \E j \in 1 .. n : s[j] = u
    BY <1>10, SortedPlaces DEF n
  <2> QED BY <2>1
<1> DEFINE Kth(m) == /\ Cardinality({ u \in us : umbrella[u].order < m }) <= k - 1
                     /\ k - 1 < Cardinality({ u \in us : umbrella[u].order <= m })
<1>11. k \in 1 .. n
  BY DEF n
<1>7. o[s[k]] \in { o[u] : u \in us } /\ Kth(o[s[k]])
  <2>1. s[k] \in us /\ k - 1 <= k - 1 /\ k - 1 < k
    BY <1>1, <1>11
  <2> QED BY <1>4, <1>11, <2>1
<1>8. ASSUME NEW m \in { o[u] : u \in us }, Kth(m)
      PROVE  m = o[s[k]]
  <2>1. PICK j \in 1 .. n : m = o[s[j]]
    BY <1>6
  <2>2. j - 1 <= k - 1 /\ k - 1 < j
    BY <1>4, <1>8, <2>1
  <2> QED BY <1>1, <1>11, <2>1, <2>2
<1>9. OrderAt(us, k - 1) = CHOOSE m \in { o[u] : u \in us } : Kth(m)
  BY <1>5 DEF OrderAt
<1> HIDE DEF Kth
<1> QED BY <1>7, <1>8, <1>9 DEF o

(* Where a number falls in a list that goes up.                            *)
LEMMA BelowSplits ==
  ASSUME NEW us, NEW at, Ranks(us, at), NEW s, Sorted(s, us, at),
         NEW m \in Int, \A u \in us : at[u] # m
  PROVE  /\ Cardinality(Below(us, at, m)) \in 0 .. Cardinality(us)
         /\ \A k \in 1 .. Cardinality(us) :
              IF k <= Cardinality(Below(us, at, m)) THEN at[s[k]] < m ELSE m < at[s[k]]
PROOF
<1> DEFINE n == Cardinality(us)
           b == Below(us, at, m)
<1>1. n \in Nat /\ IsFiniteSet(us) /\ s \in [1 .. n -> us]
  BY FS_CardinalityType DEF Ranks, Sorted
<1>2. b \in SUBSET us
  BY DEF Below
<1>3. IsFiniteSet(b) /\ Cardinality(b) \in Nat /\ Cardinality(b) <= n
  BY <1>1, <1>2, FS_Subset, FS_CardinalityType
<1>4. ASSUME NEW k \in 1 .. n
      PROVE  IF k <= Cardinality(b) THEN at[s[k]] < m ELSE m < at[s[k]]
  <2> DEFINE c == Below(us, at, at[s[k]])
  <2>1. s[k] \in us /\ at[s[k]] \in Int /\ at[s[k]] # m
    BY <1>1 DEF Ranks
  <2>2. Cardinality(c) = k - 1
    BY SortedPlaces
  <2>3. IsFiniteSet(c)
    BY <2>1, BelowGrows
  <2>4. CASE at[s[k]] < m
    <3>1. s[k] \notin c /\ c \cup {s[k]} \in SUBSET b
      BY <1>1, <2>1, <2>4 DEF Below, Ranks
    <3>2. Cardinality(c \cup {s[k]}) = (k - 1) + 1
      BY <2>2, <2>3, <3>1, FS_AddElement
    <3>3. Cardinality(c \cup {s[k]}) <= Cardinality(b)
      BY <1>3, <3>1, FS_Subset
    <3> HIDE DEF b, c
    <3> QED BY <1>1, <2>4, <3>2, <3>3
  <2>5. CASE m < at[s[k]]
    <3>1. b \in SUBSET c
      BY <1>1, <2>1, <2>5 DEF Below, Ranks
    <3>2. Cardinality(b) <= k - 1
      BY <2>2, <2>3, <3>1, FS_Subset
    <3> HIDE DEF b, c
    <3> QED BY <1>1, <1>3, <2>5, <3>2
  <2> QED BY <2>1, <2>4, <2>5
<1> QED BY <1>1, <1>3, <1>4

(* Of n numbers: they go up, m comes after p of them.                      *)
Rises(a, n) == \A k, l \in 1 .. n : k < l => a[k] < a[l]
Splits(a, n, p, m) == \A k \in 1 .. n : IF k <= p THEN a[k] < m ELSE m < a[k]

(* A plan that puts an umbrella at index p of n others, whose orders are a.*)
PlanFor(q, n, a, p) ==
  /\ ~ q.noop
  /\ q.from \in Int /\ q.to \in Int /\ q.delta \in Int /\ q.target \in Int
  /\ \/ p = n /\ q.delta = 0 /\ (n > 0 => a[n] < q.target)
     \/ p < n /\ q.from = a[p + 1] /\ q.to = a[n] /\ q.delta = 1 /\ q.target = a[p + 1]
     \/ \E i \in 0 .. n, m \in Int :
          /\ Splits(a, n, i, m)
          /\ \/ p > i /\ q.from = a[i + 1] /\ q.to = a[p] /\ q.delta = -1 /\ q.target = a[p]
             \/ p < i /\ q.from = a[p + 1] /\ q.to = a[i] /\ q.delta = 1 /\ q.target = a[p + 1]

(* What it makes of their orders.                                          *)
Shifted(b, n, a, q) ==
  \A k \in 1 .. n : b[k] = IF q.from <= a[k] /\ a[k] <= q.to THEN a[k] + q.delta ELSE a[k]

(* Who is overtaken shifts, in order still, and the target falls at the    *)
(* place.                                                                  *)
LEMMA PlanShifts ==
  ASSUME NEW n \in Nat, NEW a \in [1 .. n -> Int], NEW b \in [1 .. n -> Int],
         Rises(a, n), NEW p \in 0 .. n, NEW q, PlanFor(q, n, a, p), Shifted(b, n, a, q)
  PROVE  Rises(b, n) /\ Splits(b, n, p, q.target)
PROOF
<1>6. PICK from \in Int, to \in Int, delta \in Int, c \in Int :
        from = q.from /\ to = q.to /\ delta = q.delta /\ c = q.target
  BY DEF PlanFor
<1>7. \A k, l \in 1 .. n : k < l => a[k] < a[l]
  BY DEF Rises
<1>8. \A k \in 1 .. n : b[k] = IF from <= a[k] /\ a[k] <= to THEN a[k] + delta ELSE a[k]
  BY <1>6 DEF Shifted
<1>9. \/ p = n /\ delta = 0 /\ (n > 0 => a[n] < c)
      \/ p < n /\ from = a[p + 1] /\ to = a[n] /\ delta = 1 /\ c = a[p + 1]
      \/ \E i \in 0 .. n, m \in Int :
           /\ Splits(a, n, i, m)
           /\ \/ p > i /\ from = a[i + 1] /\ to = a[p] /\ delta = -1 /\ c = a[p]
              \/ p < i /\ from = a[p + 1] /\ to = a[i] /\ delta = 1 /\ c = a[p + 1]
  BY <1>6 DEF PlanFor
<1>5. \A k \in 1 .. n : a[k] \in Int
  OBVIOUS
<1>0. \A k, l \in 1 .. n : k <= l => a[k] <= a[l]
  <2> SUFFICES ASSUME NEW k \in 1 .. n, NEW l \in 1 .. n, k <= l PROVE a[k] <= a[l]
    OBVIOUS
  <2>1. CASE k = l
    BY <1>5, <2>1
  <2>2. CASE k < l
    BY <1>5, <1>7, <2>2
  <2> QED BY <2>1, <2>2
<1>1. CASE p = n /\ delta = 0 /\ (n > 0 => a[n] < c)
  <2>1. \A k \in 1 .. n : b[k] = a[k] /\ a[k] \in Int
    BY <1>1, <1>5, <1>8
  <2>2. \A k \in 1 .. n : a[k] <= a[n] /\ a[n] < c /\ a[n] \in Int /\ k <= p
    BY <1>0, <1>1
  <2>3. \A k \in 1 .. n : k <= p /\ b[k] < c
    BY <2>1, <2>2
  <2>4. Rises(b, n)
    BY <1>7, <2>1 DEF Rises
  <2>5. Splits(b, n, p, c)
    BY <2>3 DEF Splits
  <2> QED BY <1>6, <2>4, <2>5
<1>2. CASE p < n /\ from = a[p + 1] /\ to = a[n] /\ delta = 1 /\ c = a[p + 1]
  <2>1. \A k \in 1 .. n : IF k <= p THEN a[k] < a[p + 1] ELSE a[p + 1] <= a[k] /\ a[k] <= a[n]
    BY <1>0, <1>2, <1>5, <1>7
  <2>2. \A k \in 1 .. n : b[k] = IF k <= p THEN a[k] ELSE a[k] + 1
    BY <1>2, <1>5, <1>8, <2>1
  <2>3. \A k, l \in 1 .. n : k < l => b[k] < b[l]
    <3> SUFFICES ASSUME NEW k \in 1 .. n, NEW l \in 1 .. n, k < l PROVE b[k] < b[l]
      OBVIOUS
    <3>1. a[k] < a[l] /\ a[k] \in Int /\ a[l] \in Int /\ (l <= p => k <= p)
      BY <1>5, <1>7
    <3> QED BY <2>2, <3>1
  <2>4. \A k \in 1 .. n : IF k <= p THEN b[k] < c ELSE c < b[k]
    <3> SUFFICES ASSUME NEW k \in 1 .. n PROVE IF k <= p THEN b[k] < c ELSE c < b[k]
      OBVIOUS
    <3>1. a[k] \in Int /\ a[p + 1] \in Int
      BY <1>2, <1>5
    <3> QED BY <1>2, <2>1, <2>2, <3>1
  <2> QED BY <1>6, <2>3, <2>4 DEF Rises, Splits
<1>3. ASSUME NEW i \in 0 .. n, NEW m \in Int,
             Splits(a, n, i, m),
             p > i, from = a[i + 1], to = a[p], delta = -1, c = a[p]
      PROVE  Rises(b, n) /\ Splits(b, n, p, c)
  <2>1. \A k \in 1 .. n : /\ k <= i => a[k] < a[i + 1]
                          /\ i < k => a[i + 1] <= a[k]
                          /\ k <= p => a[k] <= a[p]
                          /\ p < k => a[p] < a[k]
    <3>1. i + 1 \in 1 .. n /\ p \in 1 .. n /\ i \in Int
      BY <1>3
    <3>2. \A k \in 1 .. n : /\ k <= i => k < i + 1
                            /\ i < k => i + 1 <= k
      BY <3>1
    <3> QED BY <1>0, <1>7, <3>1, <3>2
  <2>2. \A k \in 1 .. n : b[k] = IF i < k /\ k <= p THEN a[k] - 1 ELSE a[k]
    <3> SUFFICES ASSUME NEW k \in 1 .. n
                 PROVE  b[k] = IF i < k /\ k <= p THEN a[k] - 1 ELSE a[k]
      OBVIOUS
    <3>1. a[k] \in Int /\ a[i + 1] \in Int /\ a[p] \in Int
      BY <1>3, <1>5
    <3>2. (k <= i \/ i < k) /\ (k <= p \/ p < k)
      OBVIOUS
    <3>5. b[k] = IF from <= a[k] /\ a[k] <= to THEN a[k] + delta ELSE a[k]
      BY <1>8
    <3>6. a[k] + delta = a[k] - 1
      BY <1>3, <3>1
    <3>3. b[k] = IF a[i + 1] <= a[k] /\ a[k] <= a[p] THEN a[k] - 1 ELSE a[k]
      BY <1>3, <3>5, <3>6
    <3>4. (a[i + 1] <= a[k] /\ a[k] <= a[p]) <=> (i < k /\ k <= p)
      <4>1. PICK x \in Int, y \in Int, z \in Int : x = a[k] /\ y = a[i + 1] /\ z = a[p]
        BY <3>1
      <4>2. CASE i < k /\ k <= p
        BY <2>1, <4>2
      <4>3. CASE k <= i
        <5>1. x < y
          BY <2>1, <4>1, <4>3
        <5> QED BY <4>1, <4>3, <5>1
      <4>4. CASE p < k
        <5>1. z < x
          BY <2>1, <4>1, <4>4
        <5> QED BY <4>1, <4>4, <5>1
      <4> QED BY <3>2, <4>2, <4>3, <4>4
    <3> QED BY <3>3, <3>4
  <2>3. \A k, l \in 1 .. n : k <= i /\ i < l => a[k] + 1 < a[l]
    <3> SUFFICES ASSUME NEW k \in 1 .. n, NEW l \in 1 .. n, k <= i, i < l
                 PROVE  a[k] + 1 < a[l]
      OBVIOUS
    <3>1. a[k] < m /\ m < a[l]
      BY <1>3 DEF Splits
    <3> QED BY <1>5, <3>1
  <2>4. \A k, l \in 1 .. n : k < l => b[k] < b[l]
    <3> SUFFICES ASSUME NEW k \in 1 .. n, NEW l \in 1 .. n, k < l PROVE b[k] < b[l]
      OBVIOUS
    <3>1. a[k] < a[l] /\ a[k] \in Int /\ a[l] \in Int
      BY <1>5, <1>7
    <3> QED BY <2>2, <2>3, <3>1
  <2>5. \A k \in 1 .. n : k <= p => b[k] < a[p]
    <3> SUFFICES ASSUME NEW k \in 1 .. n, k <= p PROVE b[k] < a[p]
      OBVIOUS
    <3>1. CASE k <= i
      <4>1. k < p /\ p \in 1 .. n /\ b[k] = a[k]
        BY <1>3, <2>2, <3>1
      <4> QED BY <1>7, <4>1
    <3>2. CASE i < k
      BY <1>3, <2>1, <2>2, <3>2
    <3> QED BY <3>1, <3>2
  <2>6. \A k \in 1 .. n : p < k => a[p] < b[k]
    BY <1>3, <2>1, <2>2
  <2> QED BY <1>3, <2>4, <2>5, <2>6 DEF Rises, Splits
<1>4. ASSUME NEW i \in 0 .. n, NEW m \in Int,
             Splits(a, n, i, m),
             p < i, from = a[p + 1], to = a[i], delta = 1, c = a[p + 1]
      PROVE  Rises(b, n) /\ Splits(b, n, p, c)
  <2>1. \A k \in 1 .. n : /\ k <= p => a[k] < a[p + 1]
                          /\ p < k => a[p + 1] <= a[k]
                          /\ k <= i => a[k] <= a[i]
                          /\ i < k => a[i] < a[k]
    BY <1>0, <1>4, <1>7
  <2>2. \A k \in 1 .. n : b[k] = IF p < k /\ k <= i THEN a[k] + 1 ELSE a[k]
    BY <1>4, <1>5, <1>8, <2>1
  <2>3. \A k, l \in 1 .. n : k <= i /\ i < l => a[k] + 1 < a[l]
    <3> SUFFICES ASSUME NEW k \in 1 .. n, NEW l \in 1 .. n, k <= i, i < l
                 PROVE  a[k] + 1 < a[l]
      OBVIOUS
    <3>1. a[k] < m /\ m < a[l]
      BY <1>4 DEF Splits
    <3> QED BY <1>5, <3>1
  <2>4. \A k, l \in 1 .. n : k < l => b[k] < b[l]
    <3> SUFFICES ASSUME NEW k \in 1 .. n, NEW l \in 1 .. n, k < l PROVE b[k] < b[l]
      OBVIOUS
    <3>1. a[k] < a[l] /\ a[k] \in Int /\ a[l] \in Int
      BY <1>5, <1>7
    <3>2. CASE l <= i
      <4>1. k <= i /\ (l <= p => k <= p)
        BY <3>2
      <4> QED BY <2>2, <3>1, <3>2, <4>1
    <3>3. CASE i < l /\ k <= i
      BY <2>2, <2>3, <3>1, <3>3
    <3>4. CASE i < l /\ i < k
      BY <2>2, <3>1, <3>4
    <3> QED BY <3>2, <3>3, <3>4
  <2>5. \A k \in 1 .. n : IF k <= p THEN b[k] < a[p + 1] ELSE a[p + 1] < b[k]
    <3> SUFFICES ASSUME NEW k \in 1 .. n
                 PROVE  IF k <= p THEN b[k] < a[p + 1] ELSE a[p + 1] < b[k]
      OBVIOUS
    <3>1. CASE k <= p
      BY <1>4, <2>1, <2>2, <3>1
    <3>2. CASE p < k /\ k <= i
      BY <1>4, <2>1, <2>2, <3>2
    <3>3. CASE i < k
      BY <1>4, <2>2, <2>3, <3>3
    <3> QED BY <1>4, <3>1, <3>2, <3>3
  <2> QED BY <1>4, <2>4, <2>5 DEF Rises, Splits
<1> QED BY <1>1, <1>2, <1>3, <1>4, <1>6, <1>9

RowOf(t, r) == { u \in Umbrellas : t[u].row = r }

(* Of a table: no two umbrellas of a row have the same order, and an       *)
(* identifier without an umbrella is in none.                              *)
Ordered(t) ==
  /\ \A u \in Umbrellas : t[u].order \in Int /\ (t[u].label = 0 => t[u].row = None)
  /\ \A u, v \in Umbrellas :
       u # v /\ t[u].row = t[v].row /\ t[u].row # None => t[u].order # t[v].order

LEMMA RowRanks ==
  ASSUME NEW t, Ordered(t), NEW r, r # None,
         NEW us, \A v \in us : v \in Umbrellas /\ t[v].row = r
  PROVE  Ranks(us, OrderOf(t)) /\ us \in SUBSET Umbrellas
PROOF
<1>1. us \in SUBSET Umbrellas
  OBVIOUS
<1>2. IsFiniteSet(us)
  BY <1>1, LayoutAssumption, FS_Subset
<1>3. \A u \in us : t[u].row = r /\ u \in Umbrellas /\ OrderOf(t)[u] = t[u].order
  BY <1>1 DEF OrderOf
<1> QED BY <1>1, <1>2, <1>3 DEF Ranks, Ordered

(* us has the umbrellas of row r but u.                                    *)
Others(us, u, r) == us = InRow(r) \ {u}

LEMMA PlanIs ==
  ASSUME Ordered(umbrella), NEW u \in Umbrellas, umbrella[u].row # None,
         NEW r \in LiveRows, r # None, NEW us, Others(us, u, r), NEW s, Sorted(s, us, OrderOf(umbrella)),
         NEW p \in 0 .. Cardinality(us),
         NEW a, \A k \in 1 .. Cardinality(us) : a[k] = OrderOf(umbrella)[s[k]],
         NEW q, q = MovePlan(u, r, p)
  PROVE  \/ /\ q.noop /\ umbrella[u].row = r
            /\ Splits(a, Cardinality(us), p, umbrella[u].order)
         \/ PlanFor(q, Cardinality(us), a, p)
PROOF
<1> DEFINE n == Cardinality(us)
           o == OrderOf(umbrella)
           i == Cardinality({ v \in us : umbrella[v].order < umbrella[u].order })
           at(k) == OrderAt(us, k)
<1>1. u \notin us /\ \A v \in us : v \in Umbrellas /\ umbrella[v].row = r
  BY DEF InRow, Others
<1>2. Ranks(us, o) /\ us \in SUBSET Umbrellas
  BY <1>1, RowRanks
<1>3. n \in Nat /\ s \in [1 .. n -> us] /\ \A v \in us : o[v] \in Int
  BY <1>2, FS_CardinalityType DEF Ranks, Sorted
<1>4. \A k \in 1 .. n : a[k] \in Int /\ at(k - 1) = a[k]
  <2>1. \A k \in 1 .. n : OrderAt(us, k - 1) = o[s[k]]
    BY <1>2, OrderAtIs, Zenon
  <2>2. \A k \in 1 .. n : s[k] \in us /\ a[k] = o[s[k]]
    BY <1>3
  <2> HIDE DEF o
  <2> QED BY <1>3, <2>1, <2>2
<1>5. q = CASE umbrella[u].row # r /\ p = n ->
                 [NoMove EXCEPT !.target = IF n > 0 THEN at(n - 1) + 1 ELSE 1]
            [] umbrella[u].row # r /\ p < n ->
                 [NoMove EXCEPT !.from = at(p), !.to = at(n - 1), !.delta = 1, !.target = at(p)]
            [] umbrella[u].row = r /\ p = i -> [NoMove EXCEPT !.noop = TRUE]
            [] umbrella[u].row = r /\ p > i ->
                 [NoMove EXCEPT !.from = at(i), !.to = at(p - 1), !.delta = -1, !.target = at(p - 1)]
            [] umbrella[u].row = r /\ p < i ->
                 [NoMove EXCEPT !.from = at(p), !.to = at(i - 1), !.delta = 1, !.target = at(p)]
  BY DEF MovePlan, Others
<1>6. umbrella[u].row = r => i \in 0 .. n /\ Splits(a, n, i, umbrella[u].order)
  <2> SUFFICES ASSUME umbrella[u].row = r
               PROVE  i \in 0 .. n /\ Splits(a, n, i, umbrella[u].order)
    OBVIOUS
  <2>1. umbrella[u].order \in Int /\ \A v \in us : o[v] # umbrella[u].order
    BY <1>1, <1>2 DEF Ordered, OrderOf
  <2>2. i = Cardinality(Below(us, o, umbrella[u].order))
    <3>1. { v \in us : umbrella[v].order < umbrella[u].order } = Below(us, o, umbrella[u].order)
      BY <1>2 DEF Below, OrderOf
    <3> QED BY <3>1
  <2> HIDE DEF i, o
  <2>3. Ranks(us, o) /\ Sorted(s, us, o)
    BY <1>2 DEF o
  <2>4. /\ i \in 0 .. n
        /\ \A k \in 1 .. n : IF k <= i THEN o[s[k]] < umbrella[u].order
                                       ELSE umbrella[u].order < o[s[k]]
    BY <2>1, <2>2, <2>3, BelowSplits
  <2>5. \A k \in 1 .. n : a[k] = o[s[k]]
    BY DEF o
  <2> QED BY <2>4, <2>5 DEF Splits
<1>7. \A k \in 0 .. n - 1 : at(k) = a[k + 1] /\ a[k + 1] \in Int
  <2> SUFFICES ASSUME NEW k \in 0 .. n - 1 PROVE at(k) = a[k + 1] /\ a[k + 1] \in Int
    OBVIOUS
  <2>1. k + 1 \in 1 .. n /\ (k + 1) - 1 = k
    BY <1>3
  <2> QED BY <1>4, <2>1
<1>8. p \in 0 .. n /\ umbrella[u].order \in Int
  BY DEF Ordered
<1> HIDE DEF n, o, i, at
<1>9. CASE umbrella[u].row # r /\ p = n
  <2>1. q = [NoMove EXCEPT !.target = IF n > 0 THEN at(n - 1) + 1 ELSE 1]
    BY <1>5, <1>9
  <2>2. ~ q.noop /\ q.from = 0 /\ q.to = 0 /\ q.delta = 0
        /\ q.target = IF n > 0 THEN at(n - 1) + 1 ELSE 1
    BY <2>1 DEF NoMove
  <2>3. n > 0 => at(n - 1) = a[n] /\ a[n] \in Int
    <3>1. n > 0 => n \in 1 .. n
      BY <1>3
    <3> QED BY <1>4, <3>1
  <2>4. q.target \in Int /\ (n > 0 => a[n] < q.target)
    BY <1>3, <2>2, <2>3
  <2> QED BY <1>9, <2>2, <2>4 DEF PlanFor, n
<1>10. CASE umbrella[u].row # r /\ p < n
  <2>1. q = [NoMove EXCEPT !.from = at(p), !.to = at(n - 1), !.delta = 1, !.target = at(p)]
    BY <1>3, <1>5, <1>8, <1>10
  <2>2. ~ q.noop /\ q.from = at(p) /\ q.to = at(n - 1) /\ q.delta = 1 /\ q.target = at(p)
    BY <2>1 DEF NoMove
  <2>3. at(p) = a[p + 1] /\ a[p + 1] \in Int /\ at(n - 1) = a[n] /\ a[n] \in Int
    <3>1. n \in 1 .. n /\ p \in 0 .. n - 1
      BY <1>3, <1>8, <1>10
    <3> QED BY <1>4, <1>7, <3>1
  <2> QED BY <1>10, <2>2, <2>3 DEF PlanFor, n
<1>11. CASE umbrella[u].row = r /\ p = i
  <2>1. q = [NoMove EXCEPT !.noop = TRUE]
    BY <1>5, <1>11
  <2>2. q.noop
    BY <2>1 DEF NoMove
  <2> QED BY <1>6, <1>11, <2>2 DEF n
<1>12. CASE umbrella[u].row = r /\ p > i
  <2>0. i \in 0 .. n - 1 /\ p \in 1 .. n /\ ~ p = i
    BY <1>3, <1>6, <1>8, <1>12
  <2>1. q = [NoMove EXCEPT !.from = at(i), !.to = at(p - 1), !.delta = -1, !.target = at(p - 1)]
    BY <1>5, <1>12, <2>0
  <2>2. ~ q.noop /\ q.from = at(i) /\ q.to = at(p - 1) /\ q.delta = -1 /\ q.target = at(p - 1)
    BY <2>1 DEF NoMove
  <2>3. at(i) = a[i + 1] /\ a[i + 1] \in Int /\ at(p - 1) = a[p] /\ a[p] \in Int
    BY <1>3, <1>4, <1>7, <2>0
  <2>4. \E j \in 0 .. n, m \in Int :
          /\ Splits(a, n, j, m)
          /\ p > j /\ q.from = a[j + 1] /\ q.to = a[p] /\ q.delta = -1 /\ q.target = a[p]
    <3>1. i \in 0 .. n /\ Splits(a, n, i, umbrella[u].order)
      BY <1>6, <1>12
    <3> i \in 0 .. n /\ umbrella[u].order \in Int
      BY <1>8, <3>1
    <3> WITNESS i \in 0 .. n, umbrella[u].order \in Int
    <3>2. p > i
      BY <1>12
    <3> QED BY <2>2, <2>3, <3>1, <3>2
  <2>5. \E j \in 0 .. n, m \in Int :
          /\ Splits(a, n, j, m)
          /\ \/ p > j /\ q.from = a[j + 1] /\ q.to = a[p] /\ q.delta = -1 /\ q.target = a[p]
             \/ p < j /\ q.from = a[p + 1] /\ q.to = a[j] /\ q.delta = 1 /\ q.target = a[p + 1]
    BY <2>4, Zenon
  <2>6. q.from \in Int /\ q.to \in Int /\ q.delta \in Int /\ q.target \in Int
    BY <2>2, <2>3
  <2>7. PlanFor(q, n, a, p)
    BY <2>2, <2>5, <2>6, Zenon DEF PlanFor
  <2> QED BY <2>7 DEF n
<1>13. CASE umbrella[u].row = r /\ p < i
  <2>0. i \in 1 .. n /\ p \in 0 .. n - 1 /\ ~ p = i /\ ~ p > i
    BY <1>3, <1>6, <1>8, <1>13
  <2>1. q = [NoMove EXCEPT !.from = at(p), !.to = at(i - 1), !.delta = 1, !.target = at(p)]
    BY <1>5, <1>13, <2>0
  <2>2. ~ q.noop /\ q.from = at(p) /\ q.to = at(i - 1) /\ q.delta = 1 /\ q.target = at(p)
    BY <2>1 DEF NoMove
  <2>3. at(p) = a[p + 1] /\ a[p + 1] \in Int /\ at(i - 1) = a[i] /\ a[i] \in Int
    BY <1>3, <1>4, <1>7, <2>0
  <2>4. \E j \in 0 .. n, m \in Int :
          /\ Splits(a, n, j, m)
          /\ p < j /\ q.from = a[p + 1] /\ q.to = a[j] /\ q.delta = 1 /\ q.target = a[p + 1]
    <3>1. i \in 0 .. n /\ Splits(a, n, i, umbrella[u].order)
      BY <1>6, <1>13
    <3> i \in 0 .. n /\ umbrella[u].order \in Int
      BY <1>8, <3>1
    <3> WITNESS i \in 0 .. n, umbrella[u].order \in Int
    <3>2. p < i
      BY <1>13
    <3> QED BY <2>2, <2>3, <3>1, <3>2
  <2>5. \E j \in 0 .. n, m \in Int :
          /\ Splits(a, n, j, m)
          /\ \/ p > j /\ q.from = a[j + 1] /\ q.to = a[p] /\ q.delta = -1 /\ q.target = a[p]
             \/ p < j /\ q.from = a[p + 1] /\ q.to = a[j] /\ q.delta = 1 /\ q.target = a[p + 1]
    BY <2>4, Zenon
  <2>6. q.from \in Int /\ q.to \in Int /\ q.delta \in Int /\ q.target \in Int
    BY <2>2, <2>3
  <2>7. PlanFor(q, n, a, p)
    BY <2>2, <2>5, <2>6, Zenon DEF PlanFor
  <2> QED BY <2>7 DEF n
<1>14. (p = n \/ p < n) /\ (umbrella[u].row = r => p = i \/ p > i \/ p < i)
  BY <1>3, <1>6, <1>8
<1> QED BY <1>9, <1>10, <1>11, <1>12, <1>13, <1>14

(* What a move makes of each umbrella.                                     *)
MovedAs(x, u) ==
  /\ x.ids = {u} /\ x.row \in LiveRows
  /\ x.plan.noop \/ (x.plan.from \in Int /\ x.plan.to \in Int /\ x.plan.delta \in Int
                       /\ x.plan.target \in Int)

LEMMA MovedIs ==
  ASSUME DOMAIN umbrella = Umbrellas, \A v \in Umbrellas : UmbrellaFits(umbrella[v]),
         Ordered(umbrella), NEW u \in Umbrellas, NEW x, MovedAs(x, u), ~ x.plan.noop,
         NEW t, t = Moved(x)
  PROVE  \A v \in Umbrellas :
           /\ UmbrellaFits(t[v])
           /\ t[v].label = umbrella[v].label /\ t[v].retired = umbrella[v].retired
           /\ t[v].row = IF v = u THEN x.row ELSE umbrella[v].row
           /\ t[v].order = IF v = u THEN x.plan.target
                           ELSE IF /\ umbrella[v].row = x.row
                                   /\ x.plan.from <= umbrella[v].order
                                   /\ umbrella[v].order <= x.plan.to
                           THEN umbrella[v].order + x.plan.delta
                           ELSE umbrella[v].order
PROOF
<1> SUFFICES ASSUME NEW v \in Umbrellas
             PROVE  /\ UmbrellaFits(t[v])
                    /\ t[v].label = umbrella[v].label /\ t[v].retired = umbrella[v].retired
                    /\ t[v].row = IF v = u THEN x.row ELSE umbrella[v].row
                    /\ t[v].order = IF v = u THEN x.plan.target
                                    ELSE IF /\ umbrella[v].row = x.row
                                            /\ x.plan.from <= umbrella[v].order
                                            /\ umbrella[v].order <= x.plan.to
                                    THEN umbrella[v].order + x.plan.delta
                                    ELSE umbrella[v].order
  OBVIOUS
<1>1. /\ DOMAIN umbrella[v] = {"label", "row", "retired", "order"}
      /\ UmbrellaFits(umbrella[v])
  BY DEF UmbrellaFits
<1>2. CASE v = u
  <2>1. t[v] = [umbrella[v] EXCEPT !.row = x.row, !.order = x.plan.target]
    BY <1>2 DEF Moved, MovedAs
  <2>2. PICK y : y = [umbrella[v] EXCEPT !.row = x.row, !.order = x.plan.target]
    OBVIOUS
  <2>3. /\ DOMAIN y = {"label", "row", "retired", "order"}
        /\ y.label = umbrella[v].label /\ y.retired = umbrella[v].retired /\ y.row = x.row
        /\ y.order = x.plan.target
    BY <1>1, <2>2
  <2>4. UmbrellaFits(y)
    BY <1>1, <2>3 DEF UmbrellaFits, MovedAs, LiveRows
  <2> QED BY <1>2, <2>1, <2>2, <2>3, <2>4
<1>3. CASE v # u /\ /\ umbrella[v].row = x.row
                    /\ x.plan.from <= umbrella[v].order
                    /\ umbrella[v].order <= x.plan.to
  <2>1. t[v] = [umbrella[v] EXCEPT !.order = @ + x.plan.delta]
    BY <1>3 DEF Moved, MovedAs
  <2>2. PICK y : y = [umbrella[v] EXCEPT !.order = @ + x.plan.delta]
    OBVIOUS
  <2>3. /\ DOMAIN y = {"label", "row", "retired", "order"}
        /\ y.label = umbrella[v].label /\ y.retired = umbrella[v].retired
        /\ y.row = umbrella[v].row /\ y.order = umbrella[v].order + x.plan.delta
    BY <1>1, <2>2
  <2>4. UmbrellaFits(y)
    BY <1>1, <2>3 DEF UmbrellaFits
  <2> QED BY <1>3, <2>1, <2>2, <2>3, <2>4
<1>4. CASE v # u /\ ~ /\ umbrella[v].row = x.row
                      /\ x.plan.from <= umbrella[v].order
                      /\ umbrella[v].order <= x.plan.to
  <2>1. t[v] = umbrella[v]
    BY <1>4 DEF Moved, MovedAs
  <2> QED BY <1>1, <1>4, <2>1
<1> QED BY <1>2, <1>3, <1>4

(* The table once a planned move is written. *)
MovesTo(t, u, r, p) ==
  \E x : x.ids = {u} /\ x.row = r /\ x.plan = MovePlan(u, r, p) /\ t = Moved(x)

BeachFits ==
  DOMAIN umbrella = Umbrellas /\ \A v \in Umbrellas : UmbrellaFits(umbrella[v])

(* Of a table after a move: u is in row r, and nothing else has changed    *)
(* but orders in row r.                                                    *)
OnlyRow(t, u, r) ==
  \A v \in Umbrellas :
    /\ UmbrellaFits(t[v]) /\ t[v].order \in Int
    /\ t[v].label = umbrella[v].label /\ t[v].retired = umbrella[v].retired
    /\ t[v].row = IF v = u THEN r ELSE umbrella[v].row
    /\ v # u /\ umbrella[v].row # r => t[v].order = umbrella[v].order

(* The row it moves to, by the new orders: the others in the order they    *)
(* had, and the umbrella at the index asked for.                           *)
LEMMA RowAfterMove ==
  ASSUME BeachFits, Ordered(umbrella), None \notin Rows,
         NEW u \in Umbrellas, umbrella[u].row # None, NEW r \in LiveRows,
         NEW us, Others(us, u, r), NEW s, Sorted(s, us, OrderOf(umbrella)),
         NEW p \in 0 .. Cardinality(us),
         NEW t, MovesTo(t, u, r, p)
  PROVE  /\ OnlyRow(t, u, r)
         /\ Sorted(Inserted(s, u, p), us \cup {u}, OrderOf(t))
PROOF
<1> DEFINE n == Cardinality(us)
           o == OrderOf(umbrella)
           o2 == OrderOf(t)
           a == [k \in 1 .. n |-> o[s[k]]]
           b == [k \in 1 .. n |-> o2[s[k]]]
           q == MovePlan(u, r, p)
<1>0. PICK x : x.ids = {u} /\ x.row = r /\ x.plan = MovePlan(u, r, p) /\ t = Moved(x)
  BY DEF MovesTo
<1> DOMAIN umbrella = Umbrellas /\ \A v \in Umbrellas : UmbrellaFits(umbrella[v])
  BY DEF BeachFits
<1>1. /\ r # None /\ u \notin us
      /\ \A v \in us : v \in Umbrellas /\ umbrella[v].row = r
  BY DEF InRow, LiveRows, Others
<1>2. Ranks(us, o) /\ us \in SUBSET Umbrellas
  BY <1>1, RowRanks
<1>3. n \in Nat /\ IsFiniteSet(us) /\ s \in [1 .. n -> us]
  BY <1>2, FS_CardinalityType DEF Ranks, Sorted
<1>4. \A v \in Umbrellas : o[v] = umbrella[v].order /\ o2[v] = t[v].order /\ o[v] \in Int
  BY DEF OrderOf, Ordered
<1>5. \/ /\ q.noop /\ umbrella[u].row = r
         /\ Splits(a, n, p, umbrella[u].order)
      \/ PlanFor(q, n, a, p)
  <2>1. /\ \A k \in 1 .. Cardinality(us) : a[k] = OrderOf(umbrella)[s[k]]
        /\ q = MovePlan(u, r, p)
    OBVIOUS
  <2>2. /\ Ordered(umbrella) /\ umbrella[u].row # None /\ Others(us, u, r)
        /\ Sorted(s, us, OrderOf(umbrella)) /\ p \in 0 .. Cardinality(us)
    OBVIOUS
  <2> HIDE DEF a, q, o
  <2>3. \/ /\ q.noop /\ umbrella[u].row = r
           /\ Splits(a, Cardinality(us), p, umbrella[u].order)
        \/ PlanFor(q, Cardinality(us), a, p)
    BY <1>1, <2>1, <2>2, PlanIs
  <2> QED BY <2>3
<1>6. /\ \A v \in Umbrellas :
           /\ UmbrellaFits(t[v]) /\ t[v].order \in Int
           /\ t[v].label = umbrella[v].label /\ t[v].retired = umbrella[v].retired
           /\ t[v].row = IF v = u THEN r ELSE umbrella[v].row
           /\ v # u /\ umbrella[v].row # r => t[v].order = umbrella[v].order
      /\ Rises(b, n) /\ Splits(b, n, p, o2[u])
  <2>0. \A k \in 1 .. n : s[k] \in us /\ s[k] \in Umbrellas /\ s[k] # u
                          /\ umbrella[s[k]].row = r /\ a[k] = umbrella[s[k]].order
                          /\ b[k] = t[s[k]].order
    BY <1>1, <1>2, <1>3, <1>4
  <2>9. Rises(a, n)
    BY DEF Sorted, Rises
  <2>10. p \in 0 .. n /\ a \in [1 .. n -> Int]
    BY <1>3, <1>4, <2>0
  <2>1. CASE /\ q.noop /\ umbrella[u].row = r
             /\ Splits(a, n, p, umbrella[u].order)
    <3>1. \A v \in Umbrellas : t[v] = umbrella[v]
      BY <1>0, <2>1 DEF Moved
    <3>2. \A k \in 1 .. n : b[k] = a[k]
      BY <2>0, <3>1
    <3>3. \A v \in Umbrellas :
            /\ UmbrellaFits(t[v]) /\ t[v].order \in Int
            /\ t[v].label = umbrella[v].label /\ t[v].retired = umbrella[v].retired
            /\ t[v].row = IF v = u THEN r ELSE umbrella[v].row
            /\ v # u /\ umbrella[v].row # r => t[v].order = umbrella[v].order
      BY <2>1, <3>1 DEF Ordered
    <3>4. o2[u] = umbrella[u].order
      BY <1>4, <3>1
    <3> HIDE DEF a, b, o2, n
    <3> QED BY <2>1, <2>9, <3>2, <3>3, <3>4 DEF Rises, Splits
  <2>2. CASE PlanFor(q, n, a, p)
    <3>1. ~ q.noop /\ q.from \in Int /\ q.to \in Int /\ q.delta \in Int /\ q.target \in Int
      BY <2>2 DEF PlanFor
    <3>2. MovedAs(x, u) /\ ~ x.plan.noop /\ x.plan = q
      BY <1>0, <3>1 DEF MovedAs
    <3>3. \A v \in Umbrellas :
           /\ UmbrellaFits(t[v])
           /\ t[v].label = umbrella[v].label /\ t[v].retired = umbrella[v].retired
           /\ t[v].row = IF v = u THEN x.row ELSE umbrella[v].row
           /\ t[v].order = IF v = u THEN x.plan.target
                           ELSE IF /\ umbrella[v].row = x.row
                                   /\ x.plan.from <= umbrella[v].order
                                   /\ umbrella[v].order <= x.plan.to
                           THEN umbrella[v].order + x.plan.delta
                           ELSE umbrella[v].order
      BY <1>0, <3>2, MovedIs
    <3> HIDE DEF q
    <3>4. /\ o2[u] = q.target
          /\ \A k \in 1 .. n : b[k] = IF q.from <= a[k] /\ a[k] <= q.to
                                      THEN a[k] + q.delta ELSE a[k]
      <4>1. o2[u] = q.target
        BY <1>0, <1>4, <3>2, <3>3
      <4>2. ASSUME NEW k \in 1 .. n
            PROVE  b[k] = IF q.from <= a[k] /\ a[k] <= q.to THEN a[k] + q.delta ELSE a[k]
        <5>1. PICK v \in Umbrellas : v = s[k]
          BY <2>0
        <5>2. v # u /\ umbrella[v].row = r /\ a[k] = umbrella[v].order /\ b[k] = t[v].order
          BY <2>0, <5>1
        <5> HIDE DEF a, b
        <5> QED BY <1>0, <3>2, <3>3, <5>2
      <4> QED BY <4>1, <4>2
    <3>5. \A v \in Umbrellas :
            /\ UmbrellaFits(t[v]) /\ t[v].order \in Int
            /\ t[v].label = umbrella[v].label /\ t[v].retired = umbrella[v].retired
            /\ t[v].row = IF v = u THEN r ELSE umbrella[v].row
            /\ v # u /\ umbrella[v].row # r => t[v].order = umbrella[v].order
      BY <1>0, <1>4, <3>1, <3>2, <3>3
    <3>6. b \in [1 .. n -> Int]
      <4>1. \A k \in 1 .. n : t[s[k]].order \in Int
        BY <2>0, <3>5
      <4>2. \A k \in 1 .. n : o2[s[k]] \in Int
        BY <1>4, <2>0, <4>1
      <4> HIDE DEF o2
      <4> QED BY <4>2
    <3> HIDE DEF a, b, n, o2
    <3>7. Shifted(b, n, a, q)
      BY <3>4 DEF Shifted
    <3>8. Rises(b, n) /\ Splits(b, n, p, q.target)
      BY <1>3, <2>2, <2>9, <2>10, <3>6, <3>7, PlanShifts
    <3> QED BY <3>4, <3>5, <3>8
  <2> QED BY <1>5, <2>1, <2>2
<1>7. \A k \in 1 .. n : b[k] = o2[s[k]]
  OBVIOUS
<1>8. Sorted(s, us, o2)
  <2> HIDE DEF b
  <2> QED BY <1>3, <1>6, <1>7 DEF Sorted, Rises
<1>9. \A v \in us : o2[v] \in Int
  BY <1>2, <1>4, <1>6
<1>10. Ranks(us, o2)
  BY <1>3, <1>8, <1>9, SortedOnto
<1>11. \A k \in 1 .. n : IF k <= p THEN o2[s[k]] < o2[u] ELSE o2[u] < o2[s[k]]
  <2> HIDE DEF b
  <2> QED BY <1>6, <1>7 DEF Splits
<1>12. o2[u] \in Int
  BY <1>4, <1>6
<1> HIDE DEF o2
<1>13. Sorted(Inserted(s, u, p), us \cup {u}, o2)
  BY <1>1, <1>8, <1>10, <1>11, <1>12, InsertedSorted
<1> QED BY <1>6, <1>13 DEF o2, OnlyRow

(* A table whose rows are in order, and those of its structure.            *)
LEMMA StructureRows ==
  ASSUME NEW t, Ordered(t), None \notin Rows
  PROVE  /\ DOMAIN StructureOf(t) = LiveRows
         /\ StructureOf(t) = [q \in LiveRows |-> StructureOf(t)[q]]
         /\ \A q \in LiveRows :
              /\ StructureOf(t)[q] = Listed(RowOf(t, q), OrderOf(t))
              /\ Ranks(RowOf(t, q), OrderOf(t))
              /\ Sorted(StructureOf(t)[q], RowOf(t, q), OrderOf(t))
PROOF
<1>1. /\ DOMAIN StructureOf(t) = LiveRows
      /\ StructureOf(t) = [q \in LiveRows |-> Listed(RowOf(t, q), OrderOf(t))]
  BY DEF StructureOf, RowOf, OrderOf
<1>2. ASSUME NEW q \in LiveRows
      PROVE  Ranks(RowOf(t, q), OrderOf(t))
  <2>1. q # None /\ \A v \in RowOf(t, q) : v \in Umbrellas /\ t[v].row = q
    BY DEF LiveRows, RowOf
  <2> QED BY <2>1, RowRanks
<1>3. \A q \in LiveRows : StructureOf(t)[q] = Listed(RowOf(t, q), OrderOf(t))
  BY <1>1
<1>4. \A q \in LiveRows : Sorted(Listed(RowOf(t, q), OrderOf(t)), RowOf(t, q), OrderOf(t))
  BY <1>2, ListedSorted
<1>5. StructureOf(t) = [q \in LiveRows |-> StructureOf(t)[q]]
  BY <1>1, <1>3
<1> QED BY <1>1, <1>2, <1>3, <1>4, <1>5

(* A move makes of the structure what the page expects, and leaves rows    *)
(* in order.                                                               *)
LEMMA MoveLands ==
  ASSUME BeachFits, Ordered(umbrella), None \notin Rows, ActiveIsPlaced,
         NEW u \in Active, NEW r \in LiveRows, NEW p \in 0 .. Cardinality(InRow(r) \ {u}),
         NEW t, MovesTo(t, u, r, p)
  PROVE  /\ Ordered(t) /\ OnlyRow(t, u, r)
         /\ StructureOf(t) = ApplyMove(StructureOf(umbrella), u, r, p)
PROOF
<1> DEFINE o == OrderOf(umbrella)
           o2 == OrderOf(t)
           tree == StructureOf(umbrella)
           us == InRow(r) \ {u}
           s == Without(tree[r], u)
<1>1. u \in Umbrellas /\ umbrella[u].label # 0 /\ umbrella[u].row \in LiveRows
  BY DEF Active, Stored, ActiveIsPlaced
<1>2. umbrella[u].row # None /\ r # None
  BY <1>1 DEF LiveRows
<1>3. /\ DOMAIN tree = LiveRows
      /\ \A q \in LiveRows : /\ Ranks(RowOf(umbrella, q), o)
                             /\ Sorted(tree[q], RowOf(umbrella, q), o)
  BY StructureRows
<1>4. \A q \in LiveRows : Sorted(Without(tree[q], u), RowOf(umbrella, q) \ {u}, o)
  <2> HIDE DEF tree, o
  <2> QED BY <1>3, WithoutSorted
<1>5. us = RowOf(umbrella, r) \ {u} /\ Others(us, u, r)
  BY DEF Others, InRow, RowOf
<1>6. Sorted(s, us, o)
  BY <1>4, <1>5
<1>7. /\ \A v \in Umbrellas :
           /\ UmbrellaFits(t[v]) /\ t[v].order \in Int
           /\ t[v].label = umbrella[v].label /\ t[v].retired = umbrella[v].retired
           /\ t[v].row = IF v = u THEN r ELSE umbrella[v].row
           /\ v # u /\ umbrella[v].row # r => t[v].order = umbrella[v].order
      /\ Sorted(Inserted(s, u, p), us \cup {u}, o2)
      /\ OnlyRow(t, u, r)
  <2>1. p \in 0 .. Cardinality(us)
    OBVIOUS
  <2> HIDE DEF s, us
  <2>2. Sorted(s, us, OrderOf(umbrella))
    BY <1>6
  <2>3. OnlyRow(t, u, r) /\ Sorted(Inserted(s, u, p), us \cup {u}, OrderOf(t))
    BY <1>1, <1>2, <1>5, <2>1, <2>2, RowAfterMove
  <2> QED BY <2>3 DEF OnlyRow
<1>8. \A v \in Umbrellas : o[v] = umbrella[v].order /\ o2[v] = t[v].order
  BY DEF OrderOf
<1>9. RowOf(t, r) = us \cup {u}
  BY <1>1, <1>5, <1>7 DEF RowOf
<1>10. Ranks(RowOf(t, r), o2)
  <2>1. RowOf(t, r) \in SUBSET Umbrellas
    BY DEF RowOf
  <2>2. IsFiniteSet(RowOf(t, r))
    BY <2>1, LayoutAssumption, FS_Subset
  <2>3. \A v \in RowOf(t, r) : o2[v] \in Int
    BY <1>7, <1>8, <2>1
  <2>4. Sorted(Inserted(s, u, p), RowOf(t, r), o2)
    BY <1>7, <1>9
  <2> HIDE DEF s, o2
  <2> QED BY <2>2, <2>3, <2>4, SortedOnto
<1>11. Ordered(t)
  <2>1. \A v \in Umbrellas : t[v].order \in Int /\ (t[v].label = 0 => t[v].row = None)
    BY <1>1, <1>7 DEF Ordered
  <2>2. ASSUME NEW v \in Umbrellas, NEW w \in Umbrellas, v # w, t[v].row = t[w].row,
               t[v].row # None
        PROVE  t[v].order # t[w].order
    <3>1. CASE t[v].row = r
      <4>1. v \in RowOf(t, r) /\ w \in RowOf(t, r)
        BY <2>2, <3>1 DEF RowOf
      <4> QED BY <1>8, <1>10, <2>2, <4>1 DEF Ranks
    <3>2. CASE t[v].row # r
      <4>1. v # u /\ w # u /\ umbrella[v].row = t[v].row /\ umbrella[w].row = t[w].row
        BY <1>7, <2>2, <3>2
      <4>2. t[v].order = umbrella[v].order /\ t[w].order = umbrella[w].order
        BY <1>7, <2>2, <3>2, <4>1
      <4> QED BY <2>2, <4>1, <4>2 DEF Ordered
    <3> QED BY <3>1, <3>2
  <2> QED BY <2>1, <2>2 DEF Ordered
<1>12. /\ DOMAIN StructureOf(t) = LiveRows
       /\ StructureOf(t) = [q \in LiveRows |-> StructureOf(t)[q]]
       /\ \A q \in LiveRows : /\ StructureOf(t)[q] = Listed(RowOf(t, q), o2)
                              /\ Ranks(RowOf(t, q), o2)
  BY <1>11, StructureRows
<1>13. StructureOf(t)[r] = Inserted(s, u, p)
  <2>1. Sorted(Inserted(s, u, p), RowOf(t, r), o2)
    BY <1>7, <1>9
  <2>2. Inserted(s, u, p) = Listed(RowOf(t, r), o2)
    <3> HIDE DEF s, o2
    <3> QED BY <1>10, <2>1, SortedIsListed
  <2> QED BY <1>12, <2>2
<1>14. ASSUME NEW q \in LiveRows, q # r
       PROVE  StructureOf(t)[q] = Without(tree[q], u)
  <2>1. RowOf(t, q) = RowOf(umbrella, q) \ {u}
    BY <1>7, <1>14 DEF RowOf
  <2>2. \A v \in RowOf(t, q) : o2[v] = o[v]
    BY <1>7, <1>8, <1>14, <2>1 DEF RowOf
  <2>3. Sorted(Without(tree[q], u), RowOf(t, q), o)
    BY <1>4, <2>1
  <2> HIDE DEF o, o2, tree
  <2>4. Sorted(Without(tree[q], u), RowOf(t, q), o2)
    BY <2>2, <2>3 DEF Sorted
  <2>5. Without(tree[q], u) = Listed(RowOf(t, q), o2)
    BY <1>12, <2>4, SortedIsListed
  <2> QED BY <1>12, <2>5
<1>15. u \in OnTree(tree)
  <2>1. PICK q \in LiveRows : q = umbrella[u].row
    BY <1>1
  <2>2. u \in RowOf(umbrella, q)
    BY <1>1, <2>1 DEF RowOf
  <2>3. PICK i \in 1 .. Cardinality(RowOf(umbrella, q)) : tree[q][i] = u
    <3> HIDE DEF tree, o
    <3> QED BY <1>3, <2>2, SortedPlaces
  <2>4. i \in DOMAIN tree[q]
    <3> HIDE DEF tree, o
    <3> QED BY <1>3 DEF Sorted
  <2> HIDE DEF tree
  <2> QED BY <1>3, <2>3, <2>4 DEF OnTree
<1> HIDE DEF tree, s
<1>16. ApplyMove(tree, u, r, p) =
         [q \in LiveRows |-> IF q = r THEN Inserted(s, u, p) ELSE Without(tree[q], u)]
  BY <1>3, <1>15 DEF ApplyMove, s
<1>17. StructureOf(t) = ApplyMove(tree, u, r, p)
  BY <1>12, <1>13, <1>14, <1>16
<1> QED BY <1>7, <1>11, <1>17 DEF tree

(* The order after the last of a row.                                      *)
LEMMA NextOrderIsAfter ==
  ASSUME Ordered(umbrella), NEW r \in LiveRows, None \notin Rows
  PROVE  NextOrder(r) \in Int /\ \A v \in InRow(r) : umbrella[v].order < NextOrder(r)
PROOF
<1> DEFINE us == InRow(r)
           o == OrderOf(umbrella)
           n == Cardinality(us)
           s == Listed(us, o)
           IsLast(k) == /\ us # {} => \E u \in us : umbrella[u].order = k
                        /\ \A u \in us : umbrella[u].order <= k
<1>1. /\ \A v \in us : v \in Umbrellas /\ umbrella[v].row = r
      /\ r # None
  BY DEF InRow, LiveRows
<1>2. Ranks(us, o)
  BY <1>1, RowRanks
<1>3. \A v \in us : o[v] = umbrella[v].order /\ umbrella[v].order \in Int
  BY <1>1 DEF OrderOf, Ordered
<1>4. \E k \in {0} \cup { umbrella[u].order : u \in us } : IsLast(k)
  <2>1. CASE us = {}
    BY <2>1
  <2>2. CASE us # {}
    <3> HIDE DEF us, o, s
    <3>1. Sorted(s, us, o)
      BY <1>2, ListedSorted DEF s
    <3>2. \A u \in us : \E i \in 1 .. n : s[i] = u
      BY <1>2, <3>1, SortedPlaces
    <3>3. n \in Nat /\ s \in [1 .. n -> us]
      BY <1>2, <3>1, FS_CardinalityType DEF Ranks, Sorted
    <3>4. n \in 1 .. n
      BY <2>2, <3>2, <3>3
    <3>5. s[n] \in us
      BY <3>3, <3>4
    <3>6. ASSUME NEW v \in us PROVE umbrella[v].order <= umbrella[s[n]].order
      <4>1. PICK i \in 1 .. n : s[i] = v
        BY <3>2
      <4>2. i < n => o[s[i]] < o[s[n]]
        BY <3>1, <3>4 DEF Sorted
      <4>3. o[v] = umbrella[v].order /\ o[s[n]] = umbrella[s[n]].order
            /\ umbrella[v].order \in Int
        BY <1>3, <3>5
      <4>4. CASE i < n
        BY <1>3, <3>5, <4>1, <4>2, <4>3, <4>4
      <4>5. CASE i = n
        BY <4>1, <4>3, <4>5
      <4> QED BY <3>3, <4>4, <4>5
    <3> QED BY <3>5, <3>6
  <2> QED BY <2>1, <2>2
<1>5. PICK k : k = CHOOSE j \in {0} \cup { umbrella[u].order : u \in us } : IsLast(j)
  OBVIOUS
<1>6. k \in {0} \cup { umbrella[u].order : u \in us } /\ IsLast(k)
  BY <1>4, <1>5
<1>7. NextOrder(r) = 1 + k
  BY <1>5 DEF NextOrder
<1>8. k \in Int
  BY <1>3, <1>6
<1> QED BY <1>3, <1>6, <1>7, <1>8

(* What the request in flight has found, when there is no other.           *)
MoveFound(x) ==
  \E u \in Active, r \in LiveRows : \E p \in 0 .. Cardinality(InRow(r) \ {u}) :
     x.ids = {u} /\ x.row = r /\ x.plan = MovePlan(u, r, p)

PlaceFound(x) ==
  x.order \in Int /\ \A v \in InRow(x.row) : umbrella[v].order < x.order

LayoutFound(x) ==
  /\ x.op \in {"place", "restore"} => PlaceFound(x)
  /\ x.op = "move" => MoveFound(x)

LayoutSerial ==
  serial => /\ OneBusy /\ Ordered(umbrella)
            /\ \A w \in Workers : work[w] # NoRequest => LayoutFound(work[w])

LEMMA SameFound ==
  ASSUME NEW x, umbrella' = umbrella, row' = row
  PROVE  MoveFound(x) => MoveFound(x)'
PROOF
<1>1. Active' = Active /\ LiveRows' = LiveRows
  BY DEF Active, Stored, LiveRows
<1>2. ASSUME NEW u, NEW r, NEW p PROVE MovePlan(u, r, p)' = MovePlan(u, r, p)
  BY DEF MovePlan, InRow, OrderAt
<1>3. ASSUME NEW u \in Active, NEW r \in LiveRows
      PROVE  (0 .. Cardinality(InRow(r) \ {u}))' = 0 .. Cardinality(InRow(r) \ {u})
  BY DEF InRow
<1> QED BY <1>1, <1>2, <1>3 DEF MoveFound

(* A read keeps the tables, a write leaves no request when there is one.   *)
LEMMA SerialBegins ==
  ASSUME LayoutInv, LayoutSerial, NEW w \in Workers, NEW x, Begin(w, x), UNCHANGED layout,
         serial => LayoutFound(x)
  PROVE  LayoutSerial'
PROOF
<1>1. \A v \in Workers : work'[v] = IF v = w THEN x ELSE work[v]
  BY DEF Begin, LayoutInv, LayoutAsked
<1>2. serial' => serial /\ \A v \in Workers : work[v] = NoRequest
  BY DEF Begin, Alone, Idle, Busy
<1>3. LayoutFound(x) => LayoutFound(x)'
  <2>1. umbrella' = umbrella /\ row' = row
    BY DEF layout
  <2>2. InRow(x.row)' = InRow(x.row)
    BY <2>1 DEF InRow
  <2>3. PlaceFound(x) => PlaceFound(x)'
    BY <2>1, <2>2 DEF PlaceFound
  <2>4. MoveFound(x) => MoveFound(x)'
    BY <2>1, SameFound
  <2> QED BY <2>3, <2>4 DEF LayoutFound
<1>4. Ordered(umbrella) => Ordered(umbrella)'
  BY DEF layout, Ordered
<1> QED BY <1>1, <1>2, <1>3, <1>4 DEF LayoutSerial, OneBusy

LEMMA SerialEnds ==
  ASSUME LayoutInv, LayoutSerial,
         (\E w \in Workers : work[w] # NoRequest /\ Finish(w)) \/ (Alone /\ UNCHANGED work),
         serial => Ordered(umbrella')
  PROVE  LayoutSerial'
PROOF
<1>1. serial' => serial /\ \A v \in Workers : work'[v] = NoRequest
  <2>1. CASE Alone /\ UNCHANGED work
    BY <2>1 DEF Alone, Idle, Busy
  <2>2. ASSUME NEW w \in Workers, work[w] # NoRequest, Finish(w)
        PROVE  serial' => serial /\ \A v \in Workers : work'[v] = NoRequest
    BY <2>2 DEF Finish, LayoutInv, LayoutAsked, LayoutSerial, OneBusy
  <2> QED BY <2>1, <2>2
<1> QED BY <1>1 DEF LayoutSerial, OneBusy

(* One umbrella changes.                                                   *)
LEMMA SetOrders ==
  ASSUME LayoutInv, Ordered(umbrella), NEW u \in Umbrellas, NEW x, Set(u, x),
         x.order \in Int, x.label = 0 => x.row = None,
         x.row # None => \A v \in InRow(x.row) \ {u} : umbrella[v].order # x.order
  PROVE  Ordered(umbrella')
PROOF
<1>1. \A v \in Umbrellas : umbrella'[v] = IF v = u THEN x ELSE umbrella[v]
  BY DEF Set, LayoutInv, LayoutTables
<1>2. \A v \in Umbrellas : umbrella'[v].order \in Int
                           /\ (umbrella'[v].label = 0 => umbrella'[v].row = None)
  BY <1>1 DEF Ordered
<1>3. \A v, y \in Umbrellas :
        v # y /\ umbrella'[v].row = umbrella'[y].row /\ umbrella'[v].row # None
          => umbrella'[v].order # umbrella'[y].order
  BY <1>1 DEF Ordered, InRow
<1> QED BY <1>2, <1>3 DEF Ordered

LEMMA NoneIsNoRow == None \notin Rows
PROOF BY LayoutAssumption

(* The umbrellas inserted come after those of the row, in turn.            *)
LEMMA PlaceOrders ==
  ASSUME LayoutInv, Ordered(umbrella), NEW w \in Workers, PlaceWrite(w), PlaceFound(work[w])
  PROVE  Ordered(umbrella')
PROOF
<1>1. PICK ls \in SUBSET Labels : ls = work[w].labels
  BY DEF PlaceWrite, At, LayoutInv, LayoutAsked
<1>2. PICK r \in LiveRows : r = work[w].row
  BY DEF PlaceWrite
<1>3. PICK f \in NewIds(ls) : umbrella' = WithPlaced(work[w], f)
  BY <1>1 DEF PlaceWrite
<1>4. /\ \A l \in ls : f[l] \in Umbrellas
      /\ \A k, l \in ls : k # l => f[k] # f[l]
  BY <1>3 DEF NewIds, FreshUmbrellas
<1>5. PICK n \in Int : n = work[w].order /\ \A v \in InRow(r) : umbrella[v].order < n
  BY <1>2 DEF PlaceFound
<1> DEFINE less(l) == { k \in ls : k < l }
<1>6. \A k \in ls : k \in Nat /\ k # 0
  BY LayoutAssumption
<1>7. ASSUME NEW l \in ls
      PROVE  /\ umbrella'[f[l]] = Placed(l, r, n + Cardinality(less(l)))
             /\ IsFiniteSet(less(l)) /\ Cardinality(less(l)) \in Nat
  <2>1. PICK u : u = f[l]
    OBVIOUS
  <2>2. u \in Umbrellas /\ \A k \in ls : f[k] = u <=> k = l
    BY <1>4, <2>1
  <2>3. PICK k : k = CHOOSE j \in work[w].labels : f[j] = u
    OBVIOUS
  <2>4. k = l
    BY <1>1, <2>2, <2>3
  <2>10. \E j \in work[w].labels : f[j] = u
    BY <1>1, <2>1
  <2>11. umbrella'[u] = Placed(k, work[w].row, work[w].order
                              + Cardinality({ j \in work[w].labels : j < k }))
    BY <1>3, <2>2, <2>3, <2>10, Zenon DEF WithPlaced
  <2>5. umbrella'[u] = Placed(l, r, n + Cardinality(less(l)))
    <3>1. { j \in work[w].labels : j < k } = less(l)
      BY <1>1, <2>4
    <3> HIDE DEF less
    <3>2. umbrella'[u] = Placed(l, r, work[w].order + Cardinality(less(l)))
      BY <1>2, <2>4, <2>11, <3>1, Zenon
    <3> QED BY <1>5, <3>2, Zenon
  <2>6. \A k2 \in less(l) : k2 \in 0 .. l
    BY <1>6
  <2>7. 0 \in Int /\ l \in Int
    BY <1>6
  <2>8. IsFiniteSet(0 .. l)
    BY <2>7, FS_Interval
  <2>13. less(l) \in SUBSET (0 .. l)
    BY <2>6
  <2>9. IsFiniteSet(less(l))
    BY <2>8, <2>13, FS_Subset
  <2> HIDE DEF less
  <2>12. Cardinality(less(l)) \in Nat
    BY <2>9, FS_CardinalityType
  <2> QED BY <2>1, <2>5, <2>9, <2>12, Zenon
<1>8. ASSUME NEW k \in ls, NEW l \in ls, k < l
      PROVE  Cardinality(less(k)) < Cardinality(less(l))
  <2>1. /\ less(k) \in SUBSET less(l) /\ k \in less(l) /\ k \notin less(k)
    BY <1>6, <1>8
  <2>2. IsFiniteSet(less(k)) /\ IsFiniteSet(less(l)) /\ Cardinality(less(k)) \in Nat
        /\ Cardinality(less(l)) \in Nat
    BY <1>7
  <2> HIDE DEF less
  <2>3. Cardinality(less(k)) <= Cardinality(less(l))
        /\ Cardinality(less(k)) # Cardinality(less(l))
    BY <2>1, <2>2, FS_Subset
  <2> QED BY <2>2, <2>3
<1>9. \A u \in Umbrellas : (\E l \in ls : f[l] = u) \/ umbrella'[u] = umbrella[u]
  BY <1>1, <1>3 DEF WithPlaced
<1>10. ASSUME NEW l \in ls
       PROVE  /\ umbrella'[f[l]].order = n + Cardinality(less(l))
              /\ umbrella'[f[l]].row = r /\ umbrella'[f[l]].label # 0
              /\ umbrella'[f[l]].order \in Int
  <2> HIDE DEF less
  <2>1. PICK c \in Nat : c = Cardinality(less(l))
    BY <1>7
  <2>2. PICK x : x = Placed(l, r, n + c) /\ x = umbrella'[f[l]]
    BY <1>7, <2>1
  <2>3. x.order = n + c /\ x.row = r /\ x.label = l
    BY <2>2 DEF Placed
  <2>4. l # 0 /\ n + c \in Int
    BY <1>6
  <2> QED BY <2>1, <2>2, <2>3, <2>4
<1>11. \A u \in Umbrellas : umbrella'[u].order \in Int
                            /\ (umbrella'[u].label = 0 => umbrella'[u].row = None)
  BY <1>9, <1>10 DEF Ordered
<1>12. ASSUME NEW u \in Umbrellas, NEW v \in Umbrellas, u # v,
              umbrella'[u].row = umbrella'[v].row, umbrella'[u].row # None,
              ~ \E l \in ls : f[l] = v
       PROVE  umbrella'[u].order # umbrella'[v].order
  <2>1. umbrella'[v] = umbrella[v] /\ umbrella[v].order \in Int
    BY <1>9, <1>12 DEF Ordered
  <2>2. CASE \E l \in ls : f[l] = u
    <3>1. PICK l \in ls : f[l] = u
      BY <2>2
    <3>2. v \in InRow(r)
      BY <1>10, <1>12, <2>1, <3>1 DEF InRow
    <3>3. umbrella[v].order < n
      BY <1>5, <3>2
    <3> HIDE DEF less
    <3>4. umbrella'[u].order = n + Cardinality(less(l)) /\ Cardinality(less(l)) \in Nat
      BY <1>7, <1>10, <3>1
    <3> QED BY <2>1, <3>3, <3>4
  <2>3. CASE ~ \E l \in ls : f[l] = u
    <3>1. umbrella'[u] = umbrella[u]
      BY <1>9, <2>3
    <3> QED BY <1>12, <2>1, <3>1 DEF Ordered
  <2> QED BY <2>2, <2>3
<1>13. ASSUME NEW u \in Umbrellas, NEW v \in Umbrellas, u # v,
              \E l \in ls : f[l] = u, \E l \in ls : f[l] = v
       PROVE  umbrella'[u].order # umbrella'[v].order
  <2>1. PICK k \in ls, l \in ls : f[k] = u /\ f[l] = v
    BY <1>13
  <2>2. k # l /\ k \in Nat /\ l \in Nat
    BY <1>6, <1>13, <2>1
  <2> HIDE DEF less
  <2>3. Cardinality(less(k)) # Cardinality(less(l)) /\ Cardinality(less(k)) \in Nat
        /\ Cardinality(less(l)) \in Nat
    <3>1. k < l \/ l < k
      BY <2>2
    <3>2. Cardinality(less(k)) \in Nat /\ Cardinality(less(l)) \in Nat
      BY <1>7
    <3> QED BY <1>8, <3>1, <3>2
  <2>4. PICK c \in Nat, d \in Nat : c = Cardinality(less(k)) /\ d = Cardinality(less(l))
    BY <2>3
  <2>5. umbrella'[u].order = n + c /\ umbrella'[v].order = n + d
    BY <1>10, <2>1, <2>4
  <2> QED BY <2>3, <2>4, <2>5
<1>14. \A u, v \in Umbrellas :
         u # v /\ umbrella'[u].row = umbrella'[v].row /\ umbrella'[u].row # None
           => umbrella'[u].order # umbrella'[v].order
  BY <1>12, <1>13
<1> QED BY <1>11, <1>14 DEF Ordered

(* The other writes.                                                       *)
LEMMA WriteOrders ==
  ASSUME LayoutInv, Ordered(umbrella), NEW w \in Workers, LayoutFound(work[w]),
         LabelWrite(w) \/ RetireWrite(w) \/ RestoreWrite(w) \/ MoveWrite(w)
  PROVE  Ordered(umbrella')
PROOF
<1>1. \A u \in Stored : /\ u \in Umbrellas
                        /\ DOMAIN umbrella[u] = {"label", "row", "retired", "order"}
                        /\ umbrella[u].order \in Int /\ umbrella[u].label # 0
                        /\ umbrella[u].label \in Labels
  BY DEF Stored, LayoutInv, LayoutTables, UmbrellaFits, Ordered
<1>2. 0 \notin Labels
  BY LayoutAssumption
<1>3. CASE LabelWrite(w)
  <2>1. PICK u \in Stored, l \in Labels : Set(u, [umbrella[u] EXCEPT !.label = l])
    BY <1>3 DEF LabelWrite, At, LayoutInv, LayoutAsked
  <2>2. PICK x : x = [umbrella[u] EXCEPT !.label = l]
    OBVIOUS
  <2>3. x.label = l /\ x.row = umbrella[u].row /\ x.order = umbrella[u].order
    BY <1>1, <2>2
  <2>4. x.row # None => \A v \in InRow(x.row) \ {u} : umbrella[v].order # x.order
    BY <1>1, <2>3 DEF InRow, Ordered
  <2>5. x.label # 0 /\ x.order \in Int
    BY <1>1, <1>2, <2>3
  <2> QED BY <1>1, <2>1, <2>2, <2>4, <2>5, SetOrders
<1>4. CASE RetireWrite(w)
  <2>1. PICK u \in Stored : Set(u, [umbrella[u] EXCEPT !.retired = TRUE, !.row = None])
    BY <1>4 DEF RetireWrite
  <2>2. PICK x : x = [umbrella[u] EXCEPT !.retired = TRUE, !.row = None]
    OBVIOUS
  <2>3. x.row = None /\ x.order \in Int
    BY <1>1, <2>2
  <2> QED BY <1>1, <2>1, <2>2, <2>3, SetOrders
<1>5. CASE RestoreWrite(w)
  <2>1. PICK u \in Stored : Set(u, Placed(umbrella[u].label, work[w].row, work[w].order))
    BY <1>5 DEF RestoreWrite
  <2>2. PICK x : x = Placed(umbrella[u].label, work[w].row, work[w].order)
    OBVIOUS
  <2>3. x.label = umbrella[u].label /\ x.row = work[w].row /\ x.order = work[w].order
    BY <2>2 DEF Placed
  <2>4. PlaceFound(work[w])
    BY <1>5 DEF RestoreWrite, At, LayoutFound
  <2>5. x.order \in Int /\ \A v \in InRow(x.row) : umbrella[v].order < x.order
    BY <2>3, <2>4 DEF PlaceFound
  <2>6. \A v \in InRow(x.row) \ {u} : umbrella[v].order # x.order
    <3>1. \A v \in InRow(x.row) : umbrella[v].order \in Int
      BY DEF InRow, Ordered
    <3> QED BY <2>5, <3>1
  <2>7. x.label # 0
    BY <1>1, <2>3
  <2> QED BY <1>1, <2>1, <2>2, <2>5, <2>6, <2>7, SetOrders
<1>6. CASE MoveWrite(w)
  <2>1. MoveFound(work[w]) /\ umbrella' = Moved(work[w])
    BY <1>6 DEF MoveWrite, At, LayoutFound
  <2>2. PICK u \in Active, r \in LiveRows :
          \E p \in 0 .. Cardinality(InRow(r) \ {u}) :
             work[w].ids = {u} /\ work[w].row = r /\ work[w].plan = MovePlan(u, r, p)
    BY <2>1 DEF MoveFound
  <2> PICK p \in 0 .. Cardinality(InRow(r) \ {u}) :
          work[w].ids = {u} /\ work[w].row = r /\ work[w].plan = MovePlan(u, r, p)
    BY <2>2
  <2>3. MovesTo(umbrella', u, r, p)
    BY <2>1, <2>2 DEF MovesTo
  <2>4. BeachFits /\ ActiveIsPlaced
    BY DEF BeachFits, LayoutInv, LayoutTables
  <2> QED BY <2>3, <2>4, NoneIsNoRow, MoveLands
<1> QED BY <1>3, <1>4, <1>5, <1>6

LEMMA RemoveOrders ==
  ASSUME LayoutInv, Ordered(umbrella),
         (\E u \in Umbrellas : Remove(u)) \/ (\E w \in Workers : BulkDeleteWrite(w))
  PROVE  Ordered(umbrella')
PROOF
<1>1. \A v \in Umbrellas : umbrella'[v] = umbrella[v] \/ umbrella'[v] = NoUmbrella
  BY DEF Remove, Set, BulkDeleteWrite, LayoutInv, LayoutTables
<1>2. NoUmbrella.row = None /\ NoUmbrella.order = 0
  BY DEF NoUmbrella
<1>3. \A v \in Umbrellas : umbrella'[v].order \in Int
                           /\ (umbrella'[v].label = 0 => umbrella'[v].row = None)
  BY <1>1, <1>2 DEF Ordered
<1>4. \A u, v \in Umbrellas :
         u # v /\ umbrella'[u].row = umbrella'[v].row /\ umbrella'[u].row # None
           => umbrella'[u].order # umbrella'[v].order
  BY <1>1, <1>2 DEF Ordered
<1> QED BY <1>3, <1>4 DEF Ordered

(* What the reads find.                                                    *)
LEMMA SerialReads ==
  ASSUME LayoutInv, LayoutSerial, NEW w \in Workers,
         CreateLoad(w) \/ GenerateLoad(w) \/ LabelLoad(w) \/ BulkDeleteLoad(w)
           \/ MoveLoad(w) \/ RetireLoad(w) \/ RestoreLoad(w)
  PROVE  LayoutSerial'
PROOF
<1>1. ASSUME NEW op, NEW ids, NEW r \in LiveRows, NEW ls, serial,
             NEW x, x = [AskInto(op, ids, r) EXCEPT !.labels = ls], op # "move"
      PROVE  LayoutFound(x)
  <2>1. x.op = op /\ x.row = r /\ x.order = NextOrder(r)
    BY <1>1 DEF AskInto, Ask
  <2>2. PlaceFound(x)
    BY <1>1, <2>1, NextOrderIsAfter, NoneIsNoRow DEF LayoutSerial, PlaceFound
  <2> QED BY <1>1, <2>1, <2>2 DEF LayoutFound
<1>2. CASE CreateLoad(w)
  <2>1. PICK r \in LiveRows, l \in Labels :
          /\ Begin(w, [AskInto("place", {}, r) EXCEPT !.labels = {l}])
          /\ UNCHANGED layout
    BY <1>2 DEF CreateLoad
  <2>4. PICK ls : ls = {l}
    OBVIOUS
  <2>2. PICK x : x = [AskInto("place", {}, r) EXCEPT !.labels = ls]
    OBVIOUS
  <2>3. serial => LayoutFound(x)
    BY <1>1, <2>2
  <2> QED BY <2>1, <2>2, <2>3, <2>4, SerialBegins
<1>3. CASE GenerateLoad(w)
  <2>1. PICK r \in LiveRows, first \in Labels, last \in Labels :
          /\ Begin(w, [AskInto("place", {}, r) EXCEPT
                         !.labels = { l \in first .. last : ~ LabelTaken(l) }])
          /\ UNCHANGED layout
    BY <1>3 DEF GenerateLoad
  <2>2. PICK ls : ls = { l \in first .. last : ~ LabelTaken(l) }
    OBVIOUS
  <2>3. PICK x : x = [AskInto("place", {}, r) EXCEPT !.labels = ls]
    OBVIOUS
  <2>4. serial => LayoutFound(x)
    BY <1>1, <2>3
  <2> QED BY <2>1, <2>2, <2>3, <2>4, SerialBegins
<1>4. CASE RestoreLoad(w)
  <2>1. PICK u \in Stored, r \in LiveRows : Begin(w, AskInto("restore", {u}, r)) /\ UNCHANGED layout
    BY <1>4 DEF RestoreLoad
  <2>2. PICK x : x = AskInto("restore", {u}, r)
    OBVIOUS
  <2>3. x.op = "restore" /\ x.row = r /\ x.order = NextOrder(r)
    BY <2>2 DEF AskInto, Ask
  <2>4. serial => LayoutFound(x)
    BY <2>3, NextOrderIsAfter, NoneIsNoRow DEF LayoutSerial, PlaceFound, LayoutFound
  <2> QED BY <2>1, <2>2, <2>4, SerialBegins
<1>5. CASE MoveLoad(w)
  <2>1. PICK u \in Active, r \in LiveRows :
          \E p \in 0 .. Cardinality(InRow(r) \ {u}) :
            /\ Begin(w, [Ask("move", {u}) EXCEPT !.row = r, !.plan = MovePlan(u, r, p)])
            /\ UNCHANGED layout
    BY <1>5 DEF MoveLoad
  <2> PICK p \in 0 .. Cardinality(InRow(r) \ {u}) :
            /\ Begin(w, [Ask("move", {u}) EXCEPT !.row = r, !.plan = MovePlan(u, r, p)])
            /\ UNCHANGED layout
    BY <2>1
  <2>2. PICK plan : plan = MovePlan(u, r, p)
    OBVIOUS
  <2>3. PICK x : x = [Ask("move", {u}) EXCEPT !.row = r, !.plan = plan]
    OBVIOUS
  <2>4. x.op = "move" /\ x.ids = {u} /\ x.row = r /\ x.plan = plan
    BY <2>3 DEF Ask
  <2>5. MoveFound(x)
    BY <2>2, <2>4 DEF MoveFound
  <2>6. LayoutFound(x)
    BY <2>4, <2>5 DEF LayoutFound
  <2> QED BY <2>2, <2>3, <2>6, SerialBegins
<1>6. ASSUME NEW x, Begin(w, x), UNCHANGED layout, x.op \notin {"place", "restore", "move"}
      PROVE  LayoutSerial'
  <2>1. LayoutFound(x)
    BY <1>6 DEF LayoutFound
  <2> QED BY <1>6, <2>1, SerialBegins
<1>7. CASE LabelLoad(w)
  <2>1. PICK u \in Stored, l \in Labels :
          /\ Begin(w, [Ask("label", {u}) EXCEPT !.labels = {l}])
          /\ UNCHANGED layout
    BY <1>7 DEF LabelLoad
  <2>2. [Ask("label", {u}) EXCEPT !.labels = {l}].op = "label"
    BY DEF Ask
  <2> QED BY <1>6, <2>1, <2>2
<1>8. CASE BulkDeleteLoad(w)
  <2>1. PICK ids : Begin(w, Ask("bulkDelete", ids)) /\ UNCHANGED layout
    BY <1>8 DEF BulkDeleteLoad
  <2>2. Ask("bulkDelete", ids).op = "bulkDelete"
    BY DEF Ask
  <2> QED BY <1>6, <2>1, <2>2
<1>9. CASE RetireLoad(w)
  <2>1. PICK u : Begin(w, Ask("retire", {u})) /\ UNCHANGED layout
    BY <1>9 DEF RetireLoad
  <2>2. Ask("retire", {u}).op = "retire"
    BY DEF Ask
  <2> QED BY <1>6, <2>1, <2>2
<1> QED BY <1>2, <1>3, <1>4, <1>5, <1>7, <1>8, <1>9

LEMMA SerialSteps ==
  ASSUME LayoutInv, LayoutSerial, [LayoutNext]_<<layout, work, serial>>
  PROVE  LayoutSerial'
PROOF
<1>1. ASSUME NEW w \in Workers,
             PlaceWrite(w) \/ LabelWrite(w) \/ RetireWrite(w) \/ RestoreWrite(w)
               \/ MoveWrite(w) \/ BulkDeleteWrite(w)
      PROVE  LayoutSerial'
  <2>1. work[w] # NoRequest /\ Finish(w)
    <3>1. Finish(w) /\ work[w].op \in {"place", "label", "retire", "restore", "move", "bulkDelete"}
      BY <1>1 DEF PlaceWrite, LabelWrite, RetireWrite, RestoreWrite, MoveWrite,
                  BulkDeleteWrite, At
    <3>2. NoRequest.op = "none"
      BY DEF NoRequest
    <3> QED BY <3>1, <3>2
  <2>2. serial => Ordered(umbrella) /\ LayoutFound(work[w])
    BY <2>1 DEF LayoutSerial
  <2>3. PlaceWrite(w) => work[w].op = "place"
    BY DEF PlaceWrite, At
  <2>4. serial => Ordered(umbrella')
    <3> SUFFICES ASSUME serial PROVE Ordered(umbrella')
      OBVIOUS
    <3>1. CASE PlaceWrite(w)
      BY <2>2, <2>3, <3>1, PlaceOrders DEF LayoutFound
    <3>2. CASE BulkDeleteWrite(w)
      BY <2>2, <3>2, RemoveOrders
    <3> QED BY <1>1, <2>2, <3>1, <3>2, WriteOrders
  <2> QED BY <2>1, <2>4, SerialEnds
<1>2. ASSUME Ordered(umbrella) => Ordered(umbrella'),
             (\E w \in Workers : work[w] # NoRequest /\ Finish(w)) \/ (Alone /\ UNCHANGED work)
      PROVE  LayoutSerial'
  BY <1>2, SerialEnds DEF LayoutSerial
<1>3. ASSUME NEW w \in Workers, Abort(w), UNCHANGED layout PROVE LayoutSerial'
  BY <1>2, <1>3 DEF Abort, layout, Ordered
<1>4. CASE \E u \in Umbrellas : Remove(u)
  BY <1>2, <1>4, RemoveOrders DEF Remove
<1>5. CASE \/ \E k \in Kinds : CreateSector(k)
           \/ \E s \in Sectors : \/ \E k \in Kinds : UpdateSector(s, k)
                                 \/ RemoveSector(s) \/ CreateRow(s)
           \/ \E r \in Rows : RemoveRow(r)
  <2>1. UNCHANGED <<umbrella, work>> /\ Alone
    BY <1>5 DEF CreateSector, UpdateSector, RemoveSector, CreateRow, RemoveRow
  <2> QED BY <1>2, <2>1 DEF Ordered
<1>6. CASE UNCHANGED <<layout, work, serial>>
  <2>1. umbrella' = umbrella /\ row' = row /\ work' = work /\ serial' = serial
    BY <1>6 DEF layout
  <2>2. ASSUME NEW x PROVE MoveFound(x) => MoveFound(x)'
    BY <2>1, SameFound
  <2> QED BY <2>1, <2>2 DEF LayoutSerial, OneBusy, Ordered, LayoutFound, PlaceFound, InRow
<1>7. ASSUME NEW w \in Workers,
             CreateLoad(w) \/ GenerateLoad(w) \/ LabelLoad(w) \/ BulkDeleteLoad(w)
               \/ MoveLoad(w) \/ RetireLoad(w) \/ RestoreLoad(w)
      PROVE  LayoutSerial'
  BY <1>7, SerialReads
<1> QED BY <1>1, <1>3, <1>4, <1>5, <1>6, <1>7 DEF LayoutNext

(* A move that the server accepts does what the page expects.              *)
LEMMA ServedLands ==
  ASSUME BeachFits, Ordered(umbrella), ActiveIsPlaced, NEW m, MoveOk(m)
  PROVE  /\ Ordered(MoveServed(m)) /\ OnlyRow(MoveServed(m), m.u, m.row)
         /\ DOMAIN MoveServed(m) = Umbrellas
         /\ StructureOf(MoveServed(m)) = ApplyMove(StructureOf(umbrella), m.u, m.row, m.position)
PROOF
<1>1. MovesTo(MoveServed(m), m.u, m.row, m.position)
  <2>1. PICK plan : plan = MovePlan(m.u, m.row, m.position)
    OBVIOUS
  <2>2. PICK x : x = [Ask("move", {m.u}) EXCEPT !.row = m.row, !.plan = plan]
    OBVIOUS
  <2>3. x.ids = {m.u} /\ x.row = m.row /\ x.plan = plan
    BY <2>2 DEF Ask
  <2> QED BY <2>1, <2>2, <2>3 DEF MovesTo, MoveServed
<1>2. PICK u \in Active, r \in LiveRows : u = m.u /\ r = m.row
  BY DEF MoveOk
<1>3. PICK p \in 0 .. Cardinality(InRow(r) \ {u}) : p = m.position
  BY <1>2 DEF MoveOk
<1>4. DOMAIN MoveServed(m) = Umbrellas
  BY DEF MoveServed, Moved
<1> QED BY <1>1, <1>2, <1>3, <1>4, NoneIsNoRow, MoveLands

(* And it accepts what the page offers on the structure as it is.          *)
LEMMA ServedAsOffered ==
  ASSUME BeachFits, Ordered(umbrella), ActiveIsPlaced,
         NEW m \in Offers(StructureOf(umbrella))
  PROVE  /\ MoveOk(m)
         /\ StructureOf(MoveServed(m)) = ApplyMove(StructureOf(umbrella), m.u, m.row, m.position)
PROOF
<1> DEFINE tree == StructureOf(umbrella)
           o == OrderOf(umbrella)
<1>1. /\ m.u \in OnTree(tree) /\ m.row \in DOMAIN tree /\ m.u \in Umbrellas
      /\ m.position \in 0 .. Len(Without(tree[m.row], m.u))
  BY DEF Offers, Moves, PositionOptions
<1>2. /\ DOMAIN tree = LiveRows
      /\ \A q \in LiveRows : /\ Ranks(RowOf(umbrella, q), o)
                             /\ Sorted(tree[q], RowOf(umbrella, q), o)
  BY StructureRows, NoneIsNoRow
<1> HIDE DEF tree, o
<1>3. PICK q \in LiveRows : m.u \in RowOf(umbrella, q)
  <2>1. PICK q \in LiveRows : \E i \in DOMAIN tree[q] : tree[q][i] = m.u
    BY <1>1, <1>2 DEF OnTree
  <2>2. tree[q] \in [1 .. Cardinality(RowOf(umbrella, q)) -> RowOf(umbrella, q)]
    BY <1>2 DEF Sorted
  <2> QED BY <2>1, <2>2
<1>4. m.u \in Active
  <2>1. umbrella[m.u].row \in LiveRows /\ umbrella[m.u].row # None
    BY <1>3, NoneIsNoRow DEF RowOf, LiveRows
  <2>2. umbrella[m.u].label # 0
    BY <1>1, <2>1 DEF Ordered
  <2> QED BY <1>1, <2>1, <2>2 DEF Active, Stored, ActiveIsPlaced
<1>5. Len(Without(tree[m.row], m.u)) = Cardinality(InRow(m.row) \ {m.u})
  <2>1. Sorted(Without(tree[m.row], m.u), RowOf(umbrella, m.row) \ {m.u}, o)
    BY <1>1, <1>2, WithoutSorted
  <2>2. RowOf(umbrella, m.row) = InRow(m.row)
    BY DEF RowOf, InRow
  <2>3. Cardinality(InRow(m.row) \ {m.u}) \in Nat
    <3>1. InRow(m.row) \ {m.u} \in SUBSET Umbrellas
      BY DEF InRow
    <3> QED BY <3>1, LayoutAssumption, FS_Subset, FS_CardinalityType
  <2> QED BY <2>1, <2>2, <2>3 DEF Sorted
<1>6. MoveOk(m)
  BY <1>1, <1>2, <1>4, <1>5 DEF MoveOk
<1> QED BY <1>6, ServedLands DEF tree

LEMMA SerialAlways == LayoutSpec => []LayoutSerial
PROOF
<1>1. LayoutInit /\ work = [w \in Workers |-> NoRequest] /\ serial = TRUE => LayoutSerial
  BY DEF LayoutInit, LayoutSerial, OneBusy, Ordered, NoUmbrella
<1>2. LayoutInv /\ LayoutSerial /\ [LayoutNext]_<<layout, work, serial>> => LayoutSerial'
  BY SerialSteps
<1> QED BY <1>1, <1>2, LayoutAlways, PTL DEF LayoutSpec

(* The page knows what the server will make of every move it offers, over  *)
(* whatever beach requests served one at a time can have built: the place  *)
(* it shows is the place the umbrella gets, with the orders left by any    *)
(* moves, removals and restorations before (planUmbrellaMove, applyMove).  *)
THEOREM PreviewKept == LayoutSpec => []PreviewIsMove
PROOF
<1>1. LayoutInv /\ LayoutSerial => PreviewIsMove
  BY ServedAsOffered DEF LayoutInv, LayoutTables, BeachFits, LayoutSerial, PreviewIsMove
<1> QED BY <1>1, LayoutAlways, SerialAlways, PTL

-----------------------------------------------------------------------------
(* The page where umbrellas are moved                                      *)

BeachInv == BeachFits /\ Ordered(umbrella) /\ ActiveIsPlaced /\ ActiveLabelsUnique

PageFits ==
  /\ DOMAIN cache = {"tree", "behind", "read", "early"}
  /\ DOMAIN cache.read = {"phase", "tree", "behind"}
  /\ DOMAIN move = {"of", "phase"}

(* What is known of a tree that has been read.                             *)
Knows(tree, behind) ==
  /\ behind = "nothing" => tree = StructureOf(umbrella)
  /\ behind = "move" =>
       StructureOf(umbrella) = ApplyMove(tree, move.of.u, move.of.row, move.of.position)

TreesKnown ==
  /\ Knows(cache.tree, cache.behind)
  /\ cache.read.phase = "read" => Knows(cache.read.tree, cache.read.behind)

(* The window in which the page shows the move: it opens at the request,   *)
(* and is not closed before the tree that has the move, but by one that    *)
(* overtook the answer.                                                    *)
WindowKept ==
  /\ treeAtWrite \in BOOLEAN
  /\ treeAtWrite => move.phase = "ok"
  /\ (treeAtWrite \/ move.phase = "served") /\ ~ cache.early => cache.behind # "nothing"
  /\ move.phase = "ok" /\ ~ treeAtWrite => cache.behind # "move"
  /\ move.phase = "ok" /\ cache.read.phase = "read" => cache.read.behind # "move"

EditorInv == BeachInv /\ PageFits /\ TreesKnown /\ WindowKept

LEMMA BeachStarts == ASSUME BeachInit PROVE BeachInv
PROOF
<1>1. PICK s \in Sectors, r \in Rows, us \in SUBSET Umbrellas :
        /\ row = [q \in Rows |-> s]
        /\ umbrella \in [Umbrellas -> {NoUmbrella} \cup
                                        { Placed(l, r, l) : l \in Labels \cap 1 .. OnBeach }]
        /\ { u \in Umbrellas : umbrella[u] # NoUmbrella } = us
        /\ \A u, v \in us : u # v => umbrella[u] # umbrella[v]
  BY DEF BeachInit
<1>2. LiveRows = Rows
  BY <1>1, LayoutAssumption DEF LiveRows
<1>3. /\ NoUmbrella.label = 0 /\ NoUmbrella.row = None /\ NoUmbrella.order = 0
      /\ UmbrellaFits(NoUmbrella)
  BY DEF NoUmbrella, UmbrellaFits
<1>4. ASSUME NEW l \in Labels
      PROVE  /\ Placed(l, r, l).label = l /\ Placed(l, r, l).row = r /\ Placed(l, r, l).order = l
             /\ ~ Placed(l, r, l).retired /\ l \in Int /\ l # 0
             /\ UmbrellaFits(Placed(l, r, l))
  BY LayoutAssumption DEF Placed, UmbrellaFits
<1>5. ASSUME NEW u \in Umbrellas
      PROVE  \/ umbrella[u] = NoUmbrella
             \/ u \in us /\ \E l \in Labels : umbrella[u] = Placed(l, r, l)
  BY <1>1
<1>6. BeachFits
  BY <1>1, <1>3, <1>4, <1>5 DEF BeachFits
<1>7. ActiveIsPlaced
  BY <1>2, <1>3, <1>4, <1>5 DEF ActiveIsPlaced, Stored
<1>8. \A u \in Umbrellas : umbrella[u].order \in Int
                           /\ (umbrella[u].label = 0 => umbrella[u].row = None)
  BY <1>3, <1>4, <1>5
<1>9. ASSUME NEW u \in Umbrellas, NEW v \in Umbrellas, u # v,
             umbrella[u].row = umbrella[v].row, umbrella[u].row # None
      PROVE  umbrella[u].order # umbrella[v].order
  <2>1. u \in us /\ v \in us
    BY <1>3, <1>5, <1>9
  <2>2. PICK k \in Labels : umbrella[u] = Placed(k, r, k)
    BY <1>3, <1>5, <1>9
  <2>3. PICK l \in Labels : umbrella[v] = Placed(l, r, l)
    BY <1>3, <1>5, <1>9
  <2>4. k # l
    BY <1>1, <1>9, <2>1, <2>2, <2>3
  <2> QED BY <1>4, <2>2, <2>3, <2>4
<1>10. ActiveLabelsUnique
  <2> SUFFICES ASSUME NEW u \in Active, NEW v \in Active, u # v
               PROVE  umbrella[u].label # umbrella[v].label
    BY DEF ActiveLabelsUnique
  <2>1. /\ u \in Umbrellas /\ v \in Umbrellas
        /\ umbrella[u].label # 0 /\ umbrella[v].label # 0
    BY DEF Active, Stored
  <2>2. PICK k \in Labels : u \in us /\ umbrella[u] = Placed(k, r, k)
    BY <1>3, <1>5, <2>1
  <2>3. PICK l \in Labels : v \in us /\ umbrella[v] = Placed(l, r, l)
    BY <1>3, <1>5, <2>1
  <2>4. k # l
    BY <1>1, <2>2, <2>3
  <2> QED BY <1>4, <2>2, <2>3, <2>4
<1> QED BY <1>6, <1>7, <1>8, <1>9, <1>10 DEF BeachInv, Ordered

(* The server keeps the beach in order.                                    *)
LEMMA MoveKeepsBeach ==
  ASSUME BeachInv, NEW m, MoveOk(m), umbrella' = MoveServed(m), row' = row
  PROVE  BeachInv'
PROOF
<1>1. /\ Ordered(umbrella') /\ OnlyRow(umbrella', m.u, m.row) /\ DOMAIN umbrella' = Umbrellas
      /\ m.u \in Active /\ m.row \in LiveRows
  BY ServedLands DEF BeachInv, MoveOk
<1>2. /\ BeachFits' /\ LiveRows' = LiveRows
      /\ \A v \in Umbrellas :
           /\ umbrella'[v].label = umbrella[v].label
           /\ umbrella'[v].retired = umbrella[v].retired
           /\ umbrella'[v].row = IF v = m.u THEN m.row ELSE umbrella[v].row
  BY <1>1 DEF OnlyRow, BeachFits, LiveRows
<1>3. ActiveIsPlaced'
  <2> SUFFICES ASSUME NEW v \in Stored'
               PROVE  /\ umbrella'[v].retired => umbrella'[v].row = None
                      /\ ~ umbrella'[v].retired => umbrella'[v].row \in LiveRows
    BY <1>2 DEF ActiveIsPlaced
  <2>1. v \in Umbrellas /\ v \in Stored
    BY <1>2 DEF Stored
  <2>2. CASE v = m.u
    BY <1>1, <1>2, <2>1, <2>2 DEF Active
  <2>3. CASE v # m.u
    BY <1>2, <2>1, <2>3 DEF BeachInv, ActiveIsPlaced
  <2> QED BY <2>2, <2>3
<1>4. ActiveLabelsUnique'
  BY <1>2 DEF BeachInv, ActiveLabelsUnique, Active, Stored
<1> QED BY <1>1, <1>2, <1>3, <1>4 DEF BeachInv, Ordered

LEMMA RemovalKeepsBeach ==
  ASSUME BeachInv, NEW u \in Stored, umbrella' = [umbrella EXCEPT ![u] = NoUmbrella], row' = row
  PROVE  BeachInv'
PROOF
<1>1. DOMAIN umbrella' = Umbrellas
      /\ \A v \in Umbrellas : umbrella'[v] = IF v = u THEN NoUmbrella ELSE umbrella[v]
  BY DEF BeachInv, BeachFits
<1>2. /\ NoUmbrella.label = 0 /\ NoUmbrella.row = None /\ NoUmbrella.order = 0
      /\ UmbrellaFits(NoUmbrella)
  BY DEF NoUmbrella, UmbrellaFits
<1>3. BeachFits'
  BY <1>1, <1>2 DEF BeachInv, BeachFits
<1>4. ActiveIsPlaced'
  BY <1>1, <1>2 DEF BeachInv, ActiveIsPlaced, Stored, LiveRows
<1>5. \A v \in Umbrellas : umbrella'[v].order \in Int
                           /\ (umbrella'[v].label = 0 => umbrella'[v].row = None)
  BY <1>1, <1>2 DEF BeachInv, Ordered
<1>6. \A v, y \in Umbrellas :
        v # y /\ umbrella'[v].row = umbrella'[y].row /\ umbrella'[v].row # None
          => umbrella'[v].order # umbrella'[y].order
  BY <1>1, <1>2 DEF BeachInv, Ordered
<1>7. ActiveLabelsUnique'
  BY <1>1, <1>2 DEF BeachInv, ActiveLabelsUnique, Active, Stored
<1> QED BY <1>3, <1>4, <1>5, <1>6, <1>7 DEF BeachInv, Ordered

LEMMA Falls ==
  ASSUME PageFits, NEW how, FallBehind(how)
  PROVE  /\ DOMAIN cache' = {"tree", "behind", "read", "early"}
         /\ DOMAIN cache'.read = {"phase", "tree", "behind"}
         /\ cache'.tree = cache.tree /\ cache'.early = cache.early
         /\ cache'.behind = Later(cache.behind, how)
         /\ cache'.read.phase = cache.read.phase /\ cache'.read.tree = cache.read.tree
         /\ cache.read.phase = "read" => cache'.read.behind = Later(cache.read.behind, how)
PROOF
<1>1. PICK b : b = Later(cache.behind, how)
  OBVIOUS
<1>2. PICK c : c = IF cache.read.phase = "read" THEN Later(cache.read.behind, how)
                   ELSE cache.read.behind
  OBVIOUS
<1>3. cache' = [cache EXCEPT !.behind = b, !.read.behind = c]
  BY <1>1, <1>2, Zenon DEF FallBehind
<1>4. /\ DOMAIN cache' = {"tree", "behind", "read", "early"}
      /\ cache'.tree = cache.tree /\ cache'.early = cache.early /\ cache'.behind = b
      /\ cache'.read = [cache.read EXCEPT !.behind = c]
  BY <1>3 DEF PageFits
<1>5. /\ DOMAIN cache'.read = {"phase", "tree", "behind"}
      /\ cache'.read.phase = cache.read.phase /\ cache'.read.tree = cache.read.tree
      /\ cache'.read.behind = c
  BY <1>4 DEF PageFits
<1> QED BY <1>1, <1>2, <1>4, <1>5

(* A step of the page that asks for a re-read or gives it up.              *)
LEMMA ReadAnew ==
  ASSUME PageFits, NEW x \in {Asked, NoRead}, cache' = [cache EXCEPT !.read = x]
  PROVE  /\ DOMAIN cache' = {"tree", "behind", "read", "early"}
         /\ DOMAIN cache'.read = {"phase", "tree", "behind"}
         /\ cache'.tree = cache.tree /\ cache'.early = cache.early
         /\ cache'.behind = cache.behind /\ cache'.read.phase # "read"
PROOF
<1>1. DOMAIN x = {"phase", "tree", "behind"} /\ x.phase # "read"
  BY DEF Asked, NoRead
<1> QED BY <1>1 DEF PageFits

LEMMA StructureNow ==
  ASSUME NEW t, umbrella' = t, row' = row
  PROVE  StructureOf(umbrella)' = StructureOf(t)
PROOF
<1>1. LiveRows' = LiveRows
  BY DEF LiveRows
<1> QED BY <1>1 DEF StructureOf

LEMMA BeachStands ==
  ASSUME BeachInv, UNCHANGED layout
  PROVE  BeachInv' /\ StructureOf(umbrella)' = StructureOf(umbrella)
PROOF
<1>1. umbrella' = umbrella /\ row' = row
  BY DEF layout
<1>2. PICK t : t = umbrella
  OBVIOUS
<1>3. StructureOf(umbrella)' = StructureOf(umbrella)
  BY <1>1, <1>2, StructureNow
<1>4. BeachInv'
  BY <1>1 DEF BeachInv, BeachFits, Ordered, ActiveIsPlaced, ActiveLabelsUnique, Active,
              Stored, LiveRows
<1> QED BY <1>3, <1>4

LEMMA SubmitMoveKeeps ==
  ASSUME EditorInv, NEW m, SubmitMove(m)
  PROVE  EditorInv'
PROOF
<1>1. BeachInv' /\ StructureOf(umbrella)' = StructureOf(umbrella)
  BY BeachStands DEF EditorInv, SubmitMove
<1>2. PICK b : b = IF cache.behind = "move" THEN "more" ELSE cache.behind
  OBVIOUS
<1>3. PICK c : c = IF cache.read.behind = "move" THEN "more" ELSE cache.read.behind
  OBVIOUS
<1>4. cache' = [cache EXCEPT !.behind = b, !.read.behind = c]
  BY <1>2, <1>3, Zenon DEF SubmitMove
<1>5. /\ DOMAIN cache' = {"tree", "behind", "read", "early"}
      /\ cache'.tree = cache.tree /\ cache'.early = cache.early /\ cache'.behind = b
      /\ cache'.read = [cache.read EXCEPT !.behind = c]
  BY <1>4 DEF EditorInv, PageFits
<1>6. /\ DOMAIN cache'.read = {"phase", "tree", "behind"}
      /\ cache'.read.phase = cache.read.phase /\ cache'.read.tree = cache.read.tree
      /\ cache'.read.behind = c
  BY <1>5 DEF EditorInv, PageFits
<1>7. /\ DOMAIN move' = {"of", "phase"} /\ move'.phase = "sent" /\ treeAtWrite' = FALSE
  BY DEF SubmitMove
<1>8. b # "move" /\ c # "move" /\ (b = "nothing" => cache.behind = "nothing")
      /\ (c = "nothing" => cache.read.behind = "nothing")
  BY <1>2, <1>3
<1>9. TreesKnown'
  BY <1>1, <1>5, <1>6, <1>8 DEF TreesKnown, Knows, EditorInv
<1>10. WindowKept'
  BY <1>7 DEF WindowKept
<1>11. PageFits'
  BY <1>5, <1>6, <1>7 DEF PageFits
<1> QED BY <1>1, <1>9, <1>10, <1>11 DEF EditorInv

LEMMA ServeMoveKeeps ==
  ASSUME EditorInv, ServeMove
  PROVE  EditorInv'
PROOF
<1>1. CASE /\ MoveOk(move.of)
           /\ umbrella' = MoveServed(move.of)
           /\ move' = [move EXCEPT !.phase = "served"]
           /\ FallBehind("move")
  <2>1. row' = row /\ treeAtWrite' = treeAtWrite /\ move.phase = "sent"
    BY DEF ServeMove
  <2>2. PICK t : t = MoveServed(move.of)
    OBVIOUS
  <2>3. /\ BeachInv'
        /\ StructureOf(umbrella)' =
             ApplyMove(StructureOf(umbrella), move.of.u, move.of.row, move.of.position)
    <3>1. PICK m : m = move.of
      OBVIOUS
    <3>2. BeachInv'
      BY <1>1, <2>1, <3>1, MoveKeepsBeach DEF EditorInv
    <3>3. StructureOf(t) = ApplyMove(StructureOf(umbrella), m.u, m.row, m.position)
      BY <1>1, <2>2, <3>1, ServedLands DEF EditorInv, BeachInv
    <3>4. StructureOf(umbrella)' = StructureOf(t)
      BY <1>1, <2>1, <2>2, StructureNow
    <3> QED BY <3>1, <3>2, <3>3, <3>4
  <2>4. DOMAIN move' = {"of", "phase"} /\ move'.of = move.of /\ move'.phase = "served"
    BY <1>1 DEF EditorInv, PageFits
  <2>5. /\ DOMAIN cache' = {"tree", "behind", "read", "early"}
        /\ DOMAIN cache'.read = {"phase", "tree", "behind"}
        /\ cache'.tree = cache.tree /\ cache'.early = cache.early
        /\ cache'.behind = Later(cache.behind, "move")
        /\ cache'.read.phase = cache.read.phase /\ cache'.read.tree = cache.read.tree
        /\ cache.read.phase = "read" => cache'.read.behind = Later(cache.read.behind, "move")
    BY <1>1, Falls DEF EditorInv
  <2>6. \A b : /\ Later(b, "move") # "nothing"
               /\ Later(b, "move") = "move" => b = "nothing"
    BY DEF Later
  <2>7. TreesKnown'
    BY <2>3, <2>4, <2>5, <2>6 DEF TreesKnown, Knows, EditorInv
  <2>8. WindowKept'
    BY <2>1, <2>4, <2>5, <2>6 DEF WindowKept, EditorInv
  <2>9. PageFits'
    BY <2>4, <2>5 DEF PageFits
  <2> QED BY <2>3, <2>7, <2>8, <2>9 DEF EditorInv
<1>2. CASE /\ move' = [move EXCEPT !.phase = "refused"]
           /\ UNCHANGED <<umbrella, cache>>
  <2>1. layout' = layout /\ treeAtWrite' = treeAtWrite /\ move.phase = "sent" /\ cache' = cache
    BY <1>2 DEF ServeMove, layout
  <2>2. BeachInv' /\ StructureOf(umbrella)' = StructureOf(umbrella)
    BY <2>1, BeachStands DEF EditorInv
  <2>3. DOMAIN move' = {"of", "phase"} /\ move'.of = move.of /\ move'.phase = "refused"
    BY <1>2 DEF EditorInv, PageFits
  <2>4. TreesKnown'
    BY <2>1, <2>2, <2>3 DEF TreesKnown, Knows, EditorInv
  <2>5. WindowKept' /\ PageFits'
    BY <2>1, <2>3 DEF WindowKept, EditorInv, PageFits
  <2> QED BY <2>2, <2>4, <2>5 DEF EditorInv
<1> QED BY <1>1, <1>2 DEF ServeMove

LEMMA ServeOtherKeeps ==
  ASSUME EditorInv, ServeOther
  PROVE  EditorInv'
PROOF
<1>1. row' = row /\ treeAtWrite' = treeAtWrite /\ move' = move
  BY DEF ServeOther
<1>2. BeachInv'
  <2>1. ASSUME NEW m \in Offers(StructureOf(umbrella)), umbrella' = MoveServed(m)
        PROVE  BeachInv'
    <3>1. MoveOk(m)
      BY ServedAsOffered DEF EditorInv, BeachInv
    <3> QED BY <1>1, <2>1, <3>1, MoveKeepsBeach DEF EditorInv
  <2>2. ASSUME NEW u \in Stored, umbrella' = [umbrella EXCEPT ![u] = NoUmbrella]
        PROVE  BeachInv'
    BY <1>1, <2>2, RemovalKeepsBeach DEF EditorInv
  <2> QED BY <2>1, <2>2 DEF ServeOther
<1>3. /\ DOMAIN cache' = {"tree", "behind", "read", "early"}
      /\ DOMAIN cache'.read = {"phase", "tree", "behind"}
      /\ cache'.tree = cache.tree /\ cache'.early = cache.early
      /\ cache'.behind = Later(cache.behind, "more")
      /\ cache'.read.phase = cache.read.phase /\ cache'.read.tree = cache.read.tree
      /\ cache.read.phase = "read" => cache'.read.behind = Later(cache.read.behind, "more")
  BY Falls DEF EditorInv, ServeOther
<1>4. \A b : Later(b, "more") = "more"
  BY DEF Later
<1>5. TreesKnown'
  BY <1>3, <1>4 DEF TreesKnown, Knows
<1>6. WindowKept'
  BY <1>1, <1>3, <1>4 DEF WindowKept, EditorInv
<1>7. PageFits'
  BY <1>1, <1>3 DEF PageFits, EditorInv
<1> QED BY <1>2, <1>5, <1>6, <1>7 DEF EditorInv

LEMMA AnswerMoveKeeps ==
  ASSUME EditorInv, AnswerMove
  PROVE  EditorInv'
PROOF
<1>1. BeachInv' /\ StructureOf(umbrella)' = StructureOf(umbrella)
  BY BeachStands DEF EditorInv, AnswerMove
<1>2. /\ DOMAIN cache' = {"tree", "behind", "read", "early"}
      /\ DOMAIN cache'.read = {"phase", "tree", "behind"}
      /\ cache'.tree = cache.tree /\ cache'.early = cache.early
      /\ cache'.behind = cache.behind /\ cache'.read.phase # "read"
  BY ReadAnew DEF EditorInv, AnswerMove
<1>3. /\ DOMAIN move' = {"of", "phase"} /\ move'.of = move.of
      /\ \/ move.phase = "served" /\ move'.phase = "ok" /\ treeAtWrite' = TRUE
         \/ move'.phase = "no" /\ treeAtWrite' = treeAtWrite
      /\ move.phase # "ok"
  <2>1. CASE move' = [move EXCEPT !.phase = "ok"] /\ move.phase = "served" /\ treeAtWrite' = TRUE
    BY <2>1 DEF EditorInv, PageFits
  <2>2. CASE move' = [move EXCEPT !.phase = "no"] /\ UNCHANGED treeAtWrite
    BY <2>2 DEF AnswerMove, Pending, EditorInv, PageFits
  <2>3. \/ move' = [move EXCEPT !.phase = "ok"] /\ move.phase = "served" /\ treeAtWrite' = TRUE
        \/ move' = [move EXCEPT !.phase = "no"] /\ UNCHANGED treeAtWrite
    BY Zenon DEF AnswerMove
  <2> QED BY <2>1, <2>2, <2>3, Zenon
<1>4. TreesKnown'
  BY <1>1, <1>2, <1>3 DEF TreesKnown, Knows, EditorInv
<1>5. WindowKept'
  <2>1. CASE move.phase = "served" /\ move'.phase = "ok" /\ treeAtWrite' = TRUE
    BY <1>2, <2>1 DEF WindowKept, EditorInv
  <2>2. CASE move'.phase = "no" /\ treeAtWrite' = treeAtWrite
    <3>1. treeAtWrite = FALSE
      BY <1>3 DEF WindowKept, EditorInv
    <3>2. treeAtWrite' = FALSE
      BY <2>2, <3>1
    <3> QED BY <2>2, <3>2 DEF WindowKept
  <2> QED BY <1>3, <2>1, <2>2
<1> QED BY <1>1, <1>2, <1>3, <1>4, <1>5 DEF EditorInv, PageFits

(* The re-read.                                                            *)
LEMMA ReadKeeps ==
  ASSUME EditorInv, StartRead \/ ReadTree \/ ReadFails
  PROVE  EditorInv'
PROOF
<1>1. BeachInv' /\ StructureOf(umbrella)' = StructureOf(umbrella)
  BY BeachStands DEF EditorInv, StartRead, ReadTree, ReadFails
<1>2. move' = move /\ treeAtWrite' = treeAtWrite
  BY DEF StartRead, ReadTree, ReadFails
<1>3. /\ DOMAIN cache' = {"tree", "behind", "read", "early"}
      /\ DOMAIN cache'.read = {"phase", "tree", "behind"}
      /\ cache'.tree = cache.tree /\ cache'.early = cache.early
      /\ cache'.behind = cache.behind
      /\ cache'.read.phase = "read" =>
           cache'.read.behind = "nothing" /\ cache'.read.tree = StructureOf(umbrella)
  <2>1. CASE StartRead \/ ReadFails
    BY <2>1, ReadAnew DEF EditorInv, StartRead, ReadFails
  <2>2. CASE ReadTree
    <3>1. PICK t : t = StructureOf(umbrella)
      OBVIOUS
    <3>2. cache' = [cache EXCEPT !.read = [phase |-> "read", tree |-> t, behind |-> "nothing"]]
      BY <2>2, <3>1 DEF ReadTree
    <3> QED BY <3>1, <3>2 DEF EditorInv, PageFits
  <2> QED BY <2>1, <2>2
<1>4. TreesKnown'
  BY <1>1, <1>2, <1>3 DEF TreesKnown, Knows, EditorInv
<1>5. WindowKept'
  BY <1>2, <1>3 DEF WindowKept, EditorInv
<1> QED BY <1>1, <1>2, <1>3, <1>4, <1>5 DEF EditorInv, PageFits

LEMMA LandTreeKeeps ==
  ASSUME EditorInv, LandTree
  PROVE  EditorInv'
PROOF
<1>1. BeachInv' /\ StructureOf(umbrella)' = StructureOf(umbrella)
  BY BeachStands DEF EditorInv, LandTree
<1>2. /\ move' = move /\ treeAtWrite' = FALSE /\ cache.read.phase = "read"
      /\ DOMAIN cache' = {"tree", "behind", "read", "early"}
      /\ cache'.tree = cache.read.tree /\ cache'.behind = cache.read.behind
      /\ cache'.read = NoRead
      /\ cache'.early = (move.phase = "served" /\ cache.read.behind = "nothing")
  BY DEF LandTree
<1>3. DOMAIN NoRead = {"phase", "tree", "behind"} /\ NoRead.phase # "read"
  BY DEF NoRead
<1>4. TreesKnown'
  BY <1>1, <1>2, <1>3 DEF TreesKnown, Knows, EditorInv
<1>5. WindowKept'
  BY <1>2, <1>3 DEF WindowKept, EditorInv
<1> QED BY <1>1, <1>2, <1>3, <1>4, <1>5 DEF EditorInv, PageFits

LEMMA EditorSteps ==
  ASSUME EditorInv, [EditorNext]_<<layout, page, work, serial>>
  PROVE  EditorInv'
PROOF
<1>1. CASE RequestMove \/ ConfirmMove
  BY <1>1, SubmitMoveKeeps DEF RequestMove, ConfirmMove
<1>2. CASE UNCHANGED <<layout, page, work, serial>>
  <2>1. /\ BeachInv' /\ StructureOf(umbrella)' = StructureOf(umbrella)
        /\ cache' = cache /\ move' = move /\ treeAtWrite' = treeAtWrite
    BY <1>2, BeachStands DEF EditorInv, page
  <2> QED BY <2>1 DEF EditorInv, PageFits, TreesKnown, Knows, WindowKept
<1> QED BY <1>1, <1>2, ServeMoveKeeps, ServeOtherKeeps, AnswerMoveKeeps, ReadKeeps,
           LandTreeKeeps DEF EditorNext

LEMMA EditorAlways == EditorSpec => []EditorInv
PROOF
<1>1. BeachInit /\ PageInit => EditorInv
  <2> SUFFICES ASSUME BeachInit, PageInit PROVE EditorInv
    OBVIOUS
  <2>1. BeachInv
    BY BeachStarts
  <2>2. /\ DOMAIN cache = {"tree", "behind", "read", "early"} /\ cache.behind = "nothing"
        /\ cache.tree = StructureOf(umbrella) /\ cache.read = NoRead
        /\ move = NoMutation /\ treeAtWrite = FALSE
    BY DEF PageInit
  <2>3. /\ DOMAIN NoRead = {"phase", "tree", "behind"} /\ NoRead.phase # "read"
        /\ DOMAIN NoMutation = {"of", "phase"} /\ NoMutation.phase = "no"
    BY DEF NoRead, NoMutation
  <2> QED BY <2>1, <2>2, <2>3 DEF EditorInv, PageFits, TreesKnown, Knows, WindowKept
<1>2. EditorInv /\ [EditorNext]_<<layout, page, work, serial>> => EditorInv'
  BY EditorSteps
<1> QED BY <1>1, <1>2, PTL DEF EditorSpec

(* From the acceptance of a move the page shows what the server has, on    *)
(* through the re-read, and after a refusal what it last read: whatever    *)
(* re-reads start, fail or overtake one another, and other changes meet    *)
(* the move, for any number of rows and umbrellas (previewSectors,         *)
(* isMoveSettling).                                                        *)
THEOREM MoveShownAsServed == EditorSpec => []ShownAsServed
PROOF
<1>1. EditorInv => ShownAsServed
  <2> SUFFICES ASSUME EditorInv PROVE ShownAsServed
    OBVIOUS
  <2>1. move.phase = "ok" \/ move.phase = "no" => ~ Pending
    BY DEF Pending
  <2>2. ASSUME move.phase = "ok", cache.behind \in {"nothing", "move"}, ~ cache.early
        PROVE  Shown = StructureOf(umbrella)
    <3>1. CASE treeAtWrite
      BY <2>1, <2>2, <3>1 DEF Shown, MoveSettling, EditorInv, WindowKept, TreesKnown, Knows
    <3>2. CASE ~ treeAtWrite
      BY <2>1, <2>2, <3>2 DEF Shown, MoveSettling, EditorInv, WindowKept, TreesKnown, Knows
    <3> QED BY <3>1, <3>2
  <2>3. ASSUME move.phase = "no" PROVE Shown = cache.tree
    BY <2>1, <2>3 DEF Shown, MoveSettling, EditorInv, WindowKept
  <2> QED BY <2>2, <2>3 DEF ShownAsServed
<1> QED BY <1>1, EditorAlways, PTL

(* And it knows of every move it offers there what the server will make of *)
(* it, on the beach that moves and removals leave.                         *)
THEOREM EditorPreviews == EditorSpec => []PreviewIsMove
PROOF
<1>1. EditorInv => PreviewIsMove
  BY ServedAsOffered DEF EditorInv, BeachInv, PreviewIsMove
<1> QED BY <1>1, EditorAlways, PTL

-----------------------------------------------------------------------------
(* The rates                                                               *)

(* Rate_signature_key: no two rates are the same.                          *)
SignaturesDiffer ==
  \A i \in StoredRates : \A j \in StoredRates \ {i} : rate[i] # rate[j]

RatesInv == RatesTypeOK /\ RateScopeKept /\ SignaturesDiffer

LEMMA RateWritten ==
  ASSUME RatesInv, NEW i \in RateIds, NEW r \in RateRow, WriteRate(i, r)
  PROVE  RatesInv'
<1>1. /\ rate' = [rate EXCEPT ![i] = r] /\ wanted' = [wanted EXCEPT ![i] = r]
      /\ \A d \in Dimensions : r.scope[d] \in place \cup {None}
      /\ ~ SignatureTaken(i, r)
      /\ Alone /\ UNCHANGED <<place, work>>
  BY DEF WriteRate
<1>2. /\ rate' \in [RateIds -> RateRow \cup {None}]
      /\ wanted' \in [RateIds -> RateRow \cup {None}]
      /\ rate'[i] = r /\ \A j \in RateIds \ {i} : rate'[j] = rate[j]
      /\ StoredRates' \subseteq StoredRates \cup {i}
  BY <1>1 DEF RatesInv, RatesTypeOK, StoredRates
<1>3. \A j \in StoredRates', d \in Dimensions : rate'[j].scope[d] \in place' \cup {None}
  BY <1>1, <1>2 DEF RatesInv, RatesTypeOK
<1>4. RatesTypeOK'
  BY <1>1, <1>2, <1>3, RequestAlone DEF RatesInv, RatesTypeOK
<1>5. RateScopeKept'
  BY <1>1 DEF RatesInv, RateScopeKept
<1>6. SignaturesDiffer'
  <2> SUFFICES ASSUME NEW j \in StoredRates', NEW k \in StoredRates' \ {j}
               PROVE  rate'[j] # rate'[k]
    BY DEF SignaturesDiffer
  <2>1. j \in RateIds /\ k \in RateIds
    BY DEF StoredRates
  <2>2. CASE j # i /\ k # i
    BY <1>2, <2>1, <2>2 DEF RatesInv, SignaturesDiffer
  <2>3. CASE j = i
    BY <1>1, <1>2, <2>1, <2>3 DEF SignatureTaken
  <2>4. CASE k = i
    BY <1>1, <1>2, <2>1, <2>4 DEF SignatureTaken
  <2> QED
    BY <2>2, <2>3, <2>4
<1> QED
  BY <1>4, <1>5, <1>6 DEF RatesInv

LEMMA CreateRateKeeps ==
  ASSUME RatesInv, NEW i \in RateIds, CreateRate(i)
  PROVE  RatesInv'
<1>1. PICK t \in BookingTypes \cup {None}, s \in Scopes, p \in Periods :
        WriteRate(i, [type |-> t, scope |-> s, period |-> p])
  BY DEF CreateRate
<1> DEFINE r == [type |-> t, scope |-> s, period |-> p]
<1>2. r \in RateRow
  BY DEF RateRow, Scopes
<1> HIDE DEF r
<1> QED
  BY <1>1, <1>2, RateWritten DEF r

LEMMA UpdateRateKeeps ==
  ASSUME RatesInv, NEW i \in RateIds, UpdateRate(i)
  PROVE  RatesInv'
<1>1. rate[i] \in RateRow
  BY DEF UpdateRate, StoredRates, RatesInv, RatesTypeOK
<1>2. /\ \A t \in BookingTypes \cup {None} : [rate[i] EXCEPT !.type = t] \in RateRow
      /\ \A s \in Scopes : [rate[i] EXCEPT !.scope = s] \in RateRow
      /\ \A p \in Periods : [rate[i] EXCEPT !.period = p] \in RateRow
  BY <1>1 DEF RateRow, Scopes
<1>3. \E r \in RateRow : WriteRate(i, r)
  BY <1>2 DEF UpdateRate
<1> QED
  BY <1>3, RateWritten

LEMMA RemoveRateKeeps ==
  ASSUME RatesInv, NEW i \in RateIds, RemoveRate(i)
  PROVE  RatesInv'
<1>1. /\ rate' = [rate EXCEPT ![i] = None] /\ wanted' = [wanted EXCEPT ![i] = None]
      /\ Alone /\ UNCHANGED <<place, work>>
  BY DEF RemoveRate
<1>2. /\ rate' \in [RateIds -> RateRow \cup {None}]
      /\ wanted' \in [RateIds -> RateRow \cup {None}]
      /\ \A j \in StoredRates' : rate'[j] = rate[j] /\ j \in StoredRates
  BY <1>1 DEF RatesInv, RatesTypeOK, StoredRates
<1>3. RatesTypeOK'
  BY <1>1, <1>2, RequestAlone DEF RatesInv, RatesTypeOK
<1> QED
  BY <1>1, <1>2, <1>3 DEF RatesInv, RateScopeKept, SignaturesDiffer

(* The tables of the rates stay, and no place that a rate names goes away. *)
LEMMA PlacesKeep ==
  ASSUME RatesInv, UNCHANGED <<rate, wanted>>, place' \subseteq Places,
         \A i \in StoredRates, d \in Dimensions : rate[i].scope[d] \in place' \cup {None},
         work' \in [Workers -> PlaceRequest \cup {NoRequest}], serial' \in BOOLEAN
  PROVE  RatesInv'
  BY DEF RatesInv, RatesTypeOK, RateScopeKept, SignaturesDiffer, StoredRates

LEMMA PlaceStepKeeps ==
  ASSUME RatesInv, NEW w \in Workers,
         \/ RemovePlaceCheck(w) \/ RemovePlaceWrite(w) \/ (Abort(w) /\ UNCHANGED rates)
  PROVE  RatesInv'
<1>1. CASE RemovePlaceCheck(w)
  <2>1. PICK p \in Places : Begin(w, [op |-> "removePlace", p |-> p])
    BY <1>1 DEF RemovePlaceCheck, RatesInv, RatesTypeOK
  <2>2. /\ work' \in [Workers -> PlaceRequest \cup {NoRequest}] /\ serial' \in BOOLEAN
    BY <2>1 DEF Begin, Alone, Idle, PlaceRequest, RatesInv, RatesTypeOK
  <2> QED
    BY <1>1, <2>2, PlacesKeep DEF RemovePlaceCheck, rates, RatesInv, RatesTypeOK
<1>2. ASSUME Finish(w)
      PROVE  work' \in [Workers -> PlaceRequest \cup {NoRequest}] /\ serial' \in BOOLEAN
  BY <1>2 DEF Finish, RatesInv, RatesTypeOK
<1>3. CASE RemovePlaceWrite(w)
  <2>1. /\ place' = place \ {work[w].p} /\ UNCHANGED <<rate, wanted>> /\ Finish(w)
        /\ \A i \in StoredRates : ~ Names(rate[i], work[w].p)
    BY <1>3 DEF RemovePlaceWrite
  <2>2. \A i \in StoredRates, d \in Dimensions : rate[i].scope[d] \in place' \cup {None}
    BY <2>1 DEF Names, RatesInv, RatesTypeOK
  <2> QED
    BY <1>2, <2>1, <2>2, PlacesKeep DEF RatesInv, RatesTypeOK
<1>4. CASE Abort(w) /\ UNCHANGED rates
  BY <1>2, <1>4, PlacesKeep DEF Abort, rates, RatesInv, RatesTypeOK
<1> QED
  BY <1>1, <1>3, <1>4

LEMMA RatesStart ==
  RatesInit /\ work = [w \in Workers |-> NoRequest] /\ serial = TRUE => RatesInv
  BY DEF RatesInit, RatesInv, RatesTypeOK, RateScopeKept, SignaturesDiffer, StoredRates

LEMMA RatesStep ==
  ASSUME RatesInv, [RatesNext]_<<rates, work, serial>>
  PROVE  RatesInv'
<1>1. ASSUME NEW p \in Places, CreatePlace(p) PROVE RatesInv'
  BY <1>1, PlacesKeep, RequestAlone DEF CreatePlace, RatesInv, RatesTypeOK
<1>2. CASE UNCHANGED <<rates, work, serial>>
  BY <1>2, PlacesKeep DEF rates, RatesInv, RatesTypeOK
<1>3. ASSUME NEW i \in RateIds, CreateRate(i) \/ UpdateRate(i) \/ RemoveRate(i)
      PROVE  RatesInv'
  BY <1>3, CreateRateKeeps, UpdateRateKeeps, RemoveRateKeeps
<1>4. ASSUME NEW w \in Workers,
             \/ RemovePlaceCheck(w) \/ RemovePlaceWrite(w) \/ (Abort(w) /\ UNCHANGED rates)
      PROVE  RatesInv'
  BY <1>4, PlaceStepKeeps
<1> QED
  BY <1>1, <1>2, <1>3, <1>4 DEF RatesNext

LEMMA RatesAlways == RatesSpec => []RatesInv
  BY RatesStart, RatesStep, PTL DEF RatesSpec

(* Whatever rates are written between the count of remove and the removal, *)
(* a rate names what it was written with, and that is there.               *)
THEOREM RatesKeepTheirScope ==
  RatesSpec =>
    [](/\ RateScopeKept
       /\ \A i \in StoredRates, d \in Dimensions : rate[i].scope[d] \in place \cup {None})
<1>1. RatesInv =>
        /\ RateScopeKept
        /\ \A i \in StoredRates, d \in Dimensions : rate[i].scope[d] \in place \cup {None}
  BY DEF RatesInv, RatesTypeOK
<1> QED
  BY <1>1, RatesAlways, PTL

(* Of two rates that differ in specificity one is the more specific.       *)
LEMMA Ranked ==
  ASSUME NEW a, NEW b, ~ MoreSpecific(a, b), ~ MoreSpecific(b, a)
  PROVE  \A i \in 1 .. 6 : Specificity(a)[i] = Specificity(b)[i]
<1> DEFINE sa == Specificity(a)
           sb == Specificity(b)
<1>1. \A i \in 1 .. 6 : sa[i] \in BOOLEAN /\ sb[i] \in BOOLEAN
  <2>1. ASSUME NEW r, NEW i \in 1 .. 6 PROVE Specificity(r)[i] \in BOOLEAN
    <3>1. i = 1 \/ i = 2 \/ i = 3 \/ i = 4 \/ i = 5 \/ i = 6
      OBVIOUS
    <3>2. CASE i = 1  BY <3>2 DEF Specificity
    <3>3. CASE i = 2  BY <3>3 DEF Specificity
    <3>4. CASE i = 3  BY <3>4 DEF Specificity
    <3>5. CASE i = 4  BY <3>5 DEF Specificity
    <3>6. CASE i = 5  BY <3>6 DEF Specificity
    <3>7. CASE i = 6  BY <3>7 DEF Specificity
    <3> QED
      BY <3>1, <3>2, <3>3, <3>4, <3>5, <3>6, <3>7
  <2> QED
    BY <2>1
<1> HIDE DEF sa, sb
<1>2. \A i \in 1 .. 6 : (\A j \in 1 .. i - 1 : sa[j] = sb[j]) => sa[i] = sb[i]
  BY <1>1 DEF MoreSpecific, sa, sb
<1>3. sa[1] = sb[1]
  BY <1>2
<1>4. sa[2] = sb[2]
  BY <1>2, <1>3
<1>5. sa[3] = sb[3]
  BY <1>2, <1>3, <1>4
<1>6. sa[4] = sb[4]
  BY <1>2, <1>3, <1>4, <1>5
<1>7. sa[5] = sb[5]
  BY <1>2, <1>3, <1>4, <1>5, <1>6
<1>8. sa[6] = sb[6]
  BY <1>2, <1>3, <1>4, <1>5, <1>6, <1>7
<1> QED
  BY <1>3, <1>4, <1>5, <1>6, <1>7, <1>8 DEF sa, sb

LEMMA MoreSpecificOneWay ==
  ASSUME NEW a, NEW b, MoreSpecific(a, b)
  PROVE  ~ MoreSpecific(b, a)
<1> DEFINE sa == Specificity(a)
           sb == Specificity(b)
<1>1. PICK i \in 1 .. 6 : sa[i] /\ ~ sb[i] /\ \A j \in 1 .. i - 1 : sa[j] = sb[j]
  BY DEF MoreSpecific
<1> SUFFICES ASSUME NEW k \in 1 .. 6, sb[k], ~ sa[k], \A j \in 1 .. k - 1 : sb[j] = sa[j]
             PROVE  FALSE
  BY DEF MoreSpecific
<1> HIDE DEF sa, sb
<1>2. i < k \/ k < i \/ i = k
  OBVIOUS
<1>3. CASE i < k
  BY <1>1, <1>3
<1>4. CASE k < i
  BY <1>1, <1>4
<1> QED
  BY <1>1, <1>2, <1>3, <1>4

(* Two rates that price a stay and are as specific as each other are the   *)
(* same, if their periods are the same or apart.                           *)
LEMMA SameSpecificity ==
  ASSUME NEW a \in RateRow, NEW b \in RateRow, NEW ctx \in Stays,
         IsApplicable(ctx, a), IsApplicable(ctx, b), PeriodsApart(a.period, b.period),
         \A i \in 1 .. 6 : Specificity(a)[i] = Specificity(b)[i]
  PROVE  a = b
<1>1. /\ (a.period.start # 0) = (b.period.start # 0)
      /\ (a.scope["row"] # None) = (b.scope["row"] # None)
      /\ (a.scope["sector"] # None) = (b.scope["sector"] # None)
      /\ (a.scope["package"] # None) = (b.scope["package"] # None)
      /\ (a.scope["slot"] # None) = (b.scope["slot"] # None)
      /\ (a.type # None) = (b.type # None)
  <2> DEFINE sa == Specificity(a)
             sb == Specificity(b)
  <2>1. sa[1] = sb[1] /\ sa[2] = sb[2] /\ sa[3] = sb[3] /\ sa[4] = sb[4] /\ sa[5] = sb[5] /\ sa[6] = sb[6]
    OBVIOUS
  <2> QED
    BY <2>1 DEF Specificity
<1>2. a.type = b.type
  BY <1>1 DEF IsApplicable
<1>3. a.scope = b.scope
  <2>1. \A d \in Dimensions : a.scope[d] = b.scope[d]
    BY <1>1 DEF IsApplicable, Dimensions
  <2> QED
    BY <2>1 DEF RateRow
<1>4. a.period = b.period
  <2>1. /\ ctx.start \in Nat /\ ctx.end \in Nat /\ ctx.start <= ctx.end
    <3>1. PICK day \in [start: StayDays, end: StayDays] :
            day.start <= day.end /\ ctx.start = day.start /\ ctx.end = day.end
      BY DEF Stays
    <3>2. StayDays \subseteq Nat
      BY RatesAssumption DEF StayDays
    <3> QED
      BY <3>1, <3>2
  <2>2. /\ a.period.start \in Nat /\ a.period.end \in Nat
        /\ b.period.start \in Nat /\ b.period.end \in Nat
    BY RatesAssumption DEF RateRow
  <2> QED
    BY <1>1, <2>1, <2>2 DEF IsApplicable, PeriodsApart
<1> QED
  BY <1>2, <1>3, <1>4 DEF RateRow

(* A rate that none is more specific than: of the candidates those that    *)
(* are specific in the first dimension, if there are, and so on.           *)
LEMMA BestExists ==
  ASSUME NEW ctx, NEW ids, Applicable(ctx, ids) # {}
  PROVE  \E k \in Applicable(ctx, ids) :
           \A l \in Applicable(ctx, ids) : ~ MoreSpecific(rate[ids[l]], rate[ids[k]])
<1> DEFINE B(k, i) == Specificity(rate[ids[k]])[i]
           S0 == Applicable(ctx, ids)
           S1 == IF \E k \in S0 : B(k, 1) THEN { k \in S0 : B(k, 1) } ELSE S0
           S2 == IF \E k \in S1 : B(k, 2) THEN { k \in S1 : B(k, 2) } ELSE S1
           S3 == IF \E k \in S2 : B(k, 3) THEN { k \in S2 : B(k, 3) } ELSE S2
           S4 == IF \E k \in S3 : B(k, 4) THEN { k \in S3 : B(k, 4) } ELSE S3
           S5 == IF \E k \in S4 : B(k, 5) THEN { k \in S4 : B(k, 5) } ELSE S4
           S6 == IF \E k \in S5 : B(k, 6) THEN { k \in S5 : B(k, 6) } ELSE S5
<1> HIDE DEF B
<1>1. /\ S1 # {} /\ S1 \subseteq S0
      /\ \A k \in S1, l \in S0 : (B(l, 1) => B(k, 1)) /\ (B(l, 1) = B(k, 1) => l \in S1)
  OBVIOUS
<1> HIDE DEF S1
<1>2. /\ S2 # {} /\ S2 \subseteq S1
      /\ \A k \in S2, l \in S1 : (B(l, 2) => B(k, 2)) /\ (B(l, 2) = B(k, 2) => l \in S2)
  BY <1>1
<1> HIDE DEF S2
<1>3. /\ S3 # {} /\ S3 \subseteq S2
      /\ \A k \in S3, l \in S2 : (B(l, 3) => B(k, 3)) /\ (B(l, 3) = B(k, 3) => l \in S3)
  BY <1>2
<1> HIDE DEF S3
<1>4. /\ S4 # {} /\ S4 \subseteq S3
      /\ \A k \in S4, l \in S3 : (B(l, 4) => B(k, 4)) /\ (B(l, 4) = B(k, 4) => l \in S4)
  BY <1>3
<1> HIDE DEF S4
<1>5. /\ S5 # {} /\ S5 \subseteq S4
      /\ \A k \in S5, l \in S4 : (B(l, 5) => B(k, 5)) /\ (B(l, 5) = B(k, 5) => l \in S5)
  BY <1>4
<1> HIDE DEF S5
<1>6. /\ S6 # {} /\ S6 \subseteq S5
      /\ \A k \in S6, l \in S5 : (B(l, 6) => B(k, 6))
  BY <1>5
<1> HIDE DEF S6
<1>7. PICK k \in S6 : TRUE
  BY <1>6
<1>8. k \in S0 /\ k \in S1 /\ k \in S2 /\ k \in S3 /\ k \in S4 /\ k \in S5
  BY <1>1, <1>2, <1>3, <1>4, <1>5, <1>6
<1>9. ASSUME NEW l \in S0, MoreSpecific(rate[ids[l]], rate[ids[k]])
      PROVE  FALSE
  <2>1. PICK i \in 1 .. 6 : B(l, i) /\ ~ B(k, i) /\ \A j \in 1 .. i - 1 : B(l, j) = B(k, j)
    BY <1>9 DEF MoreSpecific, B
  <2>2. i > 1 => l \in S1
    BY <1>1, <1>8, <2>1
  <2>3. i > 2 => l \in S2
    BY <1>2, <1>8, <2>1, <2>2
  <2>4. i > 3 => l \in S3
    BY <1>3, <1>8, <2>1, <2>3
  <2>5. i > 4 => l \in S4
    BY <1>4, <1>8, <2>1, <2>4
  <2>6. i > 5 => l \in S5
    BY <1>5, <1>8, <2>1, <2>5
  <2>7. i = 1 \/ i = 2 \/ i = 3 \/ i = 4 \/ i = 5 \/ i = 6
    OBVIOUS
  <2> QED
    BY <1>1, <1>2, <1>3, <1>4, <1>5, <1>6, <1>7, <1>8, <2>1, <2>2, <2>3, <2>4, <2>5, <2>6, <2>7
<1> QED
  BY <1>8, <1>9

(* The rates in any order: one of them is more specific than all others    *)
(* that price the stay.                                                    *)
LEMMA OneBest ==
  ASSUME RatesInv, \A i, j \in StoredRates : PeriodsApart(rate[i].period, rate[j].period),
         NEW ctx \in Stays, NEW s \in Orders, Applicable(ctx, s) # {}
  PROVE  /\ ResolvePrice(ctx, s) \in StoredRates
         /\ IsApplicable(ctx, rate[ResolvePrice(ctx, s)])
         /\ \A j \in StoredRates \ {ResolvePrice(ctx, s)} :
              IsApplicable(ctx, rate[j]) => MoreSpecific(rate[ResolvePrice(ctx, s)], rate[j])
<1>1. /\ \A k \in DOMAIN s : s[k] \in StoredRates
      /\ \A k, l \in DOMAIN s : s[k] = s[l] => k = l
      /\ \A j \in StoredRates : \E k \in DOMAIN s : s[k] = j
  BY DEF Orders, Bijection, Injection, Surjection, IsInjective
<1>2. \A i, j \in StoredRates :
        i # j /\ IsApplicable(ctx, rate[i]) /\ IsApplicable(ctx, rate[j])
          => MoreSpecific(rate[i], rate[j]) \/ MoreSpecific(rate[j], rate[i])
  <2> SUFFICES ASSUME NEW i \in StoredRates, NEW j \in StoredRates, i # j,
                      IsApplicable(ctx, rate[i]), IsApplicable(ctx, rate[j]),
                      ~ MoreSpecific(rate[i], rate[j]), ~ MoreSpecific(rate[j], rate[i])
               PROVE  FALSE
    OBVIOUS
  <2>1. rate[i] \in RateRow /\ rate[j] \in RateRow
    BY DEF StoredRates, RatesInv, RatesTypeOK
  <2>2. rate[i] = rate[j]
    BY <2>1, Ranked, SameSpecificity
  <2> QED
    BY <2>2 DEF RatesInv, SignaturesDiffer
<1>3. PICK k \in Applicable(ctx, s) :
        \A l \in Applicable(ctx, s) : ~ MoreSpecific(rate[s[l]], rate[s[k]])
  BY BestExists
<1>4. k \in Best(s, Applicable(ctx, s))
  <2>1. \A l \in Applicable(ctx, s) : l # k => MoreSpecific(rate[s[k]], rate[s[l]])
    BY <1>1, <1>2, <1>3 DEF Applicable
  <2>2. \A l \in Applicable(ctx, s) : l \in Nat /\ k \in Nat
    BY DEF Applicable, Orders, Bijection, Injection
  <2> QED
    BY <1>3, <2>1, <2>2 DEF Best
<1>5. PICK m \in Best(s, Applicable(ctx, s)) : ResolvePrice(ctx, s) = s[m]
  BY <1>4 DEF ResolvePrice
<1>6. m \in Applicable(ctx, s)
      /\ \A l \in Applicable(ctx, s) \ {m} : ~ MoreSpecific(rate[s[l]], rate[s[m]])
  <2>1. m \in DOMAIN s /\ \A l \in Applicable(ctx, s) : l \in Nat /\ m \in Nat
    BY <1>5 DEF Best, Applicable, Orders, Bijection, Injection
  <2> QED
    BY <1>5, <2>1, MoreSpecificOneWay DEF Best
<1>7. s[m] \in StoredRates /\ IsApplicable(ctx, rate[s[m]])
  BY <1>1, <1>6 DEF Applicable
<1>8. ASSUME NEW j \in StoredRates \ {s[m]}, IsApplicable(ctx, rate[j])
      PROVE  MoreSpecific(rate[s[m]], rate[j])
  <2>1. PICK l \in DOMAIN s : s[l] = j
    BY <1>1
  <2>2. l \in Applicable(ctx, s) \ {m}
    BY <1>8, <2>1 DEF Applicable
  <2> QED
    BY <1>2, <1>6, <1>7, <1>8, <2>1, <2>2
<1> QED
  BY <1>5, <1>7, <1>8

(* The price of a stay is the same in whatever order the database returns  *)
(* the rates (priceWithin has no ORDER BY), for any number of rates whose  *)
(* periods are the same or apart.                                          *)
THEOREM PriceIsDetermined == RatesSpec => []PriceDetermined
<1>1. ASSUME RatesInv, \A i, j \in StoredRates : PeriodsApart(rate[i].period, rate[j].period),
             NEW ctx \in Stays, NEW s \in Orders, NEW t \in Orders
      PROVE  ResolvePrice(ctx, s) = ResolvePrice(ctx, t)
  <2>1. \A u \in Orders : Applicable(ctx, u) = {} <=> ~ \E i \in StoredRates : IsApplicable(ctx, rate[i])
    BY DEF Orders, Bijection, Injection, Surjection, Applicable
  <2>2. CASE Applicable(ctx, s) = {}
    BY <2>1, <2>2 DEF ResolvePrice
  <2>3. CASE Applicable(ctx, s) # {}
    <3>1. Applicable(ctx, t) # {}
      BY <2>1, <2>3
    <3> QED
      BY <1>1, <2>3, <3>1, OneBest, MoreSpecificOneWay
  <2> QED
    BY <2>2, <2>3
<1>2. ASSUME RatesInv, \A i, j \in StoredRates : PeriodsApart(rate[i].period, rate[j].period),
             NEW ctx \in ContestedStays
      PROVE  \E i \in StoredRates : \A ids \in Orders : ResolvePrice(ctx, ids) = i
  <2>1. PICK i \in StoredRates : IsApplicable(ctx, rate[i])
    BY DEF ContestedStays
  <2>2. CASE Orders = {}
    BY <2>1, <2>2
  <2>3. CASE Orders # {}
    <3>1. PICK s \in Orders : TRUE
      BY <2>3
    <3>2. ctx \in Stays
      BY DEF ContestedStays
    <3>3. Applicable(ctx, s) # {}
      BY <2>1 DEF Applicable, Orders, Bijection, Surjection
    <3>4. ResolvePrice(ctx, s) \in StoredRates
      BY <1>2, <3>2, <3>3, OneBest
    <3>5. \A t \in Orders : ResolvePrice(ctx, t) = ResolvePrice(ctx, s)
      BY <1>1, <1>2, <3>2
    <3> QED
      BY <3>4, <3>5
  <2> QED
    BY <2>2, <2>3
<1>3. RatesInv => PriceDetermined
  BY <1>2 DEF PriceDetermined
<1> QED
  BY <1>3, RatesAlways, PTL

-----------------------------------------------------------------------------
(* The rentals                                                             *)

(* The tariff of a checkout is of the item it was loaded with as long as it *)
(* is there, and the other requests are about a rental that is there.      *)
RentalFound(r) ==
  /\ r.op \in {"checkout", "settle"} => r.row \in RentalRow
  /\ r.op = "checkout" =>
       /\ ~ r.row.cancelled
       /\ r.row.tariff \in StoredTariffs => tariff[r.row.tariff].item = r.row.item
  /\ r.op # "checkout" => r.x \in StoredRentals

(* What the request in flight has checked, when there is no other.         *)
RentalStillSo(r) ==
  /\ r.op = "cancel" => rental[r.x].collected = 0
  /\ r.op = "settle" => ~ rental[r.x].cancelled

RentalsInv ==
  /\ RentalsTypeOK /\ RentalsInOrder
  /\ \A w \in Workers : work[w] # NoRequest => RentalFound(work[w])
  /\ serial => OneBusy
  /\ serial => \A w \in Workers : work[w] # NoRequest => RentalStillSo(work[w])

LEMMA RentalRows ==
  ASSUME RentalsTypeOK
  PROVE  /\ \A x \in StoredRentals : rental[x] \in RentalRow /\ x \in RentalIds
         /\ \A t \in StoredTariffs : tariff[t] \in TariffRow /\ t \in Tariffs
         /\ \A w \in Workers : work[w] # NoRequest => work[w] \in RentalRequest
         /\ \A w \in Workers : work[w].op # "none" => work[w] # NoRequest
  BY DEF RentalsTypeOK, StoredRentals, StoredTariffs, NoRequest

LEMMA RentalRequests == \A r \in RentalRequest : r # NoRequest
<1>1. \A r \in RentalRequest : r.op # "none"
  BY DEF RentalRequest
<1> QED
  BY <1>1 DEF NoRequest

(* A request that has read.                                                *)
LEMMA RentalReads ==
  ASSUME RentalsInv, UNCHANGED equipment, NEW w \in Workers, NEW r \in RentalRequest,
         Begin(w, r), RentalFound(r), RentalStillSo(r)
  PROVE  RentalsInv'
<1>1. /\ work' \in [Workers -> RentalRequest \cup {NoRequest}] /\ serial' \in BOOLEAN
      /\ serial' => serial /\ OneBusy'
      /\ work'[w] = r /\ \A v \in Workers \ {w} : work'[v] = work[v]
      /\ serial' => \A v \in Workers \ {w} : work'[v] = NoRequest
  BY RequestBegins DEF RentalsInv, RentalsTypeOK
<1>2. /\ RentalsTypeOK' /\ RentalsInOrder'
  BY <1>1 DEF RentalsInv, RentalsTypeOK, RentalsInOrder, StoredRentals, StoredItems,
              StoredTariffs, equipment
<1>3. \A v \in Workers : work'[v] # NoRequest => RentalFound(work'[v])
  BY <1>1 DEF RentalsInv
<1>4. \A v \in Workers : work'[v] # NoRequest => RentalFound(work[v])'
  BY <1>3 DEF RentalFound, StoredTariffs, StoredRentals, equipment
<1>5. serial' => \A v \in Workers : work'[v] # NoRequest => RentalStillSo(work[v])'
  BY <1>1 DEF RentalStillSo, equipment
<1> QED
  BY <1>1, <1>2, <1>4, <1>5 DEF RentalsInv

LEMMA CheckoutLoadKeeps ==
  ASSUME RentalsInv, NEW w \in Workers, CheckoutLoad(w)
  PROVE  RentalsInv'
<1>1. PICK t \in StoredTariffs, total \in Amounts, x \in RentalIds \ StoredRentals :
        Begin(w, [op |-> "checkout", x |-> x,
                  row |-> [item |-> tariff[t].item, tariff |-> t, total |-> total,
                           collected |-> 0, status |-> "unpaid", returned |-> FALSE,
                           cancelled |-> FALSE]])
  BY DEF CheckoutLoad
<1> DEFINE rec == [item |-> tariff[t].item, tariff |-> t, total |-> total,
                   collected |-> 0, status |-> "unpaid", returned |-> FALSE,
                   cancelled |-> FALSE]
           r == [op |-> "checkout", x |-> x, row |-> rec]
<1>2. rec \in RentalRow /\ ~ rec.cancelled /\ tariff[rec.tariff].item = rec.item
  BY RentalRows, RentalsAssumption DEF RentalsInv, RentalRow, TariffRow, PaymentStatus
<1> HIDE DEF rec
<1>3. r \in RentalRequest /\ r.op = "checkout" /\ r.row = rec
  BY <1>1, <1>2 DEF RentalRequest
<1>4. Begin(w, r)
  BY <1>1 DEF rec
<1> HIDE DEF r
<1>5. RentalFound(r) /\ RentalStillSo(r)
  BY <1>2, <1>3 DEF RentalFound, RentalStillSo
<1> QED
  BY <1>3, <1>4, <1>5, RentalReads DEF CheckoutLoad

LEMMA OnRentalKeeps ==
  ASSUME RentalsInv, NEW w \in Workers, ReturnLoad(w) \/ CancelLoad(w)
  PROVE  RentalsInv'
<1>1. PICK op \in {"return", "cancel"}, x \in StoredRentals :
        Begin(w, OnRental(op, x)) /\ (op = "cancel" => rental[x].collected = 0)
  BY DEF ReturnLoad, CancelLoad
<1> DEFINE r == OnRental(op, x)
<1>2. r \in RentalRequest /\ r.op = op /\ r.x = x
  BY RentalRows DEF RentalsInv, OnRental, RentalRequest
<1> HIDE DEF r
<1>3. RentalFound(r) /\ RentalStillSo(r)
  BY <1>1, <1>2 DEF RentalFound, RentalStillSo
<1> QED
  BY <1>1, <1>2, <1>3, RentalReads DEF ReturnLoad, CancelLoad, r

LEMMA SettleLoadKeeps ==
  ASSUME RentalsInv, NEW w \in Workers, SettleLoad(w)
  PROVE  RentalsInv'
<1>1. PICK x \in StoredRentals, amount \in Amounts :
        /\ ~ rental[x].cancelled
        /\ Begin(w, [OnRental("settle", x) EXCEPT
                       !.row = [rental[x] EXCEPT
                                  !.collected = amount,
                                  !.status = ResolvedStatus(amount, rental[x].total)]])
  BY DEF SettleLoad
<1> DEFINE rec == [rental[x] EXCEPT !.collected = amount,
                                    !.status = ResolvedStatus(amount, rental[x].total)]
           r == [OnRental("settle", x) EXCEPT !.row = rec]
<1>2. ResolvedStatus(amount, rental[x].total) \in PaymentStatus
  BY DEF ResolvedStatus, PaymentStatus
<1>3. rec \in RentalRow
  BY <1>2, RentalRows DEF RentalsInv, RentalRow
<1> HIDE DEF rec
<1>4. r \in RentalRequest /\ r.op = "settle" /\ r.x = x /\ r.row = rec
  BY <1>3, RentalRows DEF RentalsInv, OnRental, RentalRequest
<1>5. Begin(w, r)
  BY <1>1 DEF rec
<1> HIDE DEF r
<1>6. RentalFound(r) /\ RentalStillSo(r)
  BY <1>1, <1>3, <1>4 DEF RentalFound, RentalStillSo
<1> QED
  BY <1>4, <1>5, <1>6, RentalReads DEF SettleLoad

(* A row of the rentals is written, and the request is over.               *)
LEMMA RentalWrites ==
  ASSUME RentalsInv, NEW w \in Workers, work[w] # NoRequest, NEW r \in RentalRow,
         SetRental(work[w].x, r), Finish(w),
         r.item \in StoredItems /\ r.tariff \in StoredTariffs,
         tariff[r.tariff].item = r.item,
         serial /\ r.cancelled => r.collected = 0
  PROVE  RentalsInv'
<1> DEFINE x == work[w].x
<1>1. /\ work' \in [Workers -> RentalRequest \cup {NoRequest}]
      /\ serial' = serial /\ (serial' => OneBusy')
      /\ work'[w] = NoRequest /\ \A v \in Workers \ {w} : work'[v] = work[v]
      /\ serial => \A v \in Workers : work'[v] = NoRequest
  BY RequestEnds DEF RentalsInv, RentalsTypeOK
<1>2. x \in RentalIds
  BY RentalRows DEF RentalsInv, RentalRequest
<1>3. /\ rental' \in [RentalIds -> RentalRow \cup {None}]
      /\ rental'[x] = r /\ \A y \in RentalIds \ {x} : rental'[y] = rental[y]
      /\ UNCHANGED <<item, tariff>>
  BY <1>2 DEF SetRental, RentalsInv, RentalsTypeOK
<1> HIDE DEF x
<1>4. StoredRentals' = StoredRentals \cup {x}
  BY <1>2, <1>3, NoEquipmentAssumption DEF StoredRentals
<1>5. RentalsTypeOK'
  BY <1>1, <1>3 DEF RentalsInv, RentalsTypeOK
<1>6. RentalsInOrder'
  <2> SUFFICES ASSUME NEW y \in StoredRentals'
               PROVE  /\ serial' /\ rental'[y].cancelled => rental'[y].collected = 0
                      /\ rental'[y].item \in StoredItems' /\ rental'[y].tariff \in StoredTariffs'
                      /\ tariff'[rental'[y].tariff].item = rental'[y].item
    BY DEF RentalsInOrder
  <2>1. StoredItems' = StoredItems /\ StoredTariffs' = StoredTariffs
    BY <1>3 DEF StoredItems, StoredTariffs
  <2>2. CASE y = x
    BY <1>1, <1>3, <2>1, <2>2
  <2>3. CASE y # x
    BY <1>1, <1>3, <1>4, <2>1, <2>3 DEF RentalsInv, RentalsInOrder, StoredRentals
  <2> QED
    BY <2>2, <2>3
<1>7. \A v \in Workers : work'[v] # NoRequest => RentalFound(work[v])'
  <2> SUFFICES ASSUME NEW v \in Workers, work'[v] # NoRequest PROVE RentalFound(work[v])'
    OBVIOUS
  <2>1. work'[v] = work[v] /\ RentalFound(work[v])
    BY <1>1 DEF RentalsInv
  <2> QED
    BY <1>3, <1>4, <2>1 DEF RentalFound, StoredTariffs
<1> QED
  BY <1>1, <1>5, <1>6, <1>7 DEF RentalsInv

LEMMA RentalWriteKeeps ==
  ASSUME RentalsInv, NEW w \in Workers,
         CheckoutWrite(w) \/ ReturnWrite(w) \/ CancelWrite(w) \/ SettleWrite(w)
  PROVE  RentalsInv'
<1> DEFINE x == work[w].x
           r == work[w]
<1>1. r # NoRequest /\ r.op \in {"checkout", "return", "cancel", "settle"} /\ Finish(w)
  BY RentalRows
     DEF RentalsInv, CheckoutWrite, ReturnWrite, CancelWrite, SettleWrite, At
<1>2. RentalFound(r) /\ (serial => RentalStillSo(r))
  BY <1>1 DEF RentalsInv
<1>3. CASE CheckoutWrite(w)
  <2>1. r.op = "checkout" /\ r.row \in RentalRow /\ ~ r.row.cancelled
    BY <1>2, <1>3 DEF CheckoutWrite, At, RentalFound
  <2>2. /\ SetRental(x, r.row)
        /\ r.row.item \in StoredItems /\ r.row.tariff \in StoredTariffs
        /\ tariff[r.row.tariff].item = r.row.item
    BY <1>2, <1>3, <2>1 DEF CheckoutWrite, RentalFound
  <2> QED
    BY <1>1, <2>1, <2>2, RentalWrites
<1>4. CASE ~ CheckoutWrite(w)
  <2>1. x \in StoredRentals /\ rental[x] \in RentalRow
    BY <1>2, <1>4, RentalRows
       DEF RentalFound, RentalsInv, ReturnWrite, CancelWrite, SettleWrite, At
  <2>2. /\ serial /\ rental[x].cancelled => rental[x].collected = 0
        /\ rental[x].item \in StoredItems /\ rental[x].tariff \in StoredTariffs
        /\ tariff[rental[x].tariff].item = rental[x].item
    BY <2>1 DEF RentalsInv, RentalsInOrder
  <2>3. CASE ReturnWrite(w)
    <3> DEFINE n == [rental[x] EXCEPT !.returned = TRUE]
    <3>1. /\ n \in RentalRow /\ n.item = rental[x].item /\ n.tariff = rental[x].tariff
          /\ n.cancelled = rental[x].cancelled /\ n.collected = rental[x].collected
      BY <2>1 DEF RentalRow
    <3>2. SetRental(x, n)
      BY <2>3 DEF ReturnWrite
    <3> HIDE DEF n
    <3> QED
      BY <1>1, <2>2, <3>1, <3>2, RentalWrites
  <2>4. CASE CancelWrite(w)
    <3> DEFINE n == [rental[x] EXCEPT !.cancelled = TRUE]
    <3>1. /\ n \in RentalRow /\ n.item = rental[x].item /\ n.tariff = rental[x].tariff
          /\ n.collected = rental[x].collected
      BY <2>1 DEF RentalRow
    <3>2. SetRental(x, n) /\ r.op = "cancel"
      BY <2>4 DEF CancelWrite, At
    <3>3. serial => n.collected = 0
      BY <1>2, <3>1, <3>2 DEF RentalStillSo
    <3> HIDE DEF n
    <3> QED
      BY <1>1, <2>2, <3>1, <3>2, <3>3, RentalWrites
  <2>5. CASE SettleWrite(w)
    <3> DEFINE n == [rental[x] EXCEPT !.collected = r.row.collected, !.status = r.row.status]
    <3>1. SetRental(x, n) /\ r.op = "settle" /\ r.row \in RentalRow
      BY <1>2, <2>5 DEF SettleWrite, At, RentalFound
    <3>2. /\ n \in RentalRow /\ n.item = rental[x].item /\ n.tariff = rental[x].tariff
          /\ n.cancelled = rental[x].cancelled
      BY <2>1, <3>1 DEF RentalRow
    <3>3. serial => ~ n.cancelled
      BY <1>2, <3>1, <3>2 DEF RentalStillSo
    <3> HIDE DEF n
    <3> QED
      BY <1>1, <2>2, <3>1, <3>2, <3>3, RentalWrites
  <2> QED
    BY <1>4, <2>3, <2>4, <2>5
<1> QED
  BY <1>3, <1>4

(* The catalogue: the rentals keep their item and their tariff.            *)
LEMMA EquipmentKeeps ==
  ASSUME RentalsInv, OneStep, UNCHANGED rental,
         item' \in [Items -> {"live", "archived", None}],
         tariff' \in [Tariffs -> TariffRow \cup {None}],
         \A x \in StoredRentals :
            /\ rental[x].item \in StoredItems' /\ rental[x].tariff \in StoredTariffs'
            /\ tariff'[rental[x].tariff].item = rental[x].item,
         \A w \in Workers :
            /\ work[w] # NoRequest /\ work[w].op = "checkout"
            /\ work[w].row.tariff \in StoredTariffs'
            =>
               tariff'[work[w].row.tariff].item = work[w].row.item
  PROVE  RentalsInv'
<1>1. /\ serial' \in BOOLEAN /\ (serial' => serial /\ OneBusy')
      /\ serial' => \A v \in Workers : work'[v] = NoRequest
      /\ work' = work
  BY RequestAlone DEF OneStep, RentalsInv, RentalsTypeOK
<1>2. StoredRentals' = StoredRentals
  BY DEF StoredRentals
<1>3. RentalsTypeOK'
  BY <1>1 DEF RentalsInv, RentalsTypeOK
<1>4. RentalsInOrder'
  BY <1>1, <1>2 DEF RentalsInv, RentalsInOrder
<1>5. \A v \in Workers : work'[v] # NoRequest => RentalFound(work[v])'
  BY <1>1, <1>2 DEF RentalsInv, RentalFound
<1> QED
  BY <1>1, <1>3, <1>4, <1>5 DEF RentalsInv

LEMMA ItemKeeps ==
  ASSUME RentalsInv, NEW i \in Items,
         \/ CreateRentalItem(i) \/ ArchiveItem(i, "archived") \/ ArchiveItem(i, "live")
  PROVE  RentalsInv'
<1>1. PICK state \in {"live", "archived"} :
        item' = [item EXCEPT ![i] = state] /\ OneStep /\ UNCHANGED <<tariff, rental>>
  BY DEF CreateRentalItem, ArchiveItem
<1>2. item' \in [Items -> {"live", "archived", None}]
  BY <1>1 DEF RentalsInv, RentalsTypeOK
<1>3. StoredItems \subseteq StoredItems' /\ StoredTariffs' = StoredTariffs
  BY <1>1, NoEquipmentAssumption DEF StoredItems, StoredTariffs, RentalsInv, RentalsTypeOK
<1> QED
  BY <1>1, <1>2, <1>3, EquipmentKeeps
     DEF RentalsInv, RentalsTypeOK, RentalsInOrder, RentalFound

LEMMA DeleteItemKeeps ==
  ASSUME RentalsInv, NEW i \in Items, DeleteRentalItem(i)
  PROVE  RentalsInv'
<1>1. /\ item' = [item EXCEPT ![i] = None]
      /\ tariff' = [t \in Tariffs |->
                      IF t \in StoredTariffs /\ tariff[t].item = i THEN None ELSE tariff[t]]
      /\ \A x \in StoredRentals : rental[x].item # i
      /\ OneStep /\ UNCHANGED rental
  BY DEF DeleteRentalItem
<1>2. /\ item' \in [Items -> {"live", "archived", None}]
      /\ tariff' \in [Tariffs -> TariffRow \cup {None}]
  BY <1>1 DEF RentalsInv, RentalsTypeOK
<1>3. /\ StoredItems \ {i} \subseteq StoredItems'
      /\ \A t \in Tariffs : tariff'[t] # None => tariff'[t] = tariff[t]
      /\ \A t \in StoredTariffs : tariff[t].item # i => tariff'[t] = tariff[t]
  BY <1>1 DEF StoredItems, StoredTariffs, RentalsInv, RentalsTypeOK
<1>4. \A x \in StoredRentals :
         /\ rental[x].item \in StoredItems' /\ rental[x].tariff \in StoredTariffs'
         /\ tariff'[rental[x].tariff].item = rental[x].item
  BY <1>1, <1>3 DEF RentalsInv, RentalsInOrder, StoredTariffs
<1>5. \A w \in Workers :
         /\ work[w] # NoRequest /\ work[w].op = "checkout"
         /\ work[w].row.tariff \in StoredTariffs'
         => tariff'[work[w].row.tariff].item = work[w].row.item
  BY <1>3 DEF RentalsInv, RentalFound, StoredTariffs
<1> QED
  BY <1>1, <1>2, <1>4, <1>5, EquipmentKeeps

LEMMA CreateTariffKeeps ==
  ASSUME RentalsInv, NEW t \in Tariffs, NEW i \in Items, CreateRentalTariff(t, i)
  PROVE  RentalsInv'
<1>1. /\ tariff' = [tariff EXCEPT ![t] = [item |-> i, archived |-> FALSE]]
      /\ t \notin StoredTariffs
      /\ \A w \in Busy : work[w].row # None => work[w].row.tariff # t
      /\ OneStep /\ UNCHANGED <<item, rental>>
  BY DEF CreateRentalTariff
<1>2. tariff' \in [Tariffs -> TariffRow \cup {None}]
  BY <1>1 DEF RentalsInv, RentalsTypeOK, TariffRow
<1>3. /\ \A s \in Tariffs \ {t} : tariff'[s] = tariff[s]
      /\ StoredItems' = StoredItems
  BY <1>1 DEF RentalsInv, RentalsTypeOK, StoredItems
<1>4. \A x \in StoredRentals :
         /\ rental[x].item \in StoredItems' /\ rental[x].tariff \in StoredTariffs'
         /\ tariff'[rental[x].tariff].item = rental[x].item
  BY <1>1, <1>3 DEF RentalsInv, RentalsInOrder, StoredTariffs
<1>5. \A w \in Workers :
         /\ work[w] # NoRequest /\ work[w].op = "checkout"
         /\ work[w].row.tariff \in StoredTariffs'
         => tariff'[work[w].row.tariff].item = work[w].row.item
  BY <1>1, <1>3, NoEquipmentAssumption DEF RentalsInv, RentalFound, StoredTariffs, Busy
<1> QED
  BY <1>1, <1>2, <1>4, <1>5, EquipmentKeeps DEF RentalsInv, RentalsTypeOK

LEMMA ArchiveTariffKeeps ==
  ASSUME RentalsInv, NEW t \in Tariffs, NEW archived \in BOOLEAN, ArchiveTariff(t, archived)
  PROVE  RentalsInv'
<1>1. /\ tariff' = [tariff EXCEPT ![t].archived = archived]
      /\ t \in StoredTariffs /\ tariff[t] \in TariffRow
      /\ OneStep /\ UNCHANGED <<item, rental>>
  BY RentalRows DEF ArchiveTariff, RentalsInv
<1>2. /\ tariff' \in [Tariffs -> TariffRow \cup {None}]
      /\ \A s \in StoredTariffs : tariff'[s].item = tariff[s].item
      /\ StoredItems' = StoredItems
  BY <1>1, RentalRows DEF RentalsInv, RentalsTypeOK, TariffRow, StoredItems, StoredTariffs
<1>3. StoredTariffs' = StoredTariffs
  <2>1. tariff'[t] \in TariffRow
    BY <1>1 DEF RentalsInv, RentalsTypeOK, TariffRow
  <2>2. \A s \in Tariffs \ {t} : tariff'[s] = tariff[s]
    BY <1>1 DEF RentalsInv, RentalsTypeOK
  <2> QED
    BY <1>1, <2>1, <2>2, NoEquipmentAssumption DEF StoredTariffs
<1> QED
  BY <1>1, <1>2, <1>3, EquipmentKeeps
     DEF RentalsInv, RentalsTypeOK, RentalsInOrder, RentalFound

LEMMA DeleteTariffKeeps ==
  ASSUME RentalsInv, NEW t \in Tariffs, DeleteRentalTariff(t)
  PROVE  RentalsInv'
<1>1. /\ tariff' = [tariff EXCEPT ![t] = None]
      /\ \A x \in StoredRentals : rental[x].tariff # t
      /\ OneStep /\ UNCHANGED <<item, rental>>
  BY DEF DeleteRentalTariff
<1>2. /\ tariff' \in [Tariffs -> TariffRow \cup {None}]
      /\ tariff'[t] = None /\ \A s \in Tariffs \ {t} : tariff'[s] = tariff[s]
      /\ StoredItems' = StoredItems
  BY <1>1 DEF RentalsInv, RentalsTypeOK, StoredItems
<1> QED
  BY <1>1, <1>2, EquipmentKeeps
     DEF RentalsInv, RentalsTypeOK, RentalsInOrder, RentalFound, StoredTariffs

LEMMA RentalAbortKeeps ==
  ASSUME RentalsInv, UNCHANGED equipment,
         (UNCHANGED <<work, serial>>) \/ \E w \in Workers : Abort(w)
  PROVE  RentalsInv'
<1>1. /\ RentalsInOrder' <=> \A x \in StoredRentals :
            /\ serial' /\ rental[x].cancelled => rental[x].collected = 0
            /\ rental[x].item \in StoredItems /\ rental[x].tariff \in StoredTariffs
            /\ tariff[rental[x].tariff].item = rental[x].item
      /\ \A r : (RentalFound(r)' <=> RentalFound(r)) /\ (RentalStillSo(r)' <=> RentalStillSo(r))
  BY DEF RentalsInOrder, RentalFound, RentalStillSo, StoredRentals, StoredItems, StoredTariffs,
         equipment
<1>2. CASE UNCHANGED <<work, serial>>
  BY <1>1, <1>2 DEF RentalsInv, RentalsTypeOK, RentalsInOrder, OneBusy, equipment,
     RentalFound, RentalStillSo, StoredRentals, StoredItems, StoredTariffs
<1>3. ASSUME NEW w \in Workers, Abort(w) PROVE RentalsInv'
  <2>1. /\ work' \in [Workers -> RentalRequest \cup {NoRequest}]
        /\ serial' = serial /\ (serial' => OneBusy')
        /\ work'[w] = NoRequest /\ \A v \in Workers \ {w} : work'[v] = work[v]
        /\ serial => \A v \in Workers : work'[v] = NoRequest
    BY <1>3, RequestEnds DEF RentalsInv, RentalsTypeOK, Abort
  <2>2. RentalsTypeOK' /\ RentalsInOrder'
    BY <1>1, <2>1 DEF RentalsInv, RentalsTypeOK, RentalsInOrder, equipment
  <2>3. \A v \in Workers : work'[v] # NoRequest => RentalFound(work[v])'
    BY <2>1 DEF RentalsInv, RentalFound, StoredRentals, StoredTariffs, equipment
  <2> QED
    BY <2>1, <2>2, <2>3 DEF RentalsInv
<1> QED
  BY <1>2, <1>3

LEMMA RentalsStart ==
  RentalsInit /\ work = [w \in Workers |-> NoRequest] /\ serial = TRUE => RentalsInv
  BY DEF RentalsInit, RentalsInv, RentalsTypeOK, RentalsInOrder, StoredRentals, OneBusy

LEMMA RentalsStep ==
  ASSUME RentalsInv, [RentalsNext]_<<equipment, work, serial>>
  PROVE  RentalsInv'
<1>1. ASSUME NEW w \in Workers,
             \/ CheckoutLoad(w) \/ CheckoutWrite(w)
             \/ ReturnLoad(w) \/ ReturnWrite(w)
             \/ CancelLoad(w) \/ CancelWrite(w)
             \/ SettleLoad(w) \/ SettleWrite(w)
             \/ Abort(w) /\ UNCHANGED equipment
      PROVE  RentalsInv'
  BY <1>1, CheckoutLoadKeeps, OnRentalKeeps, SettleLoadKeeps, RentalWriteKeeps, RentalAbortKeeps
<1>2. ASSUME NEW i \in Items,
             \/ CreateRentalItem(i) \/ DeleteRentalItem(i)
             \/ ArchiveItem(i, "archived") \/ ArchiveItem(i, "live")
             \/ \E t \in Tariffs : CreateRentalTariff(t, i)
      PROVE  RentalsInv'
  BY <1>2, ItemKeeps, DeleteItemKeeps, CreateTariffKeeps
<1>3. ASSUME NEW t \in Tariffs,
             \/ ArchiveTariff(t, TRUE) \/ ArchiveTariff(t, FALSE)
             \/ DeleteRentalTariff(t)
      PROVE  RentalsInv'
  BY <1>3, ArchiveTariffKeeps, DeleteTariffKeeps
<1>4. CASE UNCHANGED <<equipment, work, serial>>
  BY <1>4, RentalAbortKeeps
<1> QED
  BY <1>1, <1>2, <1>3, <1>4 DEF RentalsNext

LEMMA RentalsAlways == RentalsSpec => []RentalsInv
  BY RentalsStart, RentalsStep, PTL DEF RentalsSpec

(* Whatever requests overlap, the item and the tariff of a rental are      *)
(* there (checkout against deleteItem and deleteTariff); and as long as    *)
(* none do, a cancelled rental holds no money (cancelRental, settlePayment). *)
THEOREM RentalsKeepOrder == RentalsSpec => []RentalsInOrder
<1>1. RentalsInv => RentalsInOrder
  BY DEF RentalsInv
<1> QED
  BY <1>1, RentalsAlways, PTL

-----------------------------------------------------------------------------
(* The packages                                                            *)

(* What the request in flight has found, when there is no other.           *)
CatalogStillSo(r) ==
  /\ r.op = "compose" /\ r.p # None =>
       r.p \in StoredPackages /\ r.seen = package[r.p].equipment
  /\ r.op = "dropPackage" => \A b \in Buyers : bought[b] # r.p
  /\ r.op = "name" => NameFree(r.name, r.t)

CatalogTypeOK ==
  /\ PackagesTypeOK
  /\ ordered \in [PackageIds -> SUBSET TypeIds]
  /\ agreed \in [BuyerIds -> PackageIds \cup {None}]
  /\ serial \in BOOLEAN

CatalogRequests ==
  /\ \A w \in Workers : work[w].op = "name" => work[w].name \in TypeNames
  /\ serial =>
       OneBusy /\ \A w \in Workers : work[w] # NoRequest => CatalogStillSo(work[w])

PackagesInv == CatalogTypeOK /\ CatalogRequests /\ PackagesAsAgreed

LEMMA AnyPackageRequest == \A r \in PackageRequest : r # NoRequest
  BY DEF PackageRequest, NoRequest

(* A request begins, and has found what is so.                             *)
LEMMA CatalogBegins ==
  ASSUME PackagesInv, NEW w \in Workers, NEW r \in PackageRequest, Begin(w, r),
         CatalogStillSo(r), r.op = "name" => r.name \in TypeNames, UNCHANGED catalog
  PROVE  PackagesInv'
<1>1. /\ work' \in [Workers -> PackageRequest \cup {NoRequest}] /\ serial' \in BOOLEAN
      /\ serial' => serial /\ OneBusy'
      /\ work'[w] = r /\ \A v \in Workers \ {w} : work'[v] = work[v]
      /\ serial' => \A v \in Workers \ {w} : work'[v] = NoRequest
  BY RequestBegins DEF PackagesInv, CatalogTypeOK, PackagesTypeOK
<1>2. CatalogTypeOK'
  BY <1>1 DEF PackagesInv, CatalogTypeOK, PackagesTypeOK, catalog, StoredPackages, StoredTypes, Buyers
<1>3. CatalogRequests'
  <2>1. \A v \in Workers : work'[v].op = "name" => work'[v].name \in TypeNames
    BY <1>1 DEF PackagesInv, CatalogRequests
  <2>2. serial' => CatalogStillSo(r)'
    BY DEF CatalogStillSo, catalog, NameFree, StoredPackages, StoredTypes, Buyers
  <2> QED
    BY <1>1, <2>1, <2>2 DEF CatalogRequests
<1>4. PackagesAsAgreed'
  BY <1>1 DEF PackagesInv, PackagesAsAgreed, catalog, NameFree, StoredPackages, StoredTypes, Buyers
<1> QED
  BY <1>2, <1>3, <1>4 DEF PackagesInv

LEMMA CatalogLoadKeeps ==
  ASSUME PackagesInv, NEW w \in Workers,
         \/ CreatePackageLoad(w) \/ UpdatePackageLoad(w) \/ DeletePackageLoad(w)
         \/ BuyLoad(w) \/ RenewLoad(w)
         \/ CreateTypeLoad(w) \/ UpdateTypeLoad(w) \/ DeleteTypeLoad(w)
  PROVE  PackagesInv'
<1>1. CASE CreatePackageLoad(w)
  <2>1. PICK ids \in SUBSET TypeIds :
          Begin(w, [Blank("compose") EXCEPT !.equipment = ids]) /\ UNCHANGED catalog
    BY <1>1 DEF CreatePackageLoad
  <2> DEFINE r == [Blank("compose") EXCEPT !.equipment = ids]
  <2>2. r \in PackageRequest /\ CatalogStillSo(r) /\ (r.op = "name" => r.name \in TypeNames)
    BY DEF Blank, PackageRequest, CatalogStillSo
  <2> QED
    BY <2>1, <2>2, CatalogBegins
<1>2. CASE UpdatePackageLoad(w)
  <2>1. PICK p \in StoredPackages, ids \in SUBSET TypeIds, renames \in BOOLEAN :
          /\ Begin(w, [Blank("compose") EXCEPT !.p = p, !.renames = renames, !.equipment = ids,
                                               !.seen = package[p].equipment])
          /\ UNCHANGED catalog
    BY <1>2 DEF UpdatePackageLoad
  <2> DEFINE r == [Blank("compose") EXCEPT !.p = p, !.renames = renames, !.equipment = ids,
                                           !.seen = package[p].equipment]
  <2>2. p \in PackageIds /\ package[p].equipment \in SUBSET TypeIds
    BY DEF StoredPackages, StoredTypes, PackagesInv, CatalogTypeOK, PackagesTypeOK
  <2>3. r \in PackageRequest /\ CatalogStillSo(r) /\ (r.op = "name" => r.name \in TypeNames)
    BY <2>2 DEF Blank, PackageRequest, CatalogStillSo
  <2> QED
    BY <2>1, <2>3, CatalogBegins
<1>3. CASE DeletePackageLoad(w)
  <2>1. PICK p \in StoredPackages :
          /\ \A b \in Buyers : bought[b] # p
          /\ Begin(w, [Blank("dropPackage") EXCEPT !.p = p]) /\ UNCHANGED catalog
    BY <1>3 DEF DeletePackageLoad
  <2> DEFINE r == [Blank("dropPackage") EXCEPT !.p = p]
  <2>2. r \in PackageRequest /\ CatalogStillSo(r) /\ (r.op = "name" => r.name \in TypeNames)
    BY <2>1 DEF Blank, PackageRequest, CatalogStillSo, StoredPackages
  <2> QED
    BY <2>1, <2>2, CatalogBegins
<1>4. CASE BuyLoad(w) \/ RenewLoad(w)
  <2>1. PICK p \in PackageIds \cup {None} :
          Begin(w, [Blank("buy") EXCEPT !.p = p]) /\ UNCHANGED catalog
    BY <1>4 DEF BuyLoad, RenewLoad, StoredPackages, Buyers, PackagesInv, CatalogTypeOK, PackagesTypeOK
  <2> DEFINE r == [Blank("buy") EXCEPT !.p = p]
  <2>2. r \in PackageRequest /\ CatalogStillSo(r) /\ (r.op = "name" => r.name \in TypeNames)
    BY DEF Blank, PackageRequest, CatalogStillSo
  <2> QED
    BY <2>1, <2>2, CatalogBegins
<1>5. CASE CreateTypeLoad(w)
  <2>1. PICK n \in TypeNames :
          /\ NameFree(n, None) /\ UNCHANGED catalog
          /\ Begin(w, [Blank("name") EXCEPT !.name = n])
    BY <1>5 DEF CreateTypeLoad
  <2> DEFINE r == [Blank("name") EXCEPT !.name = n]
  <2>2. r \in PackageRequest /\ CatalogStillSo(r) /\ (r.op = "name" => r.name \in TypeNames)
    BY <2>1 DEF Blank, PackageRequest, CatalogStillSo
  <2> QED
    BY <2>1, <2>2, CatalogBegins
<1>6. CASE UpdateTypeLoad(w)
  <2>1. PICK t \in StoredTypes, n \in TypeNames :
          /\ NameFree(n, t) /\ UNCHANGED catalog
          /\ Begin(w, [Blank("name") EXCEPT !.t = t, !.name = n])
    BY <1>6 DEF UpdateTypeLoad
  <2> DEFINE r == [Blank("name") EXCEPT !.t = t, !.name = n]
  <2>2. r \in PackageRequest /\ CatalogStillSo(r) /\ (r.op = "name" => r.name \in TypeNames)
    BY <2>1 DEF Blank, PackageRequest, CatalogStillSo, StoredTypes
  <2> QED
    BY <2>1, <2>2, CatalogBegins
<1>7. CASE DeleteTypeLoad(w)
  <2>1. PICK t \in StoredTypes : Begin(w, [Blank("dropType") EXCEPT !.t = t]) /\ UNCHANGED catalog
    BY <1>7 DEF DeleteTypeLoad
  <2> DEFINE r == [Blank("dropType") EXCEPT !.t = t]
  <2>2. r \in PackageRequest /\ CatalogStillSo(r) /\ (r.op = "name" => r.name \in TypeNames)
    BY DEF Blank, PackageRequest, CatalogStillSo, StoredTypes
  <2> QED
    BY <2>1, <2>2, CatalogBegins
<1> QED
  BY <1>1, <1>2, <1>3, <1>4, <1>5, <1>6, <1>7

(* A request ends: what it was the only one to see is so no more.          *)
LEMMA CatalogEnds ==
  ASSUME PackagesInv, NEW w \in Workers, work[w] # NoRequest, Finish(w)
  PROVE  /\ work' \in [Workers -> PackageRequest \cup {NoRequest}]
         /\ serial' \in BOOLEAN /\ serial' = serial
         /\ CatalogRequests'
         /\ serial => CatalogStillSo(work[w])
<1>1. /\ work' \in [Workers -> PackageRequest \cup {NoRequest}]
      /\ serial' = serial /\ (serial' => OneBusy')
      /\ work'[w] = NoRequest /\ \A v \in Workers \ {w} : work'[v] = work[v]
      /\ serial => \A v \in Workers : work'[v] = NoRequest
  BY RequestEnds DEF PackagesInv, CatalogTypeOK, PackagesTypeOK, CatalogRequests
<1>2. \A v \in Workers : work'[v].op = "name" => work'[v].name \in TypeNames
  BY <1>1 DEF PackagesInv, CatalogRequests, NoRequest
<1> QED
  BY <1>1, <1>2 DEF PackagesInv, CatalogTypeOK, CatalogRequests

(* The same of a composition, that takes rows away from the others' sight. *)
LEMMA ComposeEnds ==
  ASSUME PackagesInv, NEW w \in Workers, work[w] \in PackageRequest, FinishCompose(w)
  PROVE  /\ work' \in [Workers -> PackageRequest \cup {NoRequest}]
         /\ serial' \in BOOLEAN /\ serial' = serial
         /\ CatalogRequests'
         /\ serial => CatalogStillSo(work[w])
<1>1. /\ work \in [Workers -> PackageRequest \cup {NoRequest}] /\ serial \in BOOLEAN
      /\ work[w] # NoRequest /\ serial' = serial
  BY AnyPackageRequest DEF PackagesInv, CatalogTypeOK, PackagesTypeOK, FinishCompose
<1>2. /\ work'[w] = NoRequest /\ work' = [v \in Workers |-> work'[v]]
      /\ \A v \in Workers \ {w} :
           \/ work'[v] = work[v]
           \/ /\ work[v] # NoRequest
              /\ work'[v] = [work[v] EXCEPT !.seen = @ \ work[w].seen]
  BY DEF FinishCompose, Busy
<1>3. ASSUME NEW v \in Workers \ {w}, work[v] # NoRequest,
             work'[v] = [work[v] EXCEPT !.seen = @ \ work[w].seen]
      PROVE  /\ work'[v] \in PackageRequest
             /\ work'[v].op = work[v].op /\ work'[v].name = work[v].name
  <2>1. PICK r \in PackageRequest : r = work[v]
    BY <1>1, <1>3
  <2>2. PICK gone : gone = work[w].seen
    OBVIOUS
  <2>3. [r EXCEPT !.seen = @ \ gone] \in PackageRequest
    BY DEF PackageRequest
  <2>4. PICK x : x = [r EXCEPT !.seen = @ \ gone]
    OBVIOUS
  <2>5. x.op = r.op /\ x.name = r.name
    BY <2>4 DEF PackageRequest
  <2> QED
    BY <1>3, <2>1, <2>2, <2>3, <2>4, <2>5
<1>4. \A v \in Workers : work'[v] \in PackageRequest \cup {NoRequest}
  BY <1>1, <1>2, <1>3
<1>5. \A v \in Workers : work'[v].op = "name" => work'[v].name \in TypeNames
  BY <1>2, <1>3 DEF PackagesInv, CatalogRequests, NoRequest
<1>6. ASSUME serial
      PROVE  CatalogStillSo(work[w]) /\ \A v \in Workers : work'[v] = NoRequest
  <2>1. OneBusy /\ CatalogStillSo(work[w])
    BY <1>1, <1>6 DEF PackagesInv, CatalogRequests
  <2>2. \A v \in Workers \ {w} : work[v] = NoRequest
    BY <1>1, <2>1 DEF OneBusy
  <2> QED
    BY <1>2, <2>1, <2>2
<1>7. CatalogRequests'
  BY <1>1, <1>5, <1>6 DEF CatalogRequests, OneBusy
<1> QED
  BY <1>1, <1>2, <1>4, <1>6, <1>7

LEMMA Requested ==
  ASSUME PackagesInv, NEW w \in Workers, work[w].op # "none"
  PROVE  work[w] \in PackageRequest /\ work[w] # NoRequest
  BY DEF PackagesInv, CatalogTypeOK, PackagesTypeOK, NoRequest

LEMMA ComposeKeeps ==
  ASSUME PackagesInv, NEW w \in Workers, ComposeWrite(w)
  PROVE  PackagesInv'
<1> DEFINE r == work[w]
<1>1. r \in PackageRequest /\ r # NoRequest /\ r.op = "compose" /\ r.equipment \subseteq StoredTypes
      /\ FinishCompose(w) /\ UNCHANGED <<type, bought, agreed>>
  BY Requested DEF ComposeWrite, At
<1>2. /\ work' \in [Workers -> PackageRequest \cup {NoRequest}]
      /\ serial' \in BOOLEAN /\ serial' = serial /\ CatalogRequests'
      /\ serial => CatalogStillSo(r)
  BY <1>1, ComposeEnds
<1>3. PICK p \in PackageIds, rec \in PackageRow :
        /\ package' = [package EXCEPT ![p] = rec]
        /\ ordered' = [ordered EXCEPT ![p] = r.equipment]
        /\ rec.equipment \subseteq StoredTypes
        /\ serial => rec.equipment = r.equipment
  <2>1. CASE \E p \in PackageIds \ StoredPackages :
               /\ package' = [package EXCEPT ![p] = [archived |-> FALSE, equipment |-> r.equipment]]
               /\ ordered' = [ordered EXCEPT ![p] = r.equipment]
    <3>1. [archived |-> FALSE, equipment |-> r.equipment] \in PackageRow
      BY <1>1 DEF PackageRow, PackageRequest
    <3> QED
      BY <1>1, <2>1, <3>1
  <2>2. CASE /\ r.p \in StoredPackages
             /\ package' = [package EXCEPT ![r.p].equipment = Composed(r.p, r)]
             /\ ordered' = [ordered EXCEPT ![r.p] = r.equipment]
    <3> DEFINE rec == [package[r.p] EXCEPT !.equipment = Composed(r.p, r)]
    <3>1. r.p \in PackageIds /\ package[r.p] \in PackageRow
          /\ package[r.p].equipment \subseteq StoredTypes
      BY <2>2 DEF StoredPackages, PackagesInv, CatalogTypeOK, PackagesTypeOK
    <3>2. Composed(r.p, r) \subseteq StoredTypes /\ StoredTypes \subseteq TypeIds
      BY <1>1, <3>1 DEF Composed, StoredTypes
    <3>3. rec \in PackageRow /\ rec.equipment = Composed(r.p, r)
      BY <3>1, <3>2 DEF PackageRow
    <3>4. serial => Composed(r.p, r) = r.equipment
      BY <1>1, <1>2, <3>1, PackagesAssumption DEF CatalogStillSo, Composed
    <3>5. package' = [package EXCEPT ![r.p] = rec]
      BY <2>2, <3>1 DEF PackagesInv, CatalogTypeOK, PackagesTypeOK
    <3> QED
      BY <2>2, <3>1, <3>2, <3>3, <3>4, <3>5
  <2> QED
    BY <2>1, <2>2 DEF ComposeWrite
<1>4. rec # None
  BY NoCatalogAssumption
<1>5. /\ package' \in [PackageIds -> PackageRow \cup {None}]
      /\ ordered' \in [PackageIds -> SUBSET TypeIds]
      /\ package'[p] = rec /\ ordered'[p] = r.equipment
      /\ \A q \in PackageIds \ {p} : package'[q] = package[q] /\ ordered'[q] = ordered[q]
  BY <1>1, <1>3 DEF PackagesInv, CatalogTypeOK, PackagesTypeOK, PackageRequest
<1>6. StoredPackages' = StoredPackages \cup {p} /\ StoredTypes' = StoredTypes /\ Buyers' = Buyers
  BY <1>1, <1>4, <1>5 DEF StoredPackages, StoredTypes, Buyers
<1>7. CatalogTypeOK'
  BY <1>1, <1>2, <1>3, <1>5, <1>6 DEF PackagesInv, CatalogTypeOK, PackagesTypeOK
<1>8. PackagesAsAgreed'
  BY <1>1, <1>2, <1>3, <1>5, <1>6 DEF PackagesInv, PackagesAsAgreed, NameFree
<1> QED
  BY <1>2, <1>7, <1>8 DEF PackagesInv

LEMMA DeletePackageKeeps ==
  ASSUME PackagesInv, NEW w \in Workers, DeletePackageWrite(w)
  PROVE  PackagesInv'
<1> DEFINE p == work[w].p
<1>1. work[w] # NoRequest /\ work[w].op = "dropPackage" /\ p \in StoredPackages /\ Finish(w)
      /\ package' = [package EXCEPT ![p] = None]
      /\ ordered' = [ordered EXCEPT ![p] = {}]
      /\ bought' = [b \in BuyerIds |-> IF bought[b] = p THEN None ELSE bought[b]]
      /\ UNCHANGED <<type, agreed>>
  BY Requested DEF DeletePackageWrite, At
<1>2. /\ work' \in [Workers -> PackageRequest \cup {NoRequest}]
      /\ serial' \in BOOLEAN /\ serial' = serial /\ CatalogRequests'
      /\ serial => \A b \in Buyers : bought[b] # p
  BY <1>1, CatalogEnds DEF CatalogStillSo
<1> HIDE DEF p
<1>3. /\ package' \in [PackageIds -> PackageRow \cup {None}]
      /\ ordered' \in [PackageIds -> SUBSET TypeIds]
      /\ package'[p] = None /\ p \in PackageIds
      /\ \A q \in PackageIds \ {p} : package'[q] = package[q] /\ ordered'[q] = ordered[q]
  BY <1>1 DEF PackagesInv, CatalogTypeOK, PackagesTypeOK, StoredPackages
<1>4. StoredPackages' = StoredPackages \ {p} /\ StoredTypes' = StoredTypes
  BY <1>1, <1>3 DEF StoredPackages, StoredTypes
<1>5. /\ bought' \in [BuyerIds -> PackageIds \cup {None, "no"}]
      /\ \A b \in BuyerIds : bought'[b] = IF bought[b] = p THEN None ELSE bought[b]
  BY <1>1 DEF PackagesInv, CatalogTypeOK, PackagesTypeOK
<1>6. Buyers' = Buyers
  BY <1>3, <1>5, PackagesAssumption DEF Buyers
<1>7. CatalogTypeOK'
  BY <1>1, <1>2, <1>3, <1>4, <1>5, <1>6 DEF PackagesInv, CatalogTypeOK, PackagesTypeOK, Buyers
<1>8. PackagesAsAgreed'
  BY <1>1, <1>2, <1>3, <1>4, <1>5, <1>6 DEF PackagesInv, PackagesAsAgreed, NameFree, Buyers
<1> QED
  BY <1>2, <1>7, <1>8 DEF PackagesInv

LEMMA BuyKeeps ==
  ASSUME PackagesInv, NEW w \in Workers, BuyWrite(w)
  PROVE  PackagesInv'
<1> DEFINE p == work[w].p
<1>1. work[w] # NoRequest /\ p \in StoredPackages \cup {None} /\ Finish(w)
      /\ UNCHANGED <<package, type, ordered>>
  BY Requested DEF BuyWrite, At
<1>2. PICK b \in BuyerIds \ Buyers :
        bought' = [bought EXCEPT ![b] = p] /\ agreed' = [agreed EXCEPT ![b] = p]
  BY DEF BuyWrite
<1>3. /\ work' \in [Workers -> PackageRequest \cup {NoRequest}]
      /\ serial' \in BOOLEAN /\ serial' = serial /\ CatalogRequests'
  BY <1>1, CatalogEnds
<1> HIDE DEF p
<1>4. /\ bought' \in [BuyerIds -> PackageIds \cup {None, "no"}]
      /\ agreed' \in [BuyerIds -> PackageIds \cup {None}]
      /\ bought'[b] = p /\ agreed'[b] = p
      /\ \A c \in BuyerIds \ {b} : bought'[c] = bought[c] /\ agreed'[c] = agreed[c]
  BY <1>1, <1>2 DEF PackagesInv, CatalogTypeOK, PackagesTypeOK, StoredPackages
<1>5. StoredPackages' = StoredPackages /\ StoredTypes' = StoredTypes /\ Buyers' \subseteq Buyers \cup {b}
  BY <1>1, <1>4 DEF StoredPackages, StoredTypes, Buyers
<1>6. CatalogTypeOK'
  BY <1>1, <1>3, <1>4, <1>5 DEF PackagesInv, CatalogTypeOK, PackagesTypeOK, Buyers
<1>7. PackagesAsAgreed'
  BY <1>1, <1>3, <1>4, <1>5 DEF PackagesInv, PackagesAsAgreed, NameFree, Buyers
<1> QED
  BY <1>3, <1>6, <1>7 DEF PackagesInv

LEMMA NameTypeKeeps ==
  ASSUME PackagesInv, NEW w \in Workers, NameTypeWrite(w)
  PROVE  PackagesInv'
<1> DEFINE r == work[w]
<1>1. r \in PackageRequest /\ r # NoRequest /\ r.op = "name" /\ Finish(w)
      /\ UNCHANGED <<package, bought, ordered, agreed>>
  BY Requested DEF NameTypeWrite, At
<1>2. /\ work' \in [Workers -> PackageRequest \cup {NoRequest}]
      /\ serial' \in BOOLEAN /\ serial' = serial /\ CatalogRequests'
      /\ serial => NameFree(r.name, r.t)
  BY <1>1, CatalogEnds DEF CatalogStillSo
<1>3. PICK t \in TypeIds, rec \in TypeRow :
        /\ type' = [type EXCEPT ![t] = rec] /\ rec.name = r.name
        /\ r.t = t \/ (r.t = None /\ t \notin StoredTypes)
  <2>1. CASE \E t \in TypeIds \ StoredTypes :
               r.t = None /\ type' = [type EXCEPT ![t] = [name |-> r.name, archived |-> FALSE]]
    <3>1. PICK t \in TypeIds \ StoredTypes :
            r.t = None /\ type' = [type EXCEPT ![t] = [name |-> r.name, archived |-> FALSE]]
      BY <2>1
    <3>2. r.name \in TypeNames
      BY <1>1 DEF PackagesInv, CatalogRequests
    <3> QED
      BY <3>1, <3>2 DEF TypeRow
  <2>2. CASE r.t \in StoredTypes /\ type' = [type EXCEPT ![r.t].name = r.name]
    <3> DEFINE rec == [type[r.t] EXCEPT !.name = r.name]
    <3>1. r.t \in TypeIds /\ type[r.t] \in TypeRow /\ r.name \in TypeNames
      BY <1>1, <2>2 DEF StoredTypes, PackagesInv, CatalogTypeOK, PackagesTypeOK, CatalogRequests
    <3>2. rec \in TypeRow /\ rec.name = r.name
      BY <3>1 DEF TypeRow
    <3>3. type' = [type EXCEPT ![r.t] = rec]
      BY <2>2, <3>1 DEF PackagesInv, CatalogTypeOK, PackagesTypeOK
    <3> QED
      BY <3>1, <3>2, <3>3
  <2> QED
    BY <2>1, <2>2 DEF NameTypeWrite
<1>4. rec # None
  BY NoCatalogAssumption
<1>5. /\ type' \in [TypeIds -> TypeRow \cup {None}]
      /\ type'[t] = rec /\ \A u \in TypeIds \ {t} : type'[u] = type[u]
  BY <1>3 DEF PackagesInv, CatalogTypeOK, PackagesTypeOK
<1>6. StoredTypes' = StoredTypes \cup {t} /\ StoredPackages' = StoredPackages /\ Buyers' = Buyers
  BY <1>1, <1>4, <1>5 DEF StoredPackages, StoredTypes, Buyers
<1>7. CatalogTypeOK'
  BY <1>1, <1>2, <1>5, <1>6 DEF PackagesInv, CatalogTypeOK, PackagesTypeOK
<1>8. serial => \A u \in StoredTypes \ {t} : ~ SameName(type[u].name, rec.name)
  <2>1. StoredTypes \ {t} \subseteq StoredTypes \ {r.t}
    BY <1>3, PackagesAssumption DEF StoredTypes
  <2> QED
    BY <1>2, <1>3, <2>1 DEF NameFree
<1>9. serial => \A u \in StoredTypes : NameFree(type[u].name, u)
  BY DEF PackagesInv, PackagesAsAgreed
<1>10. serial' => \A u \in StoredTypes' : NameFree(type[u].name, u)'
  BY <1>2, <1>5, <1>6, <1>8, <1>9 DEF NameFree, SameName, StoredTypes
<1>11. PackagesAsAgreed'
  BY <1>1, <1>2, <1>6, <1>10 DEF PackagesInv, PackagesAsAgreed
<1> QED
  BY <1>2, <1>7, <1>11 DEF PackagesInv

LEMMA DropTypeKeeps ==
  ASSUME PackagesInv, NEW w \in Workers, DeleteTypeWrite(w)
  PROVE  PackagesInv'
<1> DEFINE t == work[w].t
<1>1. work[w] # NoRequest /\ t \in StoredTypes /\ UsedBy(t) = {} /\ Finish(w)
      /\ type' = [type EXCEPT ![t] = None] /\ UNCHANGED <<package, bought, ordered, agreed>>
  BY Requested DEF DeleteTypeWrite, At
<1>2. /\ work' \in [Workers -> PackageRequest \cup {NoRequest}]
      /\ serial' \in BOOLEAN /\ serial' = serial /\ CatalogRequests'
  BY <1>1, CatalogEnds
<1> HIDE DEF t
<1>3. /\ type' \in [TypeIds -> TypeRow \cup {None}] /\ t \in TypeIds
      /\ type'[t] = None /\ \A u \in TypeIds \ {t} : type'[u] = type[u]
  BY <1>1 DEF PackagesInv, CatalogTypeOK, PackagesTypeOK, StoredTypes
<1>4. StoredTypes' = StoredTypes \ {t} /\ StoredPackages' = StoredPackages /\ Buyers' = Buyers
  BY <1>1, <1>3 DEF StoredPackages, StoredTypes, Buyers
<1>5. CatalogTypeOK'
  BY <1>1, <1>2, <1>3, <1>4 DEF PackagesInv, CatalogTypeOK, PackagesTypeOK, UsedBy
<1>6. PackagesAsAgreed'
  BY <1>1, <1>2, <1>3, <1>4 DEF PackagesInv, PackagesAsAgreed, NameFree, StoredTypes
<1> QED
  BY <1>2, <1>5, <1>6 DEF PackagesInv

(* The steps of one row and no request, and those that end with nothing.   *)
LEMMA CatalogStays ==
  ASSUME PackagesInv, UNCHANGED <<ordered, bought, agreed>>,
         package' \in [PackageIds -> PackageRow \cup {None}],
         type' \in [TypeIds -> TypeRow \cup {None}],
         StoredPackages' = StoredPackages, StoredTypes' = StoredTypes,
         \A p \in StoredPackages : package'[p].equipment = package[p].equipment,
         \A t \in StoredTypes : type'[t].name = type[t].name,
         work' \in [Workers -> PackageRequest \cup {NoRequest}],
         serial' \in BOOLEAN, serial' => serial, CatalogRequests'
  PROVE  PackagesInv'
<1>1. CatalogTypeOK'
  BY DEF PackagesInv, CatalogTypeOK, PackagesTypeOK, Buyers
<1>2. PackagesAsAgreed'
  BY DEF PackagesInv, PackagesAsAgreed, NameFree, Buyers
<1> QED
  BY <1>1, <1>2 DEF PackagesInv

LEMMA ArchiveKeeps ==
  ASSUME PackagesInv, NEW archived \in BOOLEAN,
         \/ \E p \in PackageIds : ArchivePackage(p, archived)
         \/ \E t \in TypeIds : ArchiveType(t, archived)
  PROVE  PackagesInv'
<1>1. Alone /\ UNCHANGED work
  BY DEF ArchivePackage, ArchiveType
<1>2. /\ work' \in [Workers -> PackageRequest \cup {NoRequest}]
      /\ serial' \in BOOLEAN
      /\ serial' => serial
      /\ serial' => OneBusy' /\ \A v \in Workers : work'[v] = NoRequest
  BY <1>1, RequestAlone DEF PackagesInv, CatalogTypeOK, PackagesTypeOK
<1>3. CatalogRequests'
  BY <1>1, <1>2 DEF PackagesInv, CatalogRequests
<1>4. CASE \E p \in PackageIds : ArchivePackage(p, archived)
  <2>1. PICK p \in StoredPackages :
          package' = [package EXCEPT ![p].archived = archived]
          /\ UNCHANGED <<type, bought, ordered, agreed>>
    BY <1>4 DEF ArchivePackage
  <2> DEFINE rec == [package[p] EXCEPT !.archived = archived]
  <2>2. p \in PackageIds /\ package[p] \in PackageRow
    BY DEF StoredPackages, PackagesInv, CatalogTypeOK, PackagesTypeOK
  <2>3. rec \in PackageRow /\ rec.equipment = package[p].equipment /\ rec # None
    BY <2>2, NoCatalogAssumption DEF PackageRow
  <2>4. package' = [package EXCEPT ![p] = rec]
    BY <2>1, <2>2 DEF PackagesInv, CatalogTypeOK, PackagesTypeOK
  <2> HIDE DEF rec
  <2>5. /\ package' \in [PackageIds -> PackageRow \cup {None}]
        /\ StoredPackages' = StoredPackages /\ StoredTypes' = StoredTypes
        /\ type' \in [TypeIds -> TypeRow \cup {None}]
        /\ \A q \in StoredPackages : package'[q].equipment = package[q].equipment
        /\ \A t \in StoredTypes : type'[t].name = type[t].name
    BY <2>1, <2>2, <2>3, <2>4
       DEF PackagesInv, CatalogTypeOK, PackagesTypeOK, StoredPackages, StoredTypes
  <2> QED
    BY <1>2, <1>3, <2>1, <2>5, CatalogStays
<1>5. CASE \E t \in TypeIds : ArchiveType(t, archived)
  <2>1. PICK t \in StoredTypes :
          type' = [type EXCEPT ![t].archived = archived]
          /\ UNCHANGED <<package, bought, ordered, agreed>>
    BY <1>5 DEF ArchiveType
  <2> DEFINE rec == [type[t] EXCEPT !.archived = archived]
  <2>2. t \in TypeIds /\ type[t] \in TypeRow
    BY DEF StoredTypes, PackagesInv, CatalogTypeOK, PackagesTypeOK
  <2>3. rec \in TypeRow /\ rec.name = type[t].name /\ rec # None
    BY <2>2, NoCatalogAssumption DEF TypeRow
  <2>4. type' = [type EXCEPT ![t] = rec]
    BY <2>1, <2>2 DEF PackagesInv, CatalogTypeOK, PackagesTypeOK
  <2> HIDE DEF rec
  <2>5. /\ type' \in [TypeIds -> TypeRow \cup {None}]
        /\ StoredPackages' = StoredPackages /\ StoredTypes' = StoredTypes
        /\ package' \in [PackageIds -> PackageRow \cup {None}]
        /\ \A q \in StoredPackages : package'[q].equipment = package[q].equipment
        /\ \A u \in StoredTypes : type'[u].name = type[u].name
    BY <2>1, <2>2, <2>3, <2>4
       DEF PackagesInv, CatalogTypeOK, PackagesTypeOK, StoredPackages, StoredTypes
  <2> QED
    BY <1>2, <1>3, <2>1, <2>5, CatalogStays
<1> QED
  BY <1>4, <1>5

LEMMA CatalogRestsKeeps ==
  ASSUME PackagesInv,
         \/ \E w \in Workers : Abort(w) /\ UNCHANGED catalog
         \/ UNCHANGED <<catalog, work, serial>>
  PROVE  PackagesInv'
<1>1. UNCHANGED catalog
  OBVIOUS
<1>2. /\ UNCHANGED <<package, type, bought, ordered, agreed>>
      /\ StoredPackages' = StoredPackages /\ StoredTypes' = StoredTypes
      /\ package' \in [PackageIds -> PackageRow \cup {None}]
      /\ type' \in [TypeIds -> TypeRow \cup {None}]
  BY <1>1 DEF catalog, StoredPackages, StoredTypes, PackagesInv, CatalogTypeOK, PackagesTypeOK
<1>3. CASE \E w \in Workers : Abort(w) /\ UNCHANGED catalog
  BY <1>2, <1>3, CatalogEnds, CatalogStays DEF Abort
<1>4. CASE UNCHANGED <<catalog, work, serial>>
  <2>1. CatalogRequests'
    BY <1>2, <1>4 DEF PackagesInv, CatalogRequests, CatalogStillSo, OneBusy, NameFree, Buyers
  <2>2. work' \in [Workers -> PackageRequest \cup {NoRequest}] /\ serial' \in BOOLEAN
    BY <1>4 DEF PackagesInv, CatalogTypeOK, PackagesTypeOK
  <2> QED
    BY <1>2, <1>4, <2>1, <2>2, CatalogStays
<1> QED
  BY <1>3, <1>4

LEMMA PackagesStart ==
  PackagesInit /\ work = [w \in Workers |-> NoRequest] /\ serial = TRUE => PackagesInv
  BY DEF PackagesInit, PackagesInv, CatalogTypeOK, PackagesTypeOK, CatalogRequests,
         PackagesAsAgreed, NameFree, StoredPackages, StoredTypes, Buyers, OneBusy, NoRequest

LEMMA PackagesStep ==
  ASSUME PackagesInv, [PackagesNext]_<<catalog, work, serial>>
  PROVE  PackagesInv'
<1>1. ASSUME NEW w \in Workers,
             \/ CreatePackageLoad(w) \/ UpdatePackageLoad(w) \/ DeletePackageLoad(w)
             \/ BuyLoad(w) \/ RenewLoad(w)
             \/ CreateTypeLoad(w) \/ UpdateTypeLoad(w) \/ DeleteTypeLoad(w)
      PROVE  PackagesInv'
  BY <1>1, CatalogLoadKeeps
<1>2. ASSUME NEW w \in Workers,
             \/ ComposeWrite(w) \/ DeletePackageWrite(w) \/ BuyWrite(w)
             \/ NameTypeWrite(w) \/ DeleteTypeWrite(w)
      PROVE  PackagesInv'
  BY <1>2, ComposeKeeps, DeletePackageKeeps, BuyKeeps, NameTypeKeeps, DropTypeKeeps
<1> QED
  BY <1>1, <1>2, ArchiveKeeps, CatalogRestsKeeps DEF PackagesNext

LEMMA PackagesAlways == PackagesSpec => []PackagesInv
  BY PackagesStart, PackagesStep, PTL DEF PackagesSpec

(* One request at a time, the composition of a package is the one last     *)
(* asked for, a booking keeps its package and no two types of equipment    *)
(* have one name (writePackageEquipment, deletePackage, createEquipment),  *)
(* for any number of packages, types, bookings and requests.               *)
THEOREM PackagesStayAsAgreed == PackagesSpec => []PackagesAsAgreed
<1>1. PackagesInv => PackagesAsAgreed
  BY DEF PackagesInv
<1> QED
  BY <1>1, PackagesAlways, PTL
-----------------------------------------------------------------------------
(* The back office                                                         *)

(* The part that moves, and what the others keep.                          *)
LEMMA PartMoves ==
  ASSUME [Next]_vars
  PROVE  /\ focus' = focus
         /\ focus = "layout" => [LayoutNext]_<<layout, work, serial>>
         /\ focus = "editor" => [EditorNext]_<<layout, page, work, serial>>
         /\ focus = "staff" => [StaffNext]_<<staff, work, serial>>
         /\ focus = "rates" => [RatesNext]_<<rates, work, serial>>
         /\ focus = "rentals" => [RentalsNext]_<<equipment, work, serial>>
         /\ focus = "slots" => [DaysNext]_<<days, work, serial>>
         /\ focus = "packages" => [PackagesNext]_<<catalog, work, serial>>
PROOF BY Zenon DEF Next, vars

LEMMA OthersStay ==
  ASSUME [Next]_vars
  PROVE  /\ focus \notin {"layout", "editor"} => UNCHANGED layout
         /\ focus # "editor" => UNCHANGED page
         /\ focus # "staff" => UNCHANGED staff
         /\ focus # "rates" => UNCHANGED rates
         /\ focus # "rentals" => UNCHANGED equipment
         /\ focus # "slots" => UNCHANGED days
         /\ focus # "packages" => UNCHANGED catalog
PROOF BY DEF Next, vars

(* A behaviour of the back office is one of the part that moves, so that   *)
(* what holds of the part alone holds of it here.                          *)
THEOREM OfficeIsItsParts ==
  Spec => /\ focus = "layout" => LayoutSpec
          /\ focus = "editor" => EditorSpec
          /\ focus = "staff" => StaffSpec
          /\ focus = "rates" => RatesSpec
          /\ focus = "rentals" => RentalsSpec
          /\ focus = "slots" => DaysSpec
          /\ focus = "packages" => PackagesSpec
PROOF
<1> DEFINE Fresh == work = [w \in Workers |-> NoRequest] /\ serial = TRUE
<1>1. Spec /\ focus = "layout" => LayoutSpec
  <2>1. Init /\ focus = "layout" => LayoutInit /\ Fresh
    BY DEF Init
  <2>2. focus = "layout" /\ [Next]_vars => (focus = "layout")' /\ [LayoutNext]_<<layout, work, serial>>
    BY PartMoves
  <2> QED BY <2>1, <2>2, PTL DEF Spec, LayoutSpec
<1>2. Spec /\ focus = "editor" => EditorSpec
  <2>1. Init /\ focus = "editor" => BeachInit /\ PageInit /\ Fresh
    BY DEF Init
  <2>2. focus = "editor" /\ [Next]_vars => (focus = "editor")' /\ [EditorNext]_<<layout, page, work, serial>>
    BY PartMoves
  <2> QED BY <2>1, <2>2, PTL DEF Spec, EditorSpec
<1>3. Spec /\ focus = "staff" => StaffSpec
  <2>1. Init /\ focus = "staff" => StaffInit /\ Fresh
    BY DEF Init
  <2>2. focus = "staff" /\ [Next]_vars => (focus = "staff")' /\ [StaffNext]_<<staff, work, serial>>
    BY PartMoves
  <2> QED BY <2>1, <2>2, PTL DEF Spec, StaffSpec
<1>4. Spec /\ focus = "rates" => RatesSpec
  <2>1. Init /\ focus = "rates" => RatesInit /\ Fresh
    BY DEF Init
  <2>2. focus = "rates" /\ [Next]_vars => (focus = "rates")' /\ [RatesNext]_<<rates, work, serial>>
    BY PartMoves
  <2> QED BY <2>1, <2>2, PTL DEF Spec, RatesSpec
<1>5. Spec /\ focus = "rentals" => RentalsSpec
  <2>1. Init /\ focus = "rentals" => RentalsInit /\ Fresh
    BY DEF Init
  <2>2. focus = "rentals" /\ [Next]_vars => (focus = "rentals")' /\ [RentalsNext]_<<equipment, work, serial>>
    BY PartMoves
  <2> QED BY <2>1, <2>2, PTL DEF Spec, RentalsSpec
<1>6. Spec /\ focus = "slots" => DaysSpec
  <2>1. Init /\ focus = "slots" => DaysInit /\ Fresh
    BY DEF Init
  <2>2. focus = "slots" /\ [Next]_vars => (focus = "slots")' /\ [DaysNext]_<<days, work, serial>>
    BY PartMoves
  <2> QED BY <2>1, <2>2, PTL DEF Spec, DaysSpec
<1>7. Spec /\ focus = "packages" => PackagesSpec
  <2>1. Init /\ focus = "packages" => PackagesInit /\ Fresh
    BY DEF Init
  <2>2. focus = "packages" /\ [Next]_vars => (focus = "packages")' /\ [PackagesNext]_<<catalog, work, serial>>
    BY PartMoves
  <2> QED BY <2>1, <2>2, PTL DEF Spec, PackagesSpec
<1> QED BY <1>1, <1>2, <1>3, <1>4, <1>5, <1>6, <1>7

(* What the tables of a part promise before anything is done to them.      *)
LEMMA LayoutAtFirst ==
  ASSUME LayoutInit
  PROVE  ActiveLabelsUnique /\ ActiveIsPlaced /\ PreviewIsMove
PROOF
<1>1. LiveRows = {} /\ Stored = {} /\ Active = {}
  BY DEF LayoutInit, LiveRows, Stored, Active, NoUmbrella
<1>2. DOMAIN StructureOf(umbrella) = {}
  BY <1>1 DEF StructureOf
<1>3. Offers(StructureOf(umbrella)) = {}
  BY <1>2 DEF Offers
<1> QED BY <1>1, <1>3 DEF ActiveLabelsUnique, ActiveIsPlaced, PreviewIsMove

(* The page that follows no move.                                          *)
PageStill == move = NoMutation /\ treeAtWrite = FALSE

LEMMA PageAtFirst == ASSUME PageStill PROVE ShownAsServed
PROOF
<1>1. move.phase = "no"
  BY DEF PageStill, NoMutation
<1>2. ~ MoveSettling
  BY <1>1 DEF PageStill, MoveSettling, Pending
<1> QED BY <1>1, <1>2 DEF ShownAsServed, Shown

LEMMA StaffAtFirst == ASSUME StaffInit PROVE AdminLeft /\ PermissionsAsAsked
PROOF
<1>1. FirstAdmin \in ActiveAdmins
  <2>1. /\ user[FirstAdmin].role = "admin" /\ ~ user[FirstAdmin].disabled
        /\ user[FirstAdmin] \in UserRow
    BY StaffAssumption DEF StaffInit, UserRow
  <2> QED BY <2>1, StaffAssumption, NoRowAssumption DEF ActiveAdmins, Admins, Members
<1>2. EffectiveFor({}) = StaffDefault
  BY StaffAssumption DEF EffectiveFor
<1> QED BY <1>1, <1>2 DEF AdminLeft, PermissionsAsAsked, StaffInit

LEMMA RatesAtFirst == ASSUME RatesInit PROVE PriceDetermined /\ RateScopeKept
PROOF
<1>1. StoredRates = {}
  BY DEF RatesInit, StoredRates
<1>2. ContestedStays = {}
  BY <1>1 DEF ContestedStays
<1> QED BY <1>2 DEF PriceDetermined, RateScopeKept, RatesInit

LEMMA RentalsAtFirst == ASSUME RentalsInit PROVE RentalsInOrder
PROOF BY DEF RentalsInit, RentalsInOrder, StoredRentals

LEMMA DaysAtFirst ==
  ASSUME DaysInit
  PROVE  SoldOncePerSlot /\ FreeIsSellable /\ PiecesFit
PROOF
<1>1. LiveSlots = {} /\ Sales = {} /\ cover = {}
  BY DEF DaysInit, LiveSlots, Sales
<1> QED BY <1>1 DEF SoldOncePerSlot, FreeIsSellable, PiecesFit

LEMMA PackagesAtFirst == ASSUME PackagesInit PROVE PackagesAsAgreed
PROOF
<1>1. StoredPackages = {} /\ StoredTypes = {} /\ Buyers = {}
  BY DEF PackagesInit, StoredPackages, StoredTypes, Buyers
<1> QED BY <1>1 DEF PackagesAsAgreed

(* On the beach of the page the labels stay unique, and the rows known.    *)
LEMMA EditorKeepsBeach == EditorSpec => [](ActiveLabelsUnique /\ ActiveIsPlaced)
PROOF
<1>1. EditorInv => ActiveLabelsUnique /\ ActiveIsPlaced
  BY DEF EditorInv, BeachInv
<1> QED BY <1>1, EditorAlways, PTL

(* Each part keeps its promises, whichever moves.                          *)
LEMMA LayoutOfOffice == Spec => [](ActiveLabelsUnique /\ ActiveIsPlaced /\ PreviewIsMove)
PROOF
<1>1. Spec /\ focus = "layout" => [](ActiveLabelsUnique /\ ActiveIsPlaced /\ PreviewIsMove)
  BY OfficeIsItsParts, LabelsStayUnique, ActiveStaysPlaced, PreviewKept, PTL
<1>2. Spec /\ focus = "editor" => [](ActiveLabelsUnique /\ ActiveIsPlaced /\ PreviewIsMove)
  BY OfficeIsItsParts, EditorKeepsBeach, EditorPreviews, PTL
<1>3. Spec /\ ~ (focus = "layout") /\ ~ (focus = "editor") => [](ActiveLabelsUnique /\ ActiveIsPlaced /\ PreviewIsMove)
  <2> DEFINE Still == LayoutInit /\ ~ (focus = "layout") /\ ~ (focus = "editor")
  <2>1. Init /\ ~ (focus = "layout") /\ ~ (focus = "editor") => Still
    BY DEF Init
  <2>2. Still /\ [Next]_vars => Still'
    BY PartMoves, OthersStay DEF LayoutInit, layout
  <2>3. Still => ActiveLabelsUnique /\ ActiveIsPlaced /\ PreviewIsMove
    BY LayoutAtFirst
  <2> QED BY <2>1, <2>2, <2>3, PTL DEF Spec
<1> QED BY <1>1, <1>2, <1>3, PTL

LEMMA PageOfOffice == Spec => [](ShownAsServed)
PROOF
<1>1. Spec /\ focus = "editor" => [](ShownAsServed)
  BY OfficeIsItsParts, MoveShownAsServed, PTL
<1>2. Spec /\ ~ (focus = "editor") => [](ShownAsServed)
  <2> DEFINE Still == PageStill /\ ~ (focus = "editor")
  <2>1. Init /\ ~ (focus = "editor") => Still
    BY DEF Init, PageInit, PageStill
  <2>2. Still /\ [Next]_vars => Still'
    BY PartMoves, OthersStay DEF PageStill, page
  <2>3. Still => ShownAsServed
    BY PageAtFirst
  <2> QED BY <2>1, <2>2, <2>3, PTL DEF Spec
<1> QED BY <1>1, <1>2, PTL

LEMMA StaffOfOffice == Spec => [](AdminLeft /\ PermissionsAsAsked)
PROOF
<1>1. Spec /\ focus = "staff" => [](AdminLeft /\ PermissionsAsAsked)
  BY OfficeIsItsParts, SomeAdminStays, PermissionsKept, PTL
<1>2. Spec /\ ~ (focus = "staff") => [](AdminLeft /\ PermissionsAsAsked)
  <2> DEFINE Still == StaffInit /\ ~ (focus = "staff")
  <2>1. Init /\ ~ (focus = "staff") => Still
    BY DEF Init
  <2>2. Still /\ [Next]_vars => Still'
    BY PartMoves, OthersStay DEF StaffInit, staff
  <2>3. Still => AdminLeft /\ PermissionsAsAsked
    BY StaffAtFirst
  <2> QED BY <2>1, <2>2, <2>3, PTL DEF Spec
<1> QED BY <1>1, <1>2, PTL

LEMMA RatesOfOffice == Spec => [](PriceDetermined /\ RateScopeKept)
PROOF
<1>1. Spec /\ focus = "rates" => [](PriceDetermined /\ RateScopeKept)
  BY OfficeIsItsParts, PriceIsDetermined, RatesKeepTheirScope, PTL
<1>2. Spec /\ ~ (focus = "rates") => [](PriceDetermined /\ RateScopeKept)
  <2> DEFINE Still == RatesInit /\ ~ (focus = "rates")
  <2>1. Init /\ ~ (focus = "rates") => Still
    BY DEF Init
  <2>2. Still /\ [Next]_vars => Still'
    BY PartMoves, OthersStay DEF RatesInit, rates
  <2>3. Still => PriceDetermined /\ RateScopeKept
    BY RatesAtFirst
  <2> QED BY <2>1, <2>2, <2>3, PTL DEF Spec
<1> QED BY <1>1, <1>2, PTL

LEMMA RentalsOfOffice == Spec => [](RentalsInOrder)
PROOF
<1>1. Spec /\ focus = "rentals" => [](RentalsInOrder)
  BY OfficeIsItsParts, RentalsKeepOrder, PTL
<1>2. Spec /\ ~ (focus = "rentals") => [](RentalsInOrder)
  <2> DEFINE Still == RentalsInit /\ ~ (focus = "rentals")
  <2>1. Init /\ ~ (focus = "rentals") => Still
    BY DEF Init
  <2>2. Still /\ [Next]_vars => Still'
    BY PartMoves, OthersStay DEF RentalsInit, equipment
  <2>3. Still => RentalsInOrder
    BY RentalsAtFirst
  <2> QED BY <2>1, <2>2, <2>3, PTL DEF Spec
<1> QED BY <1>1, <1>2, PTL

LEMMA DaysOfOffice == Spec => [](SoldOncePerSlot /\ FreeIsSellable /\ PiecesFit)
PROOF
<1>1. Spec /\ focus = "slots" => [](SoldOncePerSlot /\ FreeIsSellable /\ PiecesFit)
  BY OfficeIsItsParts, SlotSoldOnce, MapAgreesWithSale, PiecesAlwaysFit, PTL
<1>2. Spec /\ ~ (focus = "slots") => [](SoldOncePerSlot /\ FreeIsSellable /\ PiecesFit)
  <2> DEFINE Still == DaysInit /\ ~ (focus = "slots")
  <2>1. Init /\ ~ (focus = "slots") => Still
    BY DEF Init
  <2>2. Still /\ [Next]_vars => Still'
    BY PartMoves, OthersStay DEF DaysInit, days
  <2>3. Still => SoldOncePerSlot /\ FreeIsSellable /\ PiecesFit
    BY DaysAtFirst
  <2> QED BY <2>1, <2>2, <2>3, PTL DEF Spec
<1> QED BY <1>1, <1>2, PTL

LEMMA PackagesOfOffice == Spec => [](PackagesAsAgreed)
PROOF
<1>1. Spec /\ focus = "packages" => [](PackagesAsAgreed)
  BY OfficeIsItsParts, PackagesStayAsAgreed, PTL
<1>2. Spec /\ ~ (focus = "packages") => [](PackagesAsAgreed)
  <2> DEFINE Still == PackagesInit /\ ~ (focus = "packages")
  <2>1. Init /\ ~ (focus = "packages") => Still
    BY DEF Init
  <2>2. Still /\ [Next]_vars => Still'
    BY PartMoves, OthersStay DEF PackagesInit, catalog
  <2>3. Still => PackagesAsAgreed
    BY PackagesAtFirst
  <2> QED BY <2>1, <2>2, <2>3, PTL DEF Spec
<1> QED BY <1>1, <1>2, PTL

(* And no link is worked with when the staff is not what moves.            *)
LEMMA LinksOfOffice == Spec => LinkWorksOnce
PROOF
<1>1. Spec /\ focus = "staff" => LinkWorksOnce
  BY OfficeIsItsParts, LinkSpentOnce
<1>2. Spec /\ ~ (focus = "staff") => LinkWorksOnce
  <2> DEFINE Once ==
        \A w \in Workers :
          At(w, "redeem") /\ token' # token /\ work'[w] = NoRequest =>
            /\ \A t \in work[w].seen : ~ token[t].consumed
            /\ \A t \in Issued : token[t].user = work[w].u => token'[t].consumed
  <2>1. ~ (focus = "staff") /\ [Next]_vars => (~ (focus = "staff"))' /\ [Once]_<<staff, work, serial>>
    BY PartMoves, OthersStay DEF staff
  <2> QED BY <2>1, PTL DEF Spec, LinkWorksOnce
<1> QED BY <1>1, <1>2

(* In every state of the back office, whichever part moves and for any     *)
(* number of workers and of rows, all the promises of its parts hold       *)
(* together, and a link to set a password is worked with once.             *)
THEOREM OfficeKeepsItsPromises ==
  Spec => /\ [](/\ ActiveLabelsUnique /\ ActiveIsPlaced
                /\ PreviewIsMove /\ ShownAsServed
                /\ AdminLeft /\ PermissionsAsAsked
                /\ PriceDetermined /\ RateScopeKept
                /\ RentalsInOrder
                /\ SoldOncePerSlot /\ FreeIsSellable /\ PiecesFit
                /\ PackagesAsAgreed)
          /\ LinkWorksOnce
PROOF
<1>1. Spec => [](/\ ActiveLabelsUnique /\ ActiveIsPlaced
                /\ PreviewIsMove /\ ShownAsServed
                /\ AdminLeft /\ PermissionsAsAsked
                /\ PriceDetermined /\ RateScopeKept
                /\ RentalsInOrder
                /\ SoldOncePerSlot /\ FreeIsSellable /\ PiecesFit
                /\ PackagesAsAgreed)
  BY LayoutOfOffice, PageOfOffice, StaffOfOffice, RatesOfOffice, RentalsOfOffice, DaysOfOffice,
     PackagesOfOffice, PTL
<1> QED BY <1>1, LinksOfOffice, PTL

-----------------------------------------------------------------------------
(* The types of the layout. The orders of a row are integers also when     *)
(* requests that overlapped have given two umbrellas the same: the highest *)
(* and the k-th are there all the same.                                    *)

(* How many are not above u.                                               *)
AtMost(us, at, u) == { v \in us : at[v] <= at[u] }

LEMMA LeastOf ==
  ASSUME NEW S \in SUBSET Nat, S # {}
  PROVE  \E n \in S : \A m \in S : n <= m
PROOF
<1> DEFINE R == OpToRel(<, Nat)
<1>1. IsWellFoundedOn(R, Nat)
  BY NatLessThanWellFounded
<1>2. PICK n \in S : \A m \in S : ~ (<<m, n>> \in R)
  <2> HIDE DEF R
  <2> QED BY <1>1, WFMin
<1>3. \A m \in S : <<m, n>> \in R \/ n <= m
  BY DEF OpToRel
<1> QED BY <1>2, <1>3

LEMMA AtMostCounts ==
  ASSUME NEW us, IsFiniteSet(us), NEW at, \A u \in us : at[u] \in Int, NEW u \in us
  PROVE  /\ Cardinality(AtMost(us, at, u)) \in 0 .. Cardinality(us)
         /\ \A v \in us : at[u] < at[v] =>
              Cardinality(AtMost(us, at, u)) < Cardinality(AtMost(us, at, v))
PROOF
<1>1. /\ AtMost(us, at, u) \in SUBSET us /\ IsFiniteSet(AtMost(us, at, u))
      /\ Cardinality(us) \in Nat /\ Cardinality(AtMost(us, at, u)) \in Nat
      /\ Cardinality(AtMost(us, at, u)) <= Cardinality(us)
  <2>1. AtMost(us, at, u) \in SUBSET us
    BY DEF AtMost
  <2> QED BY <2>1, FS_Subset, FS_CardinalityType
<1>2. ASSUME NEW v \in us, at[u] < at[v]
      PROVE  Cardinality(AtMost(us, at, u)) < Cardinality(AtMost(us, at, v))
  <2>1. /\ AtMost(us, at, v) \in SUBSET us
        /\ AtMost(us, at, u) \in SUBSET AtMost(us, at, v)
        /\ v \in AtMost(us, at, v) /\ v \notin AtMost(us, at, u)
    BY <1>2 DEF AtMost
  <2>2. IsFiniteSet(AtMost(us, at, v)) /\ Cardinality(AtMost(us, at, v)) \in Nat
    BY <2>1, FS_Subset, FS_CardinalityType
  <2>3. /\ Cardinality(AtMost(us, at, u)) <= Cardinality(AtMost(us, at, v))
        /\ Cardinality(AtMost(us, at, u)) # Cardinality(AtMost(us, at, v))
    BY <2>1, <2>2, FS_Subset
  <2> QED BY <1>1, <2>2, <2>3
<1> QED BY <1>1, <1>2

LEMMA HighestOf ==
  ASSUME NEW us, IsFiniteSet(us), us # {}, NEW at, \A u \in us : at[u] \in Int
  PROVE  \E u \in us : \A v \in us : at[v] <= at[u]
PROOF
<1> DEFINE n == Cardinality(us)
           c(u) == n - Cardinality(AtMost(us, at, u))
           S == { c(u) : u \in us }
<1>1. n \in Nat
  BY FS_CardinalityType
<1>2. \A u \in us : c(u) \in Nat
  BY <1>1, AtMostCounts
<1>3. S \in SUBSET Nat /\ S # {}
  <2> HIDE DEF c
  <2> QED BY <1>2
<1>4. PICK u \in us : \A v \in us : c(u) <= c(v)
  <2> HIDE DEF c
  <2>1. PICK k \in S : \A m \in S : k <= m
    <3> HIDE DEF S
    <3> QED BY <1>3, LeastOf
  <2> QED BY <2>1
<1>5. ASSUME NEW v \in us, ~ (at[v] <= at[u]) PROVE FALSE
  <2>1. Cardinality(AtMost(us, at, u)) < Cardinality(AtMost(us, at, v))
    BY <1>5, AtMostCounts
  <2>2. /\ Cardinality(AtMost(us, at, u)) \in 0 .. n /\ Cardinality(AtMost(us, at, v)) \in 0 .. n
    BY AtMostCounts
  <2> QED BY <1>1, <1>4, <2>1, <2>2
<1> QED BY <1>5

LEMMA LowestOf ==
  ASSUME NEW us, IsFiniteSet(us), us # {}, NEW at, \A u \in us : at[u] \in Int
  PROVE  \E u \in us : \A v \in us : at[u] <= at[v]
PROOF
<1>1. PICK neg : neg = [u \in us |-> 0 - at[u]]
  OBVIOUS
<1>2. \A u \in us : neg[u] = 0 - at[u] /\ neg[u] \in Int
  BY <1>1
<1>3. PICK u \in us : \A v \in us : neg[v] <= neg[u]
  BY <1>2, HighestOf
<1> QED BY <1>2, <1>3

(* The k-th in order, whatever ties there are.                             *)
LEMMA KthOf ==
  ASSUME NEW us, IsFiniteSet(us), NEW at, \A u \in us : at[u] \in Int,
         NEW k \in 0 .. Cardinality(us) - 1
  PROVE  \E u \in us : /\ Cardinality(Below(us, at, at[u])) <= k
                       /\ k < Cardinality(AtMost(us, at, u))
PROOF
<1>1. Cardinality(us) \in Nat /\ k \in Nat /\ k < Cardinality(us)
  BY FS_CardinalityType
<1>2. us # {}
  BY <1>1, FS_EmptySet
<1> DEFINE S == { u \in us : k < Cardinality(AtMost(us, at, u)) }
<1>3. S # {}
  <2>1. PICK u \in us : \A v \in us : at[v] <= at[u]
    BY <1>2, HighestOf
  <2>2. AtMost(us, at, u) = us
    BY <2>1 DEF AtMost
  <2> QED BY <1>1, <2>2
<1>4. IsFiniteSet(S)
  BY FS_Subset
<1>5. PICK u \in S : \A v \in S : at[u] <= at[v]
  <2>1. \A v \in S : at[v] \in Int
    OBVIOUS
  <2> HIDE DEF S
  <2> QED BY <1>3, <1>4, <2>1, LowestOf
<1> DEFINE B == Below(us, at, at[u])
<1>6. B \in SUBSET us /\ IsFiniteSet(B)
  <2>1. B \in SUBSET us
    BY DEF Below
  <2> QED BY <2>1, FS_Subset
<1>7. Cardinality(B) <= k
  <2>1. CASE B = {}
    BY <1>1, <2>1, FS_EmptySet
  <2>2. CASE B # {}
    <3>1. PICK m \in B : \A v \in B : at[v] <= at[m]
      <4>1. \A v \in B : at[v] \in Int
        BY <1>6
      <4> HIDE DEF B
      <4> QED BY <1>6, <2>2, <4>1, HighestOf
    <3>2. m \in us /\ at[m] < at[u]
      BY <1>6 DEF Below
    <3>3. AtMost(us, at, m) = B
      <4>1. \A v \in us : at[v] <= at[m] <=> at[v] < at[u]
        BY <1>5, <3>1, <3>2 DEF Below
      <4> QED BY <4>1 DEF AtMost, Below
    <3>4. m \notin S
      BY <1>5, <3>2
    <3>5. Cardinality(AtMost(us, at, m)) \in Nat
      BY <3>2, AtMostCounts
    <3> QED BY <1>1, <3>2, <3>3, <3>4, <3>5
  <2> QED BY <2>1, <2>2
<1> QED BY <1>5, <1>7

(* The orders that requests read.                                          *)
OrdersAreInt == \A u \in Umbrellas : umbrella[u].order \in Int

LEMMA OrderOfAll ==
  ASSUME OrdersAreInt, NEW us \in SUBSET Umbrellas
  PROVE  /\ IsFiniteSet(us) /\ Cardinality(us) \in Nat
         /\ \A u \in us : OrderOf(umbrella)[u] = umbrella[u].order
                         /\ OrderOf(umbrella)[u] \in Int
PROOF BY LayoutAssumption, FS_Subset, FS_CardinalityType DEF OrdersAreInt, OrderOf

LEMMA OrderAtIsInt ==
  ASSUME OrdersAreInt, NEW us \in SUBSET Umbrellas, NEW k \in 0 .. Cardinality(us) - 1
  PROVE  OrderAt(us, k) \in Int
PROOF
<1> DEFINE at == OrderOf(umbrella)
           Kth(n) == /\ Cardinality({ u \in us : umbrella[u].order < n }) <= k
                     /\ k < Cardinality({ u \in us : umbrella[u].order <= n })
<1>1. /\ IsFiniteSet(us)
      /\ \A u \in us : at[u] = umbrella[u].order /\ at[u] \in Int
  BY OrderOfAll
<1>2. PICK u \in us : /\ Cardinality(Below(us, at, at[u])) <= k
                     /\ k < Cardinality(AtMost(us, at, u))
  <2> HIDE DEF at
  <2> QED BY <1>1, KthOf
<1>3. /\ Below(us, at, at[u]) = { v \in us : umbrella[v].order < umbrella[u].order }
      /\ AtMost(us, at, u) = { v \in us : umbrella[v].order <= umbrella[u].order }
  <2> HIDE DEF at
  <2> QED BY <1>1 DEF Below, AtMost
<1>4. \E n \in { umbrella[v].order : v \in us } : Kth(n)
  BY <1>2, <1>3
<1>5. OrderAt(us, k) = CHOOSE n \in { umbrella[v].order : v \in us } : Kth(n)
  BY DEF OrderAt
<1>6. OrderAt(us, k) \in { umbrella[v].order : v \in us }
  <2> HIDE DEF Kth
  <2> QED BY <1>4, <1>5
<1> QED BY <1>1, <1>6

LEMMA NextOrderIsInt ==
  ASSUME OrdersAreInt, NEW r
  PROVE  NextOrder(r) \in Int
PROOF
<1> DEFINE us == InRow(r)
           at == OrderOf(umbrella)
           IsLast(k) == /\ us # {} => \E u \in us : umbrella[u].order = k
                        /\ \A u \in us : umbrella[u].order <= k
<1>1. /\ us \in SUBSET Umbrellas /\ IsFiniteSet(us)
      /\ \A u \in us : at[u] = umbrella[u].order /\ at[u] \in Int
  <2>1. us \in SUBSET Umbrellas
    BY DEF InRow
  <2> QED BY <2>1, OrderOfAll
<1>2. \E k \in {0} \cup { umbrella[u].order : u \in us } : IsLast(k)
  <2>1. CASE us = {}
    BY <2>1
  <2>2. CASE us # {}
    <3>1. PICK u \in us : \A v \in us : at[v] <= at[u]
      <4> HIDE DEF us, at
      <4> QED BY <1>1, <2>2, HighestOf
    <3> QED BY <1>1, <3>1
  <2> QED BY <2>1, <2>2
<1>3. PICK k : k = CHOOSE j \in {0} \cup { umbrella[u].order : u \in us } : IsLast(j)
  OBVIOUS
<1>4. k \in {0} \cup { umbrella[u].order : u \in us }
  BY <1>2, <1>3
<1>5. NextOrder(r) = 1 + k
  BY <1>3 DEF NextOrder
<1> QED BY <1>1, <1>4, <1>5

LEMMA PlansTyped ==
  ASSUME NEW q, NEW a \in Int, NEW b \in Int, NEW c \in Int, NEW d \in {-1, 1},
         \/ q = [NoMove EXCEPT !.noop = TRUE]
         \/ q = [NoMove EXCEPT !.target = c]
         \/ q = [NoMove EXCEPT !.from = a, !.to = b, !.delta = d, !.target = c]
  PROVE  q \in MovePlans
PROOF
<1>1. \A n \in BOOLEAN, e, f, g \in Int, h \in {-1, 0, 1} :
        [noop |-> n, from |-> e, to |-> f, delta |-> h, target |-> g] \in MovePlans
  BY Zenon DEF MovePlans
<1>2. CASE q = [NoMove EXCEPT !.noop = TRUE]
  <2>1. q = [noop |-> TRUE, from |-> 0, to |-> 0, delta |-> 0, target |-> 0]
    BY <1>2 DEF NoMove
  <2>2. 0 \in Int /\ 0 \in {-1, 0, 1} /\ TRUE \in BOOLEAN
    OBVIOUS
  <2> QED BY <1>1, <2>1, <2>2, Zenon
<1>3. CASE q = [NoMove EXCEPT !.target = c]
  <2>1. q = [noop |-> FALSE, from |-> 0, to |-> 0, delta |-> 0, target |-> c]
    BY <1>3 DEF NoMove
  <2>2. 0 \in Int /\ 0 \in {-1, 0, 1} /\ FALSE \in BOOLEAN
    OBVIOUS
  <2> QED BY <1>1, <2>1, <2>2, Zenon
<1>4. CASE q = [NoMove EXCEPT !.from = a, !.to = b, !.delta = d, !.target = c]
  <2>1. q = [noop |-> FALSE, from |-> a, to |-> b, delta |-> d, target |-> c]
    BY <1>4 DEF NoMove
  <2>2. d \in {-1, 0, 1} /\ FALSE \in BOOLEAN
    OBVIOUS
  <2> QED BY <1>1, <2>1, <2>2, Zenon
<1> QED BY <1>2, <1>3, <1>4

LEMMA PlanIsTyped ==
  ASSUME OrdersAreInt, NEW u \in Umbrellas, NEW r,
         NEW p \in 0 .. Cardinality(InRow(r) \ {u})
  PROVE  MovePlan(u, r, p) \in MovePlans
PROOF
<1>1. PICK q : q = MovePlan(u, r, p)
  OBVIOUS
<1>2. PICK us \in SUBSET Umbrellas : us = InRow(r) \ {u}
  BY DEF InRow
<1> DEFINE n == Cardinality(us)
           i == Cardinality({ v \in us : umbrella[v].order < umbrella[u].order })
           at(k) == OrderAt(us, k)
<1>3. q = CASE umbrella[u].row # r /\ p = n ->
                 [NoMove EXCEPT !.target = IF n > 0 THEN at(n - 1) + 1 ELSE 1]
            [] umbrella[u].row # r /\ p < n ->
                 [NoMove EXCEPT !.from = at(p), !.to = at(n - 1), !.delta = 1, !.target = at(p)]
            [] umbrella[u].row = r /\ p = i -> [NoMove EXCEPT !.noop = TRUE]
            [] umbrella[u].row = r /\ p > i ->
                 [NoMove EXCEPT !.from = at(i), !.to = at(p - 1), !.delta = -1, !.target = at(p - 1)]
            [] umbrella[u].row = r /\ p < i ->
                 [NoMove EXCEPT !.from = at(p), !.to = at(i - 1), !.delta = 1, !.target = at(p)]
  BY <1>1, <1>2 DEF MovePlan
<1>4. n \in Nat /\ p \in 0 .. n
  BY <1>2, OrderOfAll
<1>5. i \in 0 .. n
  <2>1. PICK b \in SUBSET us : b = { v \in us : umbrella[v].order < umbrella[u].order }
    OBVIOUS
  <2>2. IsFiniteSet(us)
    BY OrderOfAll
  <2>3. IsFiniteSet(b) /\ Cardinality(b) <= Cardinality(us) /\ Cardinality(b) \in Nat
    BY <2>2, FS_Subset, FS_CardinalityType
  <2> QED BY <1>4, <2>1, <2>3
<1>6. \A k \in 0 .. n - 1 : at(k) \in Int
  BY OrderAtIsInt
<1> HIDE DEF n, i, at
<1>7. CASE umbrella[u].row # r /\ p = n
  <2>1. PICK c \in Int : c = IF n > 0 THEN at(n - 1) + 1 ELSE 1
    <3>1. n > 0 => n - 1 \in 0 .. n - 1
      BY <1>4
    <3> QED BY <1>6, <3>1
  <2>2. q = [NoMove EXCEPT !.target = c]
    BY <1>3, <1>7, <2>1
  <2>3. 1 \in {-1, 1}
    OBVIOUS
  <2> QED BY <1>1, <2>2, <2>3, PlansTyped
<1>8. CASE umbrella[u].row # r /\ p < n
  <2>1. p \in 0 .. n - 1 /\ n - 1 \in 0 .. n - 1
    BY <1>4, <1>8
  <2>2. q = [NoMove EXCEPT !.from = at(p), !.to = at(n - 1), !.delta = 1, !.target = at(p)]
    BY <1>3, <1>4, <1>8
  <2>3. at(p) \in Int /\ at(n - 1) \in Int /\ 1 \in {-1, 1}
    BY <1>6, <2>1
  <2> QED BY <1>1, <2>2, <2>3, PlansTyped
<1>9. CASE umbrella[u].row = r /\ p = i
  <2>1. q = [NoMove EXCEPT !.noop = TRUE]
    BY <1>3, <1>9
  <2>2. 1 \in {-1, 1} /\ 1 \in Int
    OBVIOUS
  <2> QED BY <1>1, <2>1, <2>2, PlansTyped
<1>10. CASE umbrella[u].row = r /\ p > i
  <2>1. i \in 0 .. n - 1 /\ p - 1 \in 0 .. n - 1 /\ ~ p = i
    BY <1>4, <1>5, <1>10
  <2>2. q = [NoMove EXCEPT !.from = at(i), !.to = at(p - 1), !.delta = -1, !.target = at(p - 1)]
    BY <1>3, <1>10, <2>1
  <2>3. at(i) \in Int /\ at(p - 1) \in Int /\ -1 \in {-1, 1}
    BY <1>6, <2>1
  <2> QED BY <1>1, <2>2, <2>3, PlansTyped
<1>11. CASE umbrella[u].row = r /\ p < i
  <2>1. p \in 0 .. n - 1 /\ i - 1 \in 0 .. n - 1 /\ ~ p = i /\ ~ p > i
    BY <1>4, <1>5, <1>11
  <2>2. q = [NoMove EXCEPT !.from = at(p), !.to = at(i - 1), !.delta = 1, !.target = at(p)]
    BY <1>3, <1>11, <2>1
  <2>3. at(p) \in Int /\ at(i - 1) \in Int /\ 1 \in {-1, 1}
    BY <1>6, <2>1
  <2> QED BY <1>1, <2>2, <2>3, PlansTyped
<1>12. (p = n \/ p < n) /\ (umbrella[u].row = r => p = i \/ p > i \/ p < i)
  BY <1>4, <1>5
<1> QED BY <1>7, <1>8, <1>9, <1>10, <1>11, <1>12
(* What is asked for, and what is written.                                 *)
LEMMA AskTyped ==
  ASSUME NEW op \in LayoutOps, NEW ids \in SUBSET Umbrellas, NEW r \in Rows \cup {None},
         NEW labels \in SUBSET Labels, NEW order \in Int, NEW plan \in MovePlans
  PROVE  [op |-> op, ids |-> ids, row |-> r, labels |-> labels, order |-> order, plan |-> plan]
           \in LayoutRequest
PROOF BY Zenon DEF LayoutRequest

LEMMA NoMoveTyped == NoMove \in MovePlans
PROOF
<1>1. 0 \in Int /\ 0 \in {-1, 0, 1} /\ FALSE \in BOOLEAN
  OBVIOUS
<1> QED BY <1>1, Zenon DEF NoMove, MovePlans

LEMMA AskedInto ==
  ASSUME NEW op, NEW ids, NEW r, NEW n, n = NextOrder(r)
  PROVE  AskInto(op, ids, r)
           = [op |-> op, ids |-> ids, row |-> r, labels |-> {}, order |-> n, plan |-> NoMove]
PROOF
<1>1. AskInto(op, ids, r) = [Ask(op, ids) EXCEPT !.row = r, !.order = n]
  BY Zenon DEF AskInto
<1>2. PICK x : x = [Ask(op, ids) EXCEPT !.row = r, !.order = n]
  OBVIOUS
<1>3. x = [op |-> op, ids |-> ids, row |-> r, labels |-> {}, order |-> n, plan |-> NoMove]
  BY <1>2 DEF Ask
<1> QED BY <1>1, <1>2, <1>3, Zenon

LEMMA AskedLabels ==
  ASSUME NEW op, NEW ids, NEW r, NEW ls, NEW n, n = NextOrder(r)
  PROVE  [AskInto(op, ids, r) EXCEPT !.labels = ls]
           = [op |-> op, ids |-> ids, row |-> r, labels |-> ls, order |-> n, plan |-> NoMove]
PROOF
<1>1. PICK x : x = AskInto(op, ids, r)
  OBVIOUS
<1>2. x = [op |-> op, ids |-> ids, row |-> r, labels |-> {}, order |-> n, plan |-> NoMove]
  BY <1>1, AskedInto
<1>3. [x EXCEPT !.labels = ls]
        = [op |-> op, ids |-> ids, row |-> r, labels |-> ls, order |-> n, plan |-> NoMove]
  BY <1>2
<1> QED BY <1>1, <1>3, Zenon

LEMMA AskedMove ==
  ASSUME NEW ids, NEW r, NEW plan
  PROVE  [Ask("move", ids) EXCEPT !.row = r, !.plan = plan]
           = [op |-> "move", ids |-> ids, row |-> r, labels |-> {}, order |-> 0, plan |-> plan]
PROOF
<1>1. PICK x : x = [Ask("move", ids) EXCEPT !.row = r, !.plan = plan]
  OBVIOUS
<1>2. x = [op |-> "move", ids |-> ids, row |-> r, labels |-> {}, order |-> 0, plan |-> plan]
  BY <1>1 DEF Ask
<1> QED BY <1>1, <1>2

LEMMA LayoutReadsTyped ==
  ASSUME LayoutTypeOK, NEW w \in Workers,
         CreateLoad(w) \/ GenerateLoad(w) \/ LabelLoad(w) \/ BulkDeleteLoad(w)
           \/ MoveLoad(w) \/ RetireLoad(w) \/ RestoreLoad(w)
  PROVE  LayoutTypeOK'
PROOF
<1>1. OrdersAreInt
  BY DEF LayoutTypeOK, UmbrellaRow, OrdersAreInt
<1>2. ASSUME NEW x \in LayoutRequest, Begin(w, x), UNCHANGED layout
      PROVE  LayoutTypeOK'
  <2>1. work' \in [Workers -> LayoutRequest \cup {NoRequest}] /\ serial' \in BOOLEAN
    BY <1>2, RequestBegins DEF LayoutTypeOK
  <2> QED BY <1>2, <2>1 DEF LayoutTypeOK, layout
<1>3. /\ {"place", "label", "bulkDelete", "move", "retire", "restore"} \subseteq LayoutOps
      /\ None \in Rows \cup {None} /\ 0 \in Int /\ {} \in SUBSET Umbrellas
      /\ {} \in SUBSET Labels
  BY DEF LayoutOps
<1>4. ASSUME CreateLoad(w) \/ GenerateLoad(w) PROVE LayoutTypeOK'
  <2>1. PICK r \in LiveRows, ls \in SUBSET Labels :
          Begin(w, [AskInto("place", {}, r) EXCEPT !.labels = ls]) /\ UNCHANGED layout
    <3>1. CASE CreateLoad(w)
      BY <3>1 DEF CreateLoad
    <3>2. CASE GenerateLoad(w)
      <4>1. PICK r \in LiveRows, first \in Labels, last \in Labels :
              /\ first .. last \subseteq Labels
              /\ Begin(w, [AskInto("place", {}, r) EXCEPT
                             !.labels = { l \in first .. last : ~ LabelTaken(l) }])
              /\ UNCHANGED layout
        BY <3>2 DEF GenerateLoad
      <4>2. { l \in first .. last : ~ LabelTaken(l) } \in SUBSET Labels
        BY <4>1
      <4> QED BY <4>1, <4>2
    <3> QED BY <1>4, <3>1, <3>2
  <2>2. PICK n \in Int : n = NextOrder(r)
    BY <1>1, NextOrderIsInt
  <2>3. [AskInto("place", {}, r) EXCEPT !.labels = ls]
          = [op |-> "place", ids |-> {}, row |-> r, labels |-> ls, order |-> n, plan |-> NoMove]
    BY <2>2, AskedLabels
  <2>4. r \in Rows \cup {None}
    BY DEF LiveRows
  <2>5. [op |-> "place", ids |-> {}, row |-> r, labels |-> ls, order |-> n, plan |-> NoMove]
          \in LayoutRequest
    BY <1>3, <2>4, NoMoveTyped, AskTyped
  <2> QED BY <1>2, <2>1, <2>3, <2>5
<1>5. ASSUME NEW op \in {"bulkDelete", "retire"}, NEW ids \in SUBSET Umbrellas,
             Begin(w, Ask(op, ids)), UNCHANGED layout
      PROVE  LayoutTypeOK'
  <2>1. Ask(op, ids) \in LayoutRequest
    BY <1>3, NoMoveTyped, AskTyped DEF Ask
  <2> QED BY <1>2, <1>5, <2>1
<1>6. ASSUME LabelLoad(w) PROVE LayoutTypeOK'
  <2>1. PICK u \in Stored, l \in Labels :
          Begin(w, [Ask("label", {u}) EXCEPT !.labels = {l}]) /\ UNCHANGED layout
    BY <1>6 DEF LabelLoad
  <2>2. [Ask("label", {u}) EXCEPT !.labels = {l}]
          = [op |-> "label", ids |-> {u}, row |-> None, labels |-> {l}, order |-> 0,
             plan |-> NoMove]
    BY DEF Ask
  <2>3. {u} \in SUBSET Umbrellas /\ {l} \in SUBSET Labels
    BY DEF Stored
  <2>4. [op |-> "label", ids |-> {u}, row |-> None, labels |-> {l}, order |-> 0,
         plan |-> NoMove] \in LayoutRequest
    BY <1>3, <2>3, NoMoveTyped, AskTyped
  <2> QED BY <1>2, <2>1, <2>2, <2>4
<1>7. ASSUME MoveLoad(w) PROVE LayoutTypeOK'
  <2>1. PICK u \in Active, r \in LiveRows :
          \E position \in 0 .. Cardinality(InRow(r) \ {u}) :
             /\ Begin(w, [Ask("move", {u}) EXCEPT !.row = r, !.plan = MovePlan(u, r, position)])
             /\ UNCHANGED layout
    BY <1>7 DEF MoveLoad
  <2>2. PICK position \in 0 .. Cardinality(InRow(r) \ {u}) :
          /\ Begin(w, [Ask("move", {u}) EXCEPT !.row = r, !.plan = MovePlan(u, r, position)])
          /\ UNCHANGED layout
    BY <2>1
  <2>3. u \in Umbrellas /\ {u} \in SUBSET Umbrellas /\ r \in Rows \cup {None}
    BY DEF Active, Stored, LiveRows
  <2>4. PICK plan \in MovePlans : plan = MovePlan(u, r, position)
    BY <1>1, <2>3, PlanIsTyped
  <2>5. [Ask("move", {u}) EXCEPT !.row = r, !.plan = MovePlan(u, r, position)]
          = [op |-> "move", ids |-> {u}, row |-> r, labels |-> {}, order |-> 0, plan |-> plan]
    BY <2>4, AskedMove
  <2>6. [op |-> "move", ids |-> {u}, row |-> r, labels |-> {}, order |-> 0, plan |-> plan]
          \in LayoutRequest
    BY <1>3, <2>3, AskTyped
  <2> QED BY <1>2, <2>2, <2>5, <2>6
<1>8. ASSUME RestoreLoad(w) PROVE LayoutTypeOK'
  <2>1. PICK u \in Stored, r \in LiveRows :
          Begin(w, AskInto("restore", {u}, r)) /\ UNCHANGED layout
    BY <1>8 DEF RestoreLoad
  <2>2. PICK n \in Int : n = NextOrder(r)
    BY <1>1, NextOrderIsInt
  <2>3. AskInto("restore", {u}, r)
          = [op |-> "restore", ids |-> {u}, row |-> r, labels |-> {}, order |-> n,
             plan |-> NoMove]
    BY <2>2, AskedInto
  <2>4. {u} \in SUBSET Umbrellas /\ r \in Rows \cup {None}
    BY DEF Stored, LiveRows
  <2>5. [op |-> "restore", ids |-> {u}, row |-> r, labels |-> {}, order |-> n,
         plan |-> NoMove] \in LayoutRequest
    BY <1>3, <2>4, NoMoveTyped, AskTyped
  <2> QED BY <1>2, <2>1, <2>3, <2>5
<1>9. ASSUME BulkDeleteLoad(w) PROVE LayoutTypeOK'
  <2>1. PICK ids \in SUBSET Active : Begin(w, Ask("bulkDelete", ids)) /\ UNCHANGED layout
    BY <1>9 DEF BulkDeleteLoad
  <2>2. ids \in SUBSET Umbrellas
    BY DEF Active, Stored
  <2> QED BY <1>5, <2>1, <2>2
<1>10. ASSUME RetireLoad(w) PROVE LayoutTypeOK'
  <2>1. PICK u \in Active : Begin(w, Ask("retire", {u})) /\ UNCHANGED layout
    BY <1>10 DEF RetireLoad
  <2>2. {u} \in SUBSET Umbrellas
    BY DEF Active, Stored
  <2> QED BY <1>5, <2>1, <2>2
<1> QED BY <1>4, <1>6, <1>7, <1>8, <1>9, <1>10
LEMMA UmbrellaTyped ==
  /\ NoUmbrella \in UmbrellaRow
  /\ \A l \in Labels \cup {0}, r \in Rows \cup {None}, n \in Int, b \in BOOLEAN :
       [label |-> l, row |-> r, retired |-> b, order |-> n] \in UmbrellaRow
PROOF
<1>1. \A l \in Labels \cup {0}, r \in Rows \cup {None}, n \in Int, b \in BOOLEAN :
        [label |-> l, row |-> r, retired |-> b, order |-> n] \in UmbrellaRow
  BY Zenon DEF UmbrellaRow
<1>2. 0 \in Labels \cup {0} /\ None \in Rows \cup {None} /\ 0 \in Int /\ FALSE \in BOOLEAN
  OBVIOUS
<1> QED BY <1>1, <1>2, Zenon DEF NoUmbrella

LEMMA UmbrellaPatched ==
  ASSUME NEW x \in UmbrellaRow, NEW l \in Labels \cup {0}, NEW r \in Rows \cup {None},
         NEW n \in Int, NEW y,
         \/ y = [x EXCEPT !.label = l]
         \/ y = [x EXCEPT !.retired = TRUE, !.row = r]
         \/ y = [x EXCEPT !.row = r, !.order = n]
         \/ y = [x EXCEPT !.order = @ + n]
  PROVE  y \in UmbrellaRow
PROOF
<1>1. PICK k \in Labels \cup {0}, q \in Rows \cup {None}, b \in BOOLEAN, m \in Int :
        x = [label |-> k, row |-> q, retired |-> b, order |-> m]
  <2>1. /\ x.label \in Labels \cup {0} /\ x.row \in Rows \cup {None} /\ x.retired \in BOOLEAN
        /\ x.order \in Int
    BY DEF UmbrellaRow
  <2>2. x = [label |-> x.label, row |-> x.row, retired |-> x.retired, order |-> x.order]
    BY DEF UmbrellaRow
  <2> QED BY <2>1, <2>2
<1>2. CASE y = [x EXCEPT !.label = l]
  <2>1. y = [label |-> l, row |-> q, retired |-> b, order |-> m]
    BY <1>1, <1>2
  <2> QED BY <2>1, UmbrellaTyped, Zenon
<1>3. CASE y = [x EXCEPT !.retired = TRUE, !.row = r]
  <2>1. y = [label |-> k, row |-> r, retired |-> TRUE, order |-> m]
    BY <1>1, <1>3
  <2>2. TRUE \in BOOLEAN
    OBVIOUS
  <2> QED BY <2>1, <2>2, UmbrellaTyped, Zenon
<1>4. CASE y = [x EXCEPT !.row = r, !.order = n]
  <2>1. y = [label |-> k, row |-> r, retired |-> b, order |-> n]
    BY <1>1, <1>4
  <2> QED BY <2>1, UmbrellaTyped, Zenon
<1>5. CASE y = [x EXCEPT !.order = @ + n]
  <2>1. y = [label |-> k, row |-> q, retired |-> b, order |-> m + n]
    BY <1>1, <1>5
  <2>2. m + n \in Int
    OBVIOUS
  <2> QED BY <2>1, <2>2, UmbrellaTyped, Zenon
<1> QED BY <1>2, <1>3, <1>4, <1>5

LEMMA PatchedLabel ==
  ASSUME NEW x \in UmbrellaRow, NEW l \in Labels, NEW y,
         y = [x EXCEPT !.label = l] \/ y = [x EXCEPT !.retired = TRUE, !.row = None]
  PROVE  y \in UmbrellaRow
PROOF
<1>1. l \in Labels \cup {0} /\ None \in Rows \cup {None} /\ 0 \in Int
  OBVIOUS
<1> QED BY <1>1, UmbrellaPatched

LEMMA PatchedOrder ==
  ASSUME NEW x \in UmbrellaRow, NEW r \in Rows \cup {None}, NEW n \in Int, NEW y,
         y = [x EXCEPT !.row = r, !.order = n] \/ y = [x EXCEPT !.order = @ + n]
  PROVE  y \in UmbrellaRow
PROOF
<1>1. 0 \in Labels \cup {0}
  OBVIOUS
<1> QED BY <1>1, UmbrellaPatched

LEMMA MovedTyped ==
  ASSUME \A u \in Umbrellas : umbrella[u] \in UmbrellaRow, NEW x,
         x.row \in Rows \cup {None}, x.plan \in MovePlans
  PROVE  Moved(x) \in [Umbrellas -> UmbrellaRow]
PROOF
<1>1. x.plan.delta \in Int /\ x.plan.target \in Int
  BY DEF MovePlans
<1>2. PICK t : t = Moved(x)
  OBVIOUS
<1>3. ASSUME NEW u \in Umbrellas PROVE t[u] \in UmbrellaRow
  <2>1. PICK y \in UmbrellaRow : y = umbrella[u]
    OBVIOUS
  <2>2. PICK d \in Int : d = x.plan.delta
    BY <1>1
  <2>3. \/ t[u] = y
        \/ t[u] = [y EXCEPT !.row = x.row, !.order = x.plan.target]
        \/ t[u] = [y EXCEPT !.order = @ + d]
    BY <1>2, <2>1, <2>2, Zenon DEF Moved
  <2>4. CASE t[u] = [y EXCEPT !.row = x.row, !.order = x.plan.target]
    <3>1. PICK r \in Rows \cup {None}, n \in Int : r = x.row /\ n = x.plan.target
      BY <1>1
    <3>2. PICK z : z = t[u]
      OBVIOUS
    <3>3. z = [y EXCEPT !.row = r, !.order = n]
      BY <2>4, <3>1, <3>2
    <3>4. z \in UmbrellaRow
      BY <3>3, PatchedOrder, Zenon
    <3> QED BY <3>2, <3>4
  <2>5. CASE t[u] = [y EXCEPT !.order = @ + d]
    <3>1. None \in Rows \cup {None}
      OBVIOUS
    <3> QED BY <2>5, <3>1, PatchedOrder
  <2> QED BY <2>1, <2>3, <2>4, <2>5
<1>4. t = [u \in Umbrellas |-> t[u]]
  BY <1>2 DEF Moved
<1> QED BY <1>2, <1>3, <1>4

(* The umbrellas that a write leaves.                                      *)
LEMMA LayoutWritesTyped ==
  ASSUME LayoutTypeOK, NEW w \in Workers,
         PlaceWrite(w) \/ LabelWrite(w) \/ BulkDeleteWrite(w) \/ MoveWrite(w)
           \/ RetireWrite(w) \/ RestoreWrite(w)
  PROVE  umbrella' \in [Umbrellas -> UmbrellaRow] /\ UNCHANGED <<sector, row>> /\ Finish(w)
PROOF
<1>1. UNCHANGED <<sector, row>> /\ Finish(w)
  BY DEF PlaceWrite, LabelWrite, BulkDeleteWrite, MoveWrite, RetireWrite, RestoreWrite, Set
<1>2. PICK x \in LayoutRequest : x = work[w]
  <2>1. work[w].op \in LayoutOps
    BY DEF PlaceWrite, LabelWrite, BulkDeleteWrite, MoveWrite, RetireWrite, RestoreWrite, At,
           LayoutOps
  <2>2. NoRequest.op \notin LayoutOps
    BY DEF NoRequest, LayoutOps
  <2>3. work[w] \in LayoutRequest \cup {NoRequest}
    BY DEF LayoutTypeOK
  <2> QED BY <2>1, <2>2, <2>3
<1>3. /\ x.ids \in SUBSET Umbrellas /\ x.row \in Rows \cup {None}
      /\ x.labels \in SUBSET Labels /\ x.order \in Int /\ x.plan \in MovePlans
  BY DEF LayoutRequest
<1>4. \A u \in Umbrellas : umbrella[u] \in UmbrellaRow
  BY DEF LayoutTypeOK
<1>5. \A u \in Stored : u \in Umbrellas /\ umbrella[u].label \in Labels
  BY <1>4 DEF Stored, UmbrellaRow
<1>6. CASE PlaceWrite(w)
  <2>1. PICK f \in NewIds(x.labels) : umbrella' = WithPlaced(x, f)
    BY <1>2, <1>6 DEF PlaceWrite
  <2>2. PICK t : t = WithPlaced(x, f)
    OBVIOUS
  <2>3. ASSUME NEW u \in Umbrellas PROVE t[u] \in UmbrellaRow
    <3>1. CASE \E l \in x.labels : f[l] = u
      <4>1. PICK l : l = CHOOSE k \in x.labels : f[k] = u
        OBVIOUS
      <4>2. l \in x.labels
        BY <3>1, <4>1
      <4>3. t[u] = Placed(l, x.row, x.order + Cardinality({ k \in x.labels : k < l }))
        BY <2>2, <3>1, <4>1, Zenon DEF WithPlaced
      <4>4. Cardinality({ k \in x.labels : k < l }) \in Nat
        <5>1. \A k \in x.labels : k \in Nat
          BY <1>3, LayoutAssumption
        <5>2. { k \in x.labels : k < l } \in SUBSET (0 .. l)
          BY <4>2, <5>1
        <5>4. 0 \in Int /\ l \in Int
          BY <4>2, <5>1
        <5>3. IsFiniteSet(0 .. l)
          BY <5>4, FS_Interval
        <5> QED BY <5>2, <5>3, FS_Subset, FS_CardinalityType
      <4>8. PICK i \in Nat : i = Cardinality({ k \in x.labels : k < l })
        BY <4>4
      <4>9. x.order + i \in Int
        BY <1>3
      <4>5. PICK n \in Int : n = x.order + Cardinality({ k \in x.labels : k < l })
        BY <4>8, <4>9, Zenon
      <4>6. l \in Labels \cup {0} /\ FALSE \in BOOLEAN
        BY <1>3, <4>2
      <4>7. t[u] = Placed(l, x.row, n)
        BY <4>3, <4>5, Zenon
      <4> QED BY <1>3, <4>6, <4>7, UmbrellaTyped, Zenon DEF Placed
    <3>2. CASE ~ \E l \in x.labels : f[l] = u
      <4>1. t[u] = umbrella[u]
        BY <2>2, <3>2, Zenon DEF WithPlaced
      <4> QED BY <1>4, <4>1
    <3> QED BY <3>1, <3>2
  <2>4. t = [u \in Umbrellas |-> t[u]]
    BY <2>2 DEF WithPlaced
  <2> QED BY <1>1, <2>1, <2>2, <2>3, <2>4
<1>7. ASSUME NEW u \in Umbrellas, NEW y \in UmbrellaRow, Set(u, y)
      PROVE  umbrella' \in [Umbrellas -> UmbrellaRow]
  BY <1>7 DEF Set, LayoutTypeOK
<1>8. CASE LabelWrite(w)
  <2>1. PICK u \in Stored, l \in Labels : Set(u, [umbrella[u] EXCEPT !.label = l])
    BY <1>2, <1>3, <1>8 DEF LabelWrite
  <2>2. PICK y : y = [umbrella[u] EXCEPT !.label = l]
    OBVIOUS
  <2>3. y \in UmbrellaRow
    BY <1>4, <1>5, <2>2, PatchedLabel
  <2> QED BY <1>1, <1>5, <1>7, <2>1, <2>2, <2>3
<1>9. CASE RetireWrite(w)
  <2>1. PICK u \in Stored : Set(u, [umbrella[u] EXCEPT !.retired = TRUE, !.row = None])
    BY <1>2, <1>9 DEF RetireWrite
  <2>2. PICK y : y = [umbrella[u] EXCEPT !.retired = TRUE, !.row = None]
    OBVIOUS
  <2>3. y \in UmbrellaRow
    BY <1>4, <1>5, <2>2, PatchedLabel
  <2> QED BY <1>1, <1>5, <1>7, <2>1, <2>2, <2>3
<1>10. CASE RestoreWrite(w)
  <2>1. PICK u \in Stored : Set(u, Placed(umbrella[u].label, x.row, x.order))
    BY <1>2, <1>10 DEF RestoreWrite
  <2>2. umbrella[u].label \in Labels \cup {0} /\ FALSE \in BOOLEAN
    BY <1>5
  <2>3. Placed(umbrella[u].label, x.row, x.order) \in UmbrellaRow
    BY <1>3, <2>2, UmbrellaTyped, Zenon DEF Placed
  <2> QED BY <1>1, <1>5, <1>7, <2>1, <2>3
<1>11. CASE BulkDeleteWrite(w)
  <2>1. umbrella' = [u \in Umbrellas |-> IF u \in x.ids \cap Stored THEN NoUmbrella
                                                                    ELSE umbrella[u]]
    BY <1>2, <1>11 DEF BulkDeleteWrite
  <2>2. NoUmbrella \in UmbrellaRow
    BY UmbrellaTyped
  <2> QED BY <1>1, <1>4, <2>1, <2>2
<1>12. CASE MoveWrite(w)
  <2>1. umbrella' = Moved(x)
    BY <1>2, <1>12 DEF MoveWrite
  <2> QED BY <1>1, <1>3, <1>4, <2>1, MovedTyped
<1> QED BY <1>6, <1>8, <1>9, <1>10, <1>11, <1>12

LEMMA LayoutTypeSteps ==
  ASSUME LayoutTypeOK, [LayoutNext]_<<layout, work, serial>>
  PROVE  LayoutTypeOK'
PROOF
<1>1. ASSUME NEW w \in Workers,
             CreateLoad(w) \/ GenerateLoad(w) \/ LabelLoad(w) \/ BulkDeleteLoad(w)
               \/ MoveLoad(w) \/ RetireLoad(w) \/ RestoreLoad(w)
      PROVE  LayoutTypeOK'
  BY <1>1, LayoutReadsTyped
<1>2. ASSUME NEW w \in Workers,
             PlaceWrite(w) \/ LabelWrite(w) \/ BulkDeleteWrite(w) \/ MoveWrite(w)
               \/ RetireWrite(w) \/ RestoreWrite(w)
      PROVE  LayoutTypeOK'
  <2>1. umbrella' \in [Umbrellas -> UmbrellaRow] /\ sector' = sector /\ row' = row /\ Finish(w)
    BY <1>2, LayoutWritesTyped
  <2> QED BY <2>1 DEF LayoutTypeOK, Finish
<1>3. ASSUME NEW w \in Workers, Abort(w), UNCHANGED layout PROVE LayoutTypeOK'
  BY <1>3 DEF LayoutTypeOK, Abort, Finish, layout
<1>4. Alone => serial' \in BOOLEAN
  BY DEF Alone, LayoutTypeOK
<1>5. ASSUME NEW u \in Umbrellas, Remove(u) PROVE LayoutTypeOK'
  BY <1>4, <1>5, UmbrellaTyped DEF LayoutTypeOK, Remove, Set
<1>6. ASSUME NEW k \in Kinds, CreateSector(k) PROVE LayoutTypeOK'
  BY <1>4, <1>6 DEF LayoutTypeOK, CreateSector, LiveSectors
<1>7. ASSUME NEW s \in Sectors,
             (\E k \in Kinds : UpdateSector(s, k)) \/ RemoveSector(s) \/ CreateRow(s)
      PROVE  LayoutTypeOK'
  BY <1>4, <1>7 DEF LayoutTypeOK, UpdateSector, RemoveSector, CreateRow, LiveSectors
<1>8. ASSUME NEW r \in Rows, RemoveRow(r) PROVE LayoutTypeOK'
  BY <1>4, <1>8 DEF LayoutTypeOK, RemoveRow, LiveRows
<1>9. CASE UNCHANGED <<layout, work, serial>>
  BY <1>9 DEF LayoutTypeOK, layout
<1> QED BY <1>1, <1>2, <1>3, <1>5, <1>6, <1>7, <1>8, <1>9 DEF LayoutNext

LEMMA LayoutTyped == LayoutSpec => []LayoutTypeOK
PROOF
<1>1. LayoutInit /\ work = [w \in Workers |-> NoRequest] /\ serial = TRUE => LayoutTypeOK
  BY UmbrellaTyped DEF LayoutInit, LayoutTypeOK
<1>2. LayoutTypeOK /\ [LayoutNext]_<<layout, work, serial>> => LayoutTypeOK'
  BY LayoutTypeSteps
<1> QED BY <1>1, <1>2, PTL DEF LayoutSpec

(* The trees of the page are structures that the server had.               *)
TreeTyped(tree) == DOMAIN tree \subseteq Rows /\ \A r \in DOMAIN tree : tree[r] \in Seq(Umbrellas)

LEMMA StructureTyped == ASSUME BeachInv PROVE TreeTyped(StructureOf(umbrella))
PROOF
<1>1. /\ DOMAIN StructureOf(umbrella) = LiveRows
      /\ \A q \in LiveRows :
           /\ Ranks(RowOf(umbrella, q), OrderOf(umbrella))
           /\ Sorted(StructureOf(umbrella)[q], RowOf(umbrella, q), OrderOf(umbrella))
  BY NoneIsNoRow, StructureRows DEF BeachInv
<1>2. ASSUME NEW q \in LiveRows PROVE StructureOf(umbrella)[q] \in Seq(Umbrellas)
  <2>1. PICK n \in Nat : n = Cardinality(RowOf(umbrella, q))
    BY <1>1, FS_CardinalityType DEF Ranks
  <2>2. StructureOf(umbrella)[q] \in [1 .. n -> RowOf(umbrella, q)]
    BY <1>1, <2>1 DEF Sorted
  <2>3. RowOf(umbrella, q) \subseteq Umbrellas
    BY DEF RowOf
  <2> QED BY <2>1, <2>2, <2>3
<1> QED BY <1>1, <1>2 DEF TreeTyped, LiveRows

(* What the page has read, and what it keeps unwritten.                    *)
CacheTyped(c) ==
  /\ c.behind \in {"nothing", "move", "more"} /\ c.read.behind \in {"nothing", "move", "more"}
  /\ c.read.phase \in {"idle", "asked", "read"}
  /\ TreeTyped(c.tree) /\ TreeTyped(c.read.tree)

EditorTyped ==
  /\ sector \in [Sectors -> Kinds \cup {None}] /\ row \in [Rows -> Sectors \cup {None}]
  /\ umbrella \in [Umbrellas -> UmbrellaRow]
  /\ work = [w \in Workers |-> NoRequest] /\ serial = TRUE
  /\ CacheTyped(cache)
  /\ move = NoMutation \/ move.phase \in {"sent", "served", "refused", "ok", "no"}

LEMMA NoTree ==
  /\ TreeTyped(NoRead.tree) /\ NoRead.phase = "idle" /\ NoRead.behind = "nothing"
  /\ TreeTyped(Asked.tree) /\ Asked.phase = "asked" /\ Asked.behind = "nothing"
PROOF BY DEF NoRead, Asked, TreeTyped

LEMMA FallTyped ==
  ASSUME PageFits, CacheTyped(cache), NEW how \in {"move", "more"}, FallBehind(how)
  PROVE  CacheTyped(cache')
PROOF
<1>1. PICK b : b = Later(cache.behind, how)
  OBVIOUS
<1>2. PICK c : c = IF cache.read.phase = "read" THEN Later(cache.read.behind, how)
                   ELSE cache.read.behind
  OBVIOUS
<1>3. cache' = [cache EXCEPT !.behind = b, !.read.behind = c]
  BY <1>1, <1>2, Zenon DEF FallBehind
<1>4. /\ cache'.tree = cache.tree /\ cache'.behind = b
      /\ cache'.read = [cache.read EXCEPT !.behind = c]
  BY <1>3 DEF PageFits
<1>5. /\ cache'.read.phase = cache.read.phase /\ cache'.read.tree = cache.read.tree
      /\ cache'.read.behind = c
  BY <1>4 DEF PageFits
<1>6. b \in {"nothing", "move", "more"} /\ c \in {"nothing", "move", "more"}
  BY <1>1, <1>2 DEF CacheTyped, Later
<1> QED BY <1>4, <1>5, <1>6 DEF CacheTyped

(* The umbrellas after a move, and after a step of the server.             *)
LEMMA ServedTyped ==
  ASSUME umbrella \in [Umbrellas -> UmbrellaRow], NEW m, MoveOk(m)
  PROVE  MoveServed(m) \in [Umbrellas -> UmbrellaRow]
PROOF
<1>1. /\ m.u \in Umbrellas /\ m.row \in Rows
      /\ m.position \in 0 .. Cardinality(InRow(m.row) \ {m.u})
  BY DEF MoveOk, Active, Stored, LiveRows
<1>2. OrdersAreInt
  BY DEF OrdersAreInt, UmbrellaRow
<1>3. PICK plan \in MovePlans : plan = MovePlan(m.u, m.row, m.position)
  BY <1>1, <1>2, PlanIsTyped
<1>4. PICK x : x = [op |-> "move", ids |-> {m.u}, row |-> m.row, labels |-> {}, order |-> 0,
                    plan |-> plan]
  OBVIOUS
<1>5. MoveServed(m) = Moved(x)
  BY <1>3, <1>4, AskedMove, Zenon DEF MoveServed
<1>6. x.row \in Rows \cup {None} /\ x.plan \in MovePlans
  BY <1>1, <1>3, <1>4
<1>7. \A u \in Umbrellas : umbrella[u] \in UmbrellaRow
  OBVIOUS
<1> QED BY <1>5, <1>6, <1>7, MovedTyped

LEMMA EditorRowsTyped ==
  ASSUME EditorInv, umbrella \in [Umbrellas -> UmbrellaRow],
         [EditorNext]_<<layout, page, work, serial>>
  PROVE  umbrella' \in [Umbrellas -> UmbrellaRow]
PROOF
<1>1. \/ umbrella' = umbrella
      \/ MoveOk(move.of) /\ umbrella' = MoveServed(move.of)
      \/ \E m \in Offers(StructureOf(umbrella)) : umbrella' = MoveServed(m)
      \/ \E u \in Stored : umbrella' = [umbrella EXCEPT ![u] = NoUmbrella]
  BY DEF EditorNext, RequestMove, ConfirmMove, SubmitMove, ServeMove, ServeOther, AnswerMove,
         StartRead, ReadTree, LandTree, ReadFails, layout
<1>2. ASSUME NEW m \in Offers(StructureOf(umbrella)) PROVE MoveOk(m)
  BY ServedAsOffered DEF EditorInv, BeachInv
<1>3. NoUmbrella \in UmbrellaRow
  BY UmbrellaTyped
<1> QED BY <1>1, <1>2, <1>3, ServedTyped

LEMMA EditorTypeSteps ==
  ASSUME EditorInv, EditorTyped, [EditorNext]_<<layout, page, work, serial>>
  PROVE  EditorTyped'
PROOF
<1>1. /\ DOMAIN cache = {"tree", "behind", "read", "early"}
      /\ DOMAIN cache.read = {"phase", "tree", "behind"}
      /\ DOMAIN move = {"of", "phase"}
  BY DEF EditorInv, PageFits
<1>2. TreeTyped(StructureOf(umbrella))
  BY StructureTyped DEF EditorInv
<1>3. UNCHANGED <<sector, row, work, serial>>
  BY DEF EditorNext, RequestMove, ConfirmMove, SubmitMove, ServeMove, ServeOther, AnswerMove,
         StartRead, ReadTree, LandTree, ReadFails, layout
<1>4. ASSUME CacheTyped(cache'),
             move' = move \/ move'.phase \in {"sent", "served", "refused", "ok", "no"}
      PROVE  EditorTyped'
  <2>2. umbrella' \in [Umbrellas -> UmbrellaRow]
    BY EditorRowsTyped DEF EditorTyped
  <2>1. move' = NoMutation \/ move'.phase \in {"sent", "served", "refused", "ok", "no"}
    BY <1>4 DEF EditorTyped
  <2> QED BY <1>3, <1>4, <2>1, <2>2 DEF EditorTyped
<1>5. CASE UNCHANGED <<layout, page, work, serial>>
  <2>1. cache' = cache /\ move' = move
    BY <1>5 DEF page
  <2>2. CacheTyped(cache')
    BY <2>1 DEF EditorTyped
  <2> QED BY <1>4, <2>1, <2>2
<1>6. ASSUME NEW m, SubmitMove(m) PROVE EditorTyped'
  <2>1. PICK b : b = IF cache.behind = "move" THEN "more" ELSE cache.behind
    OBVIOUS
  <2>2. PICK c : c = IF cache.read.behind = "move" THEN "more" ELSE cache.read.behind
    OBVIOUS
  <2>3. cache' = [cache EXCEPT !.behind = b, !.read.behind = c]
    BY <1>6, <2>1, <2>2, Zenon DEF SubmitMove
  <2>4. /\ cache'.behind = b /\ cache'.tree = cache.tree
        /\ cache'.read = [cache.read EXCEPT !.behind = c]
    BY <1>1, <2>3
  <2>5. /\ cache'.read.phase = cache.read.phase /\ cache'.read.tree = cache.read.tree
        /\ cache'.read.behind = c
    BY <1>1, <2>4
  <2>6. move'.phase = "sent"
    BY <1>6 DEF SubmitMove
  <2>7. CacheTyped(cache')
    BY <2>1, <2>2, <2>4, <2>5 DEF EditorTyped, CacheTyped
  <2> QED BY <1>4, <2>6, <2>7
<1>7. CASE ServeMove
  <2>1. CASE move' = [move EXCEPT !.phase = "served"] /\ FallBehind("move")
    <3>1. move'.phase = "served"
      BY <1>1, <2>1
    <3>2. PageFits /\ CacheTyped(cache) /\ "move" \in {"move", "more"}
      BY DEF EditorInv, EditorTyped
    <3>3. CacheTyped(cache')
      BY <2>1, <3>2, FallTyped
    <3> QED BY <1>4, <3>1, <3>3
  <2>2. CASE move' = [move EXCEPT !.phase = "refused"] /\ cache' = cache
    <3>1. move'.phase = "refused"
      BY <1>1, <2>2
    <3>2. CacheTyped(cache')
      BY <2>2 DEF EditorTyped
    <3> QED BY <1>4, <3>1, <3>2
  <2> QED BY <1>7, <2>1, <2>2 DEF ServeMove
<1>8. CASE ServeOther
  <2>1. PageFits /\ CacheTyped(cache) /\ "more" \in {"move", "more"} /\ FallBehind("more")
        /\ move' = move
    BY <1>8 DEF EditorInv, EditorTyped, ServeOther
  <2>2. CacheTyped(cache')
    BY <2>1, FallTyped
  <2> QED BY <1>4, <2>1, <2>2
<1>9. ASSUME NEW x \in {Asked, NoRead}, cache' = [cache EXCEPT !.read = x]
      PROVE  CacheTyped(cache')
  <2>1. cache'.tree = cache.tree /\ cache'.behind = cache.behind /\ cache'.read = x
    BY <1>1, <1>9
  <2>2. TreeTyped(x.tree) /\ x.phase \in {"idle", "asked"} /\ x.behind = "nothing"
    BY NoTree
  <2> QED BY <2>1, <2>2 DEF EditorTyped, CacheTyped
<1>10. CASE AnswerMove
  <2>1. move'.phase \in {"ok", "no"}
    BY <1>1, <1>10 DEF AnswerMove
  <2>2. CacheTyped(cache')
    BY <1>9, <1>10 DEF AnswerMove
  <2> QED BY <1>4, <2>1, <2>2
<1>11. CASE StartRead \/ ReadFails
  <2>1. CacheTyped(cache')
    BY <1>9, <1>11 DEF StartRead, ReadFails
  <2>2. move' = move
    BY <1>11 DEF StartRead, ReadFails
  <2> QED BY <1>4, <2>1, <2>2
<1>12. CASE ReadTree
  <2>1. PICK t : t = StructureOf(umbrella)
    OBVIOUS
  <2>2. cache' = [cache EXCEPT !.read = [phase |-> "read", tree |-> t, behind |-> "nothing"]]
        /\ move' = move
    BY <1>12, <2>1 DEF ReadTree
  <2>3. /\ cache'.behind = cache.behind /\ cache'.tree = cache.tree
        /\ cache'.read.phase = "read" /\ cache'.read.tree = t /\ cache'.read.behind = "nothing"
    BY <1>1, <2>2
  <2>4. CacheTyped(cache')
    BY <1>2, <2>1, <2>3 DEF EditorTyped, CacheTyped
  <2> QED BY <1>4, <2>2, <2>4
<1>13. CASE LandTree
  <2>1. /\ cache'.behind = cache.read.behind /\ cache'.tree = cache.read.tree
        /\ cache'.read = NoRead /\ move' = move
    BY <1>13 DEF LandTree
  <2>2. CacheTyped(cache')
    BY <2>1, NoTree DEF EditorTyped, CacheTyped
  <2> QED BY <1>4, <2>1, <2>2
<1> QED BY <1>5, <1>6, <1>7, <1>8, <1>10, <1>11, <1>12, <1>13
        DEF EditorNext, RequestMove, ConfirmMove

LEMMA EditorTypeStarts ==
  ASSUME BeachInit, PageInit, work = [w \in Workers |-> NoRequest], serial = TRUE
  PROVE  EditorTyped
PROOF
<1>1. PICK s \in Sectors, k \in Kinds :
        /\ sector = [t \in Sectors |-> IF t = s THEN k ELSE None] /\ row = [q \in Rows |-> s]
  BY DEF BeachInit
<1>2. sector \in [Sectors -> Kinds \cup {None}] /\ row \in [Rows -> Sectors \cup {None}]
  BY <1>1
<1>3. TreeTyped(StructureOf(umbrella))
  BY BeachStarts, StructureTyped
<1>4. /\ cache.tree = StructureOf(umbrella) /\ cache.behind = "nothing" /\ cache.read = NoRead
      /\ move = NoMutation
  BY DEF PageInit
<1>5. CacheTyped(cache)
  BY <1>3, <1>4, NoTree DEF CacheTyped
<1>6. umbrella \in [Umbrellas -> UmbrellaRow]
  <2>1. PICK r \in Rows :
          umbrella \in [Umbrellas -> {NoUmbrella} \cup
                                      { Placed(l, r, l) : l \in Labels \cap 1 .. OnBeach }]
    BY DEF BeachInit
  <2>2. NoUmbrella \in UmbrellaRow
    BY UmbrellaTyped
  <2>3. ASSUME NEW l \in Labels PROVE Placed(l, r, l) \in UmbrellaRow
    <3>1. l \in Labels \cup {0} /\ r \in Rows \cup {None} /\ l \in Int /\ FALSE \in BOOLEAN
      BY LayoutAssumption
    <3> QED BY <3>1, UmbrellaTyped, Zenon DEF Placed
  <2> QED BY <2>1, <2>2, <2>3
<1> QED BY <1>2, <1>4, <1>5, <1>6 DEF EditorTyped

LEMMA PageTyped == EditorSpec => [](PageTypeOK /\ LayoutTypeOK)
PROOF
<1>1. BeachInit /\ PageInit /\ work = [w \in Workers |-> NoRequest] /\ serial = TRUE
      => EditorTyped
  BY EditorTypeStarts
<1>2. EditorInv /\ EditorTyped /\ [EditorNext]_<<layout, page, work, serial>> => EditorTyped'
  BY EditorTypeSteps
<1>3. ASSUME EditorInv, EditorTyped PROVE PageTypeOK /\ LayoutTypeOK
  <2>1. PageTypeOK
    <3>1. treeAtWrite \in BOOLEAN
      BY <1>3 DEF EditorInv, WindowKept
    <3> QED BY <1>3, <3>1 DEF EditorTyped, CacheTyped, TreeTyped, PageTypeOK
  <2>2. umbrella \in [Umbrellas -> UmbrellaRow]
    BY <1>3 DEF EditorTyped
  <2>3. work \in [Workers -> LayoutRequest \cup {NoRequest}]
    BY <1>3 DEF EditorTyped
  <2>4. serial \in BOOLEAN
    BY <1>3 DEF EditorTyped
  <2>5. LayoutTypeOK
    BY <1>3, <2>2, <2>3, <2>4 DEF LayoutTypeOK, EditorTyped
  <2> QED BY <2>1, <2>5
<1> QED BY <1>1, <1>2, <1>3, EditorAlways, PTL DEF EditorSpec

(* The type of each part.                                                  *)
LEMMA StaffTyped == StaffSpec => []StaffTypeOK
PROOF BY StaffAlways, PTL DEF StaffInv

LEMMA RatesTyped == RatesSpec => []RatesTypeOK
PROOF BY RatesAlways, PTL DEF RatesInv

LEMMA RentalsTyped == RentalsSpec => []RentalsTypeOK
PROOF BY RentalsAlways, PTL DEF RentalsInv

LEMMA DaysTyped == DaysSpec => []DaysTypeOK
PROOF
<1>1. DaysInit /\ work = [w \in Workers |-> NoRequest] /\ serial = TRUE => DaysInv
  BY DaysInvAtFirst
<1>2. DaysInv /\ [DaysNext]_<<days, work, serial>> => DaysInv'
  BY DaysInvKept
<1>3. DaysInv => DaysTypeOK
  BY DEF DaysInv
<1> QED BY <1>1, <1>2, <1>3, PTL DEF DaysSpec

LEMMA PackagesTyped == PackagesSpec => []PackagesTypeOK
PROOF
<1>1. PackagesInv => PackagesTypeOK
  BY DEF PackagesInv, CatalogTypeOK
<1> QED BY <1>1, PackagesAlways, PTL

(* The tables of the part that moves hold what their columns may hold, and *)
(* a request in flight what the method of its part reads.                  *)
THEOREM OfficeTypeCorrect == Spec => []BackOfficeTypeOK
PROOF
<1>1. Spec => [](focus \in {"layout", "editor", "staff", "rates", "rentals", "slots", "packages"})
  <2> DEFINE Part ==
        focus \in {"layout", "editor", "staff", "rates", "rentals", "slots", "packages"}
  <2>1. Init => Part
    BY DEF Init
  <2>2. Part /\ [Next]_vars => Part'
    BY PartMoves
  <2> QED BY <2>1, <2>2, PTL DEF Spec
<1>2. Spec => [](focus = "layout" => LayoutTypeOK)
  <2>1. ~ (focus = "layout") /\ [Next]_vars => (~ (focus = "layout"))'
    BY PartMoves
  <2>2. Spec /\ ~ (focus = "layout") => [](~ (focus = "layout"))
    BY <2>1, PTL DEF Spec
  <2>3. Spec /\ focus = "layout" => [](LayoutTypeOK)
    BY OfficeIsItsParts, LayoutTyped, PTL
  <2> QED BY <2>2, <2>3, PTL
<1>3. Spec => [](focus = "editor" => PageTypeOK /\ LayoutTypeOK)
  <2>1. ~ (focus = "editor") /\ [Next]_vars => (~ (focus = "editor"))'
    BY PartMoves
  <2>2. Spec /\ ~ (focus = "editor") => [](~ (focus = "editor"))
    BY <2>1, PTL DEF Spec
  <2>3. Spec /\ focus = "editor" => [](PageTypeOK /\ LayoutTypeOK)
    BY OfficeIsItsParts, PageTyped, PTL
  <2> QED BY <2>2, <2>3, PTL
<1>4. Spec => [](focus = "staff" => StaffTypeOK)
  <2>1. ~ (focus = "staff") /\ [Next]_vars => (~ (focus = "staff"))'
    BY PartMoves
  <2>2. Spec /\ ~ (focus = "staff") => [](~ (focus = "staff"))
    BY <2>1, PTL DEF Spec
  <2>3. Spec /\ focus = "staff" => [](StaffTypeOK)
    BY OfficeIsItsParts, StaffTyped, PTL
  <2> QED BY <2>2, <2>3, PTL
<1>5. Spec => [](focus = "rates" => RatesTypeOK)
  <2>1. ~ (focus = "rates") /\ [Next]_vars => (~ (focus = "rates"))'
    BY PartMoves
  <2>2. Spec /\ ~ (focus = "rates") => [](~ (focus = "rates"))
    BY <2>1, PTL DEF Spec
  <2>3. Spec /\ focus = "rates" => [](RatesTypeOK)
    BY OfficeIsItsParts, RatesTyped, PTL
  <2> QED BY <2>2, <2>3, PTL
<1>6. Spec => [](focus = "rentals" => RentalsTypeOK)
  <2>1. ~ (focus = "rentals") /\ [Next]_vars => (~ (focus = "rentals"))'
    BY PartMoves
  <2>2. Spec /\ ~ (focus = "rentals") => [](~ (focus = "rentals"))
    BY <2>1, PTL DEF Spec
  <2>3. Spec /\ focus = "rentals" => [](RentalsTypeOK)
    BY OfficeIsItsParts, RentalsTyped, PTL
  <2> QED BY <2>2, <2>3, PTL
<1>7. Spec => [](focus = "slots" => DaysTypeOK)
  <2>1. ~ (focus = "slots") /\ [Next]_vars => (~ (focus = "slots"))'
    BY PartMoves
  <2>2. Spec /\ ~ (focus = "slots") => [](~ (focus = "slots"))
    BY <2>1, PTL DEF Spec
  <2>3. Spec /\ focus = "slots" => [](DaysTypeOK)
    BY OfficeIsItsParts, DaysTyped, PTL
  <2> QED BY <2>2, <2>3, PTL
<1>8. Spec => [](focus = "packages" => PackagesTypeOK)
  <2>1. ~ (focus = "packages") /\ [Next]_vars => (~ (focus = "packages"))'
    BY PartMoves
  <2>2. Spec /\ ~ (focus = "packages") => [](~ (focus = "packages"))
    BY <2>1, PTL DEF Spec
  <2>3. Spec /\ focus = "packages" => [](PackagesTypeOK)
    BY OfficeIsItsParts, PackagesTyped, PTL
  <2> QED BY <2>2, <2>3, PTL
<1>9. /\ focus \in {"layout", "editor", "staff", "rates", "rentals", "slots", "packages"}
      /\ focus = "layout" => LayoutTypeOK
      /\ focus = "editor" => PageTypeOK /\ LayoutTypeOK
      /\ focus = "staff" => StaffTypeOK
      /\ focus = "rates" => RatesTypeOK
      /\ focus = "rentals" => RentalsTypeOK
      /\ focus = "slots" => DaysTypeOK
      /\ focus = "packages" => PackagesTypeOK
      => BackOfficeTypeOK
  BY DEF BackOfficeTypeOK
<1> QED BY <1>1, <1>2, <1>3, <1>4, <1>5, <1>6, <1>7, <1>8, <1>9, PTL
=============================================================================
