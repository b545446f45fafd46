---------------------------- MODULE StaffAccess -----------------------------
(***************************************************************************)
(* The users of an establishment, how they get in, and what the staff may  *)
(* do: EstablishmentUsersService, CredentialSetupService, the login of     *)
(* IdentityService, StaffPermissionsService, and the reset by the          *)
(* platform. A JWT is not checked again until it expires, eight hours      *)
(* after: a user who has been disabled may use it still.                   *)
(*                                                                         *)
(* asked is a history variable: the permissions last asked for each user.  *)
(***************************************************************************)
EXTENDS Requests

CONSTANTS Users, Tokens,        \* identifiers, as many as rows at most
          FirstAdmin,           \* whom the platform has created
          Permissions,          \* CONFIGURABLE_PERMISSIONS
          TeamManage,           \* the one of them that the users are managed by
          StaffDefault          \* what PERMISSION_ROLES grants to the staff

ASSUME StaffAssumption ==
  /\ None \notin Users \cup Tokens
  /\ IsFiniteSet(Users) /\ FirstAdmin \in Users
  /\ StaffDefault \subseteq Permissions /\ TeamManage \in Permissions

VARIABLES user,         \* table User
          token,        \* table CredentialSetupToken
          override,     \* table StaffPermissionOverride: the rows of each user
          jwt,          \* the users who hold a JWT that has not expired
          asked

staff == <<user, token, override, jwt, asked>>

UserRow == [role: {"admin", "staff"}, disabled: BOOLEAN, password: BOOLEAN]

TokenRow == [user: Users, consumed: BOOLEAN, expired: BOOLEAN]

OverrideRow == [permission: Permissions, granted: BOOLEAN]

ASSUME NoRowAssumption == None \notin UserRow \cup TokenRow

Members == { u \in Users : user[u] # None }
Admins == { u \in Members : user[u].role = "admin" }
ActiveAdmins == { u \in Admins : ~ user[u].disabled }
Issued == { t \in Tokens : token[t] # None }
Unconsumed(u) == { t \in Issued : token[t].user = u /\ ~ token[t].consumed }
LiveLinks(u) == { t \in Unconsumed(u) : ~ token[t].expired }

Consumed(ts) == [t \in Tokens |-> IF t \in ts THEN [token[t] EXCEPT !.consumed = TRUE]
                                              ELSE token[t]]

-----------------------------------------------------------------------------
(* Permissions: the rows hold what differs from the default                *)

(* A variant that is not the code: what is not granted has no row.         *)
OverridesForGranted(desired) ==
  { r \in OverrideRow : r.granted /\ r.permission \in desired \ StaffDefault }

OverridesFor(desired) ==
  { r \in OverrideRow :
      /\ r.granted = (r.permission \in desired)
      /\ r.granted # (r.permission \in StaffDefault) }

(* effectiveFor                                                            *)
EffectiveFor(rows) ==
  { p \in Permissions :
      \/ [permission |-> p, granted |-> TRUE] \in rows
      \/ p \in StaffDefault /\ [permission |-> p, granted |-> FALSE] \notin rows }

-----------------------------------------------------------------------------
(* Requests. seen is the rows a statement of the transaction has found.    *)

StaffRequest ==
  [op: {"invite", "issue", "redeem", "disable", "permissions"}, u: Users, seen: SUBSET Tokens,
   desired: SUBSET Permissions, old: SUBSET OverrideRow]

About(op, u) == [op |-> op, u |-> u, seen |-> {}, desired |-> {}, old |-> {}]

(* The guard of the controller: the role of the JWT or the rows of the     *)
(* user grant it.                                                          *)
Managers ==
  { u \in jwt : u \in Admins \/ TeamManage \in EffectiveFor(override[u]) }

CreateUser(w) ==
  \E u \in Users \ Members, role \in {"admin", "staff"} :
     /\ Managers # {}
     /\ user' = [user EXCEPT ![u] = [role |-> role, disabled |-> FALSE, password |-> FALSE]]
     /\ Begin(w, About("invite", u))
     /\ UNCHANGED <<token, override, jwt, asked>>

ResetPassword(w) ==
  \E u \in Members :
     /\ Managers # {}
     /\ ~ user[u].disabled
     /\ Begin(w, About("invite", u))
     /\ UNCHANGED staff

(* resetAdminPassword, by the platform.                                    *)
ResetAdminPassword(w) ==
  \E u \in ActiveAdmins :
     /\ ActiveAdmins = {u}
     /\ Begin(w, About("invite", u))
     /\ UNCHANGED staff

-----------------------------------------------------------------------------
(* issueAndSend, a transaction: the links that were there, then a new one. *)

IssueFind(w) ==
  /\ At(w, "invite")
  /\ work' = [work EXCEPT ![w].op = "issue", ![w].seen = Unconsumed(work[w].u)]
  /\ UNCHANGED <<serial, staff>>

IssueWrite(w) ==
  /\ At(w, "issue")
  /\ \E t \in Tokens \ Issued :
       token' = [Consumed(work[w].seen) EXCEPT ![t] =
                   [user |-> work[w].u, consumed |-> FALSE, expired |-> FALSE]]
  /\ Finish(w)
  /\ UNCHANGED <<user, override, jwt, asked>>

(* redeem: the link is found and hashed for, then claimed.                 *)
RedeemFind(w) ==
  \E u \in Members : \E t \in LiveLinks(u) :
     /\ Begin(w, [About("redeem", u) EXCEPT !.seen = {t}])
     /\ UNCHANGED staff

Redeemed(w) ==
  /\ user' = [user EXCEPT ![work[w].u].password = TRUE]
  /\ token' = Consumed(work[w].seen \cup Unconsumed(work[w].u))
  /\ Finish(w)
  /\ UNCHANGED <<override, jwt, asked>>

(* A variant that is not the code: the claim does not look again.          *)
RedeemWriteUnclaimed(w) == At(w, "redeem") /\ Redeemed(w)

(* The claim counts one row if the link has not been consumed since.       *)
RedeemWrite(w) ==
  /\ At(w, "redeem")
  /\ work[w].seen \subseteq Unconsumed(work[w].u)
  /\ Redeemed(w)

ExpireToken(t) ==
  /\ t \in Issued /\ ~ token[t].expired
  /\ token' = [token EXCEPT ![t].expired = TRUE]
  /\ Alone
  /\ UNCHANGED <<user, override, jwt, asked, work>>

-----------------------------------------------------------------------------
(* setDisabled                                                             *)

(* A variant that is not the code: also oneself, and the last one.         *)
DisableCheckNone(w) ==
  \E a \in Managers, u \in Members : Begin(w, About("disable", u)) /\ UNCHANGED staff

DisableCheck(w) ==
  \E a \in Managers, u \in Members :
     /\ a # u
     /\ u \in ActiveAdmins => Cardinality(ActiveAdmins) > 1
     /\ Begin(w, About("disable", u))
     /\ UNCHANGED staff

DisableWrite(w) ==
  /\ At(w, "disable")
  /\ user' = [user EXCEPT ![work[w].u].disabled = TRUE]
  /\ Finish(w)
  /\ UNCHANGED <<token, override, jwt, asked>>

(* One who is disabled may do it, and to himself.                          *)
Enable(u) ==
  /\ Managers # {} /\ u \in Members
  /\ user' = [user EXCEPT ![u].disabled = FALSE]
  /\ Alone
  /\ UNCHANGED <<token, override, jwt, asked, work>>

-----------------------------------------------------------------------------
(* login, and the end of the JWT                                           *)

Login(u) ==
  /\ u \in Members /\ user[u].password /\ ~ user[u].disabled
  /\ jwt' = jwt \cup {u}
  /\ Alone
  /\ UNCHANGED <<user, token, override, asked, work>>

ExpireJwt(u) ==
  /\ u \in jwt
  /\ jwt' = jwt \ {u}
  /\ Alone
  /\ UNCHANGED <<user, token, override, asked, work>>

-----------------------------------------------------------------------------
(* setPermissions, a transaction: deleteMany, then createMany              *)

PermissionsDelete(w) ==
  \E u \in Members \ Admins, desired \in SUBSET Permissions :
     /\ Managers # {}
     /\ Begin(w, [About("permissions", u) EXCEPT !.desired = desired,
                                                 !.old = override[u]])
     /\ UNCHANGED staff

(* The rows that were found are deleted, those that have been replaced     *)
(* since are left, and the primary key refuses a second for a permission.  *)
PermissionsWrite(w) ==
  LET r    == work[w]
      kept == override[r.u] \ r.old
      rows == OverridesFor(r.desired)
  IN  /\ At(w, "permissions")
      /\ \A k \in kept, n \in rows : k.permission # n.permission
      /\ override' = [override EXCEPT ![r.u] = kept \cup rows]
      /\ work' = [v \in Workers |->
                    IF v = w THEN NoRequest
                    ELSE IF At(v, "permissions") /\ work[v].u = r.u
                    THEN [work[v] EXCEPT !.old = {}] ELSE work[v]]
      /\ asked' = [asked EXCEPT ![r.u] = r.desired]
      /\ UNCHANGED <<serial, user, token, jwt>>

-----------------------------------------------------------------------------
(* The platform has created the first administrator, and the invitation    *)
(* has not been issued.                                                    *)
StaffInit ==
  /\ user = [u \in Users |->
               IF u = FirstAdmin
               THEN [role |-> "admin", disabled |-> FALSE, password |-> FALSE]
               ELSE None]
  /\ token = [t \in Tokens |-> None]
  /\ override = [u \in Users |-> {}]
  /\ jwt = {}
  /\ asked = [u \in Users |-> StaffDefault]

StaffNext ==
  \/ \E w \in Workers :
       \/ CreateUser(w) \/ ResetPassword(w) \/ ResetAdminPassword(w)
       \/ IssueFind(w) \/ IssueWrite(w)
       \/ RedeemFind(w) \/ RedeemWrite(w)
       \/ DisableCheck(w) \/ DisableWrite(w)
       \/ PermissionsDelete(w) \/ PermissionsWrite(w)
       \/ Abort(w) /\ UNCHANGED staff
  \/ \E t \in Tokens : ExpireToken(t)
  \/ \E u \in Users : Enable(u) \/ Login(u) \/ ExpireJwt(u)

StaffSpec ==
  /\ StaffInit
  /\ work = [w \in Workers |-> NoRequest] /\ serial = TRUE
  /\ [][StaffNext]_<<staff, work, serial>>
-----------------------------------------------------------------------------
StaffTypeOK ==
  /\ user \in [Users -> UserRow \cup {None}]
  /\ token \in [Tokens -> TokenRow \cup {None}]
  /\ override \in [Users -> SUBSET OverrideRow]
  /\ jwt \subseteq Users
  /\ asked \in [Users -> SUBSET Permissions]
  /\ work \in [Workers -> StaffRequest \cup {NoRequest}]
  /\ serial \in BOOLEAN

(* A password is set by a link that nobody has used or replaced, once, and *)
(* every link the user had before is spent with it: whatever issues and    *)
(* redemptions overlap, and whatever was read before the password was      *)
(* hashed (redeem).                                                        *)
LinkWorksOnce ==
  [][\A w \in Workers :
       At(w, "redeem") /\ token' # token /\ work'[w] = NoRequest =>
         /\ \A t \in work[w].seen : ~ token[t].consumed
         /\ \A t \in Issued : token[t].user = work[w].u => token'[t].consumed
    ]_<<staff, work, serial>>

(* One request at a time, a user has at most one link that works.          *)
OneLiveLink == serial => \A u \in Users : Cardinality(LiveLinks(u)) <= 1

(* One request at a time, some administrator can log in or be reset:       *)
(* disabling goes by whoever is active, also when it is asked by one who   *)
(* has been disabled and whose JWT has not expired.                        *)
AdminLeft == serial => ActiveAdmins # {}

(* One request at a time, what the staff may do is the set that was last   *)
(* asked for, although only what differs from the default is kept.         *)
PermissionsAsAsked ==
  serial => \A u \in Users : EffectiveFor(override[u]) = asked[u]
=============================================================================
