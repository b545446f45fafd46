------------------------------ MODULE Packages ------------------------------
(***************************************************************************)
(* The packages that are sold with an umbrella and the types of equipment  *)
(* they are made of (CatalogService), with the bookings that name them.    *)
(*                                                                         *)
(* The composition of a package is written by a deletion of the rows that  *)
(* are there and an insertion of those asked for, in two statements: the   *)
(* deletion takes the rows that were there when its statement began, those *)
(* another request has inserted since stay, those of a type that was there *)
(* before included. An update that also renames the package holds the lock *)
(* of its row from there on.                                               *)
(*                                                                         *)
(* Quantities and the name of a package are left out. The rates that name  *)
(* a package are in Rates; here they are a refusal, that may come or not.  *)
(*                                                                         *)
(* ordered and agreed are history variables: the composition that was last *)
(* asked for of each package, the package each booking was sold with.      *)
(***************************************************************************)
EXTENDS Requests

CONSTANTS PackageIds, TypeIds, BuyerIds,
          TypeNames,        \* of the types of equipment
          SpelledOf         \* each name as it is in lower case

ASSUME PackagesAssumption ==
  /\ SpelledOf \in [TypeNames -> TypeNames]
  /\ None \notin PackageIds \cup TypeIds \cup TypeNames
  /\ "no" \notin PackageIds \cup {None}

VARIABLES package,      \* table Package with its rows of PackageEquipment
          type,         \* table EquipmentType
          bought,       \* table Booking: the package of each, "no": no such row
          ordered, agreed

catalog == <<package, type, bought, ordered, agreed>>

PackageRow == [archived: BOOLEAN, equipment: SUBSET TypeIds]
TypeRow == [name: TypeNames, archived: BOOLEAN]

ASSUME NoCatalogAssumption == None \notin PackageRow \cup TypeRow

StoredPackages == { p \in PackageIds : package[p] # None }
StoredTypes == { t \in TypeIds : type[t] # None }
Buyers == { b \in BuyerIds : bought[b] # "no" }

PackageRequest ==
  [op: {"compose", "dropPackage", "buy", "name", "dropType"},
   p: PackageIds \cup {None}, t: TypeIds \cup {None}, name: TypeNames \cup {None},
   renames: BOOLEAN, seen: SUBSET TypeIds, equipment: SUBSET TypeIds]

Blank(op) ==
  [op |-> op, p |-> None, t |-> None, name |-> None,
   renames |-> FALSE, seen |-> {}, equipment |-> {}]

-----------------------------------------------------------------------------
(* createPackage, updatePackage, writePackageEquipment                     *)

(* Only types that are there and not archived may be asked for.            *)
Composable(ids) == ids \subseteq { t \in StoredTypes : ~ type[t].archived }

CreatePackageLoad(w) ==
  \E ids \in SUBSET TypeIds :
     /\ Composable(ids)
     /\ Begin(w, [Blank("compose") EXCEPT !.equipment = ids])
     /\ UNCHANGED catalog

(* A second update that renames waits for the first.                       *)
UpdatePackageLoad(w) ==
  \E p \in StoredPackages, ids \in SUBSET TypeIds, renames \in BOOLEAN :
     /\ renames => \A v \in Busy : ~ (work[v].renames /\ work[v].p = p)
     /\ Composable(ids)
     /\ Begin(w, [Blank("compose") EXCEPT !.p = p, !.renames = renames, !.equipment = ids,
                                          !.seen = package[p].equipment])
     /\ UNCHANGED catalog

(* seen is what the deletion is to take: of each type there is one row.    *)
Composed(p, r) == (package[p].equipment \ r.seen) \cup r.equipment

(* At the end of it the rows deleted are gone for the other updates of the *)
(* package as well: these do not see those put in their place.             *)
FinishCompose(w) ==
  LET Gone(r) == [r EXCEPT !.seen = @ \ work[w].seen]
      others == { v \in Busy \ {w} : work[v].p = work[w].p }
  IN  /\ work' = [v \in Workers |-> CASE v = w -> NoRequest
                                       [] v \in others -> Gone(work[v])
                                       [] OTHER -> work[v]]
      /\ UNCHANGED serial

(* The foreign keys of the rows, and their primary key.                    *)
ComposeWrite(w) ==
  LET r == work[w]
  IN  /\ At(w, "compose") /\ r.equipment \subseteq StoredTypes
      /\ \/ \E p \in PackageIds \ StoredPackages :
              /\ r.p = None /\ \A v \in Busy : work[v].p # p
              /\ package' = [package EXCEPT ![p] = [archived |-> FALSE, equipment |-> r.equipment]]
              /\ ordered' = [ordered EXCEPT ![p] = r.equipment]
         \/ /\ r.p \in StoredPackages
            /\ (package[r.p].equipment \ r.seen) \cap r.equipment = {}
            /\ package' = [package EXCEPT ![r.p].equipment = Composed(r.p, r)]
            /\ ordered' = [ordered EXCEPT ![r.p] = r.equipment]
      /\ FinishCompose(w)
      /\ UNCHANGED <<type, bought, agreed>>

(* archivePackage, restorePackage: both are idempotent.                    *)
ArchivePackage(p, archived) ==
  /\ p \in StoredPackages /\ package[p].archived # archived
  /\ package' = [package EXCEPT ![p].archived = archived]
  /\ Alone
  /\ UNCHANGED <<type, bought, ordered, agreed, work>>

(* A variant that is not the code: the bookings are left to the foreign    *)
(* key.                                                                    *)
DeletePackageLoadUnguarded(w) ==
  \E p \in StoredPackages :
     /\ package[p].archived
     /\ Begin(w, [Blank("dropPackage") EXCEPT !.p = p])
     /\ UNCHANGED catalog

DeletePackageLoad(w) ==
  \E p \in StoredPackages :
     /\ package[p].archived
     /\ \A b \in Buyers : bought[b] # p
     /\ Begin(w, [Blank("dropPackage") EXCEPT !.p = p])
     /\ UNCHANGED catalog

(* ON DELETE SET NULL for the bookings made since the count.               *)
DeletePackageWrite(w) ==
  LET p == work[w].p
  IN  /\ At(w, "dropPackage") /\ p \in StoredPackages
      /\ \A v \in Busy : ~ (work[v].renames /\ work[v].p = p)
      /\ package' = [package EXCEPT ![p] = None]
      /\ ordered' = [ordered EXCEPT ![p] = {}]
      /\ bought' = [b \in BuyerIds |-> IF bought[b] = p THEN None ELSE bought[b]]
      /\ Finish(w)
      /\ UNCHANGED <<type, agreed>>

-----------------------------------------------------------------------------
(* The bookings: create asks that the package is there, not that it is on  *)
(* sale; renew copies the one of its source                                *)

BuyLoad(w) ==
  \E p \in StoredPackages \cup {None} :
     /\ Begin(w, [Blank("buy") EXCEPT !.p = p])
     /\ UNCHANGED catalog

RenewLoad(w) ==
  \E b \in Buyers :
     /\ Begin(w, [Blank("buy") EXCEPT !.p = bought[b]])
     /\ UNCHANGED catalog

BuyWrite(w) ==
  LET p == work[w].p
  IN  /\ At(w, "buy") /\ p \in StoredPackages \cup {None}
      /\ \E b \in BuyerIds \ Buyers :
           /\ bought' = [bought EXCEPT ![b] = p]
           /\ agreed' = [agreed EXCEPT ![b] = p]
      /\ Finish(w)
      /\ UNCHANGED <<package, type, ordered>>

-----------------------------------------------------------------------------
(* The types of equipment                                                  *)

SameName(n, m) == SpelledOf[n] = SpelledOf[m]

(* An archived type keeps its name.                                        *)
NameFree(n, t) == \A u \in StoredTypes \ {t} : ~ SameName(type[u].name, n)

CreateTypeLoad(w) ==
  \E n \in TypeNames :
     /\ NameFree(n, None)
     /\ Begin(w, [Blank("name") EXCEPT !.name = n])
     /\ UNCHANGED catalog

UpdateTypeLoad(w) ==
  \E t \in StoredTypes, n \in TypeNames :
     /\ NameFree(n, t)
     /\ Begin(w, [Blank("name") EXCEPT !.t = t, !.name = n])
     /\ UNCHANGED catalog

(* The index of the table tells capitals from small letters.               *)
NameTypeWrite(w) ==
  LET r == work[w]
  IN  /\ At(w, "name")
      /\ \A u \in StoredTypes \ {r.t} : type[u].name # r.name
      /\ \/ \E t \in TypeIds \ StoredTypes :
              /\ r.t = None
              /\ \A v \in Busy : t \notin {work[v].t} \cup work[v].seen \cup work[v].equipment
              /\ type' = [type EXCEPT ![t] = [name |-> r.name, archived |-> FALSE]]
         \/ /\ r.t \in StoredTypes
            /\ type' = [type EXCEPT ![r.t].name = r.name]
      /\ Finish(w)
      /\ UNCHANGED <<package, bought, ordered, agreed>>

ArchiveType(t, archived) ==
  /\ t \in StoredTypes /\ type[t].archived # archived
  /\ type' = [type EXCEPT ![t].archived = archived]
  /\ Alone
  /\ UNCHANGED <<package, bought, ordered, agreed, work>>

UsedBy(t) == { p \in StoredPackages : t \in package[p].equipment }

DeleteTypeLoad(w) ==
  \E t \in StoredTypes :
     /\ type[t].archived /\ UsedBy(t) = {}
     /\ Begin(w, [Blank("dropType") EXCEPT !.t = t])
     /\ UNCHANGED catalog

(* ON DELETE RESTRICT                                                      *)
DeleteTypeWrite(w) ==
  LET t == work[w].t
  IN  /\ At(w, "dropType") /\ t \in StoredTypes /\ UsedBy(t) = {}
      /\ type' = [type EXCEPT ![t] = None]
      /\ Finish(w)
      /\ UNCHANGED <<package, bought, ordered, agreed>>

-----------------------------------------------------------------------------
PackagesInit ==
  /\ package = [p \in PackageIds |-> None]
  /\ type = [t \in TypeIds |-> None]
  /\ bought = [b \in BuyerIds |-> "no"]
  /\ ordered = [p \in PackageIds |-> {}]
  /\ agreed = [b \in BuyerIds |-> None]

PackagesNext ==
  \/ \E w \in Workers :
       \/ CreatePackageLoad(w) \/ UpdatePackageLoad(w) \/ ComposeWrite(w)
       \/ DeletePackageLoad(w) \/ DeletePackageWrite(w)
       \/ BuyLoad(w) \/ RenewLoad(w) \/ BuyWrite(w)
       \/ CreateTypeLoad(w) \/ UpdateTypeLoad(w) \/ NameTypeWrite(w)
       \/ DeleteTypeLoad(w) \/ DeleteTypeWrite(w)
       \/ Abort(w) /\ UNCHANGED catalog
  \/ \E archived \in BOOLEAN :
       \/ \E p \in PackageIds : ArchivePackage(p, archived)
       \/ \E t \in TypeIds : ArchiveType(t, archived)

PackagesSpec ==
  /\ PackagesInit
  /\ work = [w \in Workers |-> NoRequest] /\ serial = TRUE
  /\ [][PackagesNext]_<<catalog, work, serial>>
-----------------------------------------------------------------------------
PackagesTypeOK ==
  /\ package \in [PackageIds -> PackageRow \cup {None}]
  /\ \A p \in StoredPackages : package[p].equipment \subseteq StoredTypes
  /\ type \in [TypeIds -> TypeRow \cup {None}]
  /\ bought \in [BuyerIds -> PackageIds \cup {None, "no"}]
  /\ \A b \in Buyers : bought[b] \in StoredPackages \cup {None}
  /\ work \in [Workers -> PackageRequest \cup {NoRequest}]

(* One request at a time, a booking keeps the package it was sold with,    *)
(* which is not deleted under it ("senza questa guardia la delete          *)
(* azzererebbe silenziosamente il packageId", deletePackage); a package is *)
(* made of what was last asked for ("set-assoluto", writePackageEquipment) *)
(* and no two types of equipment have one name, archived ones included, so *)
(* that any of them can be restored.                                       *)
PackagesAsAgreed ==
  serial =>
    /\ \A b \in Buyers : bought[b] = agreed[b]
    /\ \A p \in StoredPackages : package[p].equipment = ordered[p]
    /\ \A t \in StoredTypes : NameFree(type[t].name, t)
=============================================================================
