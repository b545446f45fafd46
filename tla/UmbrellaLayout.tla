--------------------------- MODULE UmbrellaLayout ---------------------------
(***************************************************************************)
(* The layout of the beach: sectors, their rows, and the umbrellas placed  *)
(* in a row by their logicalOrder (UmbrellasService, RowsService,          *)
(* SectorsService). An umbrella that is retired leaves its row and keeps   *)
(* its label, which another may take.                                      *)
(*                                                                         *)
(* What depends on bookings and rates is a refusal, that may come or not;  *)
(* the types of umbrellas, the names and the sector an umbrella was        *)
(* retired from, for display, are left out.                                *)
(***************************************************************************)
EXTENDS Requests

CONSTANTS Sectors, Rows, Umbrellas,     \* identifiers, as many as rows at most
          Labels,           \* the labels: prefix and number, by the number
          Kinds             \* SectorKind

ASSUME LayoutAssumption ==
  /\ IsFiniteSet(Umbrellas)
  /\ Labels \subseteq Nat \ {0}
  /\ None \notin Sectors \cup Rows \cup Umbrellas \cup Kinds

VARIABLES sector,       \* table Sector: the kind of each, None: no such row
          row,          \* table Row: the sector of each
          umbrella      \* table Umbrella

layout == <<sector, row, umbrella>>

UmbrellaRow ==
  [label: Labels \cup {0}, row: Rows \cup {None}, retired: BOOLEAN, order: Int]

NoUmbrella == [label |-> 0, row |-> None, retired |-> FALSE, order |-> 0]

Placed(label, r, order) == [label |-> label, row |-> r, retired |-> FALSE, order |-> order]

LiveSectors == { s \in Sectors : sector[s] # None }
LiveRows == { r \in Rows : row[r] # None }
Stored == { u \in Umbrellas : umbrella[u].label # 0 }
Active == { u \in Stored : ~ umbrella[u].retired }

(* An identifier that no row has and no request remembers may be given:    *)
(* nothing can tell whether it has been before.                            *)
FreshRows == { r \in Rows \ LiveRows : \A w \in Busy : r # work[w].row }
FreshUmbrellas ==
  { u \in Umbrellas \ Stored : \A w \in Busy : u \notin work[w].ids }

LabelTaken(label) == \E u \in Active : umbrella[u].label = label

InRow(r) == { u \in Umbrellas : umbrella[u].row = r }

(* nextLogicalOrder                                                        *)
NextOrder(r) ==
  1 + CHOOSE n \in {0} \cup { umbrella[u].order : u \in InRow(r) } :
        /\ InRow(r) # {} => \E u \in InRow(r) : umbrella[u].order = n
        /\ \A u \in InRow(r) : umbrella[u].order <= n

KindOfRow(r) == sector[row[r]]

-----------------------------------------------------------------------------
(* Requests                                                                *)

NoMove == [noop |-> FALSE, from |-> 0, to |-> 0, delta |-> 0, target |-> 0]

MovePlans == [noop: BOOLEAN, from: Int, to: Int, delta: {-1, 0, 1}, target: Int]

LayoutOps == {"place", "label", "bulkDelete", "move", "retire", "restore"}

LayoutRequest ==
  [op: LayoutOps, ids: SUBSET Umbrellas, row: Rows \cup {None}, labels: SUBSET Labels,
   order: Int, plan: MovePlans]

(* A request about the umbrellas ids, and one to put them in row r.        *)
Ask(op, ids) ==
  [op |-> op, ids |-> ids, row |-> None, labels |-> {}, order |-> 0, plan |-> NoMove]

AskInto(op, ids, r) == [Ask(op, ids) EXCEPT !.row = r, !.order = NextOrder(r)]

Set(u, r) == umbrella' = [umbrella EXCEPT ![u] = r] /\ UNCHANGED <<sector, row>>

-----------------------------------------------------------------------------
(* create and generate: the labels that are free, placed after the last    *)

CreateLoad(w) ==
  \E r \in LiveRows, l \in Labels :
     /\ ~ LabelTaken(l)
     /\ Begin(w, [AskInto("place", {}, r) EXCEPT !.labels = {l}])
     /\ UNCHANGED layout

GenerateLoad(w) ==
  \E r \in LiveRows, first, last \in Labels :
     /\ first .. last \subseteq Labels
     /\ Begin(w, [AskInto("place", {}, r) EXCEPT
                    !.labels = { l \in first .. last : ~ LabelTaken(l) }])
     /\ UNCHANGED layout

(* The umbrellas that get the labels.                                      *)
NewIds(labels) ==
  { f \in [labels -> FreshUmbrellas] : \A k, l \in labels : k # l => f[k] # f[l] }

(* The rows inserted, one after the other from the order that was read.    *)
WithPlaced(x, f) ==
  [u \in Umbrellas |->
     IF \E l \in x.labels : f[l] = u
     THEN LET l == CHOOSE k \in x.labels : f[k] = u
          IN  Placed(l, x.row, x.order + Cardinality({ k \in x.labels : k < l }))
     ELSE umbrella[u]]

(* A variant that is not the code: no index on the labels of the active.   *)
PlaceWriteNoIndex(w) ==
  /\ At(w, "place")
  /\ work[w].row \in LiveRows
  /\ \E f \in NewIds(work[w].labels) : umbrella' = WithPlaced(work[w], f)
  /\ Finish(w)
  /\ UNCHANGED <<sector, row>>

(* The foreign key on the row and the index on the labels of the active    *)
(* umbrellas decide, for all the inserts or for none.                      *)
PlaceWrite(w) ==
  /\ At(w, "place")
  /\ work[w].row \in LiveRows
  /\ \A l \in work[w].labels : ~ LabelTaken(l)
  /\ \E f \in NewIds(work[w].labels) : umbrella' = WithPlaced(work[w], f)
  /\ Finish(w)
  /\ UNCHANGED <<sector, row>>

-----------------------------------------------------------------------------
(* update: the label, of an umbrella that is active or not                 *)

LabelLoad(w) ==
  \E u \in Stored, l \in Labels :
     /\ \A v \in Active \ {u} : umbrella[v].label # l
     /\ Begin(w, [Ask("label", {u}) EXCEPT !.labels = {l}])
     /\ UNCHANGED layout

LabelWrite(w) ==
  /\ At(w, "label")
  /\ \E u \in work[w].ids \cap Stored, l \in work[w].labels :
       /\ u \in Active => \A v \in Active \ {u} : umbrella[v].label # l
       /\ Set(u, [umbrella[u] EXCEPT !.label = l])
  /\ Finish(w)

-----------------------------------------------------------------------------
(* remove and bulkDelete: umbrellas without bookings                       *)

Remove(u) ==
  /\ u \in Stored
  /\ Set(u, NoUmbrella)
  /\ Alone
  /\ UNCHANGED work

BulkDeleteLoad(w) ==
  \E ids \in SUBSET Active \ {{}} :
     /\ Begin(w, Ask("bulkDelete", ids))
     /\ UNCHANGED layout

BulkDeleteWrite(w) ==
  /\ At(w, "bulkDelete")
  /\ umbrella' = [u \in Umbrellas |->
       IF u \in work[w].ids \cap Stored THEN NoUmbrella ELSE umbrella[u]]
  /\ Finish(w)
  /\ UNCHANGED <<sector, row>>

-----------------------------------------------------------------------------
(* move: planUmbrellaMove, and its two writes                              *)

(* destOrders[k], of umbrellas us in ascending order, k from 0.            *)
OrderAt(us, k) ==
  CHOOSE n \in { umbrella[u].order : u \in us } :
    /\ Cardinality({ u \in us : umbrella[u].order < n }) <= k
    /\ k < Cardinality({ u \in us : umbrella[u].order <= n })

(* A variant that is not the code: who is overtaken moves the wrong way.   *)
MovePlanWrongWay(u, r, position) ==
  LET others == InRow(r) \ {u}
      n      == Cardinality(others)
      index  == Cardinality({ v \in others : umbrella[v].order < umbrella[u].order })
      at(k)  == OrderAt(others, k)
  IN  CASE umbrella[u].row # r /\ position = n ->
             [NoMove EXCEPT !.target = IF n > 0 THEN at(n - 1) + 1 ELSE 1]
        [] umbrella[u].row # r /\ position < n ->
             [NoMove EXCEPT !.from = at(position), !.to = at(n - 1), !.delta = 1,
                            !.target = at(position)]
        [] umbrella[u].row = r /\ position = index -> [NoMove EXCEPT !.noop = TRUE]
        [] umbrella[u].row = r /\ position > index ->
             [NoMove EXCEPT !.from = at(index), !.to = at(position - 1), !.delta = 1,
                            !.target = at(position - 1)]
        [] umbrella[u].row = r /\ position < index ->
             [NoMove EXCEPT !.from = at(position), !.to = at(index - 1), !.delta = 1,
                            !.target = at(position)]

(* The rows to shift by delta, and the order of the umbrella that moves to *)
(* be at index position of row r.                                          *)
MovePlan(u, r, position) ==
  LET others == InRow(r) \ {u}
      n      == Cardinality(others)
      index  == Cardinality({ v \in others : umbrella[v].order < umbrella[u].order })
      at(k)  == OrderAt(others, k)
  IN  CASE umbrella[u].row # r /\ position = n ->
             [NoMove EXCEPT !.target = IF n > 0 THEN at(n - 1) + 1 ELSE 1]
        [] umbrella[u].row # r /\ position < n ->
             [NoMove EXCEPT !.from = at(position), !.to = at(n - 1), !.delta = 1,
                            !.target = at(position)]
        [] umbrella[u].row = r /\ position = index -> [NoMove EXCEPT !.noop = TRUE]
        [] umbrella[u].row = r /\ position > index ->
             [NoMove EXCEPT !.from = at(index), !.to = at(position - 1), !.delta = -1,
                            !.target = at(position - 1)]
        [] umbrella[u].row = r /\ position < index ->
             [NoMove EXCEPT !.from = at(position), !.to = at(index - 1), !.delta = 1,
                            !.target = at(position)]

MoveLoad(w) ==
  \E u \in Active, r \in LiveRows : \E position \in 0 .. Cardinality(InRow(r) \ {u}) :
     /\ KindOfRow(r) = KindOfRow(umbrella[u].row)
     /\ Begin(w, [Ask("move", {u}) EXCEPT !.row = r, !.plan = MovePlan(u, r, position)])
     /\ UNCHANGED layout

(* The shift, and then the umbrella.                                       *)
Moved(x) ==
  LET p == x.plan
      shifted(v) == umbrella[v].row = x.row /\ p.from <= umbrella[v].order
                                            /\ umbrella[v].order <= p.to
  IN  [v \in Umbrellas |->
         IF p.noop THEN umbrella[v]
         ELSE IF v \in x.ids THEN [umbrella[v] EXCEPT !.row = x.row, !.order = p.target]
         ELSE IF shifted(v) THEN [umbrella[v] EXCEPT !.order = @ + p.delta]
         ELSE umbrella[v]]

(* A variant that is not the code: the update by id alone.                 *)
MoveWriteById(w) ==
  /\ At(w, "move")
  /\ work[w].plan.noop \/ (work[w].ids \subseteq Stored /\ work[w].row \in LiveRows)
  /\ umbrella' = Moved(work[w])
  /\ Finish(w)
  /\ UNCHANGED <<sector, row>>

(* The update finds the umbrella if it is active still, and the foreign    *)
(* key the row; else the transaction is undone.                            *)
MoveWrite(w) ==
  /\ At(w, "move")
  /\ work[w].plan.noop \/ (work[w].ids \subseteq Active /\ work[w].row \in LiveRows)
  /\ umbrella' = Moved(work[w])
  /\ Finish(w)
  /\ UNCHANGED <<sector, row>>

-----------------------------------------------------------------------------
(* retire and restore                                                      *)

RetireLoad(w) == \E u \in Active : Begin(w, Ask("retire", {u})) /\ UNCHANGED layout

RetireWrite(w) ==
  /\ At(w, "retire")
  /\ \E u \in work[w].ids \cap Stored :
       Set(u, [umbrella[u] EXCEPT !.retired = TRUE, !.row = None])
  /\ Finish(w)

RestoreLoad(w) ==
  \E u \in Stored \ Active, r \in LiveRows :
     /\ ~ LabelTaken(umbrella[u].label)
     /\ Begin(w, AskInto("restore", {u}, r))
     /\ UNCHANGED layout

RestoreWrite(w) ==
  /\ At(w, "restore")
  /\ work[w].row \in LiveRows
  /\ \E u \in work[w].ids \cap Stored :
       /\ \A v \in Active \ {u} : umbrella[v].label # umbrella[u].label
       /\ Set(u, Placed(umbrella[u].label, work[w].row, work[w].order))
  /\ Finish(w)

-----------------------------------------------------------------------------
(* Sectors and rows: the foreign keys make each method one step            *)

CreateSector(k) ==
  /\ \E s \in Sectors \ LiveSectors : sector' = [sector EXCEPT ![s] = k]
  /\ Alone
  /\ UNCHANGED <<row, umbrella, work>>

UpdateSector(s, k) ==
  /\ s \in LiveSectors
  /\ sector' = [sector EXCEPT ![s] = k]
  /\ Alone
  /\ UNCHANGED <<row, umbrella, work>>

RemoveSector(s) ==
  /\ s \in LiveSectors
  /\ \A r \in Rows : row[r] # s
  /\ sector' = [sector EXCEPT ![s] = None]
  /\ Alone
  /\ UNCHANGED <<row, umbrella, work>>

CreateRow(s) ==
  /\ s \in LiveSectors
  /\ \E r \in FreshRows : row' = [row EXCEPT ![r] = s]
  /\ Alone
  /\ UNCHANGED <<sector, umbrella, work>>

RemoveRow(r) ==
  /\ r \in LiveRows
  /\ InRow(r) = {}
  /\ row' = [row EXCEPT ![r] = None]
  /\ Alone
  /\ UNCHANGED <<sector, umbrella, work>>

-----------------------------------------------------------------------------
LayoutInit ==
  /\ sector = [s \in Sectors |-> None]
  /\ row = [r \in Rows |-> None]
  /\ umbrella = [u \in Umbrellas |-> NoUmbrella]

LayoutNext ==
  \/ \E w \in Workers :
       \/ CreateLoad(w) \/ GenerateLoad(w) \/ PlaceWrite(w)
       \/ LabelLoad(w)  \/ LabelWrite(w)
       \/ BulkDeleteLoad(w) \/ BulkDeleteWrite(w)
       \/ MoveLoad(w)    \/ MoveWrite(w)
       \/ RetireLoad(w)  \/ RetireWrite(w)
       \/ RestoreLoad(w) \/ RestoreWrite(w)
       \/ Abort(w) /\ UNCHANGED layout
  \/ \E u \in Umbrellas : Remove(u)
  \/ \E k \in Kinds : CreateSector(k)
  \/ \E s \in Sectors :
       \/ \E k \in Kinds : UpdateSector(s, k)
       \/ RemoveSector(s) \/ CreateRow(s)
  \/ \E r \in Rows : RemoveRow(r)

LayoutSpec ==
  /\ LayoutInit
  /\ work = [w \in Workers |-> NoRequest] /\ serial = TRUE
  /\ [][LayoutNext]_<<layout, work, serial>>
-----------------------------------------------------------------------------
LayoutTypeOK ==
  /\ sector \in [Sectors -> Kinds \cup {None}]
  /\ row \in [Rows -> Sectors \cup {None}]
  /\ umbrella \in [Umbrellas -> UmbrellaRow]
  /\ work \in [Workers -> LayoutRequest \cup {NoRequest}]
  /\ serial \in BOOLEAN

(* No two active umbrellas have the same label, whatever creations,        *)
(* renamings and restorations overlap; a retired one may (D-055).          *)
ActiveLabelsUnique ==
  \A u, v \in Active : u # v => umbrella[u].label # umbrella[v].label

(* An umbrella is in a row if and only if it is active, and the row        *)
(* exists: none that was retired is put back on the beach by a move that   *)
(* was under way, none is left in a row that was removed.                  *)
ActiveIsPlaced ==
  \A u \in Stored :
     /\ umbrella[u].retired => umbrella[u].row = None
     /\ ~ umbrella[u].retired => umbrella[u].row \in LiveRows
=============================================================================
