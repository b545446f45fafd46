-------------------------- MODULE StructureEditor ---------------------------
(***************************************************************************)
(* The page where umbrellas are moved (EstablishmentStructureView), over   *)
(* the tables of UmbrellaLayout. The page shows the structure it last      *)
(* read, and while a move is on its way the structure as it will be        *)
(* (applyMove), until a re-read brings what the server made of it.         *)
(*                                                                         *)
(* A move reaches the server after any other change and its answer comes   *)
(* late or not at all. It is served at once: two moves that overlap in the *)
(* server are the matter of UmbrellaLayout. All the sectors are of one     *)
(* kind, no other being offered (isCompatible, moveTargets).               *)
(*                                                                         *)
(* The other changes of the page, a move it no longer follows among them,  *)
(* are not told from those of another operator, and as each of their       *)
(* answers starts a re-read, one may start at any time.                    *)
(*                                                                         *)
(* The rules of the query cache (TanStack Query), as the comments of the   *)
(* page and of useQueryResource.ts rely on them: an answer first starts    *)
(* the re-read and then tells the page; a re-read that starts takes the    *)
(* place of the one in flight; the page follows the last move it sent.     *)
(***************************************************************************)
EXTENDS UmbrellaLayout, Sequences

CONSTANT OnBeach    \* how many umbrellas there are at first

VARIABLES cache,    \* the query of the structure
          move,     \* the mutation of useMoveUmbrella the page follows
          treeAtWrite   \* whether the tree is the one at the last acceptance

page == <<cache, move, treeAtWrite>>

(* The members of a set by what each has in at, no two the same.           *)
Listed(us, at) ==
  [i \in 1 .. Cardinality(us) |->
     CHOOSE u \in us : Cardinality({ v \in us : at[v] < at[u] }) = i - 1]

(* StructureService: the rows, each with its umbrellas by logicalOrder.    *)
StructureOf(t) ==
  [r \in LiveRows |->
     Listed({ u \in Umbrellas : t[u].row = r }, [u \in Umbrellas |-> t[u].order])]

OnTree(tree) == UNION { { tree[r][i] : i \in DOMAIN tree[r] } : r \in DOMAIN tree }

Without(cells, u) ==
  LET kept == { i \in DOMAIN cells : cells[i] # u }
      ids  == Listed(kept, [i \in kept |-> i])
  IN  [i \in DOMAIN ids |-> cells[ids[i]]]

(* The others before the place and those after it (slice).                 *)
Inserted(cells, u, position) ==
  IF position >= Len(cells) THEN Append(cells, u)
  ELSE SubSeq(cells, 1, position) \o <<u>> \o SubSeq(cells, position + 1, Len(cells))

ApplyMove(tree, u, r, position) ==
  IF u \notin OnTree(tree) THEN tree
  ELSE [q \in DOMAIN tree |->
          IF q = r THEN Inserted(Without(tree[q], u), u, position)
          ELSE Without(tree[q], u)]

(* positionOptions: the places among the others, the last one included.    *)
PositionOptions(tree, u, r) == 0 .. Len(Without(tree[r], u))

Moves == [u: Umbrellas, row: Rows, position: 0 .. OnBeach]

Offers(tree) ==
  { m \in Moves : /\ m.u \in OnTree(tree) /\ m.row \in DOMAIN tree
                  /\ m.position \in PositionOptions(tree, m.u, m.row) }

-----------------------------------------------------------------------------
(* What is under way, and behind, a history variable of each tree read:    *)
(* what the server has changed since, the last move of the page, or more.  *)

NoRead == [phase |-> "idle", tree |-> <<>>, behind |-> "nothing"]
Asked == [NoRead EXCEPT !.phase = "asked"]

Later(behind, how) == IF behind = "nothing" THEN how ELSE "more"

NoMutation == [of |-> None, phase |-> "no"]

Pending == move.phase \in {"sent", "served", "refused"}

MoveSettling == Pending \/ treeAtWrite

(* previewSectors                                                          *)
Shown ==
  IF MoveSettling
  THEN ApplyMove(cache.tree, move.of.u, move.of.row, move.of.position)
  ELSE cache.tree

(* What a change of the server makes of the trees that have been read.     *)
FallBehind(how) ==
  cache' = [cache EXCEPT
     !.behind = Later(@, how),
     !.read.behind = IF cache.read.phase = "read" THEN Later(@, how) ELSE @]

-----------------------------------------------------------------------------
(* The page                                                                *)

(* submitMove. The move before, if it is not answered, is no longer        *)
(* followed, and what it changes is like any other change.                 *)
SubmitMove(m) ==
  /\ move' = [of |-> m, phase |-> "sent"]
  /\ treeAtWrite' = FALSE
  /\ cache' = [cache EXCEPT
       !.behind = IF @ = "move" THEN "more" ELSE @,
       !.read.behind = IF @ = "move" THEN "more" ELSE @]
  /\ UNCHANGED <<layout, work, serial>>

(* requestMove, of a drag on what is shown, or of the panel, that offers   *)
(* the places of the tree read unless a move is pending (moveTargets,      *)
(* positionOptions, onMove).                                               *)
RequestMove ==
  \E m \in Offers(Shown) \cup (IF Pending THEN {} ELSE Offers(cache.tree)) : SubmitMove(m)

(* When the sectors differ and one has rates of its own, the page asks     *)
(* first (confirmMove), and the trees of this move may be gone meanwhile.  *)
ConfirmMove == \E m \in Moves : SubmitMove(m)

-----------------------------------------------------------------------------
(* The server                                                              *)

MoveOk(m) ==
  /\ m.u \in Active /\ m.row \in LiveRows
  /\ m.position \in 0 .. Cardinality(InRow(m.row) \ {m.u})

MoveServed(m) ==
  Moved([Ask("move", {m.u}) EXCEPT !.row = m.row, !.plan = MovePlan(m.u, m.row, m.position)])

ServeMove ==
  /\ move.phase = "sent"
  /\ \/ /\ MoveOk(move.of)
        /\ umbrella' = MoveServed(move.of)
        /\ move' = [move EXCEPT !.phase = "served"]
        /\ FallBehind("move")
     \/ /\ ~ MoveOk(move.of)
        /\ move' = [move EXCEPT !.phase = "refused"]
        /\ UNCHANGED <<umbrella, cache>>
  /\ UNCHANGED <<sector, row, work, serial, treeAtWrite>>

(* Another operator, or another change of the page.                        *)
ServeOther ==
  /\ \/ \E m \in Offers(StructureOf(umbrella)) : umbrella' = MoveServed(m)
     \/ \E u \in Stored : umbrella' = [umbrella EXCEPT ![u] = NoUmbrella]
  /\ FallBehind("more")
  /\ UNCHANGED <<sector, row, work, serial, move, treeAtWrite>>

-----------------------------------------------------------------------------
(* The answers: mutationResource invalidates whether it went well or not   *)

(* A variant that is not the code: the window is closed by the answer.     *)
AnswerMoveClosing ==
  /\ Pending
  /\ move' = [move EXCEPT !.phase = IF move.phase = "served" THEN "ok" ELSE "no"]
  /\ treeAtWrite' = FALSE
  /\ cache' = [cache EXCEPT !.read = Asked]
  /\ UNCHANGED <<layout, work, serial>>

(* An answer that is lost is an error to the page.                         *)
AnswerMove ==
  /\ Pending
  /\ \/ /\ move.phase = "served"
        /\ move' = [move EXCEPT !.phase = "ok"]
        /\ treeAtWrite' = TRUE
     \/ /\ move' = [move EXCEPT !.phase = "no"]
        /\ UNCHANGED treeAtWrite
  /\ cache' = [cache EXCEPT !.read = Asked]
  /\ UNCHANGED <<layout, work, serial>>

-----------------------------------------------------------------------------
(* The re-read                                                             *)

StartRead ==
  /\ cache' = [cache EXCEPT !.read = Asked]
  /\ UNCHANGED <<layout, work, serial, move, treeAtWrite>>

ReadTree ==
  /\ cache.read.phase = "asked"
  /\ cache' = [cache EXCEPT
       !.read = [phase |-> "read", tree |-> StructureOf(umbrella), behind |-> "nothing"]]
  /\ UNCHANGED <<layout, work, serial, move, treeAtWrite>>

(* The tree of the page gives way to the one read: dataUpdatedAt changes.  *)
(* early is a history variable: the tree knows of a move that the page     *)
(* does not know has been accepted.                                        *)
LandTree ==
  /\ cache.read.phase = "read"
  /\ cache' = [tree |-> cache.read.tree, behind |-> cache.read.behind, read |-> NoRead,
               early |-> move.phase = "served" /\ cache.read.behind = "nothing"]
  /\ treeAtWrite' = FALSE
  /\ UNCHANGED <<layout, work, serial, move>>

ReadFails ==
  /\ cache.read.phase # "idle"
  /\ cache' = [cache EXCEPT !.read = NoRead]
  /\ UNCHANGED <<layout, work, serial, move, treeAtWrite>>

-----------------------------------------------------------------------------
(* Umbrellas in a row of the one sector there is.                          *)
BeachInit ==
  \E s \in Sectors, k \in Kinds, r \in Rows, us \in SUBSET Umbrellas :
     /\ Cardinality(us) = OnBeach
     /\ sector = [t \in Sectors |-> IF t = s THEN k ELSE None]
     /\ row = [q \in Rows |-> s]
     /\ umbrella \in { f \in [Umbrellas -> {NoUmbrella} \cup
                                  { Placed(l, r, l) : l \in Labels \cap 1 .. OnBeach }] :
                        /\ { u \in Umbrellas : f[u] # NoUmbrella } = us
                        /\ \A u, v \in us : u # v => f[u] # f[v] }

PageInit ==
  /\ cache = [tree |-> StructureOf(umbrella), behind |-> "nothing", read |-> NoRead,
              early |-> FALSE]
  /\ move = NoMutation
  /\ treeAtWrite = FALSE

EditorNext ==
  \/ RequestMove \/ ConfirmMove \/ ServeMove \/ ServeOther \/ AnswerMove
  \/ StartRead \/ ReadTree \/ LandTree \/ ReadFails

EditorSpec ==
  /\ BeachInit /\ PageInit
  /\ work = [w \in Workers |-> NoRequest] /\ serial = TRUE
  /\ [][EditorNext]_<<layout, page, work, serial>>
-----------------------------------------------------------------------------
PageTypeOK ==
  /\ cache.behind \in {"nothing", "move", "more"}
  /\ cache.read.phase \in {"idle", "asked", "read"}
  /\ \A tree \in {cache.tree, cache.read.tree} :
       /\ DOMAIN tree \subseteq Rows
       /\ \A r \in DOMAIN tree : tree[r] \in Seq(Umbrellas)
  /\ move = NoMutation \/ move.phase \in {"sent", "served", "refused", "ok", "no"}
  /\ treeAtWrite \in BOOLEAN

(* The page knows what the server will make of every move it offers, in    *)
(* any row, whatever gaps earlier moves have left (applyMove "riproduce la *)
(* semantica dell'API", planUmbrellaMove), one request at a time: the      *)
(* umbrella lands at the index asked for, the others keep their order.     *)
PreviewIsMove ==
  serial =>
    LET beach == StructureOf(umbrella)
    IN  \A m \in Offers(beach) :
          MoveOk(m) /\ StructureOf(MoveServed(m)) = ApplyMove(beach, m.u, m.row, m.position)

(* Once the move that the page follows is accepted, the page shows what    *)
(* the server has, from the answer on and through the re-read: no return   *)
(* to the place it was in, no second application to a tree that has it;    *)
(* and once it is refused the page shows what it last read, also when an   *)
(* accepted move went before. Provided that nothing else has changed since *)
(* that tree was read, and that no re-read that knew of the move overtook  *)
(* its answer.                                                             *)
ShownAsServed ==
  /\ move.phase = "ok" /\ cache.behind \in {"nothing", "move"} /\ ~ cache.early =>
       Shown = StructureOf(umbrella)
  /\ move.phase = "no" => Shown = cache.tree
=============================================================================
