---------------------------- MODULE MCBackOffice ----------------------------
(* BackOffice on a small instance, and the cache of the application that   *)
(* works on it: a behaviour is one of either. The tables share their       *)
(* identifiers, which nothing compares, so that one symmetry serves them   *)
(* all.                                                                    *)
EXTENDS BackOffice, TLC

CONSTANTS sea, pool

MCPlaceOf == sea :> "row" @@ pool :> "slot"

MCSpelledOf == "Frigo" :> "frigo" @@ "frigo" :> "frigo" @@ "lettino" :> "lettino"

MCPeriods ==
  { [start |-> 0, end |-> 0], [start |-> 1, end |-> 1], [start |-> 1, end |-> 2],
    [start |-> 2, end |-> 2], [start |-> 0, end |-> 2] }

(* A day that splits the season, and the season.                          *)
MCSpans == { [start |-> 2, end |-> 2], [start |-> 1, end |-> 3] }

(* The application: the keys of one desk, or None.                         *)
CONSTANT MaxCalls
VARIABLES desk, screen, answers, reads, failed, calls

Dates == {"d1", "d2"}
People == {"c1", "c2"}
Years == {"s1", "s2"}
Team == {"u1", "u2"}

Desk == INSTANCE StaffDesks
          WITH Days <- Dates, Customers <- People, Seasons <- Years, Staff <- Team
App == INSTANCE StaffCache
         WITH Days <- Dates, Customers <- People, Seasons <- Years, Staff <- Team,
              Desks <- Desk!AllDesks, cache <- answers

app == <<desk, screen, answers, reads, failed, calls>>

MCInit ==
  /\ Init
  /\ \/ /\ desk = None /\ screen = None /\ answers = None
        /\ reads = None /\ failed = None /\ calls = None
     \/ focus = "packages" /\ App!Init

(* The types of the part that moves.                                       *)
OfficeTypeOK ==
  IF desk = None THEN BackOfficeTypeOK ELSE App!StaffCacheTypeOK

(* No page of the staff application shows as current what it read before a *)
(* write of its own, answered since, changed it: the layout on the maps    *)
(* and the cards, the permissions, both seasons of a renewal, the lists of *)
(* the catalogue, the guided setup, the day, the contracts of a customer.  *)
ShownFresh == desk # None => App!ShownFresh

MaxOrder == 3

(* The logical orders grow with the gaps that moves leave; of the beach of *)
(* the page the View leaves them out. One booking of a day has a hole and  *)
(* one is older than the hours of its slot, beside a single row then.      *)
Bound ==
  /\ focus # "editor" => \A u \in Umbrellas : umbrella[u].order <= MaxOrder
  /\ Cardinality(cover) <= 3
  /\ Cardinality(rehoured) <= 1 /\ (rehoured # {} => Cardinality(cover) <= 2)

(* The page sees no labels and no gaps, and looks no more at the move that *)
(* its tree has taken in.                                                  *)
EditorView ==
  <<StructureOf(umbrella), cache, IF MoveSettling THEN move ELSE move.phase, treeAtWrite>>

(* A booking by what it is and not by its identifier, and once cancelled   *)
(* by its slot, which it keeps from removal.                               *)
SaleView(b) ==
  IF b \in Sales /\ sale[b].confirmed
  THEN <<sale[b], { [c EXCEPT !.b = None] : c \in { x \in cover : x.b = b } }, b \in rehoured>>
  ELSE <<IF b \in Sales THEN sale[b].slot ELSE None, b \in rehoured>>

(* A change of hours by what it will do, when no other can come between.   *)
DaysRequestView(r) ==
  CASE r = NoRequest -> <<>>
    [] r.op = "rehour" /\ (Cardinality(Sales) > 1 \/ rehoured # {}) -> <<r.s, Patched(slot[r.s], r.patch)>>
    [] OTHER -> <<[r EXCEPT !.b = None], SaleView(r.b)>>

DaysView ==
  <<slot, { SaleView(b) : b \in Sales }, Cardinality(Sales), serial,
    { DaysRequestView(work[w]) : w \in Workers }, Cardinality(Busy)>>

(* The requests, whoever serves them.                                      *)
Requested == <<{ work[w] : w \in Workers }, Cardinality(Busy)>>

(* Of the other parts it shows their tables, and nothing of those that do  *)
(* not move.                                                               *)
View ==
  IF desk # None THEN app ELSE
  <<focus,
    CASE focus = "layout"   -> <<layout, Requested, serial>>
      [] focus = "editor"   -> EditorView
      [] focus = "staff"    -> <<staff, Requested, serial>>
      [] focus = "rates"    -> <<rates, Requested, serial>>
      [] focus = "rentals"  -> <<equipment, Requested, serial>>
      [] focus = "slots"    -> DaysView
      [] focus = "packages" -> <<catalog, Requested, serial>> >>

(* Two requests overlap once, on a small beach, with at most a booking of  *)
(* the umbrella and a link, and no booking of a package; then they are the *)
(* last.                                                                   *)
OneOverlap ==
  ~ serial' =>
    IF serial
    THEN /\ Cardinality(Stored) <= 2 /\ \A u \in Stored : umbrella[u].order <= 2
         /\ Cardinality(Sales) <= 1 /\ rehoured = {}
         /\ Buyers = {} /\ Cardinality(Issued) <= 1
    ELSE /\ work' # work
         /\ \A w \in Workers : work[w] = NoRequest => work'[w] = NoRequest

(* A change of both hours of a slot is one of each, one after the other.   *)
OneHour ==
  focus = "slots" =>
    \A w \in Workers : work'[w].op = "rehour" =>
       work'[w].patch.start = None \/ work'[w].patch.end = None

(* The bounds are conditions of the steps; what stops at the end of an     *)
(* overlap stays there.                                                    *)
MCNext ==
  \/ desk = None /\ Next /\ UNCHANGED app /\ Bound' /\ OneOverlap /\ OneHour
  \/ desk = None /\ ~ serial /\ Idle /\ UNCHANGED <<vars, app>>
  \/ desk # None /\ App!Next /\ UNCHANGED vars

MCSpec == MCInit /\ [][MCNext]_<<vars, app>>

Symmetry ==
  Permutations(Umbrellas) \cup Permutations(Rows)
=============================================================================
