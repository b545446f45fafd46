--------------------------- MODULE DaySlots_proofs ---------------------------
(***************************************************************************)
(* What the bookings of an umbrella and the map of a day are worth when    *)
(* the hours of the time slots change under them, for any number of        *)
(* workers, slots, hours, days and bookings.                               *)
(*                                                                         *)
(* Of overlapping requests only the constraint can be relied upon, and it  *)
(* sees the minutes copied into the rows: they are those of the slot as    *)
(* long as nobody has changed them (MinutesAsHours), which is why the      *)
(* pieces of a row fit. One request at a time the check of the sale still  *)
(* holds when the row is written (DayStillSo), which is why a slot is sold *)
(* once and what the map shows as free can be sold.                        *)
(***************************************************************************)
EXTENDS DaySlots, TLAPS

MinutesAsHours == \A c \in cover : c.b \notin rehoured => c.slot = HoursOf(c.b)

RowsOfSales == \A c \in cover : c.b \in Sales

(* What a request in flight has found, whatever happens meanwhile.         *)
DayFound(r) ==
  /\ r.op \in {"sell", "cover"} => r.start \in SeasonDays /\ r.end \in SeasonDays
  /\ r.op = "cover" => r.b \in Sales /\ r.start = r.end

(* And what is still so, when there is no other.                           *)
DayStillSo(r) ==
  /\ r.op = "rehour" =>
       r.s \in LiveSlots /\ Patched(slot[r.s], r.patch).start < Patched(slot[r.s], r.patch).end
  /\ r.op = "sell" => r.s \in LiveSlots /\ ~ SeatTaken(slot[r.s], r.start, r.end, None)
  /\ r.op = "cover" => ~ SeatTaken(HoursOf(r.b), r.start, r.end, r.b)

DayRequestsOK == \A w \in Workers : work[w] # NoRequest => DayFound(work[w])

DayAlone ==
  serial =>
    /\ \A v, w \in Workers : work[v] # NoRequest /\ work[w] # NoRequest => v = w
    /\ \A w \in Workers : work[w] # NoRequest => DayStillSo(work[w])

DaysTables == RowsOfSales /\ MinutesAsHours /\ Accepts(cover) /\ SoldOncePerSlot

DaysInv ==
  /\ DaysTypeOK /\ serial \in BOOLEAN
  /\ DaysTables /\ DayRequestsOK /\ DayAlone

-----------------------------------------------------------------------------
(* Requests                                                                *)

LEMMA DayServed ==
  ASSUME DaysTypeOK, NEW w \in Workers, work[w] # NoRequest
  PROVE  work[w] \in DayRequest
PROOF BY DEF DaysTypeOK

LEMMA SlotHours ==
  ASSUME DaysTypeOK
  PROVE  /\ \A s \in LiveSlots : s \in SlotIds /\ slot[s] \in Interval
         /\ \A b \in Sales : /\ b \in SaleIds /\ sale[b] \in SaleRow
                             /\ sale[b].slot \in LiveSlots /\ HoursOf(b) \in Interval
         /\ \A c \in cover : c \in CoverRow
PROOF BY DEF DaysTypeOK, LiveSlots, Sales, HoursOf

(* A request that begins changes no table.                                 *)
LEMMA DayBegins ==
  ASSUME DaysInv, NEW w \in Workers, NEW r \in DayRequest, Begin(w, r), UNCHANGED days,
         DayFound(r), serial => DayStillSo(r)
  PROVE  DaysInv'
PROOF
<1> USE DEF DaysInv
<1>1. work' = [work EXCEPT ![w] = r] /\ serial' = (serial /\ Idle)
  BY DEF Begin, Alone
<1>2. UNCHANGED <<slot, sale, cover, rehoured>>
  BY DEF days
<1>3. DaysTypeOK' /\ serial' \in BOOLEAN
  BY <1>1, <1>2 DEF DaysTypeOK, LiveSlots, Sales
<1>4. DaysTables'
  BY <1>1, <1>2 DEF DaysTables, RowsOfSales, MinutesAsHours, Accepts, SoldOncePerSlot, HoursOf,
     Sales
<1>5. DayRequestsOK'
  BY <1>1, <1>2 DEF DayRequestsOK, DayFound, Sales, DaysTypeOK
<1>6. DayAlone'
  <2> SUFFICES ASSUME serial' PROVE DayAlone'
    BY DEF DayAlone
  <2>1. serial /\ \A v \in Workers : work[v] = NoRequest
    BY <1>1 DEF Idle, Busy
  <2>2. \A v \in Workers : v # w => work'[v] = NoRequest
    BY <1>1, <2>1 DEF DaysTypeOK
  <2>3. work'[w] = r /\ DayStillSo(r)'
    BY <1>1, <1>2, <2>1 DEF DayStillSo, DaysTypeOK, LiveSlots, SeatTaken, HoursOf
  <2> QED BY <2>2, <2>3 DEF DayAlone
<1> QED BY <1>3, <1>4, <1>5, <1>6

(* A request that ends leaves the others what they have found.             *)
LEMMA DayEnds ==
  ASSUME DaysInv, NEW w \in Workers, work[w] # NoRequest, Finish(w), Sales \subseteq Sales'
  PROVE  /\ work' \in [Workers -> DayRequest \cup {NoRequest}]
         /\ serial' = serial /\ DayRequestsOK' /\ DayAlone'
PROOF
<1> USE DEF DaysInv
<1>1. /\ work' = [work EXCEPT ![w] = NoRequest] /\ serial' = serial
      /\ work' \in [Workers -> DayRequest \cup {NoRequest}]
  BY DEF Finish, DaysTypeOK
<1>2. DayRequestsOK'
  BY <1>1 DEF DayRequestsOK, DayFound, DaysTypeOK
<1>3. serial => \A v \in Workers : work'[v] = NoRequest
  BY <1>1 DEF DayAlone, DaysTypeOK
<1> QED BY <1>1, <1>2, <1>3 DEF DayAlone

(* A request of one step.                                                  *)
LEMMA DayIdles ==
  ASSUME DaysInv, Alone, UNCHANGED work, Sales \subseteq Sales'
  PROVE  /\ work' \in [Workers -> DayRequest \cup {NoRequest}]
         /\ serial' \in BOOLEAN /\ (serial' => serial) /\ DayRequestsOK' /\ DayAlone'
PROOF
<1>1. serial' => \A v \in Workers : work'[v] = NoRequest
  BY DEF Alone, Idle, Busy
<1> QED BY <1>1 DEF DaysInv, DaysTypeOK, Alone, DayRequestsOK, DayFound, DayAlone

-----------------------------------------------------------------------------
(* The pieces of a row                                                     *)

(* A piece c of row x in which day is given up.                            *)
PieceOf(c, x, b, day) ==
  \/ /\ x.start < day
     /\ c = [x EXCEPT !.end = day - 1]
  \/ /\ day < x.end /\ Heads(b, day) = {}
     /\ c = [x EXCEPT !.start = day + 1]
  \/ /\ day < x.end /\ Heads(b, day) # {}
     /\ c = NewRow(b, day + 1, x.end)

LEMMA PieceHasRow ==
  ASSUME NEW b, NEW day, NEW c \in Kept(b, day) \cup Extra(b, day)
  PROVE  \E x \in RowsAt(b, day) : PieceOf(c, x, b, day)
PROOF
<1>1. CASE c \in Heads(b, day)
  <2>1. PICK x \in RowsAt(b, day) : x.start < day /\ c = [x EXCEPT !.end = day - 1]
    BY <1>1 DEF Heads
  <2> QED BY <2>1 DEF PieceOf
<1>2. CASE Heads(b, day) = {}
  <2>1. PICK x \in Tails(b, day) : c = [x EXCEPT !.start = day + 1]
    BY <1>2 DEF Kept, Extra
  <2> QED BY <1>2, <2>1 DEF PieceOf, Tails
<1>3. CASE Heads(b, day) # {} /\ c \notin Heads(b, day)
  <2>1. PICK x \in Tails(b, day) : c = NewRow(b, day + 1, x.end)
    BY <1>3 DEF Kept, Extra
  <2> QED BY <1>3, <2>1 DEF PieceOf, Tails
<1> QED BY <1>1, <1>2, <1>3

(* It is a row of the same booking, within the days of the one it is from. *)
LEMMA PieceIsRow ==
  ASSUME DaysInv, NEW b \in Sales, NEW day \in SeasonDays,
         NEW x \in RowsAt(b, day), NEW c, PieceOf(c, x, b, day)
  PROVE  /\ x \in cover /\ x \in CoverRow /\ x.b = b
         /\ c \in CoverRow /\ c.b = b
         /\ x.start <= c.start /\ c.end <= x.end
         /\ c.slot = x.slot \/ c.slot = HoursOf(b)
         /\ b \notin rehoured => c.slot = x.slot
PROOF
<1>1. /\ x \in cover /\ x \in CoverRow /\ x.b = b /\ day \in x.start .. x.end
      /\ b \in SaleIds /\ HoursOf(b) \in Interval
  BY SlotHours DEF RowsAt, DaysInv
<1>2. b \notin rehoured => x.slot = HoursOf(b)
  BY <1>1 DEF DaysInv, DaysTables, MinutesAsHours
<1>3. LastDay \in Nat /\ day \in 1 .. LastDay
  BY DaySlotsAssumption DEF SeasonDays
<1>4. CASE x.start < day /\ c = [x EXCEPT !.end = day - 1]
  BY <1>1, <1>3, <1>4 DEF CoverRow, SeasonDays
<1>5. CASE day < x.end /\ c = [x EXCEPT !.start = day + 1]
  BY <1>1, <1>3, <1>5 DEF CoverRow, SeasonDays
<1>6. CASE day < x.end /\ c = NewRow(b, day + 1, x.end)
  BY <1>1, <1>2, <1>3, <1>6 DEF CoverRow, SeasonDays, NewRow
<1> QED BY <1>4, <1>5, <1>6 DEF PieceOf

(* Two pieces of one row have no day in common.                            *)
LEMMA PiecesApart ==
  ASSUME DaysInv, NEW b \in Sales, NEW day \in SeasonDays, NEW x \in RowsAt(b, day),
         NEW c, PieceOf(c, x, b, day), NEW d, PieceOf(d, x, b, day), c # d
  PROVE  ~ dateRangesOverlap(c.start, c.end, d.start, d.end)
PROOF
<1>1. /\ x \in CoverRow /\ LastDay \in Nat /\ day \in 1 .. LastDay
      /\ c \in CoverRow /\ d \in CoverRow
  BY PieceIsRow, DaySlotsAssumption DEF SeasonDays
<1>2. \A p \in {c, d} :
         \/ p = [x EXCEPT !.end = day - 1]
         \/ p.start = day + 1
  BY <1>1 DEF PieceOf, NewRow, CoverRow
<1>3. CASE c.start = day + 1 /\ d.start = day + 1
  BY <1>1, <1>3 DEF PieceOf, CoverRow, SeasonDays
<1>4. CASE c = [x EXCEPT !.end = day - 1] /\ d.start = day + 1
  BY <1>1, <1>4 DEF CoverRow, SeasonDays, dateRangesOverlap
<1>5. CASE d = [x EXCEPT !.end = day - 1] /\ c.start = day + 1
  BY <1>1, <1>5 DEF CoverRow, SeasonDays, dateRangesOverlap
<1> QED BY <1>2, <1>3, <1>4, <1>5

LEMMA PiecesOfOlder ==
  ASSUME DaysInv PROVE PiecesFit
PROOF
<1> SUFFICES ASSUME NEW b \in Sales \ rehoured, NEW day \in SeasonDays PROVE Fits(b, day)
  BY DEF PiecesFit
<1> DEFINE pieces == Kept(b, day) \cup Extra(b, day)
           From(c) == IF c \in pieces THEN CHOOSE x \in RowsAt(b, day) : PieceOf(c, x, b, day)
                      ELSE c
           rows == (cover \ RowsAt(b, day)) \cup pieces
<1>1. Accepts(cover) /\ \A c \in cover : c \in CoverRow
  BY SlotHours DEF DaysInv, DaysTables
<1>2. ASSUME NEW c \in pieces
      PROVE  From(c) \in RowsAt(b, day) /\ PieceOf(c, From(c), b, day)
  BY <1>2, PieceHasRow
<1> HIDE DEF pieces
<1>3. ASSUME NEW c \in rows
      PROVE  /\ From(c) \in cover /\ From(c) \in CoverRow /\ c \in CoverRow
             /\ From(c).start <= c.start /\ c.end <= From(c).end /\ c.slot = From(c).slot
  <2>1. CASE c \in pieces
    BY <1>2, <2>1, PieceIsRow
  <2>2. CASE c \notin pieces
    BY <1>1, <2>2 DEF CoverRow, SeasonDays
  <2> QED BY <2>1, <2>2
<1>4. ASSUME NEW c \in rows, NEW d \in rows, c # d, From(c) = From(d)
      PROVE  ~ dateRangesOverlap(c.start, c.end, d.start, d.end)
  <2>1. c \in pieces /\ d \in pieces
    BY <1>2, <1>4
  <2> QED BY <1>2, <1>4, <2>1, PiecesApart
<1> HIDE DEF From, rows
<1>5. \A c \in rows : c.slot.start <= c.slot.end
  BY <1>1, <1>3 DEF Accepts
<1>6. ASSUME NEW c \in rows, NEW d \in rows, c # d,
             dateRangesOverlap(c.start, c.end, d.start, d.end)
      PROVE  ~ MinutesOverlap(c.slot, d.slot)
  <2>1. From(c) # From(d)
    BY <1>4, <1>6
  <2>2. dateRangesOverlap(From(c).start, From(c).end, From(d).start, From(d).end)
    BY <1>3, <1>6 DEF dateRangesOverlap, CoverRow, SeasonDays
  <2> QED BY <1>1, <1>3, <2>1, <2>2 DEF Accepts
<1>7. Accepts(rows)
  BY <1>5, <1>6 DEF Accepts
<1>8. rows = (cover \ RowsAt(b, day)) \cup Kept(b, day) \cup Extra(b, day)
  BY DEF rows, pieces
<1> QED BY <1>7, <1>8 DEF Fits

-----------------------------------------------------------------------------
(* The time slots                                                          *)

LEMMA CreateSlotKeeps ==
  ASSUME DaysInv, CreateSlot
  PROVE  DaysInv'
PROOF
<1>1. PICK s \in SlotIds \ LiveSlots, h \in Interval :
        h.start < h.end /\ slot' = [slot EXCEPT ![s] = h]
  BY DEF CreateSlot
<1>2. UNCHANGED <<sale, cover, rehoured, work>> /\ Alone
  BY DEF CreateSlot
<1>3. slot' \in [SlotIds -> Interval \cup {None}]
  BY <1>1 DEF DaysInv, DaysTypeOK
<1>4. LiveSlots' = LiveSlots \cup {s} /\ \A t \in LiveSlots : slot'[t] = slot[t]
  BY <1>1, NoHoursAssumption DEF DaysInv, DaysTypeOK, LiveSlots
<1>5. Sales' = Sales /\ \A b \in Sales : HoursOf(b)' = HoursOf(b)
  BY <1>2, <1>4, SlotHours DEF Sales, HoursOf, DaysInv
<1>6. /\ work' \in [Workers -> DayRequest \cup {NoRequest}]
      /\ serial' \in BOOLEAN /\ (serial' => serial) /\ DayRequestsOK' /\ DayAlone'
  BY <1>2, <1>5, DayIdles
<1>7. DaysTypeOK'
  BY <1>1, <1>2, <1>3, <1>4, <1>5, <1>6 DEF DaysInv, DaysTypeOK
<1>8. DaysTables'
  BY <1>2, <1>5, <1>6 DEF DaysInv, DaysTables, RowsOfSales, MinutesAsHours, Accepts,
     SoldOncePerSlot
<1> QED BY <1>6, <1>7, <1>8 DEF DaysInv

LEMMA UpdateSlotLoadKeeps ==
  ASSUME DaysInv, NEW w \in Workers, UpdateSlotLoad(w)
  PROVE  DaysInv'
PROOF
<1>1. PICK s \in LiveSlots, patch \in [start: Hours \cup {None}, end: Hours \cup {None}] :
        /\ Patched(slot[s], patch).start < Patched(slot[s], patch).end
        /\ Begin(w, [OnSlot("rehour", s) EXCEPT !.patch = patch])
        /\ UNCHANGED days
  BY DEF UpdateSlotLoad
<1> DEFINE r == [OnSlot("rehour", s) EXCEPT !.patch = patch]
<1>2. /\ r.op = "rehour" /\ r.s = s /\ r.patch = patch
      /\ r \in DayRequest
  BY DaySlotsAssumption DEF OnSlot, DayRequest, NoPatch, LiveSlots
<1> HIDE DEF r
<1>3. DayFound(r) /\ DayStillSo(r)
  BY <1>1, <1>2 DEF DayFound, DayStillSo
<1> QED BY <1>1, <1>2, <1>3, DayBegins DEF r

LEMMA UpdateSlotWriteKeeps ==
  ASSUME DaysInv, NEW w \in Workers, UpdateSlotWrite(w)
  PROVE  DaysInv'
PROOF
<1>1. work[w] # NoRequest /\ work[w] \in DayRequest /\ work[w].op = "rehour"
  BY DayServed DEF UpdateSlotWrite, At, NoRequest, DaysInv
<1> DEFINE s == work[w].s
           h == Patched(slot[s], work[w].patch)
<1>2. s \in LiveSlots
  BY DEF UpdateSlotWrite
<1>3. /\ slot' = [slot EXCEPT ![s] = h] /\ Finish(w) /\ UNCHANGED <<sale, cover>>
      /\ rehoured' = rehoured \cup
                       (IF h = slot[s] THEN {} ELSE { b \in Sales : sale[b].slot = s })
  BY <1>2 DEF UpdateSlotWrite
<1>4. s \in SlotIds /\ slot[s] \in Interval
  BY <1>2, SlotHours DEF DaysInv
<1>5. h \in Interval
  BY <1>1, <1>2, <1>4 DEF Patched, DayRequest, Interval
<1>6. slot' \in [SlotIds -> Interval \cup {None}] /\ LiveSlots' = LiveSlots
  BY <1>3, <1>4, <1>5, NoHoursAssumption DEF DaysInv, DaysTypeOK, LiveSlots
<1>7. Sales' = Sales
  BY <1>3 DEF Sales
<1>8. /\ work' \in [Workers -> DayRequest \cup {NoRequest}]
      /\ serial' = serial /\ DayRequestsOK' /\ DayAlone'
  BY <1>1, <1>3, <1>7, DayEnds
<1>9. serial => h.start < h.end
  BY <1>1, <1>2 DEF DaysInv, DayAlone, DayStillSo
<1>10. DaysTypeOK'
  <2>1. serial' => \A t \in LiveSlots' : slot'[t].start < slot'[t].end
    BY <1>3, <1>4, <1>6, <1>8, <1>9 DEF DaysInv, DaysTypeOK
  <2> QED BY <1>3, <1>6, <1>7, <1>8, <2>1 DEF DaysInv, DaysTypeOK
<1>11. MinutesAsHours'
  <2> SUFFICES ASSUME NEW c \in cover, c.b \notin rehoured' PROVE c.slot = HoursOf(c.b)'
    BY <1>3 DEF MinutesAsHours
  <2>1. c.b \in Sales /\ c.slot = HoursOf(c.b) /\ sale[c.b].slot \in SlotIds
    BY <1>3, SlotHours DEF DaysInv, DaysTables, RowsOfSales, MinutesAsHours
  <2>2. CASE sale[c.b].slot = s
    BY <1>3, <1>4, <2>1, <2>2 DEF HoursOf, DaysInv, DaysTypeOK
  <2>3. CASE sale[c.b].slot # s
    BY <1>3, <2>1, <2>3 DEF HoursOf, DaysInv, DaysTypeOK
  <2> QED BY <2>2, <2>3
<1>12. DaysTables'
  BY <1>3, <1>7, <1>8, <1>11 DEF DaysInv, DaysTables, RowsOfSales, Accepts, SoldOncePerSlot
<1> QED BY <1>8, <1>10, <1>12 DEF DaysInv

LEMMA RemoveSlotLoadKeeps ==
  ASSUME DaysInv, NEW w \in Workers, RemoveSlotLoad(w)
  PROVE  DaysInv'
PROOF
<1>1. PICK s \in LiveSlots : Begin(w, OnSlot("removeSlot", s)) /\ UNCHANGED days
  BY DEF RemoveSlotLoad
<1>2. OnSlot("removeSlot", s) \in DayRequest /\ OnSlot("removeSlot", s).op = "removeSlot"
  BY DaySlotsAssumption DEF OnSlot, DayRequest, NoPatch, LiveSlots
<1>3. DayFound(OnSlot("removeSlot", s)) /\ DayStillSo(OnSlot("removeSlot", s))
  BY <1>2 DEF DayFound, DayStillSo
<1> QED BY <1>1, <1>2, <1>3, DayBegins

LEMMA RemoveSlotWriteKeeps ==
  ASSUME DaysInv, NEW w \in Workers, RemoveSlotWrite(w)
  PROVE  DaysInv'
PROOF
<1>1. work[w] # NoRequest
  BY DEF RemoveSlotWrite, At, NoRequest
<1>2. PICK s \in LiveSlots :
        /\ \A b \in Sales : sale[b].slot # s
        /\ slot' = [slot EXCEPT ![s] = None]
  BY DEF RemoveSlotWrite
<1>3. Finish(w) /\ UNCHANGED <<sale, cover, rehoured>>
  BY DEF RemoveSlotWrite
<1>4. /\ slot' \in [SlotIds -> Interval \cup {None}]
      /\ LiveSlots' = LiveSlots \ {s} /\ \A t \in LiveSlots' : slot'[t] = slot[t]
  BY <1>2 DEF DaysInv, DaysTypeOK, LiveSlots
<1>5. Sales' = Sales /\ \A b \in Sales : HoursOf(b)' = HoursOf(b) /\ sale[b].slot \in LiveSlots'
  BY <1>2, <1>3, <1>4, SlotHours DEF Sales, HoursOf, DaysInv
<1>6. /\ work' \in [Workers -> DayRequest \cup {NoRequest}]
      /\ serial' = serial /\ DayRequestsOK' /\ DayAlone'
  BY <1>1, <1>3, <1>5, DayEnds
<1>7. DaysTypeOK'
  BY <1>3, <1>4, <1>5, <1>6 DEF DaysInv, DaysTypeOK
<1>8. DaysTables'
  BY <1>3, <1>5, <1>6 DEF DaysInv, DaysTables, RowsOfSales, MinutesAsHours, Accepts,
     SoldOncePerSlot
<1> QED BY <1>6, <1>7, <1>8 DEF DaysInv

-----------------------------------------------------------------------------
(* The bookings                                                            *)

(* A row that the check has passed, in the hours of its slot: no booking   *)
(* of the same slot has a row on its days.                                 *)
LEMMA CheckedIsApart ==
  ASSUME DaysInv, serial, NEW s \in LiveSlots, NEW from \in SeasonDays, NEW to \in SeasonDays,
         NEW b, ~ SeatTaken(slot[s], from, to, b), NEW c \in cover, c.b # b,
         dateRangesOverlap(c.start, c.end, from, to)
  PROVE  sale[c.b].slot # s
PROOF
<1>1. ~ slotsOverlap(HoursOf(c.b), slot[s])
  BY DEF SeatTaken
<1>2. slot[s] \in Interval /\ slot[s].start < slot[s].end
  BY SlotHours DEF DaysInv, DaysTypeOK
<1>3. slot[s].start \in Nat /\ slot[s].end \in Nat
  BY <1>2, DaySlotsAssumption DEF Interval
<1>4. slotsOverlap(slot[s], slot[s])
  BY <1>2, <1>3 DEF slotsOverlap
<1> QED BY <1>1, <1>4 DEF HoursOf

LEMMA CreateBookingLoadKeeps ==
  ASSUME DaysInv, NEW w \in Workers, CreateBookingLoad(w)
  PROVE  DaysInv'
PROOF
<1>1. PICK s \in LiveSlots, p \in Spans :
        /\ ~ SeatTaken(slot[s], p.start, p.end, None)
        /\ Begin(w, OnDays("sell", s, None, p.start, p.end))
        /\ UNCHANGED days
  BY DEF CreateBookingLoad
<1> DEFINE r == OnDays("sell", s, None, p.start, p.end)
<1>2. p.start \in 1 .. LastDay /\ p.end \in 1 .. LastDay /\ LastDay \in Nat
  BY DaySlotsAssumption
<1>3. r = [op |-> "sell", s |-> s, patch |-> NoPatch, b |-> None, start |-> p.start, end |-> p.end]
  BY DEF OnDays
<1> HIDE DEF r
<1>6. NoPatch \in [start: Hours \cup {None}, end: Hours \cup {None}]
  BY DEF NoPatch
<1>7. p.start \in 0 .. LastDay /\ p.end \in 0 .. LastDay /\ s \in SlotIds
  BY <1>2 DEF LiveSlots
<1>5. r \in DayRequest
  BY <1>3, <1>6, <1>7 DEF DayRequest
<1>4. DayFound(r) /\ DayStillSo(r)
  BY <1>1, <1>2, <1>3 DEF DayFound, DayStillSo, SeasonDays
<1> QED BY <1>1, <1>4, <1>5, DayBegins DEF r

LEMMA CreateBookingWriteKeeps ==
  ASSUME DaysInv, NEW w \in Workers, CreateBookingWrite(w)
  PROVE  DaysInv'
PROOF
<1>1. /\ work[w] # NoRequest /\ work[w] \in DayRequest /\ work[w].op = "sell"
      /\ work[w].s \in LiveSlots
  BY DayServed DEF CreateBookingWrite, At, NoRequest, DaysInv
<1>2. PICK s \in LiveSlots, from \in SeasonDays, to \in SeasonDays :
        s = work[w].s /\ from = work[w].start /\ to = work[w].end
  BY <1>1 DEF DaysInv, DayRequestsOK, DayFound
<1>3. PICK b \in SaleIds \ Sales :
        /\ sale' = [sale EXCEPT ![b] = [slot |-> s, start |-> from, end |-> to,
                                        confirmed |-> TRUE]]
        /\ cover' = cover \cup {[b |-> b, start |-> from, end |-> to, slot |-> slot[s]]}
  BY <1>2 DEF CreateBookingWrite
<1>4. UNCHANGED <<slot, rehoured>> /\ Finish(w) /\ Accepts(cover')
  BY DEF CreateBookingWrite
<1>5. s \in SlotIds /\ slot[s] \in Interval /\ LiveSlots' = LiveSlots
  BY <1>4, SlotHours DEF DaysInv, LiveSlots
<1>6. /\ sale' \in [SaleIds -> SaleRow \cup {None}]
      /\ sale'[b] \in SaleRow /\ sale'[b].slot = s
      /\ \A a \in SaleIds \ {b} : sale'[a] = sale[a]
  BY <1>3, <1>5 DEF DaysInv, DaysTypeOK, SaleRow
<1>7. Sales' = Sales \cup {b} /\ \A a \in Sales : sale'[a] = sale[a]
  BY <1>6, NoHoursAssumption DEF Sales
<1>8. /\ work' \in [Workers -> DayRequest \cup {NoRequest}]
      /\ serial' = serial /\ DayRequestsOK' /\ DayAlone'
  BY <1>1, <1>4, <1>7, DayEnds
<1>9. cover' \subseteq CoverRow
  BY <1>3, <1>5 DEF DaysInv, DaysTypeOK, CoverRow
<1>10. DaysTypeOK'
  <2>1. \A a \in Sales' : sale'[a].slot \in LiveSlots'
    BY <1>5, <1>6, <1>7, SlotHours DEF DaysInv
  <2> QED BY <1>4, <1>5, <1>6, <1>8, <1>9, <2>1 DEF DaysInv, DaysTypeOK
<1>11. RowsOfSales'
  BY <1>3, <1>7 DEF DaysInv, DaysTables, RowsOfSales
<1>12. MinutesAsHours'
  BY <1>3, <1>4, <1>6, <1>7 DEF DaysInv, DaysTables, RowsOfSales, MinutesAsHours, HoursOf
<1>13. SoldOncePerSlot'
  <2> DEFINE n == [b |-> b, start |-> from, end |-> to, slot |-> slot[s]]
  <2>1. SUFFICES ASSUME serial' PROVE SoldOncePerSlot'
    BY DEF SoldOncePerSlot
  <2>2. serial /\ ~ SeatTaken(slot[s], from, to, None)
    BY <1>1, <1>2, <1>8, <2>1 DEF DaysInv, DayAlone, DayStillSo
  <2>3. \A c \in cover : c.b \in Sales /\ c.b # None /\ c \in CoverRow
    BY SlotHours, DaySlotsAssumption DEF DaysInv, DaysTables, RowsOfSales
  <2>4. \A c \in cover :
           \/ ~ dateRangesOverlap(c.start, c.end, from, to)
           \/ sale[c.b].slot # s
    BY <2>2, <2>3, CheckedIsApart
  <2>5. \A c \in cover :
           dateRangesOverlap(from, to, c.start, c.end) => dateRangesOverlap(c.start, c.end, from, to)
    BY DEF dateRangesOverlap
  <2>6. \A c \in cover' : c \in cover \/ c = n
    BY <1>3
  <2>7. SUFFICES ASSUME NEW c \in cover', NEW d \in cover', c.b # d.b,
                        dateRangesOverlap(c.start, c.end, d.start, d.end)
                 PROVE  sale'[c.b].slot # sale'[d.b].slot
    BY DEF SoldOncePerSlot
  <2>8. CASE c \in cover /\ d \in cover
    BY <1>7, <2>2, <2>3, <2>7, <2>8 DEF DaysInv, DaysTables, SoldOncePerSlot
  <2>9. CASE c \in cover /\ d = n
    BY <1>6, <1>7, <2>3, <2>4, <2>7, <2>9
  <2>10. CASE c = n /\ d \in cover
    BY <1>6, <1>7, <2>3, <2>4, <2>5, <2>7, <2>10
  <2> QED BY <2>6, <2>7, <2>8, <2>9, <2>10
<1> QED BY <1>4, <1>8, <1>10, <1>11, <1>12, <1>13 DEF DaysInv, DaysTables

LEMMA CancelBookingKeeps ==
  ASSUME DaysInv, NEW b, CancelBooking(b)
  PROVE  DaysInv'
PROOF
<1>1. /\ b \in Sales /\ sale' = [sale EXCEPT ![b].confirmed = FALSE]
      /\ cover' \subseteq cover
      /\ Alone /\ UNCHANGED <<slot, rehoured, work>>
  BY DEF CancelBooking
<1>2. b \in SaleIds /\ sale[b] \in SaleRow
  BY <1>1, SlotHours DEF DaysInv
<1>3. /\ sale' \in [SaleIds -> SaleRow \cup {None}]
      /\ \A a \in SaleIds \ {b} : sale'[a] = sale[a]
      /\ sale'[b] \in SaleRow /\ sale'[b].slot = sale[b].slot
  BY <1>1, <1>2 DEF DaysInv, DaysTypeOK, SaleRow
<1>4. Sales' = Sales /\ LiveSlots' = LiveSlots
  BY <1>1, <1>2, <1>3, NoHoursAssumption DEF Sales, LiveSlots
<1>5. \A a \in Sales : sale'[a].slot = sale[a].slot /\ HoursOf(a)' = HoursOf(a)
  BY <1>1, <1>3, <1>4 DEF HoursOf, Sales
<1>6. /\ work' \in [Workers -> DayRequest \cup {NoRequest}]
      /\ serial' \in BOOLEAN /\ (serial' => serial) /\ DayRequestsOK' /\ DayAlone'
  BY <1>1, <1>4, DayIdles
<1>7. DaysTypeOK'
  BY <1>1, <1>3, <1>4, <1>5, <1>6, SlotHours DEF DaysInv, DaysTypeOK
<1>8. DaysTables'
  BY <1>1, <1>4, <1>5, <1>6 DEF DaysInv, DaysTables, RowsOfSales, MinutesAsHours, Accepts,
     SoldOncePerSlot
<1> QED BY <1>6, <1>7, <1>8 DEF DaysInv

(* c has days of row x only, and its minutes as long as they are good.     *)
CutFrom(c, x) ==
  /\ x \in CoverRow /\ x.b = c.b
  /\ x.start <= c.start /\ c.end <= x.end
  /\ c.b \notin rehoured => c.slot = x.slot

LEMMA ReleaseDayKeeps ==
  ASSUME DaysInv, NEW b, NEW day \in SeasonDays, ReleaseDay(b, day)
  PROVE  DaysInv'
PROOF
<1>1. /\ b \in Sales /\ Accepts(cover')
      /\ cover' = (cover \ RowsAt(b, day)) \cup Kept(b, day) \cup Extra(b, day)
      /\ Alone /\ UNCHANGED <<slot, sale, rehoured, work>>
  BY DEF ReleaseDay, Fits
<1>2. Sales' = Sales /\ LiveSlots' = LiveSlots /\ \A a \in Sales : HoursOf(a)' = HoursOf(a)
  BY <1>1 DEF Sales, LiveSlots, HoursOf
<1>3. ASSUME NEW c \in cover'
      PROVE  c \in CoverRow /\ \E x \in cover : CutFrom(c, x)
  <2>1. CASE c \in cover
    <3>1. c \in CoverRow
      BY <2>1, SlotHours DEF DaysInv
    <3> QED BY <2>1, <3>1 DEF CutFrom, CoverRow, SeasonDays
  <2>2. CASE c \notin cover
    <3>1. PICK x \in RowsAt(b, day) : PieceOf(c, x, b, day)
      BY <1>1, <1>3, <2>2, PieceHasRow
    <3>2. c \in CoverRow /\ x \in cover /\ CutFrom(c, x)
      BY <1>1, <3>1, PieceIsRow DEF CutFrom
    <3> QED BY <3>2
  <2> QED BY <2>1, <2>2
<1>4. /\ work' \in [Workers -> DayRequest \cup {NoRequest}]
      /\ serial' \in BOOLEAN /\ (serial' => serial) /\ DayRequestsOK' /\ DayAlone'
  BY <1>1, <1>2, DayIdles
<1>5. DaysTypeOK'
  BY <1>1, <1>2, <1>3, <1>4 DEF DaysInv, DaysTypeOK
<1>6. RowsOfSales' /\ MinutesAsHours'
  <2>1. \A c \in cover' : c.b \in Sales /\ (c.b \notin rehoured => c.slot = HoursOf(c.b))
    BY <1>3 DEF DaysInv, DaysTables, RowsOfSales, MinutesAsHours, CutFrom
  <2> QED BY <1>1, <1>2, <2>1 DEF RowsOfSales, MinutesAsHours
<1>7. SoldOncePerSlot'
  <2> SUFFICES ASSUME serial', NEW c \in cover', NEW d \in cover', c.b # d.b,
                      dateRangesOverlap(c.start, c.end, d.start, d.end)
               PROVE  sale[c.b].slot # sale[d.b].slot
    BY <1>1 DEF SoldOncePerSlot
  <2>1. PICK x \in cover : CutFrom(c, x)
    BY <1>3
  <2>2. PICK y \in cover : CutFrom(d, y)
    BY <1>3
  <2>3. c \in CoverRow /\ d \in CoverRow
    BY <1>3
  <2>4. dateRangesOverlap(x.start, x.end, y.start, y.end)
    BY <2>1, <2>2, <2>3 DEF dateRangesOverlap, CoverRow, SeasonDays, CutFrom
  <2> QED BY <1>4, <2>1, <2>2, <2>4 DEF DaysInv, DaysTables, SoldOncePerSlot, CutFrom
<1> QED BY <1>1, <1>4, <1>5, <1>6, <1>7 DEF DaysInv, DaysTables

LEMMA TakeBackLoadKeeps ==
  ASSUME DaysInv, NEW w \in Workers, TakeBackLoad(w)
  PROVE  DaysInv'
PROOF
<1>1. PICK b \in Sales, day \in SeasonDays :
        /\ ~ SeatTaken(HoursOf(b), day, day, b)
        /\ Begin(w, OnDays("cover", None, b, day, day))
        /\ UNCHANGED days
  BY DEF TakeBackLoad
<1> DEFINE r == OnDays("cover", None, b, day, day)
<1>2. day \in 1 .. LastDay /\ LastDay \in Nat /\ b \in SaleIds
  BY DaySlotsAssumption DEF SeasonDays, Sales
<1>3. r = [op |-> "cover", s |-> None, patch |-> NoPatch, b |-> b, start |-> day, end |-> day]
  BY DEF OnDays
<1> HIDE DEF r
<1>4. NoPatch \in [start: Hours \cup {None}, end: Hours \cup {None}] /\ day \in 0 .. LastDay
  BY <1>2 DEF NoPatch
<1>5. r \in DayRequest
  BY <1>2, <1>3, <1>4 DEF DayRequest
<1>6. DayFound(r) /\ DayStillSo(r)
  BY <1>1, <1>3 DEF DayFound, DayStillSo
<1> QED BY <1>1, <1>5, <1>6, DayBegins DEF r

LEMMA TakeBackWriteKeeps ==
  ASSUME DaysInv, NEW w \in Workers, TakeBackWrite(w)
  PROVE  DaysInv'
PROOF
<1>1. work[w] # NoRequest /\ work[w] \in DayRequest /\ work[w].op = "cover"
  BY DayServed DEF TakeBackWrite, At, NoRequest, DaysInv
<1>2. PICK b \in Sales, day \in SeasonDays :
        b = work[w].b /\ day = work[w].start /\ day = work[w].end
  BY <1>1 DEF DaysInv, DayRequestsOK, DayFound
<1>3. PICK n : n = NewRow(b, day, day)
  OBVIOUS
<1>4. /\ cover' = cover \cup {n} /\ Accepts(cover') /\ Finish(w)
      /\ UNCHANGED <<slot, sale, rehoured>>
  BY <1>2, <1>3 DEF TakeBackWrite
<1>5. b \in SaleIds /\ HoursOf(b) \in Interval /\ sale[b].slot \in LiveSlots
  BY SlotHours DEF DaysInv
<1>6. /\ n \in CoverRow /\ n.b = b /\ n.start = day /\ n.end = day /\ n.slot = HoursOf(b)
  BY <1>3, <1>5 DEF NewRow, CoverRow
<1>7. Sales' = Sales /\ LiveSlots' = LiveSlots /\ \A a \in Sales : HoursOf(a)' = HoursOf(a)
  BY <1>4 DEF Sales, LiveSlots, HoursOf
<1>8. /\ work' \in [Workers -> DayRequest \cup {NoRequest}]
      /\ serial' = serial /\ DayRequestsOK' /\ DayAlone'
  BY <1>1, <1>4, <1>7, DayEnds
<1>9. DaysTypeOK'
  BY <1>4, <1>6, <1>7, <1>8 DEF DaysInv, DaysTypeOK
<1>10. RowsOfSales' /\ MinutesAsHours'
  BY <1>4, <1>6, <1>7 DEF DaysInv, DaysTables, RowsOfSales, MinutesAsHours
<1>11. SoldOncePerSlot'
  <2> SUFFICES ASSUME serial PROVE SoldOncePerSlot'
    BY <1>8 DEF SoldOncePerSlot
  <2>1. ~ SeatTaken(slot[sale[b].slot], day, day, b)
    BY <1>1, <1>2 DEF DaysInv, DayAlone, DayStillSo, HoursOf
  <2>2. \A c \in cover :
           \/ c.b = b
           \/ ~ dateRangesOverlap(c.start, c.end, day, day)
           \/ sale[c.b].slot # sale[b].slot
    BY <1>5, <2>1, CheckedIsApart
  <2>3. \A c \in cover :
           dateRangesOverlap(day, day, c.start, c.end) => dateRangesOverlap(c.start, c.end, day, day)
    BY DEF dateRangesOverlap
  <2>4. SUFFICES ASSUME NEW c \in cover', NEW d \in cover', c.b # d.b,
                        dateRangesOverlap(c.start, c.end, d.start, d.end)
                 PROVE  sale[c.b].slot # sale[d.b].slot
    BY <1>4 DEF SoldOncePerSlot
  <2>5. CASE c \in cover /\ d \in cover
    BY <2>4, <2>5 DEF DaysInv, DaysTables, SoldOncePerSlot
  <2>6. CASE c \in cover /\ d = n
    BY <1>6, <2>2, <2>4, <2>6
  <2>7. CASE c = n /\ d \in cover
    BY <1>6, <2>2, <2>3, <2>4, <2>7
  <2> QED BY <1>4, <2>4, <2>5, <2>6, <2>7
<1> QED BY <1>4, <1>8, <1>9, <1>10, <1>11 DEF DaysInv, DaysTables

-----------------------------------------------------------------------------
(* The invariant                                                           *)

LEMMA DaysInvAtFirst ==
  ASSUME DaysInit, work = [w \in Workers |-> NoRequest], serial = TRUE
  PROVE  DaysInv
PROOF
<1>1. LiveSlots = {} /\ Sales = {}
  BY DEF DaysInit, LiveSlots, Sales
<1>2. DaysTypeOK
  BY <1>1 DEF DaysInit, DaysTypeOK
<1>3. DaysTables
  BY DEF DaysInit, DaysTables, RowsOfSales, MinutesAsHours, Accepts, SoldOncePerSlot
<1> QED BY <1>2, <1>3 DEF DaysInv, DayRequestsOK, DayAlone

LEMMA DaysInvKept ==
  ASSUME DaysInv, [DaysNext]_<<days, work, serial>>
  PROVE  DaysInv'
PROOF
<1>1. ASSUME NEW w \in Workers, Abort(w), UNCHANGED days
      PROVE  DaysInv'
  <2>1. work[w] # NoRequest /\ Finish(w) /\ UNCHANGED <<slot, sale, cover, rehoured>>
    BY <1>1 DEF Abort, days
  <2>2. Sales' = Sales /\ LiveSlots' = LiveSlots
    BY <2>1 DEF Sales, LiveSlots
  <2>3. /\ work' \in [Workers -> DayRequest \cup {NoRequest}]
        /\ serial' = serial /\ DayRequestsOK' /\ DayAlone'
    BY <2>1, <2>2, DayEnds
  <2>4. DaysTypeOK'
    BY <2>1, <2>2, <2>3 DEF DaysInv, DaysTypeOK
  <2>5. DaysTables'
    BY <2>1, <2>2, <2>3 DEF DaysInv, DaysTables, RowsOfSales, MinutesAsHours, Accepts,
       SoldOncePerSlot, HoursOf
  <2> QED BY <2>3, <2>4, <2>5 DEF DaysInv
<1>2. CASE UNCHANGED <<days, work, serial>>
  <2>1. UNCHANGED <<slot, sale, cover, rehoured, work, serial>>
    BY <1>2 DEF days
  <2> QED BY <2>1 DEF DaysInv, DaysTypeOK, DaysTables, RowsOfSales, MinutesAsHours, Accepts,
          SoldOncePerSlot, HoursOf, DayRequestsOK, DayAlone, DayFound, DayStillSo, SeatTaken,
          LiveSlots, Sales
<1>3. CASE CreateSlot
  BY <1>3, CreateSlotKeeps
<1>4. CASE \E b \in SaleIds : CancelBooking(b) \/ \E day \in SeasonDays : ReleaseDay(b, day)
  BY <1>4, CancelBookingKeeps, ReleaseDayKeeps
<1>5. ASSUME NEW w \in Workers,
             \/ UpdateSlotLoad(w) \/ UpdateSlotWrite(w)
             \/ RemoveSlotLoad(w) \/ RemoveSlotWrite(w)
             \/ CreateBookingLoad(w) \/ CreateBookingWrite(w)
             \/ TakeBackLoad(w) \/ TakeBackWrite(w)
             \/ Abort(w) /\ UNCHANGED days
      PROVE  DaysInv'
  BY <1>1, <1>5, UpdateSlotLoadKeeps, UpdateSlotWriteKeeps, RemoveSlotLoadKeeps,
     RemoveSlotWriteKeeps, CreateBookingLoadKeeps, CreateBookingWriteKeeps, TakeBackLoadKeeps,
     TakeBackWriteKeeps
<1> QED BY <1>2, <1>3, <1>4, <1>5 DEF DaysNext

-----------------------------------------------------------------------------
(* The map and the sale                                                    *)

LEMMA FreeSells ==
  ASSUME DaysInv PROVE FreeIsSellable
PROOF
<1> SUFFICES ASSUME serial, NEW s \in LiveSlots, NEW day \in SeasonDays
             PROVE  /\ MapState(s, day) = "free" <=> ~ SeatTaken(slot[s], day, day, None)
                    /\ /\ MapState(s, day) = "free"
                       /\ \A b \in rehoured : RowsAt(b, day) = {}
                       => Accepts(cover \cup {[b |-> None, start |-> day, end |-> day,
                                               slot |-> slot[s]]})
  BY DEF FreeIsSellable
<1>1. /\ slot[s] \in Interval /\ slot[s].start < slot[s].end
      /\ slot[s].start \in Nat /\ slot[s].end \in Nat
  BY SlotHours, DaySlotsAssumption DEF DaysInv, DaysTypeOK, Interval
<1>2. slotsOverlap(slot[s], slot[s])
  BY <1>1 DEF slotsOverlap
<1>3. \A c \in cover : c \in CoverRow /\ c.b \in Sales /\ c.b # None
  BY SlotHours, DaySlotsAssumption DEF DaysInv, DaysTables, RowsOfSales
<1>4. \A c \in cover : day \in c.start .. c.end <=> dateRangesOverlap(c.start, c.end, day, day)
  BY <1>3 DEF dateRangesOverlap, CoverRow, SeasonDays
<1>5. MapState(s, day) = "free" <=> ~ SeatTaken(slot[s], day, day, None)
  <2> DEFINE there == { c.b : c \in { x \in cover : day \in x.start .. x.end } }
  <2>1. SeatTaken(slot[s], day, day, None) <=> \E b \in there : slotsOverlap(HoursOf(b), slot[s])
    BY <1>3, <1>4 DEF SeatTaken
  <2>2. \A b \in there : sale[b].slot = s => slotsOverlap(HoursOf(b), slot[s])
    BY <1>2 DEF HoursOf
  <2> HIDE DEF there
  <2>3. MapState(s, day) =
          CASE \E b \in there : sale[b].slot = s -> "booked"
            [] /\ \A b \in there : sale[b].slot # s
               /\ \E b \in there : slotsOverlap(HoursOf(b), slot[s]) -> "covered"
            [] OTHER -> "free"
    BY DEF MapState, there
  <2> QED BY <2>1, <2>2, <2>3
<1>6. ASSUME MapState(s, day) = "free", \A b \in rehoured : RowsAt(b, day) = {}
      PROVE  Accepts(cover \cup {[b |-> None, start |-> day, end |-> day, slot |-> slot[s]]})
  <2>1. PICK n : n = [b |-> None, start |-> day, end |-> day, slot |-> slot[s]]
    OBVIOUS
  <2>2. Accepts(cover)
    BY DEF DaysInv, DaysTables
  <2>3. ASSUME NEW c \in cover, dateRangesOverlap(c.start, c.end, day, day)
        PROVE  ~ MinutesOverlap(c.slot, slot[s]) /\ ~ MinutesOverlap(slot[s], c.slot)
    <3>1. c \in RowsAt(c.b, day)
      BY <1>4, <2>3 DEF RowsAt
    <3>2. c.slot = HoursOf(c.b)
      BY <1>6, <3>1 DEF DaysInv, DaysTables, MinutesAsHours
    <3>3. ~ slotsOverlap(c.slot, slot[s])
      BY <1>3, <1>5, <1>6, <2>3, <3>2 DEF SeatTaken
    <3> QED BY <3>3 DEF MinutesOverlap, slotsOverlap
  <2>4. n.start = day /\ n.end = day /\ n.slot = slot[s] /\ n.slot.start <= n.slot.end
    BY <1>1, <2>1
  <2>5. \A c \in cover :
           dateRangesOverlap(day, day, c.start, c.end) => dateRangesOverlap(c.start, c.end, day, day)
    BY DEF dateRangesOverlap
  <2> QED BY <2>1, <2>2, <2>3, <2>4, <2>5 DEF Accepts
<1> QED BY <1>5, <1>6

-----------------------------------------------------------------------------
(* One request at a time, a slot of an umbrella is sold once a day: the    *)
(* check of priceAndWrite and of cancelAbsenceRelease is enough, whatever  *)
(* the constraint makes of minutes that have become old.                   *)
THEOREM SlotSoldOnce == DaysSpec => []SoldOncePerSlot
PROOF
<1>1. DaysInit /\ work = [w \in Workers |-> NoRequest] /\ serial = TRUE => DaysInv
  BY DaysInvAtFirst
<1>2. DaysInv /\ [DaysNext]_<<days, work, serial>> => DaysInv'
  BY DaysInvKept
<1>3. DaysInv => SoldOncePerSlot
  BY DEF DaysInv, DaysTables
<1> QED BY <1>1, <1>2, <1>3, PTL DEF DaysSpec

(* The map shows as free what the sale accepts, and the database takes it  *)
(* where no booking is older than the hours of its slot (projectDayMap).   *)
THEOREM MapAgreesWithSale == DaysSpec => []FreeIsSellable
PROOF
<1>1. DaysInit /\ work = [w \in Workers |-> NoRequest] /\ serial = TRUE => DaysInv
  BY DaysInvAtFirst
<1>2. DaysInv /\ [DaysNext]_<<days, work, serial>> => DaysInv'
  BY DaysInvKept
<1>3. DaysInv => FreeIsSellable
  BY FreeSells
<1> QED BY <1>1, <1>2, <1>3, PTL DEF DaysSpec

(* However requests overlap, the database takes the pieces of a row in     *)
(* which a day is given up, as long as the hours of the slot are those the *)
(* booking was made with (applyCarve).                                     *)
THEOREM PiecesAlwaysFit == DaysSpec => []PiecesFit
PROOF
<1>1. DaysInit /\ work = [w \in Workers |-> NoRequest] /\ serial = TRUE => DaysInv
  BY DaysInvAtFirst
<1>2. DaysInv /\ [DaysNext]_<<days, work, serial>> => DaysInv'
  BY DaysInvKept
<1>3. DaysInv => PiecesFit
  BY PiecesOfOlder
<1> QED BY <1>1, <1>2, <1>3, PTL DEF DaysSpec
=============================================================================
