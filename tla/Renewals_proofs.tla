--------------------------- MODULE Renewals_proofs ---------------------------
(***************************************************************************)
(* That a subscription has one confirmed renewal and that renewals run     *)
(* forward, that an erasure leaves nothing behind, however many requests   *)
(* overlap; and that no retired umbrella is booked if none do.             *)
(***************************************************************************)
EXTENDS Renewals, FiniteSetTheorems, TLAPS

(* A row that renews another keeps its seat and begins after it.           *)
RunsForward(row) ==
  row.previous # 0 =>
    /\ row.previous \in Stored
    /\ booking[row.previous].type = "subscription"
    /\ booking[row.previous].umbrella = row.umbrella
    /\ booking[row.previous].slot = row.slot
    /\ booking[row.previous].end < row.start

(* What a request knows of the tables.                                     *)
RequestOK(r) ==
  /\ r \in Request \cup {NoRequest}
  /\ r.pc \in {"checked", "priced"} =>
       r.op \in {"create", "renew"} /\ r.row \in BookingRow /\ RunsForward(r.row)
  /\ r.op = "transfer" => r.b \in Stored /\ r.row \in BookingRow /\ r.who \in Customers
  /\ r.op = "remove" => r.who \in Customers
  /\ r.op = "retire" => r.seat \in Umbrellas

RequestsOK == \A w \in Workers : RequestOK(work[w])

IInv == TypeOK /\ RequestsOK /\ OneRenewal /\ RenewalsRunForward /\ ErasedLeavesNothing

(* The rows that are stored stay, with their seat, their dates and what    *)
(* they renew, and none is confirmed again.                                *)
Holds ==
  \A b \in Stored :
     /\ b \in Stored'
     /\ booking'[b].type = booking[b].type
     /\ booking'[b].umbrella = booking[b].umbrella
     /\ booking'[b].slot = booking[b].slot
     /\ booking'[b].start = booking[b].start
     /\ booking'[b].end = booking[b].end
     /\ booking'[b].previous = booking[b].previous
     /\ booking'[b].status = "confirmed" => booking[b].status = "confirmed"

(* A step of the table Booking that inserts no row.                        *)
Keeps ==
  /\ booking' \in [Bookings -> BookingRow \cup {NoRow}]
  /\ Stored' = Stored
  /\ Holds

-----------------------------------------------------------------------------
(* Rows and requests.                                                      *)
LEMMA Rows ==
  /\ \A r \in BookingRow : r # NoRow
  /\ \A r \in CampaignRow : r # NoRow
  /\ TypeOK => /\ \A b \in Stored : booking[b] \in BookingRow
               /\ Stored \subseteq Bookings
               /\ \A c \in Existing : campaign[c] \in CampaignRow
PROOF
<1>1. \A r \in BookingRow : r # NoRow
  BY DEF BookingRow, NoRow
<1>2. \A r \in CampaignRow : r # NoRow
  <2> SUFFICES ASSUME NEW r \in CampaignRow, r = NoRow PROVE FALSE
    OBVIOUS
  <2>1. DOMAIN r = {"origin", "dest", "deadline", "since"}
    BY DEF CampaignRow
  <2>2. DOMAIN NoRow = {"status"}
    BY DEF NoRow
  <2> QED BY <2>1, <2>2
<1> QED BY <1>1, <1>2 DEF TypeOK, Stored, Existing

LEMMA NoRequestOK == RequestOK(NoRequest) /\ NoRequest \notin Request
PROOF
<1>1. NoRequest \notin Request
  BY DEF NoRequest, Request
<1> QED BY <1>1 DEF RequestOK, NoRequest

(* A request that has an op other than none is one.                        *)
LEMMA Served ==
  ASSUME IInv, NEW w \in Workers
  PROVE  /\ RequestOK(work[w])
         /\ work[w].pc # "idle" => work[w] \in Request
PROOF
<1>1. RequestOK(work[w]) /\ work[w] \in Request \cup {NoRequest}
  BY DEF IInv, RequestsOK, TypeOK
<1> QED BY <1>1 DEF NoRequest

(* What a request knows stays true of rows that hold.                      *)
LEMMA RequestsKeep ==
  ASSUME TypeOK, Holds, NEW r, RequestOK(r)
  PROVE  RequestOK(r)'
PROOF
<1>1. RunsForward(r.row) => RunsForward(r.row)'
  BY DEF RunsForward, Holds
<1> QED BY <1>1 DEF RequestOK, Holds

(* No insertion: renewals stay one and forward.                            *)
LEMMA KeepsRenewals ==
  ASSUME IInv, Keeps
  PROVE  OneRenewal' /\ RenewalsRunForward'
PROOF
<1>1. \A b \in Bookings : Confirmed(b)' => Confirmed(b)
  BY DEF Keeps, Holds, Confirmed
<1>2. OneRenewal'
  <2> SUFFICES ASSUME NEW a \in Stored, NEW b \in Stored, a # b,
                      Confirmed(a)', Confirmed(b)', booking'[a].previous # 0
               PROVE  booking'[a].previous # booking'[b].previous
    BY DEF OneRenewal, Keeps
  <2>1. a \in Bookings /\ b \in Bookings
    BY DEF Stored
  <2> QED BY <1>1, <2>1 DEF IInv, OneRenewal, Keeps, Holds
<1>3. RenewalsRunForward'
  <2> SUFFICES ASSUME NEW b \in Stored, booking'[b].previous # 0
               PROVE  /\ booking'[b].previous \in Stored'
                      /\ booking'[booking'[b].previous].type = "subscription"
                      /\ booking'[booking'[b].previous].umbrella = booking'[b].umbrella
                      /\ booking'[booking'[b].previous].slot = booking'[b].slot
                      /\ booking'[booking'[b].previous].end < booking'[b].start
    BY DEF RenewalsRunForward, Keeps
  <2> QED BY DEF IInv, RenewalsRunForward, Keeps, Holds
<1> QED BY <1>2, <1>3

(* A step that leaves the tables alone.                                    *)
LEMMA Quiet ==
  ASSUME IInv, UNCHANGED tables, serial' \in BOOLEAN,
         NEW w \in Workers, NEW r, RequestOK(r), work' = [work EXCEPT ![w] = r]
  PROVE  IInv'
PROOF
<1>1. Holds
  BY DEF Holds, Stored, tables
<1>2. RequestOK(r)' /\ \A v \in Workers : RequestOK(work[v])'
  BY <1>1, Served, RequestsKeep DEF IInv
<1>3. work' \in [Workers -> Request \cup {NoRequest}]
  BY DEF IInv, TypeOK, RequestOK
<1>4. RequestsOK'
  BY <1>2 DEF RequestsOK, IInv, TypeOK, RequestOK, RunsForward, Stored, tables
<1>5. TypeOK'
  BY <1>3 DEF IInv, TypeOK, tables
<1>6. Keeps
  BY <1>1 DEF Keeps, IInv, TypeOK, tables, Stored
<1>7. ErasedLeavesNothing'
  BY DEF IInv, ErasedLeavesNothing, BookingsOf, Stored, tables
<1> QED BY <1>4, <1>5, <1>6, <1>7, KeepsRenewals DEF IInv

(* The request that a worker has dropped.                                  *)
LEMMA Dropped ==
  ASSUME IInv, UNCHANGED tables, NEW w \in Workers, Finish(w)
  PROVE  IInv'
PROOF BY Quiet, NoRequestOK DEF Finish, IInv, TypeOK

LEMMA SerialType ==
  ASSUME IInv
  PROVE  (serial /\ Idle) \in BOOLEAN
PROOF BY DEF IInv, TypeOK

-----------------------------------------------------------------------------
(* Steps that read, and keep what they have read.                          *)
LEMMA IntervalDays ==
  ASSUME TypeOK, NEW type \in Types, NEW span \in Intervals(type)
  PROVE  span.start \in Days /\ span.end \in Days
PROOF
<1>1. type \in {"daily", "periodic", "subscription"}
  BY TypesAssumption
<1>2. CASE type = "daily"
  BY <1>2 DEF Intervals, Span
<1>3. CASE type = "periodic"
  <2>1. span \in [start: Days, end: Days]
    BY <1>3 DEF Intervals
  <2> QED BY <2>1
<1>4. CASE type = "subscription"
  <2>1. PICK n \in SeasonIds : span = SeasonSpan[n]
    BY <1>4 DEF Intervals, SeasonOf, SeasonsOn, TypeOK
  <2> QED BY <2>1, SeasonsAssumption DEF Days
<1> QED BY <1>1, <1>2, <1>3, <1>4

LEMMA CreateCheckKeeps ==
  ASSUME IInv, NEW w \in Workers, CreateCheck(w)
  PROVE  IInv'
PROOF
<1>0. PICK type \in Types, c \in Customers, u \in Umbrellas, k \in Slots :
      \E span \in Intervals(type) :
         Begin(w, [NoRequest EXCEPT !.op = "create", !.pc = "checked",
                                    !.row = NewRow(type, c, u, k, span, 0)])
  BY DEF CreateCheck
<1>1. PICK span \in Intervals(type) :
         Begin(w, [NoRequest EXCEPT !.op = "create", !.pc = "checked",
                                    !.row = NewRow(type, c, u, k, span, 0)])
  BY <1>0
<1> DEFINE row == NewRow(type, c, u, k, span, 0)
           r == [NoRequest EXCEPT !.op = "create", !.pc = "checked", !.row = row]
<1>2. span.start \in Days /\ span.end \in Days
  BY IntervalDays DEF IInv
<1>3. row \in BookingRow /\ row.previous = 0
  BY <1>2 DEF NewRow, BookingRow
<1> HIDE DEF row
<1>4. r \in Request /\ r.pc = "checked" /\ r.op = "create" /\ r.row = row
  BY <1>1, <1>3 DEF Request, NoRequest, Begin, row
<1>5. RequestOK(r)
  BY <1>3, <1>4 DEF RequestOK, RunsForward
<1>6. work' = [work EXCEPT ![w] = r] /\ UNCHANGED tables /\ serial' \in BOOLEAN
  BY <1>1, SerialType DEF CreateCheck, Begin, Alone, row
<1> HIDE DEF r
<1> QED BY <1>5, <1>6, Quiet

LEMMA RenewCheckKeeps ==
  ASSUME IInv, NEW w \in Workers, RenewCheck(w)
  PROVE  IInv'
PROOF
<1>1. PICK b \in Stored, s \in season :
         /\ Subscription(b) /\ Follows(s, booking[b].end)
         /\ Begin(w, [NoRequest EXCEPT !.op = "renew", !.pc = "checked", !.b = b,
                        !.row = NewRow("subscription", booking[b].customer,
                                       booking[b].umbrella, booking[b].slot,
                                       SeasonSpan[s], b)])
  BY DEF RenewCheck
<1> DEFINE row == NewRow("subscription", booking[b].customer, booking[b].umbrella,
                         booking[b].slot, SeasonSpan[s], b)
           r == [NoRequest EXCEPT !.op = "renew", !.pc = "checked", !.b = b, !.row = row]
<1>2. SeasonSpan[s].start \in Days /\ SeasonSpan[s].end \in Days
  BY SeasonsAssumption DEF IInv, TypeOK, Days
<1>3. booking[b] \in BookingRow /\ b \in Bookings /\ b # 0
  BY Rows DEF IInv, Bookings
<1>4. row \in BookingRow
  BY <1>2, <1>3 DEF NewRow, BookingRow
<1>5. RunsForward(row)
  BY <1>1, <1>3 DEF RunsForward, NewRow, Follows, Subscription
<1>6. r \in Request /\ r.pc = "checked" /\ r.op = "renew" /\ r.row = row
  BY <1>1, <1>3, <1>4 DEF Request, NoRequest, Begin
<1> HIDE DEF row
<1>7. RequestOK(r)
  BY <1>4, <1>5, <1>6 DEF RequestOK
<1>8. work' = [work EXCEPT ![w] = r] /\ UNCHANGED tables /\ serial' \in BOOLEAN
  BY <1>1, SerialType DEF RenewCheck, Begin, Alone, row
<1> HIDE DEF r
<1> QED BY <1>7, <1>8, Quiet

LEMMA TransferLoadKeeps ==
  ASSUME IInv, NEW w \in Workers, TransferLoad(w)
  PROVE  IInv'
PROOF
<1>1. PICK b \in Stored, c \in Customers :
         Begin(w, [NoRequest EXCEPT !.op = "transfer", !.pc = "loaded", !.b = b,
                                    !.row = booking[b], !.who = c])
  BY DEF TransferLoad
<1> DEFINE r == [NoRequest EXCEPT !.op = "transfer", !.pc = "loaded", !.b = b,
                                  !.row = booking[b], !.who = c]
<1>2. booking[b] \in BookingRow /\ b \in Bookings
  BY Rows DEF IInv
<1>3. RequestOK(r)
  BY <1>1, <1>2 DEF RequestOK, Request, NoRequest, Begin
<1>4. work' = [work EXCEPT ![w] = r] /\ UNCHANGED tables /\ serial' \in BOOLEAN
  BY <1>1, SerialType DEF TransferLoad, Begin, Alone
<1> HIDE DEF r
<1> QED BY <1>3, <1>4, Quiet

LEMMA RemoveLoadKeeps ==
  ASSUME IInv, NEW w \in Workers, RemoveLoad(w)
  PROVE  IInv'
PROOF
<1>1. PICK c \in Customers :
         Begin(w, [NoRequest EXCEPT !.op = "remove", !.who = c,
                     !.pc = IF BookingsOf(c) = {} THEN "erase" ELSE "counted"])
  BY DEF RemoveLoad
<1> DEFINE r == [NoRequest EXCEPT !.op = "remove", !.who = c,
                   !.pc = IF BookingsOf(c) = {} THEN "erase" ELSE "counted"]
<1>2. RequestOK(r)
  BY <1>1 DEF RequestOK, Request, NoRequest, Begin
<1>3. work' = [work EXCEPT ![w] = r] /\ UNCHANGED tables /\ serial' \in BOOLEAN
  BY <1>1, SerialType DEF RemoveLoad, Begin, Alone
<1> HIDE DEF r
<1> QED BY <1>2, <1>3, Quiet

LEMMA RetireLoadKeeps ==
  ASSUME IInv, NEW w \in Workers, RetireLoad(w)
  PROVE  IInv'
PROOF
<1>1. PICK u \in Umbrellas :
         Begin(w, [NoRequest EXCEPT !.op = "retire", !.pc = "loaded", !.seat = u])
  BY DEF RetireLoad
<1> DEFINE r == [NoRequest EXCEPT !.op = "retire", !.pc = "loaded", !.seat = u]
<1>2. RequestOK(r)
  BY <1>1 DEF RequestOK, Request, NoRequest, Begin
<1>3. work' = [work EXCEPT ![w] = r] /\ UNCHANGED tables /\ serial' \in BOOLEAN
  BY <1>1, SerialType DEF RetireLoad, Begin, Alone
<1> HIDE DEF r
<1> QED BY <1>2, <1>3, Quiet

LEMMA SaleHoldKeeps ==
  ASSUME IInv, NEW w \in Workers, SaleHold(w)
  PROVE  IInv'
PROOF
<1> DEFINE r == [work[w] EXCEPT !.pc = "priced"]
<1>1. work[w] \in Request /\ RequestOK(work[w])
  BY Served DEF SaleHold
<1>2. RequestOK(r)
  BY <1>1 DEF SaleHold, RequestOK, Request
<1>3. work' = [work EXCEPT ![w] = r] /\ UNCHANGED tables /\ serial' \in BOOLEAN
  BY <1>1 DEF SaleHold, GoTo, IInv, TypeOK
<1> HIDE DEF r
<1> QED BY <1>2, <1>3, Quiet

LEMMA RemoveWindowsKeeps ==
  ASSUME IInv, NEW w \in Workers, RemoveWindows(w)
  PROVE  IInv'
PROOF
<1> DEFINE r == [work[w] EXCEPT !.pc = "anonymise"]
<1>1. work[w] \in Request /\ RequestOK(work[w])
  BY Served DEF RemoveWindows, At
<1>2. RequestOK(r)
  BY <1>1 DEF RemoveWindows, At, RequestOK, Request
<1>3. work' = [work EXCEPT ![w] = r] /\ UNCHANGED tables /\ serial' \in BOOLEAN
  BY <1>1 DEF RemoveWindows, GoTo, IInv, TypeOK
<1> HIDE DEF r
<1> QED BY <1>2, <1>3, Quiet

-----------------------------------------------------------------------------
(* Steps that write. A worker that is done has dropped its request, and    *)
(* the others know what they knew.                                         *)
LEMMA OthersKeep ==
  ASSUME IInv, Holds, NEW w \in Workers, Finish(w)
  PROVE  work' \in [Workers -> Request \cup {NoRequest}] /\ RequestsOK' /\ serial' \in BOOLEAN
PROOF
<1>1. \A r : RequestOK(r) => RequestOK(r)'
  BY RequestsKeep DEF IInv
<1>2. \A v \in Workers : RequestOK(work'[v])
  BY Served, NoRequestOK DEF Finish, IInv, TypeOK
<1>3. RequestsOK'
  BY <1>1, <1>2 DEF RequestsOK
<1> QED BY <1>3 DEF Finish, IInv, TypeOK

LEMMA SameRows ==
  ASSUME IInv, booking' = booking
  PROVE  Keeps /\ Stored' = Stored /\ \A c \in Customers : BookingsOf(c)' = BookingsOf(c)
PROOF BY DEF Keeps, Holds, IInv, TypeOK, Stored, BookingsOf

LEMMA SaleWriteKeeps ==
  ASSUME IInv, NEW w \in Workers, SaleWrite(w)
  PROVE  IInv'
PROOF
<1> DEFINE row == work[w].row
<1>1. /\ row \in BookingRow /\ RunsForward(row)
      /\ customer[row.customer] # "erased"
      /\ row.previous # 0 =>
           \A r \in Stored : ~ (Confirmed(r) /\ booking[r].previous = row.previous)
  BY Served DEF SaleWrite, RequestOK
<1>2. PICK n \in Bookings \ Stored : booking' = [booking EXCEPT ![n] = row]
  BY DEF SaleWrite, FreshBooking
<1>3. /\ UNCHANGED <<today, season, campaign, customer, ceded, retired>>
      /\ Finish(w)
  BY DEF SaleWrite
<1> HIDE DEF row
<1>4. /\ booking' \in [Bookings -> BookingRow \cup {NoRow}]
      /\ booking'[n] = row
      /\ \A b \in Stored : booking'[b] = booking[b] /\ booking[b] \in BookingRow
      /\ Stored' = Stored \cup {n}
  BY <1>1, <1>2, Rows DEF IInv, TypeOK, Stored
<1>5. Holds
  BY <1>4 DEF Holds
<1>6. TypeOK' /\ RequestsOK'
  BY <1>3, <1>4, <1>5, OthersKeep DEF IInv, TypeOK
<1>7. OneRenewal'
  <2> SUFFICES ASSUME NEW a \in Stored', NEW b \in Stored', a # b,
                      Confirmed(a)', Confirmed(b)', booking'[a].previous # 0,
                      booking'[a].previous = booking'[b].previous
               PROVE  FALSE
    BY DEF OneRenewal
  <2>1. \A c \in Stored : Confirmed(c)' => Confirmed(c)
    BY <1>4 DEF Confirmed
  <2>2. a \in Stored \/ a = n
    BY <1>4
  <2>3. b \in Stored \/ b = n
    BY <1>4
  <2>4. CASE a = n
    <3>1. b \in Stored
      BY <2>3, <2>4
    <3> QED BY <1>1, <1>4, <2>1, <2>4, <3>1
  <2>5. CASE b = n
    <3>1. a \in Stored
      BY <2>2, <2>5
    <3> QED BY <1>1, <1>4, <2>1, <2>5, <3>1
  <2>6. CASE a \in Stored /\ b \in Stored
    BY <1>4, <2>1, <2>6 DEF IInv, OneRenewal
  <2> QED BY <2>2, <2>3, <2>4, <2>5, <2>6
<1>8. RenewalsRunForward'
  <2> SUFFICES ASSUME NEW b \in Stored' PROVE RunsForward(booking[b])'
    BY <1>4 DEF RenewalsRunForward, RunsForward, IInv
  <2>1. CASE b \in Stored
    <3>1. RunsForward(booking[b])
      BY <2>1 DEF IInv, RenewalsRunForward, RunsForward
    <3> QED BY <1>4, <2>1, <3>1 DEF RunsForward
  <2>2. CASE b = n
    BY <1>1, <1>4, <2>2 DEF RunsForward
  <2> QED BY <1>4, <2>1, <2>2
<1>9. ErasedLeavesNothing'
  BY <1>1, <1>3, <1>4 DEF IInv, ErasedLeavesNothing, BookingsOf
<1> QED BY <1>6, <1>7, <1>8, <1>9 DEF IInv

LEMMA CancelKeeps ==
  ASSUME IInv, NEW b \in Bookings, Cancel(b)
  PROVE  IInv' /\ Keeps
PROOF
<1> DEFINE row == [booking[b] EXCEPT !.status = "cancelled"]
<1>1. b \in Stored /\ booking[b] \in BookingRow
  BY Rows DEF Cancel, Confirmed, IInv
<1>2. row \in BookingRow /\ booking' = [booking EXCEPT ![b] = row]
  BY <1>1 DEF BookingRow, Cancel
<1>3. /\ row.type = booking[b].type /\ row.umbrella = booking[b].umbrella
      /\ row.slot = booking[b].slot /\ row.start = booking[b].start
      /\ row.end = booking[b].end /\ row.previous = booking[b].previous
      /\ row.status # "confirmed" /\ row.customer = booking[b].customer
  BY <1>1 DEF BookingRow
<1> HIDE DEF row
<1>4. /\ booking' \in [Bookings -> BookingRow \cup {NoRow}]
      /\ Stored' = Stored
  BY <1>1, <1>2, Rows DEF IInv, TypeOK, Stored
<1>5. Holds
  BY <1>1, <1>2, <1>3, <1>4 DEF Holds, IInv, TypeOK, Stored
<1>6. /\ UNCHANGED <<today, season, campaign, customer, ceded, retired, work>>
      /\ serial' \in BOOLEAN
  BY SerialType DEF Cancel, Alone
<1>7. RequestsOK'
  BY <1>5, <1>6, Served, RequestsKeep DEF RequestsOK, IInv
<1>8. TypeOK'
  BY <1>4, <1>6 DEF IInv, TypeOK
<1>9. ErasedLeavesNothing'
  BY <1>1, <1>2, <1>3, <1>4, <1>6 DEF IInv, TypeOK, ErasedLeavesNothing, BookingsOf, Stored
<1>10. Keeps
  BY <1>4, <1>5 DEF Keeps
<1> QED BY <1>7, <1>8, <1>9, <1>10, KeepsRenewals DEF IInv

LEMMA TransferWriteKeeps ==
  ASSUME IInv, NEW w \in Workers, TransferWrite(w)
  PROVE  IInv' /\ Keeps
PROOF
<1> DEFINE b == work[w].b
           c == work[w].who
           old == work[w].row.customer
           row == [booking[b] EXCEPT !.customer = c, !.moved = TRUE]
<1>1. /\ b \in Stored /\ c \in Customers /\ work[w].row \in BookingRow
      /\ customer[c] # "erased" /\ customer[old] # "erased"
      /\ booking' = [booking EXCEPT ![b].customer = c, ![b].moved = TRUE]
      /\ ceded' = ceded \cup {c, old}
      /\ Finish(w)
      /\ UNCHANGED <<today, season, campaign, customer, retired>>
  BY Served DEF TransferWrite, At, RequestOK
<1>2. old \in Customers
  BY <1>1 DEF BookingRow
<1> HIDE DEF b, c, old
<1>3. b \in Bookings /\ booking[b] \in BookingRow
  BY <1>1, Rows DEF IInv
<1>4. row \in BookingRow /\ booking' = [booking EXCEPT ![b] = row]
  BY <1>1, <1>3 DEF BookingRow, IInv, TypeOK
<1>5. /\ row.type = booking[b].type /\ row.umbrella = booking[b].umbrella
      /\ row.slot = booking[b].slot /\ row.start = booking[b].start
      /\ row.end = booking[b].end /\ row.previous = booking[b].previous
      /\ row.status = booking[b].status /\ row.customer = c
  BY <1>3 DEF BookingRow
<1> HIDE DEF row
<1>6. /\ booking' \in [Bookings -> BookingRow \cup {NoRow}]
      /\ Stored' = Stored
  BY <1>1, <1>3, <1>4, Rows DEF IInv, TypeOK, Stored
<1>7. Holds
  BY <1>1, <1>3, <1>4, <1>5, <1>6 DEF Holds, IInv, TypeOK, Stored
<1>8. TypeOK' /\ RequestsOK'
  BY <1>1, <1>2, <1>6, <1>7, OthersKeep DEF IInv, TypeOK
<1>9. ErasedLeavesNothing'
  BY <1>1, <1>3, <1>4, <1>5, <1>6 DEF IInv, TypeOK, ErasedLeavesNothing, BookingsOf, Stored
<1>10. Keeps
  BY <1>6, <1>7 DEF Keeps
<1> QED BY <1>8, <1>9, <1>10, KeepsRenewals DEF IInv

(* Steps that leave the bookings alone.                                    *)
LEMMA OtherTables ==
  ASSUME IInv, booking' = booking, TypeOK', RequestsOK', ErasedLeavesNothing'
  PROVE  IInv'
PROOF BY SameRows, KeepsRenewals DEF IInv

LEMMA RemoveEraseKeeps ==
  ASSUME IInv, NEW w \in Workers, RemoveErase(w)
  PROVE  IInv'
PROOF
<1> DEFINE c == work[w].who
<1>1. /\ c \in Customers /\ BookingsOf(c) = {} /\ c \notin ceded
      /\ customer' = [customer EXCEPT ![c] = "erased"]
      /\ Finish(w)
      /\ UNCHANGED <<today, season, campaign, booking, ceded, retired>>
  BY Served DEF RemoveErase, At, RequestOK
<1> HIDE DEF c
<1>2. TypeOK' /\ RequestsOK'
  BY <1>1, SameRows, OthersKeep DEF IInv, TypeOK, Keeps
<1>3. ErasedLeavesNothing'
  BY <1>1, SameRows DEF IInv, TypeOK, ErasedLeavesNothing
<1> QED BY <1>1, <1>2, <1>3, OtherTables

LEMMA RemoveAnonymiseKeeps ==
  ASSUME IInv, NEW w \in Workers, RemoveAnonymise(w)
  PROVE  IInv'
PROOF
<1> DEFINE c == work[w].who
<1>1. /\ c \in Customers
      /\ customer' = [customer EXCEPT ![c] = "anonymised"]
      /\ Finish(w)
      /\ UNCHANGED <<today, season, campaign, booking, ceded, retired>>
  BY Served DEF RemoveAnonymise, At, RequestOK
<1> HIDE DEF c
<1>2. TypeOK' /\ RequestsOK'
  BY <1>1, SameRows, OthersKeep DEF IInv, TypeOK, Keeps
<1>3. ErasedLeavesNothing'
  BY <1>1, SameRows DEF IInv, TypeOK, ErasedLeavesNothing
<1> QED BY <1>1, <1>2, <1>3, OtherTables

LEMMA RetireWriteKeeps ==
  ASSUME IInv, NEW w \in Workers, RetireWrite(w)
  PROVE  IInv'
PROOF
<1>1. /\ work[w].seat \in Umbrellas /\ retired' = retired \cup {work[w].seat}
      /\ Finish(w)
      /\ UNCHANGED <<today, season, campaign, booking, customer, ceded>>
  BY Served DEF RetireWrite, At, RequestOK
<1>2. TypeOK' /\ RequestsOK'
  BY <1>1, SameRows, OthersKeep DEF IInv, TypeOK, Keeps
<1>3. ErasedLeavesNothing'
  BY <1>1, SameRows DEF IInv, ErasedLeavesNothing
<1> QED BY <1>1, <1>2, <1>3, OtherTables

(* Requests of one step that leave bookings, customers and workers alone.  *)
LEMMA Aside ==
  ASSUME IInv, UNCHANGED <<booking, customer, ceded, work>>, Alone,
         today' \in Days, season' \subseteq SeasonIds, retired' \subseteq Umbrellas,
         campaign' \in [Campaigns -> CampaignRow \cup {NoRow}]
  PROVE  IInv'
PROOF
<1>1. Holds /\ \A c \in Customers : BookingsOf(c)' = BookingsOf(c)
  BY SameRows DEF Keeps
<1>2. \A r : RequestOK(r) => RequestOK(r)'
  BY <1>1, RequestsKeep DEF IInv
<1>3. RequestsOK'
  BY <1>2 DEF RequestsOK, IInv
<1>4. TypeOK'
  BY SerialType DEF IInv, TypeOK, Alone
<1>5. ErasedLeavesNothing'
  BY <1>1 DEF IInv, ErasedLeavesNothing
<1> QED BY <1>3, <1>4, <1>5, OtherTables

LEMMA OpenCampaignKeeps ==
  ASSUME IInv, OpenCampaign
  PROVE  IInv'
PROOF
<1>1. PICK c \in Campaigns \ Existing, o \in season, d \in season, deadline \in Days :
         campaign' = [campaign EXCEPT ![c] =
           [origin |-> o, dest |-> d, deadline |-> deadline, since |-> Cardinality(Stored)]]
  BY DEF OpenCampaign
<1>2. Cardinality(Stored) \in 0 .. MaxBookings
  <2>1. MaxBookings \in Nat /\ Stored \subseteq 1 .. MaxBookings
    BY BoundsAssumption DEF Stored, Bookings
  <2>2. IsFiniteSet(1 .. MaxBookings) /\ Cardinality(1 .. MaxBookings) = MaxBookings
    BY <2>1, FS_Interval
  <2>3. Cardinality(Stored) \in Nat /\ Cardinality(Stored) <= MaxBookings
    BY <2>1, <2>2, FS_Subset, FS_CardinalityType
  <2> QED BY <2>1, <2>3
<1>3. [origin |-> o, dest |-> d, deadline |-> deadline, since |-> Cardinality(Stored)]
        \in CampaignRow
  BY <1>2 DEF CampaignRow, IInv, TypeOK
<1>4. campaign' \in [Campaigns -> CampaignRow \cup {NoRow}]
  BY <1>1, <1>3 DEF IInv, TypeOK
<1> QED BY <1>4, Aside DEF OpenCampaign, IInv, TypeOK

LEMMA StepKeeps ==
  ASSUME IInv, [Next]_vars
  PROVE  IInv'
PROOF
<1>1. CASE AdvanceDay
  <2>1. today' \in Days
    BY <1>1, DaysAssumption DEF AdvanceDay, IInv, TypeOK, Days
  <2> QED BY <1>1, <2>1, Aside DEF AdvanceDay, IInv, TypeOK
<1>2. CASE OpenCampaign
  BY <1>2, OpenCampaignKeeps
<1>3. ASSUME NEW w \in Workers, Serve(w) PROVE IInv'
  BY <1>3, CreateCheckKeeps, RenewCheckKeeps, SaleHoldKeeps, SaleWriteKeeps,
     TransferLoadKeeps, TransferWriteKeeps, RemoveLoadKeeps, RemoveWindowsKeeps,
     RemoveEraseKeeps, RemoveAnonymiseKeeps, RetireLoadKeeps, RetireWriteKeeps, Dropped
     DEF Serve, Abort
<1>4. ASSUME NEW b \in Bookings, Cancel(b) PROVE IInv'
  BY <1>4, CancelKeeps
<1>5. ASSUME NEW u \in Umbrellas, Restore(u) PROVE IInv'
  BY <1>5, Aside DEF Restore, IInv, TypeOK
<1>6. ASSUME NEW s \in SeasonIds, CreateSeason(s) \/ RemoveSeason(s) PROVE IInv'
  BY <1>6, Aside DEF CreateSeason, RemoveSeason, IInv, TypeOK
<1>7. ASSUME NEW c \in Campaigns, CloseCampaign(c) PROVE IInv'
  BY <1>7, Aside DEF CloseCampaign, IInv, TypeOK
<1>8. CASE UNCHANGED vars
  <2>1. Holds
    BY <1>8, SameRows DEF Keeps, vars
  <2>2. \A r : RequestOK(r) => RequestOK(r)'
    BY <2>1, RequestsKeep DEF IInv
  <2>3. RequestsOK' /\ TypeOK'
    BY <1>8, <2>2 DEF RequestsOK, IInv, TypeOK, vars
  <2>4. ErasedLeavesNothing'
    BY <1>8, SameRows DEF IInv, ErasedLeavesNothing, vars
  <2> QED BY <1>8, <2>3, <2>4, OtherTables DEF vars
<1> QED BY <1>1, <1>2, <1>3, <1>4, <1>5, <1>6, <1>7, <1>8 DEF Next

LEMMA InitInvariant ==
  ASSUME Init
  PROVE  IInv
PROOF
<1>1. Stored = {} /\ \A c \in Customers : customer[c] # "erased"
  BY DEF Init, Stored
<1>2. TypeOK
  BY DaysAssumption DEF Init, TypeOK, Days
<1>3. RequestsOK
  BY NoRequestOK DEF Init, RequestsOK
<1> QED
  BY <1>1, <1>2, <1>3 DEF IInv, OneRenewal, RenewalsRunForward, ErasedLeavesNothing

LEMMA RenewalsInvariant == Spec => []IInv
PROOF BY InitInvariant, StepKeeps, PTL DEF Spec

-----------------------------------------------------------------------------
(* The tables hold what their columns may hold, for any bounds.            *)
THEOREM TypeCorrect == Spec => []TypeOK
PROOF
<1>1. IInv => TypeOK
  BY DEF IInv
<1> QED BY <1>1, RenewalsInvariant, PTL

(* However many requests renew it at once, a subscription has at most one  *)
(* confirmed renewal (renew, the index on previousBookingId).              *)
THEOREM RenewedOnce == Spec => []OneRenewal
PROOF
<1>1. IInv => OneRenewal
  BY DEF IInv
<1> QED BY <1>1, RenewalsInvariant, PTL

(* A renewal keeps the seat and begins after what it renews (renew): the   *)
(* chains of previousBookingId have no cycle.                              *)
THEOREM ChainsRunForward == Spec => []RenewalsRunForward
PROOF
<1>1. IInv => RenewalsRunForward
  BY DEF IInv
<1> QED BY <1>1, RenewalsInvariant, PTL

(* No booking and no change of holder names a customer who was erased,     *)
(* whatever overlaps the erasure (CustomersService.remove).                *)
THEOREM ErasureIsClean == Spec => []ErasedLeavesNothing
PROOF
<1>1. IInv => ErasedLeavesNothing
  BY DEF IInv
<1> QED BY <1>1, RenewalsInvariant, PTL

-----------------------------------------------------------------------------
(* Requests that do not overlap: there is one at most, and what its checks *)
(* have found is still so.                                                 *)
Over(u) ==
  \A b \in Stored : Confirmed(b) /\ booking[b].umbrella = u => booking[b].end < today

StillSo(r) ==
  /\ r.pc = "priced" => r.row.umbrella \notin retired
  /\ r.op = "retire" => Over(r.seat)

SerialInv ==
  serial =>
    \A w \in Workers :
       work[w] # NoRequest =>
         /\ \A v \in Workers \ {w} : work[v] = NoRequest
         /\ StillSo(work[w])

(* Nothing is booked anew, put back among the retired or set back in time. *)
Settles ==
  /\ \A b \in Bookings : Confirmed(b)' =>
       /\ Confirmed(b)
       /\ booking'[b].umbrella = booking[b].umbrella
       /\ booking'[b].end = booking[b].end
  /\ today <= today' /\ today \in Int /\ today' \in Int
  /\ retired' \subseteq retired
  /\ serial' => serial

LEMMA SettlesUnbooked ==
  ASSUME IInv, Settles, RetiredUnbooked
  PROVE  RetiredUnbooked'
PROOF
<1> SUFFICES ASSUME serial', NEW b \in Stored', Confirmed(b)', today' <= booking'[b].end
             PROVE  booking'[b].umbrella \notin retired'
  BY DEF RetiredUnbooked
<1>1. b \in Stored /\ Confirmed(b) /\ booking[b].end \in Int
  <2>1. b \in Stored /\ Confirmed(b)
    BY DEF Settles, Confirmed, Stored
  <2> QED BY <2>1, Rows DEF IInv, BookingRow, Days
<1>2. booking'[b].umbrella = booking[b].umbrella /\ booking'[b].end = booking[b].end
  BY <1>1 DEF Settles, Stored
<1> QED BY <1>1, <1>2 DEF Settles, RetiredUnbooked

(* A step that leaves the confirmed rows alone, or makes them fewer.       *)
LEMMA KeepsSettle ==
  ASSUME IInv, Keeps, today' = today, retired' \subseteq retired, serial' => serial
  PROVE  Settles
PROOF
<1>1. \A b \in Bookings : Confirmed(b)' =>
        /\ Confirmed(b)
        /\ booking'[b].umbrella = booking[b].umbrella
        /\ booking'[b].end = booking[b].end
  BY DEF Keeps, Holds, Confirmed
<1> QED BY <1>1 DEF Settles, IInv, TypeOK, Days

(* How a step changes the requests.                                        *)
LEMMA AloneSerial ==
  ASSUME IInv, Alone, UNCHANGED work
  PROVE  SerialInv' /\ (serial' => serial)
PROOF BY DEF Alone, Idle, SerialInv

LEMMA FinishSerial ==
  ASSUME IInv, SerialInv, NEW w \in Workers, work[w] # NoRequest, Finish(w)
  PROVE  SerialInv' /\ (serial' => serial)
PROOF
<1>1. serial' = serial /\ \A v \in Workers : work'[v] = IF v = w THEN NoRequest ELSE work[v]
  BY DEF Finish, IInv, TypeOK
<1>2. serial => \A v \in Workers : work'[v] = NoRequest
  BY <1>1 DEF SerialInv
<1> QED BY <1>1, <1>2 DEF SerialInv

LEMMA BeginSerial ==
  ASSUME IInv, NEW w \in Workers, NEW r, Begin(w, r), StillSo(r)'
  PROVE  SerialInv' /\ (serial' => serial)
PROOF
<1>1. /\ serial' => serial /\ Idle
      /\ \A v \in Workers : work'[v] = IF v = w THEN r ELSE work[v]
  BY DEF Begin, Alone, IInv, TypeOK
<1>2. serial' => \A v \in Workers \ {w} : work'[v] = NoRequest
  BY <1>1 DEF Idle
<1>3. \A v \in Workers : work'[v] # NoRequest /\ serial' => v = w
  BY <1>1, <1>2
<1>4. work'[w] = r
  BY <1>1
<1> QED BY <1>1, <1>2, <1>3, <1>4 DEF SerialInv, StillSo, Over

LEMMA GoToSerial ==
  ASSUME IInv, SerialInv, UNCHANGED tables, NEW w \in Workers, NEW pc, GoTo(w, pc),
         work[w].pc # "idle", work[w].op # "retire",
         pc = "priced" => work[w].row.umbrella \notin retired
  PROVE  SerialInv' /\ (serial' => serial)
PROOF
<1>1. work[w] \in Request /\ work[w] # NoRequest
  BY Served, NoRequestOK
<1>2. /\ serial' = serial
      /\ \A v \in Workers : work'[v] = IF v = w THEN [work[w] EXCEPT !.pc = pc] ELSE work[v]
  BY DEF GoTo, IInv, TypeOK
<1>3. work'[w].pc = pc /\ work'[w].op = work[w].op /\ work'[w].row = work[w].row
  BY <1>1, <1>2 DEF Request
<1>4. StillSo(work[w])'
  BY <1>3 DEF StillSo, tables
<1>5. serial => \A v \in Workers \ {w} : work'[v] = NoRequest
  BY <1>1, <1>2 DEF SerialInv
<1> QED BY <1>2, <1>4, <1>5 DEF SerialInv

(* The steps of a request.                                                 *)
LEMMA ReadsSettle ==
  ASSUME IInv, UNCHANGED tables, serial' => serial
  PROVE  Settles
PROOF BY SameRows, KeepsSettle DEF tables

LEMMA BeginsStay ==
  ASSUME IInv, SerialInv, RetiredUnbooked, NEW w \in Workers,
         \/ CreateCheck(w) \/ RenewCheck(w) \/ TransferLoad(w) \/ RemoveLoad(w)
  PROVE  SerialInv' /\ RetiredUnbooked'
PROOF
<1>1. UNCHANGED tables
  BY DEF CreateCheck, RenewCheck, TransferLoad, RemoveLoad
<1>2. ASSUME NEW r, Begin(w, r), r.pc # "priced", r.op # "retire"
      PROVE  SerialInv' /\ RetiredUnbooked'
  <2>1. StillSo(r)'
    BY <1>2 DEF StillSo
  <2> QED BY <1>1, <1>2, <2>1, BeginSerial, ReadsSettle, SettlesUnbooked
<1>3. CASE CreateCheck(w)
  <2>1. PICK row : Begin(w, [NoRequest EXCEPT !.op = "create", !.pc = "checked", !.row = row])
    BY <1>3 DEF CreateCheck
  <2> QED BY <1>2, <2>1 DEF NoRequest
<1>4. CASE RenewCheck(w)
  <2>1. PICK b, row : Begin(w, [NoRequest EXCEPT !.op = "renew", !.pc = "checked", !.b = b,
                                                 !.row = row])
    BY <1>4 DEF RenewCheck
  <2> QED BY <1>2, <2>1 DEF NoRequest
<1>5. CASE TransferLoad(w)
  <2>1. PICK b, row, c : Begin(w, [NoRequest EXCEPT !.op = "transfer", !.pc = "loaded",
                                                    !.b = b, !.row = row, !.who = c])
    BY <1>5 DEF TransferLoad
  <2> QED BY <1>2, <2>1 DEF NoRequest
<1>6. CASE RemoveLoad(w)
  <2>1. PICK c \in Customers :
          Begin(w, [NoRequest EXCEPT !.op = "remove", !.who = c,
                      !.pc = IF BookingsOf(c) = {} THEN "erase" ELSE "counted"])
    BY <1>6 DEF RemoveLoad
  <2> QED BY <1>2, <2>1 DEF NoRequest
<1> QED BY <1>3, <1>4, <1>5, <1>6

LEMMA RetireLoadStays ==
  ASSUME IInv, SerialInv, RetiredUnbooked, NEW w \in Workers, RetireLoad(w)
  PROVE  SerialInv' /\ RetiredUnbooked'
PROOF
<1>1. PICK u \in Umbrellas :
         /\ Over(u)
         /\ Begin(w, [NoRequest EXCEPT !.op = "retire", !.pc = "loaded", !.seat = u])
  BY DEF RetireLoad, Over
<1> DEFINE r == [NoRequest EXCEPT !.op = "retire", !.pc = "loaded", !.seat = u]
<1>2. UNCHANGED tables
  BY DEF RetireLoad
<1>3. r.pc = "loaded" /\ r.seat = u
  BY DEF NoRequest
<1>4. Over(u)'
  BY <1>1, <1>2 DEF Over, Stored, Confirmed, tables
<1> HIDE DEF r
<1>5. StillSo(r)'
  BY <1>3, <1>4 DEF StillSo
<1>6. SerialInv' /\ (serial' => serial)
  BY <1>1, <1>5, BeginSerial DEF r
<1> QED BY <1>2, <1>6, ReadsSettle, SettlesUnbooked

LEMMA GoesStay ==
  ASSUME IInv, SerialInv, RetiredUnbooked, NEW w \in Workers,
         SaleHold(w) \/ RemoveWindows(w)
  PROVE  SerialInv' /\ RetiredUnbooked'
PROOF
<1>1. UNCHANGED tables
  BY DEF SaleHold, RemoveWindows
<1>2. CASE SaleHold(w)
  <2>1. work[w].pc = "checked" /\ work[w].op # "retire"
    BY <1>2, Served DEF SaleHold, RequestOK
  <2> QED BY <1>1, <1>2, <2>1, GoToSerial, ReadsSettle, SettlesUnbooked DEF SaleHold
<1>3. CASE RemoveWindows(w)
  BY <1>1, <1>3, GoToSerial, ReadsSettle, SettlesUnbooked DEF RemoveWindows, At
<1> QED BY <1>2, <1>3

(* A sale: the umbrella it has found on the beach is there still.          *)
LEMMA SaleWriteStays ==
  ASSUME IInv, SerialInv, RetiredUnbooked, NEW w \in Workers, SaleWrite(w)
  PROVE  SerialInv' /\ RetiredUnbooked'
PROOF
<1> DEFINE row == work[w].row
<1>1. /\ work[w].pc = "priced" /\ work[w] # NoRequest
      /\ row \in BookingRow
  BY Served DEF SaleWrite, RequestOK, NoRequest
<1>2. SerialInv' /\ serial' = serial
  BY <1>1, FinishSerial DEF SaleWrite, Finish
<1>3. PICK n \in Bookings \ Stored : booking' = [booking EXCEPT ![n] = row]
  BY DEF SaleWrite, FreshBooking
<1>4. serial => row.umbrella \notin retired
  BY <1>1 DEF SerialInv, StillSo
<1>5. retired' = retired /\ today' = today
  BY DEF SaleWrite
<1> HIDE DEF row
<1>6. \A b \in Bookings : booking'[b] = IF b = n THEN row ELSE booking[b]
  BY <1>3 DEF IInv, TypeOK
<1> QED BY <1>2, <1>4, <1>5, <1>6 DEF RetiredUnbooked, Stored, Confirmed

(* A retirement: the bookings of the umbrella are over still.              *)
LEMMA RetireWriteStays ==
  ASSUME IInv, SerialInv, RetiredUnbooked, NEW w \in Workers, RetireWrite(w)
  PROVE  SerialInv' /\ RetiredUnbooked'
PROOF
<1>1. work[w].op = "retire" /\ work[w] # NoRequest
  BY DEF RetireWrite, At, NoRequest
<1>2. SerialInv' /\ serial' = serial
  BY <1>1, FinishSerial DEF RetireWrite, Finish
<1>3. serial => Over(work[w].seat)
  BY <1>1 DEF SerialInv, StillSo
<1>4. /\ retired' = retired \cup {work[w].seat} /\ UNCHANGED <<today, booking>>
  BY DEF RetireWrite
<1> SUFFICES ASSUME serial, NEW b \in Stored, Confirmed(b), today <= booking[b].end,
                    booking[b].umbrella = work[w].seat
             PROVE  FALSE
  BY <1>2, <1>4 DEF RetiredUnbooked, Stored, Confirmed
<1>5. booking[b].end \in Int /\ today \in Int
  BY Rows DEF IInv, TypeOK, BookingRow, Days
<1> QED BY <1>3, <1>5 DEF Over

LEMMA EndsStay ==
  ASSUME IInv, SerialInv, RetiredUnbooked, NEW w \in Workers,
         TransferWrite(w) \/ RemoveErase(w) \/ RemoveAnonymise(w) \/ Abort(w)
  PROVE  SerialInv' /\ RetiredUnbooked'
PROOF
<1>1. work[w] # NoRequest /\ Finish(w)
  BY DEF TransferWrite, RemoveErase, RemoveAnonymise, Abort, At, NoRequest
<1>2. Keeps /\ today' = today /\ retired' = retired
  BY TransferWriteKeeps, SameRows
     DEF TransferWrite, RemoveErase, RemoveAnonymise, Abort, tables
<1> QED BY <1>1, <1>2, FinishSerial, KeepsSettle, SettlesUnbooked

(* Requests of one step.                                                   *)
LEMMA AsideStays ==
  ASSUME IInv, SerialInv, RetiredUnbooked, Keeps, Alone, UNCHANGED <<today, work>>,
         retired' \subseteq retired
  PROVE  SerialInv' /\ RetiredUnbooked'
PROOF BY AloneSerial, KeepsSettle, SettlesUnbooked

LEMMA AdvanceDayStays ==
  ASSUME IInv, SerialInv, RetiredUnbooked, AdvanceDay
  PROVE  SerialInv' /\ RetiredUnbooked'
PROOF
<1>1. SerialInv' /\ (serial' => serial)
  BY AloneSerial DEF AdvanceDay
<1>2. Settles
  BY <1>1 DEF AdvanceDay, Settles, IInv, TypeOK, Days, Confirmed, Stored
<1> QED BY <1>1, <1>2, SettlesUnbooked

LEMMA SerialKeeps ==
  ASSUME IInv, SerialInv, RetiredUnbooked, [Next]_vars
  PROVE  SerialInv' /\ RetiredUnbooked'
PROOF
<1>1. CASE AdvanceDay
  BY <1>1, AdvanceDayStays
<1>2. CASE OpenCampaign
  BY <1>2, SameRows, AsideStays DEF OpenCampaign
<1>3. ASSUME NEW w \in Workers, Serve(w) PROVE SerialInv' /\ RetiredUnbooked'
  BY <1>3, BeginsStay, RetireLoadStays, GoesStay, SaleWriteStays, RetireWriteStays, EndsStay
     DEF Serve
<1>4. ASSUME NEW b \in Bookings, Cancel(b) PROVE SerialInv' /\ RetiredUnbooked'
  BY <1>4, CancelKeeps, AsideStays DEF Cancel
<1>5. ASSUME NEW u \in Umbrellas, Restore(u) PROVE SerialInv' /\ RetiredUnbooked'
  BY <1>5, SameRows, AsideStays DEF Restore
<1>6. ASSUME NEW s \in SeasonIds, CreateSeason(s) \/ RemoveSeason(s)
      PROVE  SerialInv' /\ RetiredUnbooked'
  BY <1>6, SameRows, AsideStays DEF CreateSeason, RemoveSeason
<1>7. ASSUME NEW c \in Campaigns, CloseCampaign(c) PROVE SerialInv' /\ RetiredUnbooked'
  BY <1>7, SameRows, AsideStays DEF CloseCampaign
<1>8. CASE UNCHANGED vars
  <2>1. SerialInv'
    BY <1>8 DEF SerialInv, StillSo, Over, Stored, Confirmed, vars
  <2>2. RetiredUnbooked'
    BY <1>8 DEF RetiredUnbooked, Stored, Confirmed, vars
  <2> QED BY <2>1, <2>2
<1> QED BY <1>1, <1>2, <1>3, <1>4, <1>5, <1>6, <1>7, <1>8 DEF Next

(* Of requests that do not overlap none leaves a booking that is not over  *)
(* on an umbrella that is retired (create, renew, retire; D-055).          *)
THEOREM RetiredIsUnbooked == Spec => []RetiredUnbooked
PROOF
<1>1. Init => SerialInv /\ RetiredUnbooked
  BY DEF Init, SerialInv, RetiredUnbooked, Stored
<1>2. IInv /\ SerialInv /\ RetiredUnbooked /\ [Next]_vars => SerialInv' /\ RetiredUnbooked'
  BY SerialKeeps
<1> QED BY <1>1, <1>2, RenewalsInvariant, PTL DEF Spec
-----------------------------------------------------------------------------
(* The hold. Identifiers are given in order, so a campaign was opened      *)
(* before the bookings above its since. A booking sold while the window    *)
(* was open has passed the hold; one sold while it was exercised would     *)
(* have met the renewal, which is a whole season, and the season of        *)
(* destination if seasons do not overlap. So no window opens again on a    *)
(* booking of another customer.                                            *)
InOrder == \E k \in Nat : Stored = 1 .. k

WholeSeason(row) ==
  row.previous # 0 =>
    \E s \in SeasonIds : row.start = SeasonSpan[s].start /\ row.end = SeasonSpan[s].end

(* The constraint coverage_no_overlap, as the check of a sale reads it.    *)
NoClash == \A a, b \in Stored : a # b /\ Confirmed(a) => ~ Blocks(b, booking[a])

Books ==
  /\ InOrder /\ NoClash
  /\ \A b \in Stored : WholeSeason(booking[b])
  /\ \A w \in Workers : work[w].pc \in {"checked", "priced"} => WholeSeason(work[w].row)

(* Booking x was sold over the head of h, who may still renew.             *)
SoldOver(c, h, x) ==
  /\ today <= campaign[c].deadline
  /\ Overlaps(h, campaign[c].origin)
  /\ Subscription(h)
  /\ h < x /\ campaign[c].since < x
  /\ Confirmed(x) /\ Overlaps(x, campaign[c].dest)
  /\ ~ booking[h].moved /\ ~ booking[x].moved
  /\ SameSeat(booking[h], booking[x])
  /\ booking[h].customer # booking[x].customer

HoldInv ==
  serial /\ SeasonsApart =>
    /\ \A c \in Existing : \A h, x \in Stored : ~ SoldOver(c, h, x)
    /\ \A w \in Workers : work[w].pc = "priced" => ~ Held(work[w].row)

LEMMA HoldEnough ==
  ASSUME IInv, HoldInv
  PROVE  HoldHonoured
<1> SUFFICES ASSUME serial, SeasonsApart, NEW c \in Existing, NEW h \in OpenWindows(c),
                    NEW x \in Stored,
                    h < x, campaign[c].since < x,
                    Confirmed(x), Overlaps(x, campaign[c].dest),
                    ~ booking[h].moved, ~ booking[x].moved,
                    SameSeat(booking[h], booking[x])
             PROVE  booking[h].customer = booking[x].customer
  BY DEF HoldHonoured
<1>1. h \in Stored /\ Subscription(h) /\ Overlaps(h, campaign[c].origin)
  BY DEF OpenWindows, Entitled
<1>2. ~ (today > campaign[c].deadline)
  BY DEF OpenWindows, WindowState
<1>3. today <= campaign[c].deadline
  BY <1>2, Rows DEF IInv, TypeOK, CampaignRow, Days
<1> QED
  BY <1>1, <1>3 DEF HoldInv, SoldOver

(* A step that sells nothing.                                              *)
NoSale ==
  /\ Keeps
  /\ \A b \in Stored : \/ booking'[b].customer = booking[b].customer /\ booking'[b].moved = booking[b].moved
                       \/ booking'[b].moved

LEMMA BooksOfRows ==
  ASSUME IInv, Books, Keeps,
         \A w \in Workers : \/ work'[w].pc \notin {"checked", "priced"}
                            \/ WholeSeason(work'[w].row)
  PROVE  Books'
<1>1. InOrder'
  BY DEF Books, InOrder, Keeps
<1>2. \A b \in Stored : WholeSeason(booking[b])'
  BY DEF Books, WholeSeason, Keeps, Holds
<1>3. NoClash'
  <2> SUFFICES ASSUME NEW a \in Stored, NEW b \in Stored, a # b, Confirmed(a)', Blocks(b, booking[a])'
               PROVE  FALSE
    BY DEF NoClash, Keeps
  <2>1. Confirmed(a) /\ Confirmed(b)
    BY DEF Keeps, Holds, Confirmed, Blocks
  <2>2. Blocks(b, booking[a])
    BY <2>1 DEF Keeps, Holds, Blocks
  <2> QED
    BY <2>1, <2>2 DEF Books, NoClash
<1>4. \A w \in Workers : work'[w].pc \in {"checked", "priced"} => WholeSeason(work[w].row)'
  BY DEF WholeSeason
<1> QED
  BY <1>1, <1>2, <1>3, <1>4 DEF Books, Keeps

LEMMA NoSaleHold ==
  ASSUME IInv, HoldInv, NoSale, today <= today', today' \in Days,
         serial' => serial,
         \A c \in Existing' : \/ c \in Existing /\ campaign'[c] = campaign[c]
                              \/ \A x \in Stored : ~ (campaign'[c].since < x),
         serial' /\ SeasonsApart => \A w \in Workers : work'[w].pc = "priced" => ~ Held(work[w].row)'
  PROVE  HoldInv'
<1> SUFFICES ASSUME serial', SeasonsApart, NEW c \in Existing', NEW h \in Stored, NEW x \in Stored,
                    SoldOver(c, h, x)'
             PROVE  FALSE
  BY DEF HoldInv, NoSale, Keeps
<1>1. c \in Existing /\ campaign'[c] = campaign[c]
  BY DEF SoldOver
<1>2. today <= campaign[c].deadline
  <2>1. campaign[c].deadline \in Int /\ today \in Int /\ today' \in Int
    BY <1>1, Rows DEF IInv, TypeOK, CampaignRow, Days
  <2> QED
    BY <1>1, <2>1 DEF SoldOver
<1>3. Subscription(h) /\ Confirmed(x)
  BY DEF SoldOver, Subscription, Confirmed, NoSale, Keeps, Holds
<1>4. SoldOver(c, h, x)
  BY <1>1, <1>2, <1>3 DEF SoldOver, NoSale, Keeps, Holds, Overlaps, SameSeat
<1> QED
  BY <1>1, <1>4 DEF HoldInv

(* How the steps change the requests.                                      *)
LEMMA WorkAfter ==
  ASSUME IInv, SerialInv,
         \/ Alone /\ UNCHANGED work
         \/ \E w \in Workers : \E r :
              Begin(w, r) /\ r.pc # "priced" /\ (r.pc = "checked" => WholeSeason(r.row))
         \/ \E w \in Workers : work[w] # NoRequest /\ Finish(w)
         \/ \E w \in Workers : At(w, "remove", "counted") /\ GoTo(w, "anonymise"),
         \A w \in Workers : work[w].pc \in {"checked", "priced"} => WholeSeason(work[w].row)
  PROVE  /\ serial' => serial
         /\ serial' => \A w \in Workers : work'[w].pc # "priced"
         /\ \A w \in Workers : \/ work'[w].pc \notin {"checked", "priced"}
                               \/ WholeSeason(work'[w].row)
<1>0. NoRequest.pc = "idle"
  BY DEF NoRequest
<1>1. CASE Alone /\ UNCHANGED work
  BY <1>0, <1>1 DEF Alone, Idle
<1>2. ASSUME NEW w \in Workers, NEW r, Begin(w, r), r.pc # "priced",
             r.pc = "checked" => WholeSeason(r.row)
      PROVE  /\ serial' => serial
             /\ serial' => \A v \in Workers : work'[v].pc # "priced"
             /\ \A v \in Workers : \/ work'[v].pc \notin {"checked", "priced"}
                                   \/ WholeSeason(work'[v].row)
  <2>1. \A v \in Workers : work'[v] = IF v = w THEN r ELSE work[v]
    BY <1>2 DEF Begin, IInv, TypeOK
  <2>2. serial' => serial /\ \A v \in Workers : work[v] = NoRequest
    BY <1>2 DEF Begin, Alone, Idle
  <2>3. serial' => \A v \in Workers : work'[v].pc # "priced"
    BY <1>0, <1>2, <2>1, <2>2
  <2>4. \A v \in Workers : \/ work'[v].pc \notin {"checked", "priced"}
                           \/ WholeSeason(work'[v].row)
    BY <1>2, <2>1
  <2> QED
    BY <2>2, <2>3, <2>4
<1>3. ASSUME NEW w \in Workers, work[w] # NoRequest, Finish(w)
      PROVE  /\ serial' => serial
             /\ serial' => \A v \in Workers : work'[v].pc # "priced"
             /\ \A v \in Workers : \/ work'[v].pc \notin {"checked", "priced"}
                                   \/ WholeSeason(work'[v].row)
  <2>1. serial' = serial /\ \A v \in Workers : work'[v] = IF v = w THEN NoRequest ELSE work[v]
    BY <1>3 DEF Finish, IInv, TypeOK
  <2>2. serial => \A v \in Workers \ {w} : work[v] = NoRequest
    BY <1>3 DEF SerialInv
  <2> QED
    BY <1>0, <2>1, <2>2
<1>4. ASSUME NEW w \in Workers, At(w, "remove", "counted"), GoTo(w, "anonymise")
      PROVE  /\ serial' => serial
             /\ serial' => \A v \in Workers : work'[v].pc # "priced"
             /\ \A v \in Workers : \/ work'[v].pc \notin {"checked", "priced"}
                                   \/ WholeSeason(work'[v].row)
  <2>1. work[w] \in Request
    BY <1>4, Served DEF At
  <2>2. serial' = serial /\ \A v \in Workers : v # w => work'[v] = work[v]
    BY <1>4 DEF GoTo, IInv, TypeOK
  <2>3. work'[w].pc = "anonymise"
    BY <1>4, <2>1 DEF GoTo, IInv, TypeOK, Request
  <2>4. serial => \A v \in Workers \ {w} : work[v] = NoRequest
    BY <2>1, NoRequestOK DEF SerialInv
  <2>5. \A v \in Workers : serial => work'[v].pc # "priced"
    BY <1>0, <2>2, <2>3, <2>4
  <2>6. \A v \in Workers : work'[v].pc \notin {"checked", "priced"} \/ WholeSeason(work'[v].row)
    BY <2>2, <2>3
  <2> QED
    BY <2>2, <2>5, <2>6
<1> QED
  BY <1>1, <1>2, <1>3, <1>4

(* Steps that sell nothing and give no price.                              *)
LEMMA AsideHold ==
  ASSUME IInv, SerialInv, Books, HoldInv, NoSale, today <= today', today' \in Days,
         \/ Alone /\ UNCHANGED work
         \/ \E w \in Workers : \E r :
              Begin(w, r) /\ r.pc # "priced" /\ (r.pc = "checked" => WholeSeason(r.row))
         \/ \E w \in Workers : work[w] # NoRequest /\ Finish(w)
         \/ \E w \in Workers : At(w, "remove", "counted") /\ GoTo(w, "anonymise"),
         \A c \in Existing' : \/ c \in Existing /\ campaign'[c] = campaign[c]
                              \/ \A x \in Stored : ~ (campaign'[c].since < x)
  PROVE  Books' /\ HoldInv'
<1>1. /\ serial' => serial
      /\ serial' => \A w \in Workers : work'[w].pc # "priced"
      /\ \A w \in Workers : \/ work'[w].pc \notin {"checked", "priced"}
                            \/ WholeSeason(work'[w].row)
  BY WorkAfter DEF Books
<1>2. Books'
  BY <1>1, BooksOfRows DEF NoSale
<1>3. HoldInv'
  BY <1>1, NoSaleHold
<1> QED
  BY <1>2, <1>3

LEMMA TodayInDays ==
  ASSUME IInv
  PROVE  today \in Days /\ today <= today
  BY DEF IInv, TypeOK, Days

LEMMA SameCampaigns ==
  ASSUME campaign' = campaign
  PROVE  \A c \in Existing' : c \in Existing /\ campaign'[c] = campaign[c]
  BY DEF Existing

LEMMA SameBookings ==
  ASSUME IInv, booking' = booking
  PROVE  NoSale
  BY SameRows DEF NoSale

(* Checks, and the other steps that read.                                  *)
LEMMA ReadsHold ==
  ASSUME IInv, SerialInv, Books, HoldInv, NEW w \in Workers,
         \/ CreateCheck(w) \/ RenewCheck(w) \/ TransferLoad(w) \/ RemoveLoad(w)
         \/ RemoveWindows(w) \/ RetireLoad(w)
  PROVE  Books' /\ HoldInv'
<1>1. UNCHANGED tables
  BY DEF CreateCheck, RenewCheck, TransferLoad, RemoveLoad, RemoveWindows, RetireLoad
<1>2. /\ NoSale /\ today <= today' /\ today' \in Days
      /\ \A c \in Existing' : c \in Existing /\ campaign'[c] = campaign[c]
  BY <1>1, SameBookings, SameCampaigns, TodayInDays DEF tables
<1>3. ASSUME NEW r, Begin(w, r), r.pc # "priced", r.pc = "checked" => WholeSeason(r.row)
      PROVE  Books' /\ HoldInv'
  BY <1>2, <1>3, AsideHold
<1>4. CASE CreateCheck(w)
  <2>1. PICK type, c, u, k, span :
          Begin(w, [NoRequest EXCEPT !.op = "create", !.pc = "checked",
                                     !.row = NewRow(type, c, u, k, span, 0)])
    BY <1>4 DEF CreateCheck
  <2> DEFINE row == NewRow(type, c, u, k, span, 0)
             r == [NoRequest EXCEPT !.op = "create", !.pc = "checked", !.row = row]
  <2>2. WholeSeason(row)
    BY DEF WholeSeason, NewRow
  <2> HIDE DEF row
  <2>3. r.pc = "checked" /\ r.row = row
    BY DEF NoRequest
  <2>4. Begin(w, r)
    BY <2>1 DEF row
  <2> HIDE DEF r
  <2> QED
    BY <1>3, <2>2, <2>3, <2>4
<1>5. CASE RenewCheck(w)
  <2>1. PICK b \in Stored, s \in season :
          Begin(w, [NoRequest EXCEPT !.op = "renew", !.pc = "checked", !.b = b,
                      !.row = NewRow("subscription", booking[b].customer,
                                     booking[b].umbrella, booking[b].slot,
                                     SeasonSpan[s], b)])
    BY <1>5 DEF RenewCheck
  <2> DEFINE row == NewRow("subscription", booking[b].customer, booking[b].umbrella,
                           booking[b].slot, SeasonSpan[s], b)
             r == [NoRequest EXCEPT !.op = "renew", !.pc = "checked", !.b = b, !.row = row]
  <2>2. s \in SeasonIds
    BY DEF IInv, TypeOK
  <2>3. WholeSeason(row)
    BY <2>2 DEF WholeSeason, NewRow
  <2> HIDE DEF row
  <2>4. r.pc = "checked" /\ r.row = row
    BY DEF NoRequest
  <2>5. Begin(w, r)
    BY <2>1 DEF row
  <2> HIDE DEF r
  <2> QED
    BY <1>3, <2>3, <2>4, <2>5
<1>6. CASE TransferLoad(w)
  <2>1. PICK b, row, c : Begin(w, [NoRequest EXCEPT !.op = "transfer", !.pc = "loaded",
                                                    !.b = b, !.row = row, !.who = c])
    BY <1>6 DEF TransferLoad
  <2> QED BY <1>3, <2>1 DEF NoRequest
<1>7. CASE RemoveLoad(w)
  <2>1. PICK c \in Customers :
          Begin(w, [NoRequest EXCEPT !.op = "remove", !.who = c,
                      !.pc = IF BookingsOf(c) = {} THEN "erase" ELSE "counted"])
    BY <1>7 DEF RemoveLoad
  <2> QED BY <1>3, <2>1 DEF NoRequest
<1>8. CASE RetireLoad(w)
  <2>1. PICK u : Begin(w, [NoRequest EXCEPT !.op = "retire", !.pc = "loaded", !.seat = u])
    BY <1>8 DEF RetireLoad
  <2> QED BY <1>3, <2>1 DEF NoRequest
<1>9. CASE RemoveWindows(w)
  BY <1>2, <1>9, AsideHold DEF RemoveWindows
<1> QED
  BY <1>4, <1>5, <1>6, <1>7, <1>8, <1>9

(* The hold is what the next write rests on.                               *)
LEMMA SaleHoldHolds ==
  ASSUME IInv, SerialInv, Books, HoldInv, NEW w \in Workers, SaleHold(w)
  PROVE  Books' /\ HoldInv'
<1>1. UNCHANGED tables /\ ~ Held(work[w].row) /\ work[w].pc = "checked"
  BY DEF SaleHold
<1>2. work[w] \in Request /\ work[w] # NoRequest
  BY <1>1, Served, NoRequestOK
<1>3. /\ serial' = serial
      /\ work'[w].pc = "priced" /\ work'[w].row = work[w].row
      /\ \A v \in Workers \ {w} : work'[v] = work[v]
  BY <1>2 DEF SaleHold, GoTo, IInv, TypeOK, Request
<1>4. Books'
  BY <1>1, <1>3, BooksOfRows, SameRows DEF Books, tables
<1>5. serial => \A v \in Workers \ {w} : work[v].pc # "priced"
  BY <1>2 DEF SerialInv, NoRequest
<1>6. ~ Held(work[w].row)'
  BY <1>1, <1>3
     DEF Held, OpenCampaigns, Existing, Entitled, Subscription, Confirmed, Stored,
         Overlaps, RenewedInto, tables
<1>7. \A v \in Workers : serial' /\ work'[v].pc = "priced" => ~ Held(work[v].row)'
  BY <1>3, <1>5, <1>6
<1>8. HoldInv'
  BY <1>1, <1>3, <1>7, NoSaleHold, SameBookings, SameCampaigns, TodayInDays DEF tables
<1> QED
  BY <1>4, <1>8

(* A sale.                                                                 *)
LEMMA SaleWriteHolds ==
  ASSUME IInv, SerialInv, Books, HoldInv, NEW w \in Workers, SaleWrite(w)
  PROVE  Books' /\ HoldInv'
<1> DEFINE row == work[w].row
<1>1. /\ row \in BookingRow /\ WholeSeason(row)
      /\ work[w].pc = "priced" /\ work[w] # NoRequest /\ Finish(w)
      /\ \A b \in Stored : ~ Blocks(b, row)
      /\ UNCHANGED <<today, season, campaign, customer, ceded, retired>>
  BY Served DEF SaleWrite, RequestOK, Books, NoRequest
<1>2. PICK n \in FreshBooking : booking' = [booking EXCEPT ![n] = row]
  BY DEF SaleWrite
<1>3. /\ serial' => serial
      /\ serial' => \A v \in Workers : work'[v].pc # "priced"
      /\ \A v \in Workers : \/ work'[v].pc \notin {"checked", "priced"}
                            \/ WholeSeason(work'[v].row)
  BY <1>1, WorkAfter DEF Books
<1>4. serial /\ SeasonsApart => ~ Held(row)
  BY <1>1 DEF HoldInv
<1> HIDE DEF row
<1>5. /\ n \in Bookings \ Stored
      /\ booking'[n] = row
      /\ \A b \in Stored : booking'[b] = booking[b]
      /\ Stored' = Stored \cup {n}
  BY <1>1, <1>2, Rows DEF IInv, TypeOK, Stored, FreshBooking
<1>6. InOrder' /\ \A b \in Stored : b < n
  <2>1. PICK k \in Nat : Stored = 1 .. k
    BY DEF Books, InOrder
  <2>2. n = k + 1
    BY <1>2, <2>1, BoundsAssumption DEF FreshBooking, Bookings
  <2>3. Stored' = 1 .. k + 1
    BY <1>5, <2>1, <2>2
  <2> QED
    BY <2>1, <2>2, <2>3 DEF InOrder
<1>7. \A b \in Stored : Confirmed(b)' <=> Confirmed(b)
  BY <1>5 DEF Confirmed, Stored
<1>8. NoClash'
  <2> SUFFICES ASSUME NEW a \in Stored', NEW b \in Stored', a # b,
                      Confirmed(a)', Blocks(b, booking[a])'
               PROVE  FALSE
    BY DEF NoClash
  <2>1. CASE a = n
    <3>1. b \in Stored
      BY <1>5, <2>1
    <3> QED
      BY <1>1, <1>5, <1>7, <2>1, <3>1 DEF Blocks
  <2>2. CASE b = n
    <3>1. a \in Stored
      BY <1>5, <2>2
    <3>2. Blocks(a, row)
      BY <1>5, <1>7, <2>2, <3>1 DEF Blocks, dateRangesOverlap, slotsOverlap
    <3> QED
      BY <1>1, <3>1, <3>2
  <2>3. CASE a \in Stored /\ b \in Stored
    BY <1>5, <1>7, <2>3 DEF Blocks, Books, NoClash
  <2> QED
    BY <1>5, <2>1, <2>2, <2>3
<1>9. \A b \in Stored' : WholeSeason(booking[b])'
  BY <1>1, <1>5 DEF Books, WholeSeason
<1>10. Books'
  BY <1>3, <1>6, <1>8, <1>9 DEF Books, WholeSeason
<1>11. HoldInv'
  <2> SUFFICES ASSUME serial', SeasonsApart, NEW c \in Existing', NEW h \in Stored',
                      NEW x \in Stored', SoldOver(c, h, x)'
               PROVE  FALSE
    BY <1>3 DEF HoldInv
  <2>1. c \in Existing /\ campaign[c] \in CampaignRow
    BY <1>1, Rows DEF Existing, IInv
  <2>2. h \in Stored
    <3>1. h < x /\ (x \in Stored \/ x = n)
      BY <1>5 DEF SoldOver
    <3> QED
      BY <1>5, <1>6, <3>1 DEF Bookings, Stored
  <2>3. CASE x \in Stored
    <3>1. SoldOver(c, h, x)
      BY <1>1, <1>5, <1>7, <2>2, <2>3 DEF SoldOver, Subscription, Overlaps
    <3> QED
      BY <1>3, <2>1, <2>2, <2>3, <3>1 DEF HoldInv
  <2>4. CASE x = n
    <3> DEFINE dest == SeasonSpan[campaign[c].dest]
    <3>1. /\ dest.start <= row.end /\ row.start <= dest.end
          /\ SameSeat(booking[h], row) /\ booking[h].customer # row.customer
          /\ today <= campaign[c].deadline
          /\ h \in Entitled(c)
      BY <1>1, <1>5, <1>7, <2>2, <2>4
         DEF SoldOver, Overlaps, dateRangesOverlap, Entitled, Subscription, SameSeat
    <3>2. c \in OpenCampaigns(row.start, row.end)
      BY <2>1, <3>1 DEF OpenCampaigns, dateRangesOverlap
    <3>3. RenewedInto(h, campaign[c].dest)
      BY <1>3, <1>4, <3>1, <3>2 DEF Held, SameSeat
    <3>4. PICK r \in Bookings : Confirmed(r) /\ booking[r].previous = h
                                  /\ Overlaps(r, campaign[c].dest)
      BY <3>3 DEF RenewedInto
    <3>5. r \in Stored /\ h # 0
      BY <2>2, <3>4 DEF Confirmed, Stored, Bookings
    <3>6. booking[r].umbrella = booking[h].umbrella /\ booking[r].slot = booking[h].slot
      BY <3>4, <3>5 DEF IInv, RenewalsRunForward
    <3>7. PICK s \in SeasonIds : booking[r].start = SeasonSpan[s].start
                                   /\ booking[r].end = SeasonSpan[s].end
      BY <3>4, <3>5 DEF Books, WholeSeason
    <3>8. s = campaign[c].dest
      BY <2>1, <3>4, <3>7 DEF SeasonsApart, Overlaps, CampaignRow
    <3>9. Blocks(r, row)
      BY <3>1, <3>4, <3>6, <3>7, <3>8 DEF Blocks, SameSeat, dateRangesOverlap
    <3> QED
      BY <1>1, <3>5, <3>9
  <2> QED
    BY <1>5, <2>3, <2>4
<1> QED
  BY <1>10, <1>11

(* A change of holder marks the row.                                       *)
LEMMA TransferSellsNothing ==
  ASSUME IInv, NEW w \in Workers, TransferWrite(w)
  PROVE  NoSale
<1>1. Keeps
  BY TransferWriteKeeps
<1>2. \A b \in Stored : booking'[b] = booking[b] \/ booking'[b].moved
  <2> SUFFICES ASSUME NEW b \in Stored PROVE booking'[b] = booking[b] \/ booking'[b].moved
    OBVIOUS
  <2>1. booking[b] \in BookingRow /\ b \in Bookings
    BY Rows DEF IInv
  <2> QED
    BY <2>1 DEF TransferWrite, IInv, TypeOK, BookingRow
<1> QED
  BY <1>1, <1>2 DEF NoSale

LEMMA EndsHold ==
  ASSUME IInv, SerialInv, Books, HoldInv, NEW w \in Workers,
         \/ TransferWrite(w) \/ RemoveErase(w) \/ RemoveAnonymise(w) \/ RetireWrite(w)
         \/ Abort(w)
  PROVE  Books' /\ HoldInv'
<1>1. work[w] # NoRequest /\ Finish(w)
  BY DEF TransferWrite, RemoveErase, RemoveAnonymise, RetireWrite, Abort, At, NoRequest
<1>2. NoSale
  BY TransferSellsNothing, SameBookings
     DEF RemoveErase, RemoveAnonymise, RetireWrite, Abort, tables
<1>3. UNCHANGED <<today, campaign>>
  BY DEF TransferWrite, RemoveErase, RemoveAnonymise, RetireWrite, Abort, tables
<1> QED
  BY <1>1, <1>2, <1>3, AsideHold, SameCampaigns, TodayInDays

LEMMA CancelSellsNothing ==
  ASSUME IInv, NEW b \in Bookings, Cancel(b)
  PROVE  NoSale
<1>1. \A a \in Stored : booking[a] \in BookingRow /\ a \in Bookings
  BY Rows DEF IInv
<1>2. \A a \in Stored : /\ booking'[a].customer = booking[a].customer
                        /\ booking'[a].moved = booking[a].moved
  BY <1>1 DEF Cancel, IInv, TypeOK, BookingRow
<1> QED
  BY <1>2, CancelKeeps DEF NoSale

(* A campaign counts the bookings there are when it is opened.             *)
LEMMA OpenCampaignHolds ==
  ASSUME IInv, SerialInv, Books, HoldInv, OpenCampaign
  PROVE  Books' /\ HoldInv'
<1>1. PICK c \in Campaigns, o \in season, d \in season, deadline \in Days :
        campaign' = [campaign EXCEPT ![c] =
          [origin |-> o, dest |-> d, deadline |-> deadline, since |-> Cardinality(Stored)]]
  BY DEF OpenCampaign
<1>2. PICK k \in Nat : Stored = 1 .. k
  BY DEF Books, InOrder
<1>3. Cardinality(Stored) = k
  BY <1>2, FS_Interval
<1>4. \A x \in Stored : ~ (campaign'[c].since < x)
  BY <1>1, <1>2, <1>3 DEF IInv, TypeOK
<1>5. \A e \in Existing' : e # c => e \in Existing /\ campaign'[e] = campaign[e]
  BY <1>1 DEF Existing, IInv, TypeOK
<1>6. \A e \in Existing' : \/ e \in Existing /\ campaign'[e] = campaign[e]
                           \/ \A x \in Stored : ~ (campaign'[e].since < x)
  BY <1>4, <1>5
<1>7. booking' = booking /\ today' = today /\ Alone /\ UNCHANGED work
  BY DEF OpenCampaign
<1> QED
  BY <1>6, <1>7, AsideHold, SameBookings, TodayInDays

LEMMA CloseCampaignHolds ==
  ASSUME IInv, SerialInv, Books, HoldInv, NEW c \in Campaigns, CloseCampaign(c)
  PROVE  Books' /\ HoldInv'
<1>1. \A e \in Existing' : e \in Existing /\ campaign'[e] = campaign[e]
  BY DEF CloseCampaign, Existing, IInv, TypeOK
<1> QED
  BY <1>1, AsideHold, SameBookings, TodayInDays DEF CloseCampaign

LEMMA HoldKeeps ==
  ASSUME IInv, SerialInv, Books, HoldInv, [Next]_vars
  PROVE  Books' /\ HoldInv'
<1>1. CASE AdvanceDay
  <2>1. today <= today' /\ today' \in Days
    BY <1>1, DaysAssumption DEF AdvanceDay, IInv, TypeOK, Days
  <2> QED
    BY <1>1, <2>1, AsideHold, SameBookings, SameCampaigns DEF AdvanceDay
<1>2. CASE OpenCampaign
  BY <1>2, OpenCampaignHolds
<1>3. ASSUME NEW w \in Workers, Serve(w) PROVE Books' /\ HoldInv'
  BY <1>3, ReadsHold, SaleHoldHolds, SaleWriteHolds, EndsHold DEF Serve
<1>4. ASSUME NEW b \in Bookings, Cancel(b) PROVE Books' /\ HoldInv'
  BY <1>4, CancelSellsNothing, AsideHold, SameCampaigns, TodayInDays DEF Cancel
<1>5. ASSUME NEW u \in Umbrellas, Restore(u) PROVE Books' /\ HoldInv'
  BY <1>5, SameBookings, AsideHold, SameCampaigns, TodayInDays DEF Restore
<1>6. ASSUME NEW s \in SeasonIds, CreateSeason(s) \/ RemoveSeason(s) PROVE Books' /\ HoldInv'
  BY <1>6, SameBookings, AsideHold, SameCampaigns, TodayInDays DEF CreateSeason, RemoveSeason
<1>7. ASSUME NEW c \in Campaigns, CloseCampaign(c) PROVE Books' /\ HoldInv'
  BY <1>7, CloseCampaignHolds
<1>8. CASE UNCHANGED vars
  <2>1. Books'
    BY <1>8, SameRows, BooksOfRows DEF Books, vars
  <2>2. \A w \in Workers : Held(work[w].row)' <=> Held(work[w].row)
    BY <1>8 DEF Held, OpenCampaigns, Existing, Entitled, Subscription, Confirmed, Stored,
                Overlaps, RenewedInto, vars
  <2>3. HoldInv'
    BY <1>8, <2>2, NoSaleHold, SameBookings, SameCampaigns, TodayInDays DEF vars, HoldInv
  <2> QED
    BY <2>1, <2>3
<1> QED
  BY <1>1, <1>2, <1>3, <1>4, <1>5, <1>6, <1>7, <1>8 DEF Next

(* Of requests that do not overlap none sells the seat of a holder whose   *)
(* window is open to somebody else, in seasons that are apart              *)
(* (priceAndWrite, ADR-0034), and no cancellation, renewal, campaign or    *)
(* day that passes brings it about.                                        *)
THEOREM HoldersKeepTheirSeat == Spec => []HoldHonoured
<1>1. Init => SerialInv /\ RetiredUnbooked /\ Books /\ HoldInv
  <2> SUFFICES ASSUME Init PROVE SerialInv /\ RetiredUnbooked /\ Books /\ HoldInv
    OBVIOUS
  <2>1. Stored = {} /\ Existing = {}
    BY DEF Init, Stored, Existing
  <2>2. Stored = 1 .. 0
    BY <2>1
  <2>3. \A w \in Workers : work[w].pc = "idle"
    BY DEF Init, NoRequest
  <2> QED
    BY <2>1, <2>2, <2>3 DEF Init, SerialInv, RetiredUnbooked, Books, InOrder, NoClash, HoldInv
<1>2. IInv /\ SerialInv /\ RetiredUnbooked /\ Books /\ HoldInv /\ [Next]_vars
        => SerialInv' /\ RetiredUnbooked' /\ Books' /\ HoldInv'
  BY SerialKeeps, HoldKeeps
<1>3. IInv /\ HoldInv => HoldHonoured
  BY HoldEnough
<1> QED
  BY <1>1, <1>2, <1>3, RenewalsInvariant, PTL DEF Spec
=============================================================================
