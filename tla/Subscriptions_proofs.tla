------------------------ MODULE Subscriptions_proofs ------------------------
(***************************************************************************)
(* What holds of the bookings for any number of workers, however their     *)
(* requests overlap: the types, that no seat is sold twice, that the       *)
(* payment status says what has been collected, and that no day is lost.   *)
(***************************************************************************)
EXTENDS Subscriptions, TLAPS

-----------------------------------------------------------------------------
(* Types                                                                   *)

(* What the checks of a method guarantee of the request it becomes.        *)
RequestOK(r) ==
  /\ r.op # "create" => r.b \in Stored
  /\ r.op \in {"create", "transfer"} => r.row \in BookingRow
  /\ r.op = "transfer" => r.who \in Customers
  /\ r.op \in {"suspend", "reactivate", "releaseAbsence", "cancelAbsenceRelease"}
       => r.from \in Days
  /\ r.op \in {"reactivate", "terminate"} => r.from \in 2 .. LastDay
  /\ r.op \in {"reactivate", "releaseAbsence", "cancelAbsenceRelease"} => r.to \in Days

WellFormed ==
  /\ TypeOK
  /\ \A w \in Workers : work[w] # NoRequest => RequestOK(work[w])

-----------------------------------------------------------------------------
LEMMA WorkOnly ==
  ASSUME WellFormed, NEW w \in Workers, NEW r \in Request \cup {NoRequest},
         r # NoRequest => RequestOK(r),
         work' = [work EXCEPT ![w] = r],
         UNCHANGED <<today, booking, coverage, suspension, release, transfer>>
  PROVE  WellFormed'
<1>1. TypeOK'
  BY DEF WellFormed, TypeOK
<1>2. \A v \in Workers : work'[v] # NoRequest => RequestOK(work'[v])
  BY DEF WellFormed, TypeOK
<1>3. Stored' = Stored
  BY DEF Stored
<1> QED
  BY <1>1, <1>2, <1>3 DEF WellFormed, RequestOK

LEMMA BookingIsRow ==
  ASSUME TypeOK, NEW b \in Bookings, booking[b].status # "none"
  PROVE  booking[b] \in BookingRow
  BY DEF TypeOK, NoBooking

LEMMA CreateCheckType ==
  ASSUME WellFormed, NEW w \in Workers, CreateCheck(w)
  PROVE  WellFormed'
<1>1. PICK type \in Types, c \in Customers, u \in Umbrellas, k \in Slots,
           total \in Prices :
        \E s \in Intervals(type) :
          Begin(w, [NoRequest EXCEPT !.op = "create", !.pc = "planned",
                                     !.row = NewBooking(type, c, u, k, s, total)])
  BY DEF CreateCheck
<1>2. PICK span \in Intervals(type) :
        Begin(w, [NoRequest EXCEPT !.op = "create", !.pc = "planned",
                                   !.row = NewBooking(type, c, u, k, span, total)])
  BY <1>1
<1> DEFINE r == [NoRequest EXCEPT !.op = "create", !.pc = "planned",
                                  !.row = NewBooking(type, c, u, k, span, total)]
<1>3. span.start \in Days /\ span.end \in Days
  BY TypesAssumption, LastDayAssumption DEF Intervals, Span, Days
<1>4. NewBooking(type, c, u, k, span, total) \in BookingRow
  BY <1>3 DEF NewBooking, BookingRow, PaymentStatus
<1>5. r \in Request /\ RequestOK(r)
  BY <1>2, <1>4 DEF Begin, NoRequest, Request, RequestOK, ActiveSubscription, Confirmed, Stored
<1>6. work' = [work EXCEPT ![w] = r]
  BY <1>2 DEF Begin
<1> HIDE DEF r
<1> QED
  BY <1>5, <1>6, WorkOnly DEF CreateCheck

LEMMA CancelLoadType ==
  ASSUME WellFormed, NEW w \in Workers, CancelLoad(w)
  PROVE  WellFormed'
<1>1. PICK b \in Bookings :
        /\ Confirmed(b)
        /\ Begin(w, [NoRequest EXCEPT !.op = "cancel", !.pc = "loaded", !.b = b])
  BY DEF CancelLoad
<1> DEFINE r == [NoRequest EXCEPT !.op = "cancel", !.pc = "loaded", !.b = b]
<1>3. r \in Request /\ RequestOK(r)
  BY <1>1 DEF Begin, NoRequest, Request, RequestOK, ActiveSubscription, Confirmed, Stored
<1>4. work' = [work EXCEPT ![w] = r]
  BY <1>1 DEF Begin
<1> HIDE DEF r
<1> QED
  BY <1>3, <1>4, WorkOnly DEF CancelLoad

LEMMA SettlePaymentLoadType ==
  ASSUME WellFormed, NEW w \in Workers, SettlePaymentLoad(w)
  PROVE  WellFormed'
<1>1. PICK b \in Stored, amount \in Amounts :
        Begin(w, [NoRequest EXCEPT !.op = "settlePayment", !.pc = "loaded", !.b = b, !.amount = amount])
  BY DEF SettlePaymentLoad
<1> DEFINE r == [NoRequest EXCEPT !.op = "settlePayment", !.pc = "loaded", !.b = b, !.amount = amount]
<1>2. b \in Bookings /\ amount \in Nat
  BY MoneyAssumption DEF Stored
<1>3. r \in Request /\ RequestOK(r)
  BY <1>1, <1>2 DEF Begin, NoRequest, Request, RequestOK, ActiveSubscription, Confirmed, Stored
<1>4. work' = [work EXCEPT ![w] = r]
  BY <1>1 DEF Begin
<1> HIDE DEF r
<1> QED
  BY <1>3, <1>4, WorkOnly DEF SettlePaymentLoad

LEMMA SuspendLoadType ==
  ASSUME WellFormed, NEW w \in Workers, SuspendLoad(w)
  PROVE  WellFormed'
<1>1. PICK b \in Bookings, from \in Days, to \in Days \cup {None}, refund \in Amounts :
        /\ ActiveSubscription(b)
        /\ Begin(w, [NoRequest EXCEPT !.op = "suspend", !.pc = "loaded", !.b = b, !.from = from, !.to = to, !.amount = refund])
  BY DEF SuspendLoad
<1> DEFINE r == [NoRequest EXCEPT !.op = "suspend", !.pc = "loaded", !.b = b, !.from = from, !.to = to, !.amount = refund]
<1>2. refund \in Nat
  BY MoneyAssumption
<1>3. r \in Request /\ RequestOK(r)
  BY <1>1, <1>2 DEF Begin, NoRequest, Request, RequestOK, ActiveSubscription, Confirmed, Stored
<1>4. work' = [work EXCEPT ![w] = r]
  BY <1>1 DEF Begin
<1> HIDE DEF r
<1> QED
  BY <1>3, <1>4, WorkOnly DEF SuspendLoad

LEMMA ReactivateLoadType ==
  ASSUME WellFormed, NEW w \in Workers, ReactivateLoad(w)
  PROVE  WellFormed'
<1>1. PICK s \in suspension, return \in Days, refund \in Amounts :
        /\ ActiveSubscription(s.b)
        /\ s.start < return
        /\ Begin(w, [NoRequest EXCEPT !.op = "reactivate", !.pc = "loaded", !.b = s.b, !.from = return, !.to = booking[s.b].end, !.amount = refund, !.ref = s.id])
  BY DEF ReactivateLoad
<1> DEFINE r == [NoRequest EXCEPT !.op = "reactivate", !.pc = "loaded", !.b = s.b, !.from = return, !.to = booking[s.b].end, !.amount = refund, !.ref = s.id]
<1>2. /\ s.b \in Bookings /\ s.id \in Nat /\ refund \in Nat
      /\ return \in 2 .. LastDay /\ booking[s.b].end \in Days
  <2>1. s \in SuspensionRow
    BY DEF WellFormed, TypeOK
  <2>2. booking[s.b] \in BookingRow
    BY <1>1, BookingIsRow DEF WellFormed, ActiveSubscription, Confirmed, Stored
  <2> QED
    BY <1>1, <2>1, <2>2, MoneyAssumption, LastDayAssumption
       DEF SuspensionRow, SuspensionIds, BookingRow, Days
<1>3. r \in Request /\ RequestOK(r)
  BY <1>1, <1>2 DEF Begin, NoRequest, Request, RequestOK, ActiveSubscription, Confirmed, Stored
<1>4. work' = [work EXCEPT ![w] = r]
  BY <1>1 DEF Begin
<1> HIDE DEF r
<1> QED
  BY <1>3, <1>4, WorkOnly DEF ReactivateLoad

LEMMA TerminateLoadType ==
  ASSUME WellFormed, NEW w \in Workers, TerminateLoad(w)
  PROVE  WellFormed'
<1>1. PICK b \in Bookings, effective \in Days, refund \in Amounts :
        /\ ActiveSubscription(b)
        /\ booking[b].start < effective
        /\ Begin(w, [NoRequest EXCEPT !.op = "terminate", !.pc = "loaded", !.b = b, !.from = effective, !.amount = refund])
  BY DEF TerminateLoad
<1> DEFINE r == [NoRequest EXCEPT !.op = "terminate", !.pc = "loaded", !.b = b, !.from = effective, !.amount = refund]
<1>2. refund \in Nat /\ effective \in 2 .. LastDay
  <2>1. booking[b] \in BookingRow
    BY <1>1, BookingIsRow DEF WellFormed, ActiveSubscription, Confirmed, Stored
  <2> QED
    BY <1>1, <2>1, MoneyAssumption, LastDayAssumption DEF BookingRow, Days
<1>3. r \in Request /\ RequestOK(r)
  BY <1>1, <1>2 DEF Begin, NoRequest, Request, RequestOK, ActiveSubscription, Confirmed, Stored
<1>4. work' = [work EXCEPT ![w] = r]
  BY <1>1 DEF Begin
<1> HIDE DEF r
<1> QED
  BY <1>3, <1>4, WorkOnly DEF TerminateLoad

LEMMA TransferLoadType ==
  ASSUME WellFormed, NEW w \in Workers, TransferLoad(w)
  PROVE  WellFormed'
<1>1. PICK b \in Bookings, new \in Customers, back \in Amounts, paid \in Amounts :
        /\ ActiveSubscription(b)
        /\ CessionOk(booking[b].collected, booking[b].total, back, paid)
        /\ Begin(w, [NoRequest EXCEPT !.op = "transfer", !.pc = "loaded", !.b = b, !.amount = NewCollected(booking[b].collected, back, paid), !.who = new, !.row = booking[b]])
  BY DEF TransferLoad
<1> DEFINE r == [NoRequest EXCEPT !.op = "transfer", !.pc = "loaded", !.b = b, !.amount = NewCollected(booking[b].collected, back, paid), !.who = new, !.row = booking[b]]
<1>2. booking[b] \in BookingRow
  BY <1>1, BookingIsRow DEF WellFormed, ActiveSubscription, Confirmed, Stored
<1>5. NewCollected(booking[b].collected, back, paid) \in Nat
  BY <1>1, <1>2, MoneyAssumption DEF BookingRow, CessionOk, NewCollected
<1>3. r \in Request /\ RequestOK(r)
  BY <1>1, <1>2, <1>5 DEF Begin, NoRequest, Request, RequestOK, ActiveSubscription, Confirmed, Stored
<1>4. work' = [work EXCEPT ![w] = r]
  BY <1>1 DEF Begin
<1> HIDE DEF r
<1> QED
  BY <1>3, <1>4, WorkOnly DEF TransferLoad

LEMMA SetAbsenceConsentLoadType ==
  ASSUME WellFormed, NEW w \in Workers, SetAbsenceConsentLoad(w)
  PROVE  WellFormed'
<1>1. PICK b \in Bookings, consent \in BOOLEAN :
        /\ ActiveSubscription(b)
        /\ Begin(w, [NoRequest EXCEPT !.op = "setAbsenceConsent", !.pc = "loaded", !.b = b, !.flag = consent])
  BY DEF SetAbsenceConsentLoad
<1> DEFINE r == [NoRequest EXCEPT !.op = "setAbsenceConsent", !.pc = "loaded", !.b = b, !.flag = consent]
<1>3. r \in Request /\ RequestOK(r)
  BY <1>1 DEF Begin, NoRequest, Request, RequestOK, ActiveSubscription, Confirmed, Stored
<1>4. work' = [work EXCEPT ![w] = r]
  BY <1>1 DEF Begin
<1> HIDE DEF r
<1> QED
  BY <1>3, <1>4, WorkOnly DEF SetAbsenceConsentLoad

LEMMA ReleaseAbsenceLoadType ==
  ASSUME WellFormed, NEW w \in Workers, ReleaseAbsenceLoad(w)
  PROVE  WellFormed'
<1>1. PICK b \in Bookings, date \in Days :
        /\ ActiveSubscription(b)
        /\ Begin(w, [NoRequest EXCEPT !.op = "releaseAbsence", !.pc = "loaded", !.b = b, !.from = date, !.to = date])
  BY DEF ReleaseAbsenceLoad
<1> DEFINE r == [NoRequest EXCEPT !.op = "releaseAbsence", !.pc = "loaded", !.b = b, !.from = date, !.to = date]
<1>3. r \in Request /\ RequestOK(r)
  BY <1>1 DEF Begin, NoRequest, Request, RequestOK, ActiveSubscription, Confirmed, Stored
<1>4. work' = [work EXCEPT ![w] = r]
  BY <1>1 DEF Begin
<1> HIDE DEF r
<1> QED
  BY <1>3, <1>4, WorkOnly DEF ReleaseAbsenceLoad

LEMMA CancelAbsenceReleaseLoadType ==
  ASSUME WellFormed, NEW w \in Workers, CancelAbsenceReleaseLoad(w)
  PROVE  WellFormed'
<1>1. PICK x \in release :
        /\ ActiveSubscription(x.b)
        /\ Begin(w, [NoRequest EXCEPT !.op = "cancelAbsenceRelease", !.pc = "loaded", !.b = x.b, !.from = x.date, !.to = x.date, !.ref = x.id])
  BY DEF CancelAbsenceReleaseLoad
<1> DEFINE r == [NoRequest EXCEPT !.op = "cancelAbsenceRelease", !.pc = "loaded", !.b = x.b, !.from = x.date, !.to = x.date, !.ref = x.id]
<1>2. x.b \in Bookings /\ x.date \in Days /\ x.id \in Nat
  BY DEF WellFormed, TypeOK, ReleaseRow, ReleaseIds
<1>3. r \in Request /\ RequestOK(r)
  BY <1>1, <1>2 DEF Begin, NoRequest, Request, RequestOK, ActiveSubscription, Confirmed, Stored
<1>4. work' = [work EXCEPT ![w] = r]
  BY <1>1 DEF Begin
<1> HIDE DEF r
<1> QED
  BY <1>3, <1>4, WorkOnly DEF CancelAbsenceReleaseLoad

-----------------------------------------------------------------------------
LEMMA PlanType ==
  ASSUME WellFormed, NEW w \in Workers, work[w] # NoRequest,
         NEW fragments \in SUBSET CoverageRow, Plan(w, fragments),
         UNCHANGED <<today, booking, coverage, suspension, release, transfer>>
  PROVE  WellFormed'
<1> DEFINE r == [work[w] EXCEPT !.pc = "planned", !.plan = fragments]
<1>1. work[w] \in Request /\ RequestOK(work[w])
  BY DEF WellFormed, TypeOK
<1>2. r \in Request /\ RequestOK(r)
  BY <1>1 DEF Request, RequestOK
<1>3. work' = [work EXCEPT ![w] = r]
  BY DEF Plan, WellFormed, TypeOK
<1> HIDE DEF r
<1> QED
  BY <1>2, <1>3, WorkOnly

LEMMA InService ==
  ASSUME NEW w, NEW op, op # "none", Loaded(w, op) \/ Planned(w, op)
  PROVE  work[w] # NoRequest
  BY DEF Loaded, Planned, NoRequest

LEMMA CarvedType ==
  ASSUME WellFormed, NEW b, NEW from, NEW to
  PROVE  /\ Carved(OwnRows(b), from, to) \in SUBSET CoverageRow
         /\ Carved(OwnCoverage(b), from, to) \in SUBSET CoverageRow
  BY DEF WellFormed, TypeOK, Carved, OwnRows, OwnCoverage

LEMMA ReadType ==
  ASSUME WellFormed, NEW w \in Workers,
         \/ SuspendRead(w) \/ ReactivateCheck(w) \/ TerminateRead(w)
         \/ ReleaseAbsenceRead(w) \/ CancelAbsenceReleaseCheck(w)
  PROVE  WellFormed'
<1>1. CASE SuspendRead(w)
  BY <1>1, InService, CarvedType, PlanType DEF SuspendRead
<1>2. CASE ReactivateCheck(w)
  BY <1>2, InService, PlanType DEF ReactivateCheck, NotResold
<1>3. CASE TerminateRead(w)
  BY <1>3, InService, CarvedType, PlanType DEF TerminateRead
<1>4. CASE ReleaseAbsenceRead(w)
  BY <1>4, InService, CarvedType, PlanType DEF ReleaseAbsenceRead
<1>5. CASE CancelAbsenceReleaseCheck(w)
  BY <1>5, InService, PlanType DEF CancelAbsenceReleaseCheck, NotResold
<1> QED
  BY <1>1, <1>2, <1>3, <1>4, <1>5

-----------------------------------------------------------------------------
(* What remains of a fragment lies inside it, in a valid range.            *)
LEMMA RemainderType ==
  ASSUME NEW f \in CoverageRow, NEW from \in Days, NEW to \in Days \cup {None}
  PROVE  /\ f.start \in Days /\ f.end \in Days
         /\ HasHead(f, from) => from - 1 \in Days
         /\ HasTail(f, to) => to + 1 \in Days
<1>1. f.start \in Days /\ f.end \in Days
  BY DEF CoverageRow
<1> QED
  BY <1>1, LastDayAssumption DEF HasHead, HasTail, Days, None

LEMMA KeptRowType ==
  ASSUME NEW c \in CoverageRow, NEW f \in CoverageRow, NEW from \in Days,
         NEW to \in Days \cup {None}, Survives(f, from, to)
  PROVE  KeptRow(c, f, from, to) \in CoverageRow
<1>1. CASE HasHead(f, from)
  <2>1. f.start \in Days /\ from - 1 \in Days
    BY <1>1, RemainderType
  <2>2. KeptRow(c, f, from, to) = [c EXCEPT !.start = f.start, !.end = from - 1]
    BY <1>1 DEF KeptRow
  <2> QED
    BY <2>1, <2>2 DEF CoverageRow
<1>2. CASE ~ HasHead(f, from)
  <2>1. f.end \in Days /\ to + 1 \in Days
    BY <1>2, RemainderType DEF Survives
  <2>2. KeptRow(c, f, from, to) = [c EXCEPT !.start = to + 1, !.end = f.end]
    BY <1>2 DEF KeptRow
  <2> QED
    BY <2>1, <2>2 DEF CoverageRow
<1> QED
  BY <1>1, <1>2

LEMMA ExtraRowType ==
  ASSUME NEW f \in CoverageRow, NEW from \in Days, NEW to \in Days \cup {None},
         NEW id \in CoverageIds, Splits(f, from, to)
  PROVE  ExtraRow(f, from, to, id) \in CoverageRow
<1>1. to + 1 \in Days
  BY RemainderType DEF Splits
<1> QED
  BY <1>1 DEF ExtraRow, CoverageRow

LEMMA CarveType ==
  ASSUME NEW rows \in SUBSET CoverageRow, NEW plan \in SUBSET CoverageRow,
         NEW from \in Days, NEW to \in Days \cup {None}, NEW id \in CoverageIds
  PROVE  applyCarve(rows, plan, from, to, id) \in SUBSET CoverageRow
<1> SUFFICES ASSUME NEW x \in applyCarve(rows, plan, from, to, id)
             PROVE  x \in CoverageRow
  OBVIOUS
<1>1. CASE x \in rows
  BY <1>1
<1>2. ASSUME NEW c \in rows, NEW f \in plan, Survives(f, from, to),
             x = KeptRow(c, f, from, to)
      PROVE  x \in CoverageRow
  BY <1>2, KeptRowType
<1>3. ASSUME NEW f \in plan, Splits(f, from, to), x = ExtraRow(f, from, to, id)
      PROVE  x \in CoverageRow
  BY <1>3, ExtraRowType
<1> QED
  BY <1>1, <1>2, <1>3 DEF applyCarve, Untouched, KeptRows, ExtraRows

LEMMA WriteCarveType ==
  ASSUME WellFormed, NEW w \in Workers, WriteCarve(w), work[w].from \in Days,
         work[w] # NoRequest
  PROVE  coverage' \in SUBSET CoverageRow
<1>1. work[w] \in Request
  BY DEF WellFormed, TypeOK
<1>2. PICK id \in CoverageIds :
        coverage' = applyCarve(coverage, work[w].plan, work[w].from, work[w].to, id)
  BY DEF WriteCarve, FreshCoverage, Least
<1> QED
  BY <1>1, <1>2, CarveType DEF Request, WellFormed, TypeOK

LEMMA InsertCoverageType ==
  ASSUME WellFormed, NEW b \in Bookings, NEW row \in BookingRow,
         NEW from \in Days, NEW to \in Days, InsertCoverage(b, row, from, to)
  PROVE  coverage' \in SUBSET CoverageRow
<1>1. PICK id \in CoverageIds :
        coverage' = coverage \cup { NewCoverage(id, b, row, from, to) }
  BY DEF InsertCoverage, FreshCoverage, Least
<1>2. NewCoverage(id, b, row, from, to) \in CoverageRow
  BY DEF NewCoverage, CoverageRow, BookingRow
<1> QED
  BY <1>1, <1>2 DEF WellFormed, TypeOK

LEMMA FinishType ==
  ASSUME WellFormed, NEW w \in Workers, Finish(w), Stored \subseteq Stored'
  PROVE  /\ work' \in [Workers -> Request \cup {NoRequest}]
         /\ \A v \in Workers : work'[v] # NoRequest => RequestOK(work[v])'
<1>1. \A v \in Workers : work'[v] \in {work[v], NoRequest}
  BY DEF WellFormed, TypeOK, Finish
<1> QED
  BY <1>1 DEF WellFormed, TypeOK, Finish, RequestOK

LEMMA BookingUpdate ==
  ASSUME WellFormed, NEW b \in Stored, NEW row \in BookingRow,
         booking' = [booking EXCEPT ![b] = row]
  PROVE  /\ booking' \in [Bookings -> BookingRow \cup {NoBooking}]
         /\ Stored' = Stored
<1>1. b \in Bookings /\ row.status # "none"
  BY DEF Stored, BookingRow
<1> QED
  BY <1>1 DEF WellFormed, TypeOK, Stored

(* A request between its steps, and the booking it is about.               *)
LEMMA ServedRequest ==
  ASSUME WellFormed, NEW w \in Workers, work[w] # NoRequest
  PROVE  /\ work[w] \in Request /\ RequestOK(work[w])
         /\ work[w].op # "create" => /\ work[w].b \in Stored /\ work[w].b \in Bookings
                                     /\ booking[work[w].b] \in BookingRow
<1>1. work[w] \in Request /\ RequestOK(work[w])
  BY DEF WellFormed, TypeOK
<1>2. work[w].op # "create" => work[w].b \in Bookings /\ work[w].b \in Stored
  BY <1>1 DEF RequestOK, Stored
<1> QED
  BY <1>1, <1>2, BookingIsRow DEF WellFormed, Stored

LEMMA CreateWriteType ==
  ASSUME WellFormed, NEW w \in Workers, CreateWrite(w)
  PROVE  WellFormed'
<1>1. work[w] # NoRequest /\ work[w].op = "create"
  BY DEF CreateWrite, Planned, NoRequest
<1>2. work[w].row \in BookingRow
  BY <1>1, ServedRequest DEF RequestOK
<1>3. PICK b \in Bookings :
        /\ booking' = [booking EXCEPT ![b] = work[w].row]
        /\ InsertCoverage(b, work[w].row, work[w].row.start, work[w].row.end)
  BY DEF CreateWrite, FreshBooking, Least
<1>4. coverage' \in SUBSET CoverageRow
  BY <1>2, <1>3, InsertCoverageType DEF BookingRow
<1>5. /\ booking' \in [Bookings -> BookingRow \cup {NoBooking}]
      /\ Stored \subseteq Stored'
  BY <1>2, <1>3 DEF WellFormed, TypeOK, Stored, BookingRow
<1> QED
  BY <1>4, <1>5, FinishType DEF CreateWrite, WellFormed, TypeOK

LEMMA CancelWriteType ==
  ASSUME WellFormed, NEW w \in Workers, CancelWrite(w)
  PROVE  WellFormed'
<1> DEFINE b == work[w].b
           row == [booking[b] EXCEPT !.status = "cancelled"]
<1>1. b \in Stored /\ b \in Bookings /\ booking[b] \in BookingRow
  BY ServedRequest DEF CancelWrite, Loaded, NoRequest
<1>2. row \in BookingRow
  BY <1>1 DEF BookingRow
<1>3. booking' = [booking EXCEPT ![b] = row]
  BY <1>1 DEF CancelWrite, WellFormed, TypeOK
<1>4. coverage' \in SUBSET CoverageRow
  BY DEF CancelWrite, WellFormed, TypeOK, CoverageRow
<1> HIDE DEF b, row
<1>5. booking' \in [Bookings -> BookingRow \cup {NoBooking}] /\ Stored' = Stored
  BY <1>1, <1>2, <1>3, BookingUpdate
<1> QED
  BY <1>4, <1>5, FinishType DEF CancelWrite, WellFormed, TypeOK

LEMMA ResolvedType ==
  ASSUME NEW amount, NEW total
  PROVE  /\ ResolvedStatus(amount, total) \in PaymentStatus
         /\ CessionStatus(amount, total) \in PaymentStatus
  BY DEF ResolvedStatus, CessionStatus, PaymentStatus

LEMMA SettlePaymentWriteType ==
  ASSUME WellFormed, NEW w \in Workers, SettlePaymentWrite(w)
  PROVE  WellFormed'
<1> DEFINE b == work[w].b
           status == ResolvedStatus(work[w].amount, booking[b].total)
           row == [booking[b] EXCEPT !.collected = work[w].amount, !.payment = status]
<1>1. /\ b \in Stored /\ b \in Bookings /\ booking[b] \in BookingRow
      /\ work[w].amount \in Nat
  BY ServedRequest DEF SettlePaymentWrite, Loaded, NoRequest, Request
<1>2. status \in PaymentStatus
  BY ResolvedType
<1>3. booking' = [booking EXCEPT ![b] = row]
  BY <1>1 DEF SettlePaymentWrite, WellFormed, TypeOK
<1> HIDE DEF b, status
<1>4. row \in BookingRow
  BY <1>1, <1>2 DEF BookingRow
<1> HIDE DEF row
<1>5. booking' \in [Bookings -> BookingRow \cup {NoBooking}] /\ Stored' = Stored
  BY <1>1, <1>3, <1>4, BookingUpdate
<1> QED
  BY <1>5, FinishType DEF SettlePaymentWrite, WellFormed, TypeOK

LEMMA SetAbsenceConsentWriteType ==
  ASSUME WellFormed, NEW w \in Workers, SetAbsenceConsentWrite(w)
  PROVE  WellFormed'
<1> DEFINE b == work[w].b
           row == [booking[b] EXCEPT !.consent = work[w].flag]
<1>1. /\ b \in Stored /\ b \in Bookings /\ booking[b] \in BookingRow
      /\ work[w].flag \in BOOLEAN
  BY ServedRequest DEF SetAbsenceConsentWrite, Loaded, NoRequest, Request
<1>2. booking' = [booking EXCEPT ![b] = row]
  BY <1>1 DEF SetAbsenceConsentWrite, WellFormed, TypeOK
<1>3. row \in BookingRow
  BY <1>1 DEF BookingRow
<1> HIDE DEF b, row
<1>4. booking' \in [Bookings -> BookingRow \cup {NoBooking}] /\ Stored' = Stored
  BY <1>1, <1>2, <1>3, BookingUpdate
<1> QED
  BY <1>4, FinishType DEF SetAbsenceConsentWrite, WellFormed, TypeOK

LEMMA AddRefundType ==
  ASSUME WellFormed, NEW b \in Stored, NEW amount \in Nat, AddRefund(b, amount)
  PROVE  booking' \in [Bookings -> BookingRow \cup {NoBooking}] /\ Stored' = Stored
<1> DEFINE row == [booking[b] EXCEPT !.refunded = @ + amount]
<1>1. b \in Bookings /\ booking[b] \in BookingRow
  BY BookingIsRow DEF WellFormed, Stored
<1>2. booking' = [booking EXCEPT ![b] = row]
  BY <1>1 DEF AddRefund, WellFormed, TypeOK
<1>3. row \in BookingRow
  BY <1>1 DEF BookingRow
<1> HIDE DEF row
<1> QED
  BY <1>2, <1>3, BookingUpdate

LEMMA UnchangedType ==
  ASSUME WellFormed, UNCHANGED booking
  PROVE  booking' \in [Bookings -> BookingRow \cup {NoBooking}] /\ Stored' = Stored
  BY DEF WellFormed, TypeOK, Stored

LEMMA SuspendWriteType ==
  ASSUME WellFormed, NEW w \in Workers, SuspendWrite(w)
  PROVE  WellFormed'
<1> DEFINE r == work[w]
<1>1. /\ r # NoRequest /\ r \in Request /\ r.b \in Stored /\ r.b \in Bookings
      /\ r.from \in Days /\ r.to \in Days \cup {None} /\ r.amount \in Nat
  BY ServedRequest DEF SuspendWrite, Planned, NoRequest, Request, RequestOK
<1>2. coverage' \in SUBSET CoverageRow
  BY <1>1, WriteCarveType DEF SuspendWrite
<1>3. suspension' \in SUBSET SuspensionRow
  <2>1. PICK id \in SuspensionIds :
          suspension' = suspension \cup
            { [id |-> id, b |-> r.b, start |-> r.from, end |-> r.to,
               refunded |-> r.amount] }
    BY DEF SuspendWrite, FreshSuspension, Least
  <2> QED
    BY <1>1, <2>1 DEF SuspensionRow, WellFormed, TypeOK
<1>4. booking' \in [Bookings -> BookingRow \cup {NoBooking}] /\ Stored' = Stored
  BY <1>1, AddRefundType, UnchangedType DEF SuspendWrite
<1> QED
  BY <1>2, <1>3, <1>4, FinishType DEF SuspendWrite, WellFormed, TypeOK

LEMMA ReactivateWriteType ==
  ASSUME WellFormed, NEW w \in Workers, ReactivateWrite(w)
  PROVE  WellFormed'
<1> DEFINE r == work[w]
<1>0. r # NoRequest /\ r.op = "reactivate"
  <2>1. Planned(w, "reactivate")
    BY DEF ReactivateWrite
  <2> QED
    BY <2>1 DEF Planned, NoRequest
<1>1. /\ r \in Request /\ r.b \in Stored /\ r.b \in Bookings
      /\ r.from \in 2 .. LastDay /\ r.to \in Days /\ r.amount \in Nat
      /\ booking[r.b] \in BookingRow
  BY <1>0, ServedRequest DEF Request, RequestOK
<1>2. r.from \in Days /\ r.from - 1 \in Days
  BY <1>1, LastDayAssumption DEF Days
<1>3. coverage' \in SUBSET CoverageRow
  BY <1>1, <1>2, InsertCoverageType DEF ReactivateWrite
<1>4. suspension' \in SUBSET SuspensionRow
  <2>1. \A s \in suspension :
          [s EXCEPT !.end = r.from - 1, !.refunded = r.amount] \in SuspensionRow
    BY <1>1, <1>2 DEF SuspensionRow, WellFormed, TypeOK
  <2> QED
    BY <2>1 DEF ReactivateWrite, WellFormed, TypeOK
<1>5. booking' \in [Bookings -> BookingRow \cup {NoBooking}] /\ Stored' = Stored
  BY <1>1, AddRefundType, UnchangedType DEF ReactivateWrite
<1> QED
  BY <1>3, <1>4, <1>5, FinishType DEF ReactivateWrite, WellFormed, TypeOK

LEMMA TerminateWriteType ==
  ASSUME WellFormed, NEW w \in Workers, TerminateWrite(w)
  PROVE  WellFormed'
<1> DEFINE r == work[w]
           row == [booking[r.b] EXCEPT !.end = r.from - 1, !.terminated = TRUE,
                                       !.refunded = @ + r.amount]
<1>1. /\ r # NoRequest /\ r.b \in Stored /\ r.b \in Bookings
      /\ r.from \in 2 .. LastDay /\ r.amount \in Nat
      /\ booking[r.b] \in BookingRow
  BY ServedRequest DEF TerminateWrite, Planned, NoRequest, Request, RequestOK
<1>2. r.from \in Days /\ r.from - 1 \in Days
  BY <1>1, LastDayAssumption DEF Days
<1>3. coverage' \in SUBSET CoverageRow
  BY <1>1, <1>2, WriteCarveType DEF TerminateWrite
<1>4. row \in BookingRow
  <2>1. booking[r.b].refunded + r.amount \in Nat
    BY <1>1 DEF BookingRow
  <2> QED
    BY <1>1, <1>2, <2>1 DEF BookingRow
<1>5. booking' = [booking EXCEPT ![r.b] = row]
  BY <1>1 DEF TerminateWrite, WellFormed, TypeOK
<1> HIDE DEF row
<1>6. booking' \in [Bookings -> BookingRow \cup {NoBooking}] /\ Stored' = Stored
  BY <1>1, <1>4, <1>5, BookingUpdate
<1> QED
  BY <1>3, <1>6, FinishType DEF TerminateWrite, WellFormed, TypeOK

LEMMA TransferWriteType ==
  ASSUME WellFormed, NEW w \in Workers, TransferWrite(w)
  PROVE  WellFormed'
<1> DEFINE r == work[w]
           link == [previous |-> r.row.customer, new |-> r.who]
           status == CessionStatus(r.amount, r.row.total)
           row == [booking[r.b] EXCEPT !.customer = r.who, !.collected = r.amount,
                                       !.payment = status]
<1>1. /\ r # NoRequest /\ r.b \in Stored /\ r.b \in Bookings
      /\ r.row \in BookingRow /\ r.who \in Customers /\ r.amount \in Nat
      /\ booking[r.b] \in BookingRow
  BY ServedRequest DEF TransferWrite, Loaded, NoRequest, Request, RequestOK
<1>2. link \in TransferRow
  BY <1>1 DEF TransferRow, BookingRow
<1>3. transfer' \in [Bookings -> Seq(TransferRow)]
  BY <1>1, <1>2 DEF TransferWrite, WellFormed, TypeOK
<1>4. status \in PaymentStatus
  BY ResolvedType
<1>5. booking' = [booking EXCEPT ![r.b] = row]
  BY <1>1 DEF TransferWrite, WellFormed, TypeOK
<1> HIDE DEF status
<1>6. row \in BookingRow
  BY <1>1, <1>4 DEF BookingRow
<1> HIDE DEF row
<1>7. booking' \in [Bookings -> BookingRow \cup {NoBooking}] /\ Stored' = Stored
  BY <1>1, <1>5, <1>6, BookingUpdate
<1> QED
  BY <1>3, <1>7, FinishType DEF TransferWrite, WellFormed, TypeOK

LEMMA ReleaseAbsenceWriteType ==
  ASSUME WellFormed, NEW w \in Workers, ReleaseAbsenceWrite(w)
  PROVE  WellFormed'
<1> DEFINE r == work[w]
<1>1. /\ r # NoRequest /\ r.b \in Stored /\ r.b \in Bookings /\ r.from \in Days
  BY ServedRequest DEF ReleaseAbsenceWrite, Planned, NoRequest, Request, RequestOK
<1>2. coverage' \in SUBSET CoverageRow
  BY <1>1, WriteCarveType DEF ReleaseAbsenceWrite
<1>3. release' \in SUBSET ReleaseRow
  <2>1. PICK id \in ReleaseIds :
          release' = release \cup
            { [id |-> id, b |-> r.b, date |-> r.from, canceled |-> FALSE] }
    BY DEF ReleaseAbsenceWrite, FreshRelease, Least
  <2>2. [id |-> id, b |-> r.b, date |-> r.from, canceled |-> FALSE] \in ReleaseRow
    BY <1>1 DEF ReleaseRow
  <2> QED
    BY <2>1, <2>2 DEF WellFormed, TypeOK
<1>4. booking' \in [Bookings -> BookingRow \cup {NoBooking}] /\ Stored' = Stored
  BY UnchangedType DEF ReleaseAbsenceWrite
<1> QED
  BY <1>2, <1>3, <1>4, FinishType DEF ReleaseAbsenceWrite, WellFormed, TypeOK

LEMMA CancelAbsenceReleaseWriteType ==
  ASSUME WellFormed, NEW w \in Workers, CancelAbsenceReleaseWrite(w)
  PROVE  WellFormed'
<1> DEFINE r == work[w]
<1>1. /\ r # NoRequest /\ r.b \in Stored /\ r.b \in Bookings
      /\ r.from \in Days /\ r.to \in Days /\ booking[r.b] \in BookingRow
  BY ServedRequest DEF CancelAbsenceReleaseWrite, Planned, NoRequest, Request, RequestOK
<1>2. coverage' \in SUBSET CoverageRow
  BY <1>1, InsertCoverageType DEF CancelAbsenceReleaseWrite
<1>3. release' \in SUBSET ReleaseRow
  BY DEF CancelAbsenceReleaseWrite, WellFormed, TypeOK, ReleaseRow
<1>4. booking' \in [Bookings -> BookingRow \cup {NoBooking}] /\ Stored' = Stored
  BY UnchangedType DEF CancelAbsenceReleaseWrite
<1> QED
  BY <1>2, <1>3, <1>4, FinishType DEF CancelAbsenceReleaseWrite, WellFormed, TypeOK

LEMMA AbortType ==
  ASSUME WellFormed, NEW w \in Workers, Abort(w)
  PROVE  WellFormed'
<1>1. booking' \in [Bookings -> BookingRow \cup {NoBooking}] /\ Stored' = Stored
  BY UnchangedType DEF Abort
<1> QED
  BY <1>1, FinishType DEF Abort, WellFormed, TypeOK

LEMMA QuietType ==
  ASSUME WellFormed, AdvanceDay \/ UNCHANGED vars
  PROVE  WellFormed'
<1>1. today' \in Days
  BY LastDayAssumption DEF AdvanceDay, vars, WellFormed, TypeOK, Days
<1>2. Stored' = Stored
  BY DEF AdvanceDay, vars, Stored
<1> QED
  BY <1>1, <1>2 DEF AdvanceDay, vars, WellFormed, TypeOK, RequestOK

-----------------------------------------------------------------------------
LEMMA InitType == Init => WellFormed
  BY LastDayAssumption DEF Init, WellFormed, TypeOK, Days

LEMMA StepType == WellFormed /\ [Next]_vars => WellFormed'
<1> SUFFICES ASSUME WellFormed, [Next]_vars PROVE WellFormed'
  OBVIOUS
<1>1. CASE AdvanceDay \/ UNCHANGED vars
  BY <1>1, QuietType
<1>2. ASSUME NEW w \in Workers,
             \/ CreateCheck(w) \/ CancelLoad(w) \/ SettlePaymentLoad(w)
             \/ SuspendLoad(w) \/ ReactivateLoad(w) \/ TerminateLoad(w)
             \/ TransferLoad(w) \/ SetAbsenceConsentLoad(w)
             \/ ReleaseAbsenceLoad(w) \/ CancelAbsenceReleaseLoad(w)
      PROVE  WellFormed'
  BY <1>2, CreateCheckType, CancelLoadType, SettlePaymentLoadType, SuspendLoadType,
     ReactivateLoadType, TerminateLoadType, TransferLoadType,
     SetAbsenceConsentLoadType, ReleaseAbsenceLoadType, CancelAbsenceReleaseLoadType
<1>3. ASSUME NEW w \in Workers,
             \/ SuspendRead(w) \/ ReactivateCheck(w) \/ TerminateRead(w)
             \/ ReleaseAbsenceRead(w) \/ CancelAbsenceReleaseCheck(w)
      PROVE  WellFormed'
  BY <1>3, ReadType
<1>4. ASSUME NEW w \in Workers,
             \/ CreateWrite(w) \/ CancelWrite(w) \/ SettlePaymentWrite(w)
             \/ SuspendWrite(w) \/ ReactivateWrite(w) \/ TerminateWrite(w)
             \/ TransferWrite(w) \/ SetAbsenceConsentWrite(w)
             \/ ReleaseAbsenceWrite(w) \/ CancelAbsenceReleaseWrite(w) \/ Abort(w)
      PROVE  WellFormed'
  BY <1>4, CreateWriteType, CancelWriteType, SettlePaymentWriteType,
     SuspendWriteType, ReactivateWriteType, TerminateWriteType, TransferWriteType,
     SetAbsenceConsentWriteType, ReleaseAbsenceWriteType,
     CancelAbsenceReleaseWriteType, AbortType
<1> QED
  BY <1>1, <1>2, <1>3, <1>4 DEF Next

(* The rows and the requests keep the shape the service methods give them, *)
(* the parts of it included that TypeOK does not ask for.                  *)
THEOREM WellFormedAlways == Spec => []WellFormed
<1> QED
  BY InitType, StepType, PTL DEF Spec

(* Type correctness: whatever requests overlap, however many workers serve *)
(* them, every table holds rows of its type and dates of the season, and   *)
(* every amount stays a natural number.                                    *)
THEOREM TypeCorrect == Spec => []TypeOK
<1>1. WellFormed => TypeOK
  BY DEF WellFormed
<1> QED
  BY <1>1, WellFormedAlways, PTL

-----------------------------------------------------------------------------
(* Seats. The exclusion constraint compares the umbrella and the minutes   *)
(* stored in the rows of BookingCoverage, and the property the umbrella and*)
(* the time slot of the bookings: the two always agree, also in the rows   *)
(* that a plan read earlier writes back.                                   *)

(* A row, or a fragment of a plan, carries the seat of its booking.        *)
Matches(c) ==
  /\ c.b \in Stored
  /\ c.umbrella = booking[c.b].umbrella
  /\ c.slot = booking[c.b].slot

SeatInv ==
  /\ NoOverlap(coverage)
  /\ \A c \in coverage : Matches(c)
  /\ \A w \in Workers : \A f \in work[w].plan : Matches(f)

-----------------------------------------------------------------------------
(* What a step may do to each table                                        *)

LoadStep(w) ==
  \/ CreateCheck(w) \/ CancelLoad(w) \/ SettlePaymentLoad(w)
  \/ SuspendLoad(w) \/ ReactivateLoad(w) \/ TerminateLoad(w)
  \/ TransferLoad(w) \/ SetAbsenceConsentLoad(w)
  \/ ReleaseAbsenceLoad(w) \/ CancelAbsenceReleaseLoad(w)

ReadStep(w) ==
  \/ SuspendRead(w) \/ ReactivateCheck(w) \/ TerminateRead(w)
  \/ ReleaseAbsenceRead(w) \/ CancelAbsenceReleaseCheck(w)

WriteStep(w) ==
  \/ CreateWrite(w) \/ CancelWrite(w) \/ SettlePaymentWrite(w)
  \/ SuspendWrite(w) \/ ReactivateWrite(w) \/ TerminateWrite(w)
  \/ TransferWrite(w) \/ SetAbsenceConsentWrite(w)
  \/ ReleaseAbsenceWrite(w) \/ CancelAbsenceReleaseWrite(w) \/ Abort(w)

LEMMA StepKinds ==
  ASSUME [Next]_vars
  PROVE  \/ AdvanceDay \/ UNCHANGED vars
         \/ \E w \in Workers : LoadStep(w) \/ ReadStep(w) \/ WriteStep(w)
  BY DEF Next, LoadStep, ReadStep, WriteStep

(* A new request has no plan.                                              *)
LEMMA LoadEffect ==
  ASSUME NEW w \in Workers, LoadStep(w)
  PROVE  /\ UNCHANGED <<today, booking, coverage, suspension, release, transfer>>
         /\ \E r : r.plan = {} /\ work' = [work EXCEPT ![w] = r]
<1>1. UNCHANGED <<today, booking, coverage, suspension, release, transfer>>
  BY DEF LoadStep, CreateCheck, CancelLoad, SettlePaymentLoad, SuspendLoad,
         ReactivateLoad, TerminateLoad, TransferLoad, SetAbsenceConsentLoad,
         ReleaseAbsenceLoad, CancelAbsenceReleaseLoad
<1>2. \E r : r.plan = {} /\ work' = [work EXCEPT ![w] = r]
  <2>1. CASE CreateCheck(w)
    <3>1. PICK row :
            Begin(w, [NoRequest EXCEPT !.op = "create", !.pc = "planned", !.row = row])
      BY <2>1 DEF CreateCheck
    <3> QED
      BY <3>1 DEF Begin, NoRequest
  <2>2. CASE CancelLoad(w)
    BY <2>2 DEF CancelLoad, Begin, NoRequest
  <2>3. CASE SettlePaymentLoad(w)
    <3>1. PICK b \in Stored, amount \in Amounts :
            Begin(w, [NoRequest EXCEPT !.op = "settlePayment", !.pc = "loaded",
                                       !.b = b, !.amount = amount])
      BY <2>3 DEF SettlePaymentLoad
    <3> QED
      BY <3>1 DEF Begin, NoRequest
  <2>4. CASE SuspendLoad(w)
    <3>1. PICK b \in Bookings, from \in Days, to \in Days \cup {None}, refund \in Amounts :
            Begin(w, [NoRequest EXCEPT !.op = "suspend", !.pc = "loaded", !.b = b,
                                       !.from = from, !.to = to, !.amount = refund])
      BY <2>4 DEF SuspendLoad
    <3> QED
      BY <3>1 DEF Begin, NoRequest
  <2>5. CASE ReactivateLoad(w)
    <3>1. PICK s \in suspension, return \in Days, refund \in Amounts :
            Begin(w, [NoRequest EXCEPT !.op = "reactivate", !.pc = "loaded", !.b = s.b,
                                       !.from = return, !.to = booking[s.b].end,
                                       !.amount = refund, !.ref = s.id])
      BY <2>5 DEF ReactivateLoad
    <3> QED
      BY <3>1 DEF Begin, NoRequest
  <2>6. CASE TerminateLoad(w)
    <3>1. PICK b \in Bookings, effective \in Days, refund \in Amounts :
            Begin(w, [NoRequest EXCEPT !.op = "terminate", !.pc = "loaded", !.b = b,
                                       !.from = effective, !.amount = refund])
      BY <2>6 DEF TerminateLoad
    <3> QED
      BY <3>1 DEF Begin, NoRequest
  <2>7. CASE TransferLoad(w)
    <3>1. PICK b \in Bookings, new \in Customers, back, paid \in Amounts :
            Begin(w, [NoRequest EXCEPT !.op = "transfer", !.pc = "loaded", !.b = b,
                        !.amount = NewCollected(booking[b].collected, back, paid),
                        !.who = new, !.row = booking[b]])
      BY <2>7 DEF TransferLoad
    <3> QED
      BY <3>1 DEF Begin, NoRequest
  <2>8. CASE SetAbsenceConsentLoad(w)
    <3>1. PICK b \in Bookings, consent \in BOOLEAN :
            Begin(w, [NoRequest EXCEPT !.op = "setAbsenceConsent", !.pc = "loaded",
                                       !.b = b, !.flag = consent])
      BY <2>8 DEF SetAbsenceConsentLoad
    <3> QED
      BY <3>1 DEF Begin, NoRequest
  <2>9. CASE ReleaseAbsenceLoad(w)
    <3>1. PICK b \in Bookings, date \in Days :
            Begin(w, [NoRequest EXCEPT !.op = "releaseAbsence", !.pc = "loaded",
                                       !.b = b, !.from = date, !.to = date])
      BY <2>9 DEF ReleaseAbsenceLoad
    <3> QED
      BY <3>1 DEF Begin, NoRequest
  <2>10. CASE CancelAbsenceReleaseLoad(w)
    <3>1. PICK x \in release :
            Begin(w, [NoRequest EXCEPT !.op = "cancelAbsenceRelease", !.pc = "loaded",
                                       !.b = x.b, !.from = x.date, !.to = x.date,
                                       !.ref = x.id])
      BY <2>10 DEF CancelAbsenceReleaseLoad
    <3> QED
      BY <3>1 DEF Begin, NoRequest
  <2> QED
    BY <2>1, <2>2, <2>3, <2>4, <2>5, <2>6, <2>7, <2>8, <2>9, <2>10 DEF LoadStep
<1> QED
  BY <1>1, <1>2

(* A plan holds rows of BookingCoverage as they are when it is made.       *)
LEMMA ReadEffect ==
  ASSUME NEW w \in Workers, ReadStep(w)
  PROVE  /\ UNCHANGED <<today, booking, coverage, suspension, release, transfer>>
         /\ \E fragments \in SUBSET coverage : Plan(w, fragments)
  BY DEF ReadStep, SuspendRead, ReactivateCheck, TerminateRead, ReleaseAbsenceRead,
         CancelAbsenceReleaseCheck, NotResold, Carved, OwnCoverage, OwnRows

(* No step moves a booking to another seat, and none deletes it.           *)
SeatsKept ==
  \A b \in Stored : /\ b \in Stored'
                    /\ booking'[b].umbrella = booking[b].umbrella
                    /\ booking'[b].slot = booking[b].slot

LEMMA WriteKeepsSeats ==
  ASSUME WellFormed, NEW w \in Workers, WriteStep(w)
  PROVE  SeatsKept
<1>1. CASE CreateWrite(w)
  <2>1. PICK b \in Bookings \ Stored : booking' = [booking EXCEPT ![b] = work[w].row]
    BY <1>1 DEF CreateWrite, FreshBooking, Least
  <2> QED
    BY <2>1 DEF SeatsKept, Stored, WellFormed, TypeOK
<1>2. ASSUME ~ CreateWrite(w), work[w] # NoRequest, work[w].op # "create"
      PROVE  SeatsKept
  <2>1. /\ work[w].b \in Stored /\ work[w].b \in Bookings
        /\ booking[work[w].b] \in BookingRow
        /\ booking \in [Bookings -> BookingRow \cup {NoBooking}]
    BY <1>2, ServedRequest DEF WellFormed, TypeOK
  <2>2. CASE CancelWrite(w)
    BY <2>1, <2>2 DEF CancelWrite, SeatsKept, Stored, BookingRow
  <2>3. CASE SettlePaymentWrite(w)
    BY <2>1, <2>3 DEF SettlePaymentWrite, SeatsKept, Stored, BookingRow
  <2>4. CASE TerminateWrite(w)
    BY <2>1, <2>4 DEF TerminateWrite, SeatsKept, Stored, BookingRow
  <2>5. CASE TransferWrite(w)
    BY <2>1, <2>5 DEF TransferWrite, SeatsKept, Stored, BookingRow
  <2>6. CASE SetAbsenceConsentWrite(w)
    BY <2>1, <2>6 DEF SetAbsenceConsentWrite, SeatsKept, Stored, BookingRow
  <2>7. CASE AddRefund(work[w].b, work[w].amount)
    BY <2>1, <2>7 DEF AddRefund, SeatsKept, Stored, BookingRow
  <2>8. CASE UNCHANGED booking
    BY <2>8 DEF SeatsKept, Stored
  <2> QED
    BY <1>2, <2>2, <2>3, <2>4, <2>5, <2>6, <2>7, <2>8
       DEF WriteStep, SuspendWrite, ReactivateWrite, ReleaseAbsenceWrite,
           CancelAbsenceReleaseWrite, Abort
<1>3. CASE Abort(w)
  BY <1>3 DEF Abort, SeatsKept, Stored
<1>4. ASSUME ~ CreateWrite(w), ~ Abort(w)
      PROVE  work[w] # NoRequest /\ work[w].op # "create"
  <2>1. \E op \in Ops \ {"create"} : Loaded(w, op) \/ Planned(w, op)
    BY <1>4 DEF WriteStep, CancelWrite, SettlePaymentWrite, SuspendWrite,
       ReactivateWrite, TerminateWrite, TransferWrite, SetAbsenceConsentWrite,
       ReleaseAbsenceWrite, CancelAbsenceReleaseWrite, Ops
  <2> QED
    BY <2>1 DEF Ops, Loaded, Planned, NoRequest
<1> QED
  BY <1>1, <1>2, <1>3, <1>4

-----------------------------------------------------------------------------
(* What the carve writes carries the seat of a row or of a fragment.       *)
LEMMA CarveSeats ==
  ASSUME NEW rows \in SUBSET CoverageRow, NEW plan \in SUBSET CoverageRow,
         NEW from, NEW to, NEW id,
         NEW x \in applyCarve(rows, plan, from, to, id)
  PROVE  \E y \in rows \cup plan :
            x.b = y.b /\ x.umbrella = y.umbrella /\ x.slot = y.slot
<1>1. CASE x \in rows
  BY <1>1
<1>2. ASSUME NEW c \in rows, NEW f \in plan, x = KeptRow(c, f, from, to)
      PROVE  x.b = c.b /\ x.umbrella = c.umbrella /\ x.slot = c.slot
  BY <1>2 DEF KeptRow, CoverageRow
<1>3. ASSUME NEW f \in plan, x = ExtraRow(f, from, to, id)
      PROVE  x.b = f.b /\ x.umbrella = f.umbrella /\ x.slot = f.slot
  BY <1>3 DEF ExtraRow, CoverageRow
<1> QED
  BY <1>1, <1>2, <1>3 DEF applyCarve, Untouched, KeptRows, ExtraRows

LEMMA MatchesKept ==
  ASSUME SeatsKept, NEW c, Matches(c)
  PROVE  Matches(c)'
  BY DEF SeatsKept, Matches

LEMMA WriteCarveSeats ==
  ASSUME WellFormed, SeatInv, SeatsKept, NEW w \in Workers, work[w] # NoRequest,
         WriteCarve(w)
  PROVE  NoOverlap(coverage') /\ \A c \in coverage' : Matches(c)'
<1>1. work[w].plan \in SUBSET CoverageRow /\ coverage \in SUBSET CoverageRow
  BY ServedRequest DEF Request, WellFormed, TypeOK
<1>2. PICK id : coverage' = applyCarve(coverage, work[w].plan, work[w].from, work[w].to, id)
  BY DEF WriteCarve
<1>3. ASSUME NEW c \in coverage' PROVE Matches(c)'
  <2>1. PICK y \in coverage \cup work[w].plan :
          c.b = y.b /\ c.umbrella = y.umbrella /\ c.slot = y.slot
    BY <1>1, <1>2, CarveSeats
  <2>2. Matches(y)
    BY <2>1 DEF SeatInv
  <2> QED
    BY <2>1, <2>2, MatchesKept DEF Matches
<1> QED
  BY <1>3 DEF WriteCarve, TableAccepts

LEMMA InsertCoverageSeats ==
  ASSUME SeatInv, SeatsKept, NEW b, NEW row, NEW from, NEW to,
         b \in Stored', row.umbrella = booking'[b].umbrella, row.slot = booking'[b].slot,
         InsertCoverage(b, row, from, to)
  PROVE  NoOverlap(coverage') /\ \A c \in coverage' : Matches(c)'
<1>1. PICK id : coverage' = coverage \cup { NewCoverage(id, b, row, from, to) }
  BY DEF InsertCoverage
<1>2. Matches(NewCoverage(id, b, row, from, to))'
  BY DEF Matches, NewCoverage
<1> QED
  BY <1>1, <1>2, MatchesKept DEF InsertCoverage, TableAccepts, SeatInv

LEMMA CancelSeats ==
  ASSUME WellFormed, SeatInv, SeatsKept, NEW w \in Workers, CancelWrite(w)
  PROVE  NoOverlap(coverage') /\ \A c \in coverage' : Matches(c)'
<1>1. ASSUME NEW c \in coverage'
      PROVE  /\ c.status = "confirmed" => c \in coverage
             /\ \E y \in coverage : c.b = y.b /\ c.umbrella = y.umbrella /\ c.slot = y.slot
  <2>1. PICK y \in coverage :
          c = IF y.b = work[w].b THEN [y EXCEPT !.status = "cancelled"] ELSE y
    BY DEF CancelWrite
  <2>2. y \in CoverageRow
    BY DEF WellFormed, TypeOK
  <2> QED
    BY <2>1, <2>2 DEF CoverageRow
<1>2. NoOverlap(coverage')
  BY <1>1 DEF NoOverlap, Collides, SeatInv
<1>3. \A c \in coverage' : Matches(c)'
  BY <1>1, MatchesKept DEF Matches, SeatInv
<1> QED
  BY <1>2, <1>3

LEMMA WriteSeats ==
  ASSUME WellFormed, SeatInv, SeatsKept, NEW w \in Workers, WriteStep(w)
  PROVE  NoOverlap(coverage') /\ \A c \in coverage' : Matches(c)'
<1>1. CASE CreateWrite(w)
  <2>1. PICK b \in Bookings :
          /\ booking' = [booking EXCEPT ![b] = work[w].row]
          /\ InsertCoverage(b, work[w].row, work[w].row.start, work[w].row.end)
    BY <1>1 DEF CreateWrite, FreshBooking, Least
  <2>2. work[w].row \in BookingRow
    BY <1>1, ServedRequest DEF CreateWrite, Planned, NoRequest, RequestOK
  <2>3. booking'[b] = work[w].row /\ b \in Stored'
    BY <2>1, <2>2 DEF WellFormed, TypeOK, Stored, BookingRow
  <2> QED
    BY <2>1, <2>3, InsertCoverageSeats
<1>2. CASE CancelWrite(w)
  BY <1>2, CancelSeats
<1>3. CASE SuspendWrite(w) \/ TerminateWrite(w) \/ ReleaseAbsenceWrite(w)
  <2>1. WriteCarve(w) /\ work[w] # NoRequest
    BY <1>3 DEF SuspendWrite, TerminateWrite, ReleaseAbsenceWrite, Planned, NoRequest
  <2> QED
    BY <2>1, WriteCarveSeats
<1>4. CASE ReactivateWrite(w) \/ CancelAbsenceReleaseWrite(w)
  <2>1. PICK op \in {"reactivate", "cancelAbsenceRelease"} : Planned(w, op)
    BY <1>4 DEF ReactivateWrite, CancelAbsenceReleaseWrite
  <2>2. work[w] # NoRequest /\ work[w].op # "create"
    BY <2>1 DEF Planned, NoRequest
  <2>3. work[w].b \in Stored
    BY <2>2, ServedRequest
  <2>4. InsertCoverage(work[w].b, booking[work[w].b], work[w].from, work[w].to)
    BY <1>4 DEF ReactivateWrite, CancelAbsenceReleaseWrite
  <2> QED
    BY <2>3, <2>4, InsertCoverageSeats DEF SeatsKept
<1>5. CASE UNCHANGED coverage
  BY <1>5, MatchesKept DEF SeatInv
<1> QED
  BY <1>1, <1>2, <1>3, <1>4, <1>5
     DEF WriteStep, SettlePaymentWrite, TransferWrite, SetAbsenceConsentWrite, Abort

LEMMA PlansSeats ==
  ASSUME WellFormed, SeatInv, SeatsKept, NEW w \in Workers,
         NEW r, \A f \in r.plan : Matches(f), work' = [work EXCEPT ![w] = r]
  PROVE  \A v \in Workers : \A f \in work'[v].plan : Matches(f)'
<1>1. \A v \in Workers : work'[v] \in {work[v], r}
  BY DEF WellFormed, TypeOK
<1>2. \A v \in Workers : \A f \in work'[v].plan : Matches(f)
  BY <1>1 DEF SeatInv
<1> QED
  BY <1>2, MatchesKept

LEMMA SeatStep == WellFormed /\ SeatInv /\ [Next]_vars => SeatInv'
<1> SUFFICES ASSUME WellFormed, SeatInv, [Next]_vars PROVE SeatInv'
  OBVIOUS
<1>1. CASE AdvanceDay \/ UNCHANGED vars
  BY <1>1 DEF AdvanceDay, vars, SeatInv, Matches, Stored
<1>2. ASSUME NEW w \in Workers, LoadStep(w) PROVE SeatInv'
  <2>1. SeatsKept
    BY <1>2, LoadEffect DEF SeatsKept, Stored
  <2>2. \A v \in Workers : \A f \in work'[v].plan : Matches(f)'
    BY <1>2, <2>1, LoadEffect, PlansSeats
  <2> QED
    BY <1>2, <2>1, <2>2, LoadEffect, MatchesKept DEF SeatInv
<1>3. ASSUME NEW w \in Workers, ReadStep(w) PROVE SeatInv'
  <2>1. SeatsKept
    BY <1>3, ReadEffect DEF SeatsKept, Stored
  <2>2. PICK fragments \in SUBSET coverage : Plan(w, fragments)
    BY <1>3, ReadEffect
  <2> DEFINE r == [work[w] EXCEPT !.pc = "planned", !.plan = fragments]
  <2>3. work' = [work EXCEPT ![w] = r]
    BY <2>2 DEF Plan, WellFormed, TypeOK
  <2>4. r.plan = fragments
    BY DEF WellFormed, TypeOK, Request, NoRequest
  <2> HIDE DEF r
  <2>5. \A v \in Workers : \A f \in work'[v].plan : Matches(f)'
    BY <2>1, <2>3, <2>4, PlansSeats DEF SeatInv
  <2> QED
    BY <1>3, <2>1, <2>5, ReadEffect, MatchesKept DEF SeatInv
<1>4. ASSUME NEW w \in Workers, WriteStep(w) PROVE SeatInv'
  <2>1. SeatsKept
    BY <1>4, WriteKeepsSeats
  <2>2. NoOverlap(coverage') /\ \A c \in coverage' : Matches(c)'
    BY <1>4, <2>1, WriteSeats
  <2>3. work' = [work EXCEPT ![w] = NoRequest] /\ NoRequest.plan = {}
    BY <1>4 DEF WriteStep, CreateWrite, CancelWrite, SettlePaymentWrite, SuspendWrite,
       ReactivateWrite, TerminateWrite, TransferWrite, SetAbsenceConsentWrite,
       ReleaseAbsenceWrite, CancelAbsenceReleaseWrite, Abort, Finish, NoRequest
  <2>4. \A v \in Workers : \A f \in work'[v].plan : Matches(f)'
    BY <2>1, <2>3, PlansSeats
  <2> QED
    BY <2>2, <2>4 DEF SeatInv
<1> QED
  BY <1>1, <1>2, <1>3, <1>4, StepKinds

LEMMA SeatInit == Init => SeatInv
  BY DEF Init, SeatInv, NoOverlap, NoRequest

LEMMA SeatInvImplies == WellFormed /\ SeatInv => NoDoubleBooking
<1> SUFFICES ASSUME WellFormed, SeatInv, NEW b \in Stored, NEW c \in Stored, b # c,
                    booking[b].umbrella = booking[c].umbrella,
                    slotsOverlap(booking[b].slot, booking[c].slot),
                    NEW d \in Occupied(b), d \in Occupied(c)
             PROVE  FALSE
  BY DEF NoDoubleBooking
<1>1. PICK x \in coverage : x.b = b /\ x.status = "confirmed" /\ d \in DaysOf(x)
  BY DEF Occupied, OwnCoverage, OwnRows
<1>2. PICK y \in coverage : y.b = c /\ y.status = "confirmed" /\ d \in DaysOf(y)
  BY DEF Occupied, OwnCoverage, OwnRows
<1>3. SameSeat(x, y)
  BY <1>1, <1>2 DEF SeatInv, Matches, SameSeat
<1>4. dateRangesOverlap(x.start, x.end, y.start, y.end)
  <2>1. x \in CoverageRow /\ y \in CoverageRow
    BY DEF WellFormed, TypeOK
  <2> QED
    BY <1>1, <1>2, <2>1, LastDayAssumption
       DEF CoverageRow, Days, DaysOf, dateRangesOverlap
<1> QED
  BY <1>1, <1>2, <1>3, <1>4 DEF SeatInv, NoOverlap, Collides

(* No double booking: two bookings of clashing seats never occupy the same *)
(* day, however many requests overlap, with plans of any age.              *)
THEOREM SeatsSoldOnce == Spec => []NoDoubleBooking
<1>1. WellFormed /\ SeatInv /\ [Next]_vars => (WellFormed /\ SeatInv)'
  BY StepType, SeatStep
<1> QED
  BY InitType, SeatInit, <1>1, SeatInvImplies, PTL DEF Spec

-----------------------------------------------------------------------------
(* Payments. settlePayment and transfer write the amount and the status    *)
(* together, from an amount checked against a total that no method changes,*)
(* so that a check made earlier is still good at the write.                *)

Consistent(r) ==
  /\ r.collected <= r.total
  /\ r.payment = "paid"    => r.collected = r.total
  /\ r.payment = "partial" => 0 < r.collected /\ r.collected < r.total
  /\ r.payment = "unpaid"  => r.collected = 0

(* The amount a request is about to write fits the total.                  *)
AmountFits(r) ==
  /\ r.op = "create" => Consistent(r.row)
  /\ r.op = "settlePayment" => r.amount <= booking[r.b].total
  /\ r.op = "transfer" => /\ r.amount <= r.row.total
                          /\ r.row.total = booking[r.b].total

MoneyInv ==
  /\ \A b \in Stored : Consistent(booking[b])
  /\ \A w \in Workers : work[w] # NoRequest => AmountFits(work[w])

-----------------------------------------------------------------------------
LEMMA ResolvedConsistent ==
  ASSUME NEW amount \in Nat, NEW total \in Nat, amount <= total,
         NEW r, r.collected = amount, r.total = total,
         r.payment = ResolvedStatus(amount, total) \/ r.payment = CessionStatus(amount, total)
  PROVE  Consistent(r)
<1>1. CASE amount = 0
  BY <1>1 DEF Consistent, ResolvedStatus, CessionStatus
<1>2. CASE amount # 0 /\ amount = total
  BY <1>2 DEF Consistent, ResolvedStatus, CessionStatus
<1>3. CASE amount # 0 /\ amount # total
  BY <1>3 DEF Consistent, ResolvedStatus, CessionStatus
<1> QED
  BY <1>1, <1>2, <1>3

(* The checks of the methods that write an amount, and of create.          *)
LEMMA LoadFits ==
  ASSUME WellFormed, NEW w \in Workers, LoadStep(w)
  PROVE  \E r : AmountFits(r) /\ work' = [work EXCEPT ![w] = r]
<1>1. CASE CreateCheck(w)
  <2>1. PICK type \in Types, c \in Customers, u \in Umbrellas, k \in Slots,
             total \in Prices :
          \E s \in Intervals(type) :
            Begin(w, [NoRequest EXCEPT !.op = "create", !.pc = "planned",
                                       !.row = NewBooking(type, c, u, k, s, total)])
    BY <1>1 DEF CreateCheck
  <2>2. PICK span : Begin(w, [NoRequest EXCEPT !.op = "create", !.pc = "planned",
                                 !.row = NewBooking(type, c, u, k, span, total)])
    BY <2>1
  <2> DEFINE row == NewBooking(type, c, u, k, span, total)
             r == [NoRequest EXCEPT !.op = "create", !.pc = "planned", !.row = row]
  <2>3. Consistent(row)
    BY MoneyAssumption DEF NewBooking, Consistent
  <2> HIDE DEF row
  <2>4. r.op = "create" /\ r.row = row
    BY DEF NoRequest
  <2>5. work' = [work EXCEPT ![w] = r]
    BY <2>2 DEF Begin, row
  <2> QED
    BY <2>3, <2>4, <2>5 DEF AmountFits
<1>2. CASE SettlePaymentLoad(w)
  <2>1. PICK b \in Stored, amount \in Amounts :
          /\ amount <= booking[b].total
          /\ Begin(w, [NoRequest EXCEPT !.op = "settlePayment", !.pc = "loaded",
                                        !.b = b, !.amount = amount])
    BY <1>2 DEF SettlePaymentLoad, ResolveOk
  <2> QED
    BY <2>1 DEF Begin, NoRequest, AmountFits
<1>3. CASE TransferLoad(w)
  <2>1. PICK b \in Bookings, new \in Customers, back \in Amounts, paid \in Amounts :
          /\ NewCollected(booking[b].collected, back, paid) <= booking[b].total
          /\ Begin(w, [NoRequest EXCEPT !.op = "transfer", !.pc = "loaded", !.b = b,
                         !.amount = NewCollected(booking[b].collected, back, paid),
                         !.who = new, !.row = booking[b]])
    BY <1>3 DEF TransferLoad, CessionOk
  <2> QED
    BY <2>1 DEF Begin, NoRequest, AmountFits
<1>4. CASE ~ CreateCheck(w) /\ ~ SettlePaymentLoad(w) /\ ~ TransferLoad(w)
  <2>1. \E r : /\ r.op \in Ops \ {"create", "settlePayment", "transfer"}
               /\ work' = [work EXCEPT ![w] = r]
    <3>1. CASE CancelLoad(w)
      BY <3>1 DEF CancelLoad, Begin, NoRequest, Ops
    <3>2. CASE SuspendLoad(w)
      <4>1. PICK b \in Bookings, from \in Days, to \in Days \cup {None},
                 refund \in Amounts :
              Begin(w, [NoRequest EXCEPT !.op = "suspend", !.pc = "loaded", !.b = b,
                                         !.from = from, !.to = to, !.amount = refund])
        BY <3>2 DEF SuspendLoad
      <4> QED
        BY <4>1 DEF Begin, NoRequest, Ops
    <3>3. CASE ReactivateLoad(w)
      <4>1. PICK s \in suspension, return \in Days, refund \in Amounts :
              Begin(w, [NoRequest EXCEPT !.op = "reactivate", !.pc = "loaded",
                          !.b = s.b, !.from = return, !.to = booking[s.b].end,
                          !.amount = refund, !.ref = s.id])
        BY <3>3 DEF ReactivateLoad
      <4> QED
        BY <4>1 DEF Begin, NoRequest, Ops
    <3>4. CASE TerminateLoad(w)
      <4>1. PICK b \in Bookings, effective \in Days, refund \in Amounts :
              Begin(w, [NoRequest EXCEPT !.op = "terminate", !.pc = "loaded", !.b = b,
                                         !.from = effective, !.amount = refund])
        BY <3>4 DEF TerminateLoad
      <4> QED
        BY <4>1 DEF Begin, NoRequest, Ops
    <3>5. CASE SetAbsenceConsentLoad(w)
      BY <3>5 DEF SetAbsenceConsentLoad, Begin, NoRequest, Ops
    <3>6. CASE ReleaseAbsenceLoad(w)
      BY <3>6 DEF ReleaseAbsenceLoad, Begin, NoRequest, Ops
    <3>7. CASE CancelAbsenceReleaseLoad(w)
      BY <3>7 DEF CancelAbsenceReleaseLoad, Begin, NoRequest, Ops
    <3> QED
      BY <1>4, <3>1, <3>2, <3>3, <3>4, <3>5, <3>6, <3>7 DEF LoadStep
  <2> QED
    BY <2>1 DEF AmountFits
<1> QED
  BY <1>1, <1>2, <1>3, <1>4

(* The read of the coverage keeps the request.                             *)
LEMMA ReadFits ==
  ASSUME WellFormed, MoneyInv, NEW w \in Workers, ReadStep(w)
  PROVE  \E r : AmountFits(r) /\ work' = [work EXCEPT ![w] = r]
<1>1. PICK fragments : Plan(w, fragments)
  BY ReadEffect
<1> DEFINE r == [work[w] EXCEPT !.pc = "planned", !.plan = fragments]
<1>2. work[w] # NoRequest
  BY DEF ReadStep, SuspendRead, ReactivateCheck, TerminateRead, ReleaseAbsenceRead,
         CancelAbsenceReleaseCheck, NotResold, Loaded, NoRequest
<1>3. /\ r.op = work[w].op /\ r.b = work[w].b /\ r.amount = work[w].amount
      /\ r.row = work[w].row
  BY <1>2, ServedRequest DEF Request
<1>4. work' = [work EXCEPT ![w] = r]
  BY <1>1 DEF Plan, WellFormed, TypeOK
<1> HIDE DEF r
<1>5. AmountFits(r)
  BY <1>2, <1>3 DEF MoneyInv, AmountFits
<1> QED
  BY <1>4, <1>5

(* No method changes the total of a booking.                               *)
TotalsKept == \A b \in Stored : b \in Stored' /\ booking'[b].total = booking[b].total

(* A write either leaves total, collected and payment of the stored        *)
(* bookings alone, or writes them consistently.                            *)
MoneyKept ==
  \A b \in Stored :
     /\ b \in Stored'
     /\ booking'[b].total = booking[b].total
     /\ booking'[b].collected = booking[b].collected
     /\ booking'[b].payment = booking[b].payment

LEMMA OtherWriteKeepsMoney ==
  ASSUME WellFormed, NEW w \in Workers,
         \/ CancelWrite(w) \/ SuspendWrite(w) \/ ReactivateWrite(w) \/ TerminateWrite(w)
         \/ SetAbsenceConsentWrite(w) \/ ReleaseAbsenceWrite(w)
         \/ CancelAbsenceReleaseWrite(w) \/ Abort(w)
  PROVE  MoneyKept /\ Stored' = Stored
<1>1. CASE UNCHANGED booking
  BY <1>1 DEF MoneyKept, Stored
<1>2. ASSUME ~ Abort(w)
      PROVE  /\ work[w].b \in Stored /\ work[w].b \in Bookings
             /\ booking[work[w].b] \in BookingRow
             /\ booking \in [Bookings -> BookingRow \cup {NoBooking}]
  <2>1. PICK op \in Ops \ {"create"} : Loaded(w, op) \/ Planned(w, op)
    BY <1>2 DEF CancelWrite, SuspendWrite, ReactivateWrite, TerminateWrite,
       SetAbsenceConsentWrite, ReleaseAbsenceWrite, CancelAbsenceReleaseWrite, Ops
  <2>2. work[w] # NoRequest /\ work[w].op # "create"
    BY <2>1 DEF Loaded, Planned, NoRequest, Ops
  <2> QED
    BY <2>2, ServedRequest DEF WellFormed, TypeOK
<1>3. CASE CancelWrite(w)
  BY <1>2, <1>3 DEF CancelWrite, Abort, MoneyKept, Stored, BookingRow
<1>4. CASE TerminateWrite(w)
  BY <1>2, <1>4 DEF TerminateWrite, Abort, MoneyKept, Stored, BookingRow
<1>5. CASE SetAbsenceConsentWrite(w)
  BY <1>2, <1>5 DEF SetAbsenceConsentWrite, Abort, MoneyKept, Stored, BookingRow
<1>6. CASE ~ Abort(w) /\ AddRefund(work[w].b, work[w].amount)
  BY <1>2, <1>6 DEF AddRefund, MoneyKept, Stored, BookingRow
<1>7. CASE Abort(w)
  BY <1>1, <1>7 DEF Abort
<1> QED
  BY <1>1, <1>3, <1>4, <1>5, <1>6, <1>7
     DEF SuspendWrite, ReactivateWrite, ReleaseAbsenceWrite, CancelAbsenceReleaseWrite

LEMMA WriteConsistent ==
  ASSUME WellFormed, MoneyInv, NEW w \in Workers, WriteStep(w)
  PROVE  TotalsKept /\ \A b \in Stored' : Consistent(booking'[b])
<1>1. CASE CreateWrite(w)
  <2>1. PICK b \in Bookings \ Stored : booking' = [booking EXCEPT ![b] = work[w].row]
    BY <1>1 DEF CreateWrite, FreshBooking, Least
  <2>2. Consistent(work[w].row)
    BY <1>1 DEF CreateWrite, Planned, NoRequest, MoneyInv, AmountFits
  <2>3. booking'[b] = work[w].row /\ \A c \in Bookings \ {b} : booking'[c] = booking[c]
    BY <2>1 DEF WellFormed, TypeOK
  <2> QED
    BY <2>1, <2>2, <2>3 DEF MoneyInv, TotalsKept, Stored
<1>2. CASE SettlePaymentWrite(w)
  <2> DEFINE b == work[w].b
             status == ResolvedStatus(work[w].amount, booking[b].total)
  <2>1. work[w] # NoRequest /\ work[w].op = "settlePayment"
    BY <1>2 DEF SettlePaymentWrite, Loaded, NoRequest
  <2>2. /\ b \in Stored /\ b \in Bookings /\ booking[b] \in BookingRow
        /\ work[w].amount \in Nat /\ work[w].amount <= booking[b].total
    BY <2>1, ServedRequest DEF Request, MoneyInv, AmountFits
  <2>3. booking' = [booking EXCEPT ![b].collected = work[w].amount, ![b].payment = status]
    BY <1>2 DEF SettlePaymentWrite
  <2> HIDE DEF b, status
  <2>4. /\ \A c \in Bookings \ {b} : booking'[c] = booking[c]
        /\ booking'[b].status = booking[b].status
        /\ booking'[b].total = booking[b].total
        /\ booking'[b].collected = work[w].amount
        /\ booking'[b].payment = status
    BY <2>2, <2>3 DEF WellFormed, TypeOK, BookingRow
  <2>5. Stored' = Stored
    BY <2>2, <2>4 DEF Stored
  <2>6. Consistent(booking'[b])
    BY <2>2, <2>4, MoneyAssumption, ResolvedConsistent DEF BookingRow, status, b
  <2> QED
    BY <2>4, <2>5, <2>6 DEF MoneyInv, TotalsKept, Stored
<1>3. CASE TransferWrite(w)
  <2> DEFINE b == work[w].b
             status == CessionStatus(work[w].amount, work[w].row.total)
  <2>1. work[w] # NoRequest /\ work[w].op = "transfer"
    BY <1>3 DEF TransferWrite, Loaded, NoRequest
  <2>2. /\ b \in Stored /\ b \in Bookings /\ booking[b] \in BookingRow
        /\ work[w].amount \in Nat /\ work[w].amount <= work[w].row.total
        /\ work[w].row.total = booking[b].total
    BY <2>1, ServedRequest DEF Request, MoneyInv, AmountFits
  <2>3. booking' = [booking EXCEPT ![b].customer = work[w].who,
                                   ![b].collected = work[w].amount,
                                   ![b].payment = status]
    BY <1>3 DEF TransferWrite
  <2> HIDE DEF b, status
  <2>4. /\ \A c \in Bookings \ {b} : booking'[c] = booking[c]
        /\ booking'[b].status = booking[b].status
        /\ booking'[b].total = booking[b].total
        /\ booking'[b].collected = work[w].amount
        /\ booking'[b].payment = status
    BY <2>2, <2>3 DEF WellFormed, TypeOK, BookingRow
  <2>5. Stored' = Stored
    BY <2>2, <2>4 DEF Stored
  <2>6. Consistent(booking'[b])
    BY <2>2, <2>4, MoneyAssumption, ResolvedConsistent DEF BookingRow, status, b
  <2> QED
    BY <2>4, <2>5, <2>6 DEF MoneyInv, TotalsKept, Stored
<1>4. CASE ~ CreateWrite(w) /\ ~ SettlePaymentWrite(w) /\ ~ TransferWrite(w)
  <2>1. MoneyKept /\ Stored' = Stored
    BY <1>4, OtherWriteKeepsMoney DEF WriteStep
  <2> QED
    BY <2>1 DEF MoneyKept, MoneyInv, TotalsKept, Consistent
<1> QED
  BY <1>1, <1>2, <1>3, <1>4

LEMMA RequestsFit ==
  ASSUME WellFormed, MoneyInv, TotalsKept, NEW w \in Workers, NEW r,
         r # NoRequest => AmountFits(r)',
         work' = [work EXCEPT ![w] = r]
  PROVE  \A v \in Workers : work'[v] # NoRequest => AmountFits(work[v])'
<1> SUFFICES ASSUME NEW v \in Workers, work'[v] # NoRequest
             PROVE  AmountFits(work[v])'
  OBVIOUS
<1>1. CASE v = w
  <2>1. work'[v] = r
    BY <1>1 DEF WellFormed, TypeOK
  <2> QED
    BY <2>1 DEF AmountFits
<1>2. CASE v # w
  <2>1. work'[v] = work[v] /\ work[v] # NoRequest
    BY <1>2 DEF WellFormed, TypeOK
  <2>2. work[v].op # "create" => work[v].b \in Stored
    BY <2>1, ServedRequest
  <2>3. AmountFits(work[v])
    BY <2>1 DEF MoneyInv
  <2> QED
    BY <2>1, <2>2, <2>3 DEF AmountFits, TotalsKept
<1> QED
  BY <1>1, <1>2

LEMMA MoneyStep == WellFormed /\ MoneyInv /\ [Next]_vars => MoneyInv'
<1> SUFFICES ASSUME WellFormed, MoneyInv, [Next]_vars PROVE MoneyInv'
  OBVIOUS
<1>1. CASE AdvanceDay \/ UNCHANGED vars
  BY <1>1 DEF AdvanceDay, vars, MoneyInv, AmountFits, Stored
<1>2. ASSUME NEW w \in Workers, LoadStep(w) \/ ReadStep(w) PROVE MoneyInv'
  <2>1. UNCHANGED booking /\ Stored' = Stored
    BY <1>2, LoadEffect, ReadEffect DEF Stored
  <2>2. PICK r : AmountFits(r) /\ work' = [work EXCEPT ![w] = r]
    BY <1>2, LoadFits, ReadFits
  <2>3. TotalsKept /\ AmountFits(r)'
    BY <2>1, <2>2 DEF TotalsKept, AmountFits
  <2> QED
    BY <2>1, <2>2, <2>3, RequestsFit DEF MoneyInv
<1>3. ASSUME NEW w \in Workers, WriteStep(w) PROVE MoneyInv'
  <2>1. TotalsKept /\ \A b \in Stored' : Consistent(booking'[b])
    BY <1>3, WriteConsistent
  <2>2. work' = [work EXCEPT ![w] = NoRequest]
    BY <1>3 DEF WriteStep, CreateWrite, CancelWrite, SettlePaymentWrite, SuspendWrite,
       ReactivateWrite, TerminateWrite, TransferWrite, SetAbsenceConsentWrite,
       ReleaseAbsenceWrite, CancelAbsenceReleaseWrite, Abort, Finish
  <2> QED
    BY <2>1, <2>2, RequestsFit DEF MoneyInv
<1> QED
  BY <1>1, <1>2, <1>3, StepKinds

LEMMA MoneyInit == Init => MoneyInv
  BY DEF Init, MoneyInv, Stored, NoBooking

(* The payment status agrees with the amount collected, and no more than   *)
(* the total is ever collected, however settlePayment, transfer and the    *)
(* other methods overlap.                                                  *)
THEOREM PaymentAgrees == Spec => []PaymentConsistent
<1>1. WellFormed /\ MoneyInv /\ [Next]_vars => (WellFormed /\ MoneyInv)'
  BY StepType, MoneyStep
<1>2. MoneyInv => PaymentConsistent
  BY DEF MoneyInv, Consistent, PaymentConsistent
<1> QED
  BY InitType, MoneyInit, <1>1, <1>2, PTL DEF Spec

-----------------------------------------------------------------------------
(***************************************************************************)
(* No day of a contract is lost, for any number of workers: each day of a  *)
(* subscription that is running is occupied by it or excused. A carve is   *)
(* written over rows that may have grown since the plan was read, so the   *)
(* days they grew by are lost with it: the argument is that each of those  *)
(* days is excused already, because a row can only grow by the carve of a  *)
(* plan that is older still, and the exclusion constraint refuses that     *)
(* carve when another row of the booking holds the day.                    *)
(***************************************************************************)

(* The carve is exact: written over the rows it was computed from, a plan  *)
(* takes from the fragments of a booking the days of the hole, all of them *)
(* and no other, whatever the fragmentation.                               *)

Row(B, U, K) ==
  [id: Int, b: B, umbrella: U, slot: K, start: Int, end: Int,
   status: {"confirmed", "cancelled"}]

(* The days that the confirmed rows of booking b hold.                     *)
Held(rows, b, d) ==
  \E c \in rows : c.b = b /\ c.status = "confirmed" /\ d \in DaysOf(c)

Hole(from, to, d) == from <= d /\ (to = None \/ d <= to)

(* The days of a fragment, minus the hole, are those of its remainders.    *)
LEMMA RemainderDays ==
  ASSUME NEW B, NEW U, NEW K, NEW f \in Row(B, U, K), NEW id \in Int,
         NEW from \in Int, NEW to \in Int, to = None \/ from <= to,
         InHole(f, from, to), NEW d \in Int
  PROVE  (d \in DaysOf(f) /\ ~ Hole(from, to, d)) <=>
            \/ Survives(f, from, to) /\ d \in DaysOf(KeptRow(f, f, from, to))
            \/ Splits(f, from, to) /\ d \in DaysOf(ExtraRow(f, from, to, id))
<1>1. f.start \in Int /\ f.end \in Int /\ DaysOf(f) = f.start .. f.end
  BY DEF Row, DaysOf
<1>2. CASE HasHead(f, from)
  <2>1. DaysOf(KeptRow(f, f, from, to)) = f.start .. from - 1
    BY <1>2 DEF KeptRow, DaysOf, Row
  <2>2. DaysOf(ExtraRow(f, from, to, id)) = to + 1 .. f.end
    BY DEF ExtraRow, DaysOf, Row
  <2> QED
    BY <1>1, <1>2, <2>1, <2>2
       DEF Hole, InHole, Survives, Splits, HasHead, HasTail
<1>3. CASE ~ HasHead(f, from)
  <2>1. DaysOf(KeptRow(f, f, from, to)) = to + 1 .. f.end
    BY <1>3 DEF KeptRow, DaysOf, Row
  <2> QED
    BY <1>1, <1>3, <2>1 DEF Hole, InHole, Survives, Splits, HasHead, HasTail
<1> QED
  BY <1>2, <1>3

(* A remainder belongs to the booking of its fragment, with its status.    *)
LEMMA RemainderOwner ==
  ASSUME NEW B, NEW U, NEW K, NEW f \in Row(B, U, K), NEW id \in Int,
         NEW from \in Int, NEW to \in Int
  PROVE  /\ KeptRow(f, f, from, to).b = f.b
         /\ KeptRow(f, f, from, to).status = f.status
         /\ ExtraRow(f, from, to, id).b = f.b
         /\ ExtraRow(f, from, to, id).status = "confirmed"
  BY DEF KeptRow, ExtraRow, Row

(* The rows that result when every fragment of the plan is its own row.    *)
Result(rows, plan, from, to, id, c) ==
  \/ c \in rows \ plan
  \/ \E f \in plan : Survives(f, from, to) /\ c = KeptRow(f, f, from, to)
  \/ \E f \in plan : Splits(f, from, to) /\ c = ExtraRow(f, from, to, id)

LEMMA CarveMembers ==
  ASSUME NEW rows, NEW plan \in SUBSET rows, NEW from, NEW to, NEW id, NEW c,
         \A f, x \in rows : x.id = f.id => x = f
  PROVE  c \in applyCarve(rows, plan, from, to, id)
           <=> Result(rows, plan, from, to, id, c)
<1>1. c \in Untouched(rows, plan) <=> c \in rows \ plan
  BY DEF Untouched
<1>2. c \in KeptRows(rows, plan, from, to) <=>
         \E f \in plan : Survives(f, from, to) /\ c = KeptRow(f, f, from, to)
  <2>1. ASSUME NEW f \in plan
        PROVE  { KeptRow(x, f, from, to) : x \in { y \in rows : y.id = f.id } }
                 = { KeptRow(f, f, from, to) }
    <3>1. { y \in rows : y.id = f.id } = {f}
      OBVIOUS
    <3> QED
      BY <3>1
  <2>2. c \in KeptRows(rows, plan, from, to) <=>
           \E f \in { g \in plan : Survives(g, from, to) } :
              c \in { KeptRow(x, f, from, to) : x \in { y \in rows : y.id = f.id } }
    BY DEF KeptRows
  <2> QED
    BY <2>1, <2>2
<1>3. c \in ExtraRows(plan, from, to, id) <=>
         \E f \in plan : Splits(f, from, to) /\ c = ExtraRow(f, from, to, id)
  BY DEF ExtraRows
<1> QED
  BY <1>1, <1>2, <1>3 DEF applyCarve, Result

(* A plan read from the rows, and written over the same rows: the booking  *)
(* keeps every day it held outside the hole, and none inside it. This is   *)
(* what suspend and releaseAbsence ask of carveInterval and applyCarve, and *)
(* terminate of a booking whose rows are all confirmed.                    *)
THEOREM CarveExact ==
  ASSUME NEW B, NEW U, NEW K, NEW rows \in SUBSET Row(B, U, K),
         \A c, d \in rows : c.id = d.id => c = d,
         NEW b \in B, NEW id \in Int,
         NEW from \in Int, NEW to \in Int, to = None \/ from <= to,
         NEW plan,
         plan = Carved({ c \in rows : c.b = b /\ c.status = "confirmed" }, from, to),
         NEW d \in Int
  PROVE  Held(applyCarve(rows, plan, from, to, id), b, d)
           <=> Held(rows, b, d) /\ ~ Hole(from, to, d)
<1>1. \A f \in plan : /\ f \in rows /\ f \in Row(B, U, K) /\ InHole(f, from, to)
                      /\ f.b = b /\ f.status = "confirmed"
  BY DEF Carved
<1>2. \A c : c \in applyCarve(rows, plan, from, to, id)
               <=> Result(rows, plan, from, to, id, c)
  <2>1. plan \in SUBSET rows
    BY <1>1
  <2>2. \A f, x \in rows : x.id = f.id => x = f
    OBVIOUS
  <2> QED
    BY <2>1, <2>2, CarveMembers
<1>3. ASSUME Held(applyCarve(rows, plan, from, to, id), b, d)
      PROVE  Held(rows, b, d) /\ ~ Hole(from, to, d)
  <2>1. PICK c \in applyCarve(rows, plan, from, to, id) : c.b = b /\ c.status = "confirmed" /\ d \in DaysOf(c)
    BY <1>3 DEF Held
  <2>2. CASE c \in rows \ plan
    <3>1. ~ InHole(c, from, to)
      BY <2>1, <2>2 DEF Carved
    <3>2. c.start \in Int /\ c.end \in Int
      BY <2>2 DEF Row
    <3> QED
      BY <2>1, <2>2, <3>1, <3>2 DEF Held, InHole, Hole, DaysOf
  <2>3. ASSUME NEW f \in plan,
               \/ Survives(f, from, to) /\ c = KeptRow(f, f, from, to)
               \/ Splits(f, from, to) /\ c = ExtraRow(f, from, to, id)
        PROVE  Held(rows, b, d) /\ ~ Hole(from, to, d)
    <3>1. d \in DaysOf(f) /\ ~ Hole(from, to, d)
      <4>1. f \in Row(B, U, K) /\ InHole(f, from, to)
        BY <1>1
      <4>2. \/ Survives(f, from, to) /\ d \in DaysOf(KeptRow(f, f, from, to))
            \/ Splits(f, from, to) /\ d \in DaysOf(ExtraRow(f, from, to, id))
        BY <2>1, <2>3
      <4> QED
        BY <4>1, <4>2, RemainderDays
    <3> QED
      BY <1>1, <3>1 DEF Held
  <2> QED
    BY <1>2, <2>1, <2>2, <2>3 DEF Result
<1>4. ASSUME Held(rows, b, d), ~ Hole(from, to, d)
      PROVE  Held(applyCarve(rows, plan, from, to, id), b, d)
  <2>1. PICK c \in rows : c.b = b /\ c.status = "confirmed" /\ d \in DaysOf(c)
    BY <1>4 DEF Held
  <2>2. CASE c \in plan
    <3>1. \/ Survives(c, from, to) /\ d \in DaysOf(KeptRow(c, c, from, to))
          \/ Splits(c, from, to) /\ d \in DaysOf(ExtraRow(c, from, to, id))
      BY <1>1, <1>4, <2>1, <2>2, RemainderDays
    <3>2. c \in Row(B, U, K) /\ c.b = b /\ c.status = "confirmed"
      BY <1>1, <2>2
    <3>3. CASE Survives(c, from, to) /\ d \in DaysOf(KeptRow(c, c, from, to))
      <4>1. KeptRow(c, c, from, to) \in applyCarve(rows, plan, from, to, id)
        BY <1>2, <2>2, <3>3 DEF Result
      <4>2. KeptRow(c, c, from, to).b = b /\ KeptRow(c, c, from, to).status = "confirmed"
        BY <3>2, RemainderOwner
      <4> QED
        BY <3>3, <4>1, <4>2 DEF Held
    <3>4. CASE Splits(c, from, to) /\ d \in DaysOf(ExtraRow(c, from, to, id))
      <4>1. ExtraRow(c, from, to, id) \in applyCarve(rows, plan, from, to, id)
        BY <1>2, <2>2, <3>4 DEF Result
      <4>2. ExtraRow(c, from, to, id).b = b /\ ExtraRow(c, from, to, id).status = "confirmed"
        BY <3>2, RemainderOwner
      <4> QED
        BY <3>4, <4>1, <4>2 DEF Held
    <3> QED
      BY <3>1, <3>3, <3>4
  <2>3. CASE c \notin plan
    BY <1>1, <1>2, <2>1, <2>3 DEF Held, Result
  <2> QED
    BY <2>2, <2>3
<1> QED
  BY <1>3, <1>4

-----------------------------------------------------------------------------
(* The invariant                                                           *)

(* Bookings that still owe their days to the customer.                     *)
Running(b) == Confirmed(b) /\ ~ booking[b].terminated

Contract(b) == booking[b].start .. booking[b].end

(* An identifier tells one row, and a reference one booking and one day.   *)
KeysTell ==
  /\ \A c, d \in coverage : c.id = d.id => c = d
  /\ \A s, t \in suspension : s.id = t.id => s.b = t.b
  /\ \A x, y \in release : x.id = y.id => x.b = y.b /\ x.date = y.date

(* The trigger and the inserts keep the rows of a live booking confirmed.  *)
LiveRowsConfirmed ==
  \A c \in coverage : Confirmed(c.b) => c.status = "confirmed"

(* What the checks of a method make of its days and of its reference.      *)
DatesRight(r) ==
  /\ r.op = "suspend" => r.to = None \/ r.from <= r.to
  /\ r.op \in {"releaseAbsence", "cancelAbsenceRelease"} => r.to = r.from
  /\ r.op = "terminate" => r.to = None
  /\ r.op = "reactivate" /\ ~ booking[r.b].terminated => r.to = booking[r.b].end

RefRight(r) ==
  /\ r.op = "reactivate" =>
       /\ \E s \in suspension : s.id = r.ref
       /\ \A s \in suspension : s.id = r.ref => s.b = r.b
  /\ r.op = "cancelAbsenceRelease" =>
       /\ \E x \in release : x.id = r.ref
       /\ \A x \in release : x.id = r.ref => x.b = r.b /\ x.date = r.from

(* A fragment belongs to the booking of the request and meets the hole.    *)
FragmentRight(r, f) ==
  /\ f.b = r.b
  /\ InHole(f, r.from, r.to)
  /\ Confirmed(f.b) => f.status = "confirmed"
  /\ r.op # "terminate" => f.status = "confirmed"
  /\ \A c \in coverage : c.id = f.id => c.b = f.b

(* The confirmed fragments of a plan are disjoint, as the rows were.       *)
FragmentsApart(plan) ==
  \A f, g \in plan :
     /\ g.id = f.id => g = f
     /\ g # f /\ f.status = "confirmed" /\ g.status = "confirmed"
          => DaysOf(f) \cap DaysOf(g) = {}

(* The days by which a row has grown since it was read are excused.        *)
GrowthExcused(f) ==
  \A c \in coverage :
     c.id = f.id /\ Running(f.b) =>
        \A d \in Contract(f.b) :
           d \in DaysOf(c) /\ d \notin DaysOf(f) => Excused(f.b, d)

RequestRight(r) ==
  /\ DatesRight(r) /\ RefRight(r)
  /\ FragmentsApart(r.plan)
  /\ \A f \in r.plan : FragmentRight(r, f) /\ GrowthExcused(f)

DaysInv ==
  /\ KeysTell /\ LiveRowsConfirmed
  /\ \A w \in Workers : work[w] # NoRequest => RequestRight(work[w])
  /\ DayConservation

(* What is known of a state before a step.                                 *)
Sound == WellFormed /\ SeatInv /\ DaysInv

-----------------------------------------------------------------------------
(* The rows a carve leaves                                                 *)

LEMMA CoverageRowIsRow == CoverageRow \subseteq Row(Bookings, Umbrellas, Slots)
  BY LastDayAssumption, BoundsAssumption DEF CoverageRow, Row, CoverageIds, Days

LEMMA CarveForms ==
  ASSUME NEW rows, NEW plan, NEW from, NEW to, NEW id,
         NEW x \in applyCarve(rows, plan, from, to, id)
  PROVE  \/ x \in rows /\ \A f \in plan : x.id # f.id
         \/ \E f \in plan : \E c \in rows :
               c.id = f.id /\ Survives(f, from, to) /\ x = KeptRow(c, f, from, to)
         \/ \E f \in plan : Splits(f, from, to) /\ x = ExtraRow(f, from, to, id)
  BY DEF applyCarve, Untouched, KeptRows, ExtraRows

LEMMA CarveHolds ==
  ASSUME NEW rows, NEW plan, NEW from, NEW to, NEW id
  PROVE  /\ \A c \in rows : (\A f \in plan : c.id # f.id) => c \in applyCarve(rows, plan, from, to, id)
         /\ \A f \in plan : \A c \in rows :
               c.id = f.id /\ Survives(f, from, to)
                 => KeptRow(c, f, from, to) \in applyCarve(rows, plan, from, to, id)
         /\ \A f \in plan : Splits(f, from, to)
                 => ExtraRow(f, from, to, id) \in applyCarve(rows, plan, from, to, id)
  BY DEF applyCarve, Untouched, KeptRows, ExtraRows

(* What is written over a row: its own columns, and days of the fragment.  *)
LEMMA KeptRowFacts ==
  ASSUME NEW c \in CoverageRow, NEW f \in CoverageRow, NEW from \in Days,
         NEW to \in Days \cup {None}, InHole(f, from, to), Survives(f, from, to)
  PROVE  LET x == KeptRow(c, f, from, to)
         IN  /\ x.id = c.id /\ x.b = c.b /\ x.status = c.status
             /\ x.umbrella = c.umbrella /\ x.slot = c.slot
             /\ DaysOf(x) = DaysOf(KeptRow(f, f, from, to))
             /\ DaysOf(x) \subseteq DaysOf(f)
<1>1. f.start \in Int /\ f.end \in Int /\ from \in Int /\ to \in Int
  BY LastDayAssumption DEF CoverageRow, Days, None
<1>2. CASE HasHead(f, from)
  <2>1. /\ KeptRow(c, f, from, to) = [c EXCEPT !.start = f.start, !.end = from - 1]
        /\ KeptRow(f, f, from, to) = [f EXCEPT !.start = f.start, !.end = from - 1]
    BY <1>2 DEF KeptRow
  <2>2. from - 1 <= f.end
    BY <1>1 DEF InHole
  <2> QED
    BY <1>1, <2>1, <2>2 DEF CoverageRow, DaysOf
<1>3. CASE ~ HasHead(f, from)
  <2>1. /\ KeptRow(c, f, from, to) = [c EXCEPT !.start = to + 1, !.end = f.end]
        /\ KeptRow(f, f, from, to) = [f EXCEPT !.start = to + 1, !.end = f.end]
    BY <1>3 DEF KeptRow
  <2>2. f.start <= to + 1
    BY <1>1, <1>3 DEF InHole, Survives, HasTail
  <2> QED
    BY <1>1, <2>1, <2>2 DEF CoverageRow, DaysOf
<1> QED
  BY <1>2, <1>3

LEMMA ExtraRowFacts ==
  ASSUME NEW f \in CoverageRow, NEW from, NEW to, NEW id
  PROVE  LET x == ExtraRow(f, from, to, id)
         IN  x.id = id /\ x.b = f.b /\ x.status = "confirmed"
  BY DEF ExtraRow, CoverageRow

(* Two fragments that both keep a piece on each side of the hole meet.     *)
LEMMA SplitsOnce ==
  ASSUME NEW f \in CoverageRow, NEW g \in CoverageRow, NEW from \in Days,
         NEW to \in Days \cup {None}, InHole(f, from, to), InHole(g, from, to),
         Splits(f, from, to), Splits(g, from, to)
  PROVE  DaysOf(f) \cap DaysOf(g) # {}
<1>1. /\ f.start \in Int /\ f.end \in Int /\ g.start \in Int /\ g.end \in Int
      /\ from \in Int
  BY LastDayAssumption DEF CoverageRow, Days
<1>2. from \in DaysOf(f) /\ from \in DaysOf(g)
  BY <1>1 DEF InHole, Splits, HasHead, DaysOf
<1> QED
  BY <1>2

(* Rows of one seat are in each other's way on a day of both.              *)
LEMMA OneSeatCollide ==
  ASSUME NEW x \in CoverageRow, NEW y \in CoverageRow,
         x.umbrella = y.umbrella, x.slot = y.slot,
         x.status = "confirmed", y.status = "confirmed",
         NEW d, d \in DaysOf(x), d \in DaysOf(y)
  PROVE  Collides(x, y)
<1>1. SameSeat(x, y)
  BY SlotsAssumption DEF SameSeat, slotsOverlap, CoverageRow
<1>2. /\ x.start \in Int /\ x.end \in Int /\ y.start \in Int /\ y.end \in Int
  BY LastDayAssumption DEF CoverageRow, Days
<1>3. dateRangesOverlap(x.start, x.end, y.start, y.end)
  BY <1>2 DEF DaysOf, dateRangesOverlap
<1> QED
  BY <1>1, <1>3 DEF Collides

-----------------------------------------------------------------------------
(* New requests                                                            *)

LEMMA LoadRight ==
  ASSUME WellFormed, KeysTell, NEW w \in Workers, LoadStep(w)
  PROVE  \E r : /\ DatesRight(r) /\ RefRight(r) /\ r.plan = {}
                /\ work' = [work EXCEPT ![w] = r]
<1>1. CASE SuspendLoad(w)
  <2>1. PICK b \in Bookings, from \in Days, to \in Days \cup {None}, refund \in Amounts :
          /\ to # None => from <= to
          /\ Begin(w, [NoRequest EXCEPT !.op = "suspend", !.pc = "loaded", !.b = b,
                                        !.from = from, !.to = to, !.amount = refund])
    BY <1>1 DEF SuspendLoad
  <2> QED
    BY <2>1 DEF Begin, NoRequest, DatesRight, RefRight
<1>2. CASE ReactivateLoad(w)
  <2>1. PICK s \in suspension, return \in Days, refund \in Amounts :
          Begin(w, [NoRequest EXCEPT !.op = "reactivate", !.pc = "loaded", !.b = s.b,
                                     !.from = return, !.to = booking[s.b].end,
                                     !.amount = refund, !.ref = s.id])
    BY <1>2 DEF ReactivateLoad
  <2> DEFINE r == [NoRequest EXCEPT !.op = "reactivate", !.pc = "loaded", !.b = s.b,
                                    !.from = return, !.to = booking[s.b].end,
                                    !.amount = refund, !.ref = s.id]
  <2>2. /\ r.op = "reactivate" /\ r.b = s.b /\ r.to = booking[s.b].end
        /\ r.ref = s.id /\ r.plan = {}
    BY DEF NoRequest
  <2>3. work' = [work EXCEPT ![w] = r]
    BY <2>1 DEF Begin
  <2> HIDE DEF r
  <2> QED
    BY <2>2, <2>3 DEF KeysTell, DatesRight, RefRight
<1>3. CASE TerminateLoad(w)
  <2>1. PICK b \in Bookings, effective \in Days, refund \in Amounts :
          Begin(w, [NoRequest EXCEPT !.op = "terminate", !.pc = "loaded", !.b = b,
                                     !.from = effective, !.amount = refund])
    BY <1>3 DEF TerminateLoad
  <2> QED
    BY <2>1 DEF Begin, NoRequest, DatesRight, RefRight
<1>4. CASE ReleaseAbsenceLoad(w)
  <2>1. PICK b \in Bookings, date \in Days :
          Begin(w, [NoRequest EXCEPT !.op = "releaseAbsence", !.pc = "loaded",
                                     !.b = b, !.from = date, !.to = date])
    BY <1>4 DEF ReleaseAbsenceLoad
  <2> QED
    BY <2>1 DEF Begin, NoRequest, DatesRight, RefRight
<1>5. CASE CancelAbsenceReleaseLoad(w)
  <2>1. PICK x \in release :
          Begin(w, [NoRequest EXCEPT !.op = "cancelAbsenceRelease", !.pc = "loaded",
                                     !.b = x.b, !.from = x.date, !.to = x.date,
                                     !.ref = x.id])
    BY <1>5 DEF CancelAbsenceReleaseLoad
  <2> DEFINE r == [NoRequest EXCEPT !.op = "cancelAbsenceRelease", !.pc = "loaded",
                                    !.b = x.b, !.from = x.date, !.to = x.date,
                                    !.ref = x.id]
  <2>2. /\ r.op = "cancelAbsenceRelease" /\ r.b = x.b /\ r.from = x.date
        /\ r.to = x.date /\ r.ref = x.id /\ r.plan = {}
    BY DEF NoRequest
  <2>3. work' = [work EXCEPT ![w] = r]
    BY <2>1 DEF Begin
  <2> HIDE DEF r
  <2> QED
    BY <2>2, <2>3 DEF KeysTell, DatesRight, RefRight
<1>6. ASSUME NEW op, NEW r, Begin(w, r), r.op = op, r.plan = {},
             op \in {"create", "cancel", "settlePayment", "transfer", "setAbsenceConsent"}
      PROVE  \E q : /\ DatesRight(q) /\ RefRight(q) /\ q.plan = {}
                    /\ work' = [work EXCEPT ![w] = q]
  BY <1>6 DEF Begin, DatesRight, RefRight
<1>7. CASE CreateCheck(w)
  <2>1. PICK row :
          Begin(w, [NoRequest EXCEPT !.op = "create", !.pc = "planned", !.row = row])
    BY <1>7 DEF CreateCheck
  <2> QED
    BY <2>1, <1>6 DEF NoRequest
<1>8. CASE CancelLoad(w)
  BY <1>8, <1>6 DEF CancelLoad, NoRequest
<1>9. CASE SettlePaymentLoad(w)
  <2>1. PICK b \in Stored, amount \in Amounts :
          Begin(w, [NoRequest EXCEPT !.op = "settlePayment", !.pc = "loaded",
                                     !.b = b, !.amount = amount])
    BY <1>9 DEF SettlePaymentLoad
  <2> QED
    BY <2>1, <1>6 DEF NoRequest
<1>10. CASE TransferLoad(w)
  <2>1. PICK b \in Bookings, new \in Customers, back, paid \in Amounts :
          Begin(w, [NoRequest EXCEPT !.op = "transfer", !.pc = "loaded", !.b = b,
                      !.amount = NewCollected(booking[b].collected, back, paid),
                      !.who = new, !.row = booking[b]])
    BY <1>10 DEF TransferLoad
  <2> QED
    BY <2>1, <1>6 DEF NoRequest
<1>11. CASE SetAbsenceConsentLoad(w)
  <2>1. PICK b \in Bookings, consent \in BOOLEAN :
          Begin(w, [NoRequest EXCEPT !.op = "setAbsenceConsent", !.pc = "loaded",
                                     !.b = b, !.flag = consent])
    BY <1>11 DEF SetAbsenceConsentLoad
  <2> QED
    BY <2>1, <1>6 DEF NoRequest
<1> QED
  BY <1>1, <1>2, <1>3, <1>4, <1>5, <1>7, <1>8, <1>9, <1>10, <1>11 DEF LoadStep

(* The plan of a read: the rows of the booking that meet the hole.         *)
LEMMA ReadRight ==
  ASSUME WellFormed, NEW w \in Workers, work[w] # NoRequest => DatesRight(work[w]),
         ReadStep(w)
  PROVE  /\ work[w] # NoRequest
         /\ \E fragments \in SUBSET coverage :
              /\ Plan(w, fragments)
              /\ \A f \in fragments :
                   /\ f.b = work[w].b
                   /\ InHole(f, work[w].from, work[w].to)
                   /\ work[w].op # "terminate" => f.status = "confirmed"
<1>1. CASE SuspendRead(w) \/ ReleaseAbsenceRead(w)
  <2>1. Plan(w, Carved(OwnCoverage(work[w].b), work[w].from, work[w].to))
    BY <1>1 DEF SuspendRead, ReleaseAbsenceRead
  <2>2. work[w] # NoRequest
    BY <1>1, InService DEF SuspendRead, ReleaseAbsenceRead
  <2> QED
    BY <2>1, <2>2 DEF Carved, OwnCoverage, OwnRows
<1>2. CASE TerminateRead(w)
  <2>1. Plan(w, Carved(OwnRows(work[w].b), work[w].from, None))
    BY <1>2 DEF TerminateRead
  <2>2. work[w] # NoRequest /\ work[w].op = "terminate"
    BY <1>2 DEF TerminateRead, Loaded, NoRequest
  <2>3. work[w].to = None
    BY <2>2 DEF DatesRight
  <2> QED
    BY <2>1, <2>2, <2>3 DEF Carved, OwnRows
<1>3. CASE ReactivateCheck(w) \/ CancelAbsenceReleaseCheck(w)
  <2>1. PICK op \in {"reactivate", "cancelAbsenceRelease"} : Loaded(w, op) /\ Plan(w, {})
    BY <1>3 DEF ReactivateCheck, CancelAbsenceReleaseCheck, NotResold
  <2> QED
    BY <2>1, InService
<1> QED
  BY <1>1, <1>2, <1>3 DEF ReadStep

-----------------------------------------------------------------------------
(* What the writes leave of the bookings and of the excuses                *)

(* A booking never comes back to life, and a running one keeps its dates.  *)
BookingsKept ==
  \A b \in Stored :
     /\ b \in Stored'
     /\ Confirmed(b)' => Confirmed(b)
     /\ ~ booking'[b].terminated => /\ ~ booking[b].terminated
                                    /\ booking'[b].start = booking[b].start
                                    /\ booking'[b].end = booking[b].end

LEMMA WriteKeepsBookings ==
  ASSUME WellFormed, NEW w \in Workers, WriteStep(w)
  PROVE  BookingsKept /\ (CreateWrite(w) \/ Stored' \subseteq Stored)
<1>1. CASE CreateWrite(w)
  <2>1. PICK b \in Bookings \ Stored : booking' = [booking EXCEPT ![b] = work[w].row]
    BY <1>1 DEF CreateWrite, FreshBooking, Least
  <2>2. \A c \in Stored : c \in Bookings /\ booking'[c] = booking[c]
    BY <2>1 DEF Stored, WellFormed, TypeOK
  <2> QED
    BY <1>1, <2>2 DEF BookingsKept, Confirmed, Stored
<1>2. CASE UNCHANGED booking
  BY <1>2 DEF BookingsKept, Confirmed, Stored
<1>3. ASSUME ~ CreateWrite(w), booking' # booking
      PROVE  work[w].b \in Stored /\ work[w].b \in Bookings /\ booking[work[w].b] \in BookingRow
  <2>1. PICK op \in Ops \ {"create"} : Loaded(w, op) \/ Planned(w, op)
    BY <1>3 DEF WriteStep, CancelWrite, SettlePaymentWrite, SuspendWrite,
       ReactivateWrite, TerminateWrite, TransferWrite, SetAbsenceConsentWrite,
       ReleaseAbsenceWrite, CancelAbsenceReleaseWrite, Abort, Ops
  <2>2. work[w] # NoRequest /\ work[w].op # "create"
    BY <2>1 DEF Loaded, Planned, NoRequest, Ops
  <2> QED
    BY <2>2, ServedRequest
<1>4. CASE ~ CreateWrite(w) /\ booking' # booking
  <2> DEFINE b == work[w].b
             old == booking[b]
  <2>1. /\ b \in Stored /\ b \in Bookings /\ old \in BookingRow
        /\ booking \in [Bookings -> BookingRow \cup {NoBooking}]
    BY <1>3, <1>4 DEF WellFormed, TypeOK
  <2>2. /\ \A c \in Bookings \ {b} : booking'[c] = booking[c]
        /\ booking'[b].status = "confirmed" => old.status = "confirmed"
        /\ booking'[b].status # "none"
        /\ ~ booking'[b].terminated => /\ ~ old.terminated
                                       /\ booking'[b].start = old.start
                                       /\ booking'[b].end = old.end
    <3>1. CASE CancelWrite(w)
      BY <2>1, <3>1 DEF CancelWrite, BookingRow
    <3>2. CASE SettlePaymentWrite(w)
      BY <2>1, <3>2 DEF SettlePaymentWrite, BookingRow
    <3>3. CASE TerminateWrite(w)
      BY <2>1, <3>3 DEF TerminateWrite, BookingRow
    <3>4. CASE TransferWrite(w)
      BY <2>1, <3>4 DEF TransferWrite, BookingRow
    <3>5. CASE SetAbsenceConsentWrite(w)
      BY <2>1, <3>5 DEF SetAbsenceConsentWrite, BookingRow
    <3>6. CASE AddRefund(b, work[w].amount)
      BY <2>1, <3>6 DEF AddRefund, BookingRow
    <3> QED
      BY <1>4, <3>1, <3>2, <3>3, <3>4, <3>5, <3>6
         DEF WriteStep, SuspendWrite, ReactivateWrite, ReleaseAbsenceWrite,
             CancelAbsenceReleaseWrite, Abort
  <2> HIDE DEF b, old
  <2> QED
    BY <2>1, <2>2 DEF BookingsKept, Confirmed, Stored, old
<1> QED
  BY <1>1, <1>2, <1>4

(* The identifier of a record tells its booking and its day.               *)
RecordKeysTell ==
  /\ \A s, t \in suspension : s.id = t.id => s.b = t.b
  /\ \A x, y \in release : x.id = y.id => x.b = y.b /\ x.date = y.date

LEMMA WriteKeepsSuspensions ==
  ASSUME WellFormed, RecordKeysTell, NEW w \in Workers, WriteStep(w)
  PROVE  /\ \A s \in suspension : \E t \in suspension' : t.id = s.id
         /\ \A t \in suspension' : \A s \in suspension : s.id = t.id => t.b = s.b
         /\ \A s, t \in suspension' : s.id = t.id => s.b = t.b
<1>1. CASE SuspendWrite(w)
  <2>1. PICK id \in FreshSuspension :
          suspension' = suspension \cup
            { [id |-> id, b |-> work[w].b, start |-> work[w].from,
               end |-> work[w].to, refunded |-> work[w].amount] }
    BY <1>1 DEF SuspendWrite
  <2>2. \A s \in suspension : s.id # id
    BY DEF FreshSuspension, Least
  <2> QED
    BY <2>1, <2>2 DEF RecordKeysTell
<1>2. CASE ReactivateWrite(w)
  <2>1. suspension' = { IF s.id = work[w].ref
                        THEN [s EXCEPT !.end = work[w].from - 1, !.refunded = work[w].amount]
                        ELSE s : s \in suspension }
    BY <1>2 DEF ReactivateWrite
  <2>2. \A s \in suspension :
          LET t == [s EXCEPT !.end = work[w].from - 1, !.refunded = work[w].amount]
          IN  t.id = s.id /\ t.b = s.b
    BY DEF WellFormed, TypeOK, SuspensionRow
  <2>3. \A t \in suspension' : \E s \in suspension : t.id = s.id /\ t.b = s.b
    BY <2>1, <2>2
  <2>4. \A s \in suspension : \E t \in suspension' : t.id = s.id /\ t.b = s.b
    BY <2>1, <2>2
  <2> QED
    BY <2>3, <2>4 DEF RecordKeysTell
<1>3. CASE UNCHANGED suspension
  BY <1>3 DEF RecordKeysTell
<1> QED
  BY <1>1, <1>2, <1>3
     DEF WriteStep, CreateWrite, CancelWrite, SettlePaymentWrite, TerminateWrite,
         TransferWrite, SetAbsenceConsentWrite, ReleaseAbsenceWrite,
         CancelAbsenceReleaseWrite, Abort

LEMMA WriteKeepsReleases ==
  ASSUME WellFormed, RecordKeysTell, NEW w \in Workers, WriteStep(w)
  PROVE  /\ \A x \in release : \E y \in release' : y.id = x.id
         /\ \A y \in release' : \A x \in release :
               x.id = y.id => y.b = x.b /\ y.date = x.date
         /\ \A x, y \in release' : x.id = y.id => x.b = y.b /\ x.date = y.date
<1>1. CASE ReleaseAbsenceWrite(w)
  <2>1. PICK id \in FreshRelease :
          release' = release \cup
            { [id |-> id, b |-> work[w].b, date |-> work[w].from, canceled |-> FALSE] }
    BY <1>1 DEF ReleaseAbsenceWrite
  <2>2. \A x \in release : x.id # id
    BY DEF FreshRelease, Least
  <2> QED
    BY <2>1, <2>2 DEF RecordKeysTell
<1>2. CASE CancelAbsenceReleaseWrite(w)
  <2>1. release' = { IF x.id = work[w].ref THEN [x EXCEPT !.canceled = TRUE] ELSE x :
                       x \in release }
    BY <1>2 DEF CancelAbsenceReleaseWrite
  <2>2. \A x \in release : LET y == [x EXCEPT !.canceled = TRUE]
                           IN  y.id = x.id /\ y.b = x.b /\ y.date = x.date
    BY DEF WellFormed, TypeOK, ReleaseRow
  <2>3. \A y \in release' : \E x \in release : y.id = x.id /\ y.b = x.b /\ y.date = x.date
    BY <2>1, <2>2
  <2>4. \A x \in release : \E y \in release' : y.id = x.id /\ y.b = x.b /\ y.date = x.date
    BY <2>1, <2>2
  <2> QED
    BY <2>3, <2>4 DEF RecordKeysTell
<1>3. CASE UNCHANGED release
  BY <1>3 DEF RecordKeysTell
<1> QED
  BY <1>1, <1>2, <1>3
     DEF WriteStep, CreateWrite, CancelWrite, SettlePaymentWrite, SuspendWrite,
         ReactivateWrite, TerminateWrite, TransferWrite, SetAbsenceConsentWrite, Abort

(* The end of an excuse: only reactivate and cancelAbsenceRelease withdraw *)
(* one, for the days they take back.                                       *)
TakesBack(w) == ReactivateWrite(w) \/ CancelAbsenceReleaseWrite(w)

LEMMA ExcuseWithdrawn ==
  ASSUME WellFormed, NEW w \in Workers, WriteStep(w),
         work[w] # NoRequest => DatesRight(work[w]) /\ RefRight(work[w]),
         NEW b \in Stored, Running(b), NEW d \in Contract(b),
         Excused(b, d), ~ Excused(b, d)'
  PROVE  /\ TakesBack(w) /\ work[w].b = b
         /\ work[w].from <= d /\ d <= work[w].to
<1>1. d \in Int
  <2>1. booking[b] \in BookingRow
    BY BookingIsRow DEF WellFormed, Stored
  <2> QED
    BY <2>1, LastDayAssumption DEF Contract, BookingRow, Days
<1>2. CASE ReactivateWrite(w)
  <2> DEFINE r == work[w]
  <2>1. r # NoRequest /\ r.op = "reactivate"
    <3>1. Planned(w, "reactivate")
      BY <1>2 DEF ReactivateWrite
    <3> QED
      BY <3>1 DEF Planned, NoRequest
  <2>2. /\ r.from \in Int /\ RefRight(r) /\ DatesRight(r)
    BY <2>1, ServedRequest, LastDayAssumption DEF RequestOK
  <2>3. /\ suspension' = { IF s.id = r.ref
                           THEN [s EXCEPT !.end = r.from - 1, !.refunded = r.amount]
                           ELSE s : s \in suspension }
        /\ release' = release
    BY <1>2 DEF ReactivateWrite
  <2> HIDE DEF r
  <2>4. PICK s \in suspension : s.b = b /\ s.start <= d /\ (s.end = None \/ d <= s.end)
    BY <2>3 DEF Excused, ActiveReleases
  <2>5. s \in SuspensionRow
    BY DEF WellFormed, TypeOK
  <2>6. s.id = r.ref
    BY <2>3, <2>4 DEF Excused
  <2>7. [s EXCEPT !.end = r.from - 1, !.refunded = r.amount] \in suspension'
    BY <2>3, <2>6
  <2>8. ~ d <= r.from - 1
    BY <2>4, <2>5, <2>7 DEF Excused, SuspensionRow
  <2>9. r.b = b
    BY <2>1, <2>2, <2>4, <2>6 DEF RefRight
  <2>10. d <= r.to
    BY <1>1, <2>1, <2>2, <2>9 DEF DatesRight, Running, Contract
  <2> QED
    BY <1>1, <1>2, <2>2, <2>8, <2>9, <2>10 DEF TakesBack, r
<1>3. CASE CancelAbsenceReleaseWrite(w)
  <2> DEFINE r == work[w]
  <2>1. r # NoRequest /\ r.op = "cancelAbsenceRelease"
    <3>1. Planned(w, "cancelAbsenceRelease")
      BY <1>3 DEF CancelAbsenceReleaseWrite
    <3> QED
      BY <3>1 DEF Planned, NoRequest
  <2>2. /\ RefRight(r) /\ DatesRight(r)
    BY <2>1
  <2>3. /\ release' = { IF x.id = r.ref THEN [x EXCEPT !.canceled = TRUE] ELSE x :
                          x \in release }
        /\ suspension' = suspension
    BY <1>3 DEF CancelAbsenceReleaseWrite
  <2> HIDE DEF r
  <2>4. PICK x \in release : x.b = b /\ ~ x.canceled /\ x.date = d
    BY <2>3 DEF Excused, ActiveReleases
  <2>5. x.id = r.ref
    BY <2>3, <2>4 DEF Excused, ActiveReleases
  <2>6. r.b = b /\ r.from = d /\ r.to = d
    BY <2>1, <2>2, <2>4, <2>5 DEF RefRight, DatesRight
  <2> QED
    BY <1>1, <1>3, <2>6 DEF TakesBack, r
<1>4. CASE suspension \subseteq suspension' /\ release \subseteq release'
  BY <1>4 DEF Excused, ActiveReleases
<1> QED
  BY <1>2, <1>3, <1>4
     DEF WriteStep, CreateWrite, CancelWrite, SettlePaymentWrite, TerminateWrite,
         TransferWrite, SetAbsenceConsentWrite, ReleaseAbsenceWrite, SuspendWrite, Abort

-----------------------------------------------------------------------------
(* What the writes leave of the rows of BookingCoverage                    *)

(* A row keeps its identifier for one booking, and a new one is in no plan.*)
RowsKept ==
  \A x \in coverage' :
     \/ \E c \in coverage : x.id = c.id /\ x.b = c.b
     \/ \A v \in Workers : \A f \in work[v].plan : f.id # x.id

RowsTold == \A c, d \in coverage : c.id = d.id => c = d

LEMMA FreshRow ==
  ASSUME NEW id \in FreshCoverage
  PROVE  /\ id \in CoverageIds
         /\ \A c \in coverage : c.id # id
         /\ \A v \in Workers : \A f \in work[v].plan : f.id # id
<1>1. id \in CoverageIds \ ({ c.id : c \in coverage }
                 \cup { f.id : f \in UNION { work[v].plan : v \in Workers } })
  BY DEF FreshCoverage, Least
<1> QED
  BY <1>1

(* The row that create, reactivate and cancelAbsenceRelease insert.        *)
LEMMA InsertRows ==
  ASSUME RowsTold, LiveRowsConfirmed, BookingsKept, \A c \in coverage : Matches(c),
         NEW b, NEW row, NEW from, NEW to, InsertCoverage(b, row, from, to)
  PROVE  RowsTold' /\ LiveRowsConfirmed' /\ RowsKept
<1>1. PICK id \in FreshCoverage : coverage' = coverage \cup { NewCoverage(id, b, row, from, to) }
  BY DEF InsertCoverage
<1> DEFINE n == NewCoverage(id, b, row, from, to)
<1>2. n.id = id /\ n.status = "confirmed"
  BY DEF NewCoverage
<1> HIDE DEF n
<1>3. /\ \A c \in coverage : c.id # id
      /\ \A v \in Workers : \A f \in work[v].plan : f.id # id
  BY FreshRow
<1>4. RowsTold'
  BY <1>1, <1>2, <1>3 DEF RowsTold, n
<1>5. LiveRowsConfirmed'
  BY <1>1, <1>2 DEF LiveRowsConfirmed, BookingsKept, Matches, n
<1>6. RowsKept
  BY <1>1, <1>2, <1>3 DEF RowsKept, n
<1> QED
  BY <1>4, <1>5, <1>6

LEMMA CancelRows ==
  ASSUME WellFormed, RowsTold, LiveRowsConfirmed, BookingsKept,
         \A c \in coverage : Matches(c), NEW w \in Workers, CancelWrite(w)
  PROVE  RowsTold' /\ LiveRowsConfirmed' /\ RowsKept
<1>0. PICK b : b = work[w].b
  OBVIOUS
<1>1. coverage' = { IF c.b = b THEN [c EXCEPT !.status = "cancelled"] ELSE c :
                      c \in coverage }
  BY <1>0 DEF CancelWrite
<1>2. \A c \in coverage : LET x == [c EXCEPT !.status = "cancelled"]
                          IN  x.id = c.id /\ x.b = c.b
  BY DEF WellFormed, TypeOK, CoverageRow
<1>3. ~ Confirmed(b)'
  <2>1. b \in Bookings /\ booking[b] \in BookingRow
    BY <1>0, ServedRequest DEF CancelWrite, Loaded, NoRequest
  <2> QED
    BY <1>0, <2>1 DEF CancelWrite, Confirmed, WellFormed, TypeOK, BookingRow
<1>4. RowsTold' /\ RowsKept
  <2> DEFINE After(c) == IF c.b = b THEN [c EXCEPT !.status = "cancelled"] ELSE c
  <2>1. \A c \in coverage : After(c).id = c.id /\ After(c).b = c.b
    BY <1>2
  <2>2. \A x \in coverage' : \E c \in coverage : x = After(c)
    BY <1>1
  <2> HIDE DEF After
  <2> QED
    BY <2>1, <2>2 DEF RowsTold, RowsKept
<1>5. LiveRowsConfirmed'
  <2> SUFFICES ASSUME NEW x \in coverage', Confirmed(x.b)'
               PROVE  x.status = "confirmed"
    BY DEF LiveRowsConfirmed
  <2>1. PICK c \in coverage :
          x = IF c.b = b THEN [c EXCEPT !.status = "cancelled"] ELSE c
    BY <1>1
  <2>2. c.b # b
    BY <1>2, <1>3, <2>1
  <2> QED
    BY <2>1, <2>2 DEF LiveRowsConfirmed, BookingsKept, Matches
<1> QED
  BY <1>4, <1>5

(* The days of the carve of a request, and its plan, are of their types.   *)
LEMMA CarverTypes ==
  ASSUME WellFormed, NEW w \in Workers,
         SuspendWrite(w) \/ TerminateWrite(w) \/ ReleaseAbsenceWrite(w)
  PROVE  /\ work[w] # NoRequest /\ WriteCarve(w)
         /\ work[w].op \in {"suspend", "terminate", "releaseAbsence"}
         /\ work[w].b \in Stored
         /\ work[w].plan \subseteq CoverageRow /\ coverage \subseteq CoverageRow
         /\ work[w].from \in Days /\ work[w].to \in Days \cup {None}
<1>1. WriteCarve(w)
  BY DEF SuspendWrite, TerminateWrite, ReleaseAbsenceWrite
<1>2. PICK op \in {"suspend", "terminate", "releaseAbsence"} : Planned(w, op)
  BY DEF SuspendWrite, TerminateWrite, ReleaseAbsenceWrite
<1>3. work[w] # NoRequest /\ work[w].op = op
  BY <1>2 DEF Planned, NoRequest
<1>4. work[w] \in Request /\ RequestOK(work[w]) /\ work[w].b \in Stored
  BY <1>3, ServedRequest
<1>5. work[w].from \in Days
  BY <1>3, <1>4, LastDayAssumption DEF RequestOK, Days
<1> QED
  BY <1>1, <1>3, <1>4, <1>5 DEF Request, WellFormed, TypeOK

LEMMA CarveRows ==
  ASSUME WellFormed, RowsTold, LiveRowsConfirmed, BookingsKept,
         \A c \in coverage : Matches(c), NEW w \in Workers,
         SuspendWrite(w) \/ TerminateWrite(w) \/ ReleaseAbsenceWrite(w),
         RequestRight(work[w])
  PROVE  RowsTold' /\ LiveRowsConfirmed' /\ RowsKept
<1> DEFINE r == work[w]
<1>1. /\ r.plan \subseteq CoverageRow /\ coverage \subseteq CoverageRow
      /\ r.from \in Days /\ r.to \in Days \cup {None}
      /\ r.op \in {"suspend", "terminate", "releaseAbsence"}
  BY CarverTypes
<1>2. PICK id \in FreshCoverage :
        coverage' = applyCarve(coverage, r.plan, r.from, r.to, id)
  BY CarverTypes DEF WriteCarve
<1>3. /\ \A c \in coverage : c.id # id
      /\ \A v \in Workers : \A f \in work[v].plan : f.id # id
  BY FreshRow
<1>4. /\ DatesRight(r) /\ FragmentsApart(r.plan)
      /\ \A f \in r.plan : FragmentRight(r, f)
  BY DEF RequestRight
<1> HIDE DEF r
<1>5. \A x \in coverage' :
        \/ x \in coverage /\ \A f \in r.plan : x.id # f.id
        \/ \E f \in r.plan : \E c \in coverage :
              c.id = f.id /\ Survives(f, r.from, r.to) /\ x = KeptRow(c, f, r.from, r.to)
        \/ \E f \in r.plan : Splits(f, r.from, r.to) /\ x = ExtraRow(f, r.from, r.to, id)
  BY <1>2, CarveForms
<1>6. \A f \in r.plan, c \in coverage :
        Survives(f, r.from, r.to) =>
          LET x == KeptRow(c, f, r.from, r.to)
          IN  x.id = c.id /\ x.b = c.b /\ x.status = c.status
  BY <1>1, <1>4, KeptRowFacts DEF FragmentRight
<1>7. \A f \in r.plan : LET x == ExtraRow(f, r.from, r.to, id)
                        IN  x.id = id /\ x.b = f.b /\ x.status = "confirmed"
  BY <1>1, ExtraRowFacts
<1>8. \A f, g \in r.plan : Splits(f, r.from, r.to) /\ Splits(g, r.from, r.to) => f = g
  <2> SUFFICES ASSUME NEW f \in r.plan, NEW g \in r.plan, f # g,
                      Splits(f, r.from, r.to), Splits(g, r.from, r.to)
               PROVE  FALSE
    OBVIOUS
  <2>1. r.op # "terminate"
    BY <1>4 DEF DatesRight, Splits, HasTail
  <2>2. f.status = "confirmed" /\ g.status = "confirmed"
    BY <1>4, <2>1 DEF FragmentRight
  <2>3. DaysOf(f) \cap DaysOf(g) # {}
    BY <1>1, <1>4, SplitsOnce DEF FragmentRight
  <2> QED
    BY <1>4, <2>2, <2>3 DEF FragmentsApart
<1>9. RowsTold'
  <2> SUFFICES ASSUME NEW x \in coverage', NEW y \in coverage', x.id = y.id
               PROVE  x = y
    BY DEF RowsTold
  <2> DEFINE Left(z) == z \in coverage /\ \A f \in r.plan : z.id # f.id
             Over(z, f, c) == /\ c.id = f.id /\ Survives(f, r.from, r.to)
                              /\ z = KeptRow(c, f, r.from, r.to)
             Added(z, f) == Splits(f, r.from, r.to) /\ z = ExtraRow(f, r.from, r.to, id)
  <2>1. \A z \in coverage' : \/ Left(z)
                             \/ \E f \in r.plan : \E c \in coverage : Over(z, f, c)
                             \/ \E f \in r.plan : Added(z, f)
    BY <1>5
  <2>2. \A z : \A f \in r.plan : \A c \in coverage : Over(z, f, c) => z.id = f.id /\ z.id = c.id
    BY <1>6
  <2>3. \A z : \A f \in r.plan : Added(z, f) => z.id = id
    BY <1>7
  <2>4. CASE Left(x)
    <3>1. Left(y)
      BY <1>3, <2>1, <2>2, <2>3, <2>4
    <3> QED
      BY <2>4, <3>1 DEF RowsTold
  <2>5. ASSUME NEW f \in r.plan, NEW c \in coverage, Over(x, f, c)
        PROVE  x = y
    <3>1. PICK g \in r.plan, e \in coverage : Over(y, g, e)
      BY <1>3, <2>1, <2>2, <2>3, <2>5
    <3>2. f = g /\ c = e
      BY <1>4, <2>2, <2>5, <3>1 DEF FragmentsApart, RowsTold
    <3> QED
      BY <2>5, <3>1, <3>2
  <2>6. ASSUME NEW f \in r.plan, Added(x, f) PROVE x = y
    <3>1. PICK g \in r.plan : Added(y, g)
      BY <1>3, <2>1, <2>2, <2>3, <2>6
    <3> QED
      BY <1>8, <2>6, <3>1
  <2> QED
    BY <2>1, <2>4, <2>5, <2>6
<1>10. LiveRowsConfirmed'
  BY <1>5, <1>6, <1>7 DEF LiveRowsConfirmed, BookingsKept, Matches
<1>11. RowsKept
  BY <1>3, <1>5, <1>6, <1>7 DEF RowsKept
<1> QED
  BY <1>9, <1>10, <1>11

(* After a write no two rows of a booking hold the same day.               *)
LEMMA OneRowADay ==
  ASSUME WellFormed, SeatInv, NEW w \in Workers, WriteStep(w),
         NEW x \in coverage', NEW y \in coverage', x.b = y.b,
         x.status = "confirmed", y.status = "confirmed",
         NEW d, d \in DaysOf(x), d \in DaysOf(y)
  PROVE  x = y
<1>1. SeatInv' /\ WellFormed'
  <2>1. [Next]_vars
    BY DEF Next, WriteStep
  <2> QED
    BY <2>1, SeatStep, StepType
<1>2. x \in CoverageRow /\ y \in CoverageRow
  BY <1>1 DEF WellFormed, TypeOK, CoverageRow, CoverageIds, Bookings, Days
<1>3. x.umbrella = y.umbrella /\ x.slot = y.slot
  BY <1>1 DEF SeatInv, Matches
<1> QED
  BY <1>1, <1>2, <1>3, OneSeatCollide DEF SeatInv, NoOverlap

(* The write of a carve, and its plan.                                     *)
Carves(w) == SuspendWrite(w) \/ TerminateWrite(w) \/ ReleaseAbsenceWrite(w)

LEMMA WriteRows ==
  ASSUME Sound, NEW w \in Workers, WriteStep(w)
  PROVE  BookingsKept /\ RowsTold' /\ LiveRowsConfirmed' /\ RowsKept
<1>1. BookingsKept
  BY WriteKeepsBookings DEF Sound
<1>2. WellFormed /\ RowsTold /\ LiveRowsConfirmed /\ \A c \in coverage : Matches(c)
  BY DEF Sound, DaysInv, KeysTell, RowsTold, SeatInv
<1>3. CASE Carves(w)
  <2>1. RequestRight(work[w])
    BY <1>3, CarverTypes DEF Sound, DaysInv, Carves
  <2> QED
    BY <1>1, <1>2, <1>3, <2>1, CarveRows DEF Carves
<1>4. CASE CancelWrite(w)
  BY <1>1, <1>2, <1>4, CancelRows
<1>5. CASE CreateWrite(w) \/ ReactivateWrite(w) \/ CancelAbsenceReleaseWrite(w)
  <2>1. PICK b, row, from, to : InsertCoverage(b, row, from, to)
    BY <1>5 DEF CreateWrite, ReactivateWrite, CancelAbsenceReleaseWrite
  <2> QED
    BY <1>1, <1>2, <2>1, InsertRows
<1>6. CASE UNCHANGED coverage
  BY <1>1, <1>2, <1>6 DEF RowsTold, LiveRowsConfirmed, RowsKept, BookingsKept, Matches
<1> QED
  BY <1>1, <1>3, <1>4, <1>5, <1>6
     DEF WriteStep, Carves, SettlePaymentWrite, TransferWrite, SetAbsenceConsentWrite, Abort

(* Where a row of the table after a write comes from.                      *)
LEMMA RowOrigin ==
  ASSUME Sound, NEW w \in Workers, WriteStep(w), NEW x \in coverage'
  PROVE  \/ \E c \in coverage : x.id = c.id /\ DaysOf(x) = DaysOf(c)
         \/ \A v \in Workers : \A f \in work[v].plan : f.id # x.id
         \/ /\ Carves(w)
            /\ \E g \in work[w].plan : \E c \in coverage :
                  /\ c.id = g.id /\ Survives(g, work[w].from, work[w].to)
                  /\ x = KeptRow(c, g, work[w].from, work[w].to)
<1>1. CASE Carves(w)
  <2>1. PICK id \in FreshCoverage :
          coverage' = applyCarve(coverage, work[w].plan, work[w].from, work[w].to, id)
    BY <1>1 DEF Carves, SuspendWrite, TerminateWrite, ReleaseAbsenceWrite, WriteCarve
  <2>2. \A v \in Workers : \A f \in work[v].plan : f.id # id
    BY FreshRow
  <2>3. \A f \in work[w].plan : ExtraRow(f, work[w].from, work[w].to, id).id = id
    BY <1>1, CarverTypes, ExtraRowFacts DEF Carves, Sound
  <2> QED
    BY <1>1, <2>1, <2>2, <2>3, CarveForms
<1>2. CASE CancelWrite(w)
  <2>1. PICK c \in coverage :
          x = IF c.b = work[w].b THEN [c EXCEPT !.status = "cancelled"] ELSE c
    BY <1>2 DEF CancelWrite
  <2>2. x.id = c.id /\ x.start = c.start /\ x.end = c.end
    BY <2>1 DEF Sound, WellFormed, TypeOK, CoverageRow
  <2> QED
    BY <2>2 DEF DaysOf
<1>3. CASE CreateWrite(w) \/ ReactivateWrite(w) \/ CancelAbsenceReleaseWrite(w)
  <2>1. PICK b, row, from, to : InsertCoverage(b, row, from, to)
    BY <1>3 DEF CreateWrite, ReactivateWrite, CancelAbsenceReleaseWrite
  <2>2. PICK id \in FreshCoverage :
          coverage' = coverage \cup { NewCoverage(id, b, row, from, to) }
    BY <2>1 DEF InsertCoverage
  <2>3. \A v \in Workers : \A f \in work[v].plan : f.id # id
    BY FreshRow
  <2> QED
    BY <2>2, <2>3 DEF NewCoverage
<1>4. CASE UNCHANGED coverage
  BY <1>4
<1> QED
  BY <1>1, <1>2, <1>3, <1>4
     DEF WriteStep, Carves, SettlePaymentWrite, TransferWrite, SetAbsenceConsentWrite, Abort

(* The days that reactivate and cancelAbsenceRelease take back get a row.  *)
LEMMA TakenBack ==
  ASSUME Sound, NEW w \in Workers, TakesBack(w)
  PROVE  \E id \in FreshCoverage : \E n \in coverage' :
            /\ n.id = id /\ n.b = work[w].b /\ n.status = "confirmed"
            /\ DaysOf(n) = work[w].from .. work[w].to
<1>1. InsertCoverage(work[w].b, booking[work[w].b], work[w].from, work[w].to)
  BY DEF TakesBack, ReactivateWrite, CancelAbsenceReleaseWrite
<1>2. PICK id \in FreshCoverage :
        NewCoverage(id, work[w].b, booking[work[w].b], work[w].from, work[w].to) \in coverage'
  BY <1>1 DEF InsertCoverage
<1> QED
  BY <1>2 DEF NewCoverage, DaysOf

-----------------------------------------------------------------------------
(* The days of a running booking                                           *)

LEMMA RunningBefore ==
  ASSUME BookingsKept, NEW b \in Stored, Running(b)'
  PROVE  Running(b) /\ Contract(b)' = Contract(b)
  BY DEF BookingsKept, Running, Confirmed, Contract

LEMMA OwedDays ==
  ASSUME Sound, NEW b \in Stored, Running(b), NEW d \in Contract(b), ~ Excused(b, d)
  PROVE  \E y \in coverage : y.b = b /\ y.status = "confirmed" /\ d \in DaysOf(y)
  BY DEF Sound, DaysInv, DayConservation, Running, Contract, Occupied, OwnCoverage, OwnRows

(* A day by which a row has grown since another worker read it is excused: *)
(* if the growth is new, some other row held the day, and a carve that     *)
(* leaves that row alone is refused.                                       *)
LEMMA GrowthKept ==
  ASSUME Sound, NEW w \in Workers, WriteStep(w),
         NEW v \in Workers, work[v] # NoRequest, NEW f \in work[v].plan
  PROVE  GrowthExcused(f)'
<1> SUFFICES ASSUME NEW x \in coverage', x.id = f.id, Running(f.b)',
                    NEW d \in Contract(f.b)', d \in DaysOf(x), d \notin DaysOf(f)
             PROVE  Excused(f.b, d)'
  BY DEF GrowthExcused
<1>1. BookingsKept /\ RowsTold' /\ LiveRowsConfirmed' /\ RowsKept
  BY WriteRows
<1>2. f.b \in Stored /\ FragmentRight(work[v], f) /\ GrowthExcused(f)
  BY DEF Sound, DaysInv, RequestRight, SeatInv, Matches
<1>3. Running(f.b) /\ d \in Contract(f.b)
  BY <1>1, <1>2, RunningBefore
<1>4. x.b = f.b
  BY <1>1, <1>2 DEF RowsKept, FragmentRight
<1>5. x.status = "confirmed"
  BY <1>1, <1>4 DEF LiveRowsConfirmed, Running
<1>6. ASSUME NEW y \in coverage', y.b = f.b, y.status = "confirmed", d \in DaysOf(y)
      PROVE  y = x
  BY <1>4, <1>5, <1>6, OneRowADay DEF Sound
<1>7. Excused(f.b, d)
  <2>1. ASSUME NEW c \in coverage, x.id = c.id, DaysOf(x) = DaysOf(c)
        PROVE  Excused(f.b, d)
    BY <1>2, <1>3, <2>1 DEF GrowthExcused
  <2>2. ASSUME Carves(w), NEW g \in work[w].plan, NEW c \in coverage, c.id = g.id,
               Survives(g, work[w].from, work[w].to),
               x = KeptRow(c, g, work[w].from, work[w].to)
        PROVE  Excused(f.b, d)
    <3>1. /\ work[w] # NoRequest /\ work[w].plan \subseteq CoverageRow
          /\ coverage \subseteq CoverageRow
          /\ work[w].from \in Days /\ work[w].to \in Days \cup {None}
      BY <2>2, CarverTypes DEF Carves, Sound
    <3>2. /\ FragmentsApart(work[w].plan)
          /\ \A h \in work[w].plan : FragmentRight(work[w], h) /\ GrowthExcused(h)
      BY <3>1 DEF Sound, DaysInv, RequestRight
    <3>3. x.id = c.id /\ x.b = c.b /\ DaysOf(x) \subseteq DaysOf(g)
      BY <2>2, <3>1, <3>2, KeptRowFacts DEF FragmentRight
    <3>4. CASE d \in DaysOf(c)
      BY <1>2, <1>3, <3>3, <3>4 DEF GrowthExcused
    <3>5. CASE d \notin DaysOf(c) /\ ~ Excused(f.b, d)
      <4>1. PICK y \in coverage : y.b = f.b /\ y.status = "confirmed" /\ d \in DaysOf(y)
        BY <1>2, <1>3, <3>5, OwedDays
      <4>2. y.id # c.id
        BY <3>5, <4>1 DEF Sound, DaysInv, KeysTell
      <4>3. CASE \A h \in work[w].plan : y.id # h.id
        <5>1. y \in coverage'
          BY <2>2, <4>3, CarveHolds
             DEF Carves, SuspendWrite, TerminateWrite, ReleaseAbsenceWrite, WriteCarve
        <5> QED
          BY <1>6, <3>3, <4>1, <4>2, <5>1
      <4>4. ASSUME NEW h \in work[w].plan, y.id = h.id
            PROVE  FALSE
        <5>1. g.b = f.b /\ h.b = f.b
          BY <1>4, <2>2, <3>2, <3>3, <4>1, <4>4 DEF FragmentRight
        <5>2. g.status = "confirmed" /\ h.status = "confirmed"
          BY <1>3, <3>2, <5>1 DEF FragmentRight, Running
        <5>3. d \notin DaysOf(h)
          BY <2>2, <3>2, <3>3, <4>2, <4>4, <5>2 DEF FragmentsApart
        <5>4. Excused(f.b, d)
          BY <1>3, <3>2, <4>1, <4>4, <5>1, <5>3 DEF GrowthExcused
        <5> QED
          BY <3>5, <5>4
      <4> QED
        BY <4>3, <4>4
    <3> QED
      BY <3>4, <3>5
  <2> QED
    BY <2>1, <2>2, RowOrigin
<1>8. CASE ~ Excused(f.b, d)'
  <2>1. /\ TakesBack(w) /\ work[w].b = f.b
        /\ work[w].from <= d /\ d <= work[w].to
    <3>1. work[w] # NoRequest => DatesRight(work[w]) /\ RefRight(work[w])
      BY DEF Sound, DaysInv, RequestRight
    <3> QED
      BY <1>2, <1>3, <1>7, <1>8, <3>1, ExcuseWithdrawn DEF Sound
  <2>2. PICK id \in FreshCoverage, n \in coverage' :
          /\ n.id = id /\ n.b = f.b /\ n.status = "confirmed"
          /\ DaysOf(n) = work[w].from .. work[w].to
    BY <2>1, TakenBack
  <2>3. d \in DaysOf(n)
    <3>1. d \in Int
      <4>1. booking[f.b] \in BookingRow
        BY <1>2, BookingIsRow DEF Sound, WellFormed, Stored
      <4> QED
        BY <1>3, <4>1, LastDayAssumption DEF Contract, BookingRow, Days
    <3> QED
      BY <2>1, <2>2, <3>1
  <2>4. n = x
    BY <1>6, <2>2, <2>3
  <2> QED
    BY <2>2, <2>4, FreshRow
<1> QED
  BY <1>8

(* A day that a running booking holds is held or excused after a write.    *)
LEMMA HeldKept ==
  ASSUME Sound, NEW w \in Workers, WriteStep(w),
         NEW b \in Stored, Running(b)', NEW d \in Contract(b),
         NEW y \in coverage, y.b = b, y.status = "confirmed", d \in DaysOf(y)
  PROVE  Excused(b, d)' \/ \E x \in coverage' : /\ x.b = b /\ x.status = "confirmed"
                                                /\ d \in DaysOf(x)
<1>1. BookingsKept /\ Running(b)
  BY WriteRows, RunningBefore
<1>2. CASE CancelWrite(w)
  <2>1. work[w].b # b
    <3>1. work[w].b \in Bookings /\ booking[work[w].b] \in BookingRow
      BY <1>2, ServedRequest DEF CancelWrite, Loaded, NoRequest, Sound
    <3> QED
      BY <1>2, <3>1 DEF CancelWrite, Running, Confirmed, Sound, WellFormed, TypeOK, BookingRow
  <2>2. y \in coverage'
    BY <1>2, <2>1 DEF CancelWrite
  <2> QED
    BY <2>2
<1>3. CASE Carves(w)
  <2>1. /\ work[w] # NoRequest /\ work[w].plan \subseteq CoverageRow
        /\ coverage \subseteq CoverageRow
        /\ work[w].from \in Days /\ work[w].to \in Days \cup {None}
        /\ work[w].op \in {"suspend", "terminate", "releaseAbsence"}
        /\ work[w].b \in Stored
    BY <1>3, CarverTypes DEF Carves, Sound
  <2>2. /\ DatesRight(work[w]) /\ FragmentsApart(work[w].plan)
        /\ \A h \in work[w].plan : FragmentRight(work[w], h) /\ GrowthExcused(h)
    BY <2>1 DEF Sound, DaysInv, RequestRight
  <2>3. PICK id \in FreshCoverage :
          coverage' = applyCarve(coverage, work[w].plan, work[w].from, work[w].to, id)
    BY <1>3 DEF Carves, SuspendWrite, TerminateWrite, ReleaseAbsenceWrite, WriteCarve
  <2>4. CASE \A h \in work[w].plan : y.id # h.id
    BY <2>3, <2>4, CarveHolds
  <2>5. ASSUME NEW g \in work[w].plan, y.id = g.id, ~ Excused(b, d)'
        PROVE  \E x \in coverage' : x.b = b /\ x.status = "confirmed" /\ d \in DaysOf(x)
    <3>1. g.b = b /\ g.b = work[w].b /\ InHole(g, work[w].from, work[w].to)
      BY <2>2, <2>5 DEF FragmentRight
    <3>2. ~ TerminateWrite(w)
      <4> SUFFICES ASSUME TerminateWrite(w) PROVE FALSE
        OBVIOUS
      <4>1. booking[b] \in BookingRow /\ b \in Bookings
        BY BookingIsRow DEF Sound, WellFormed, Stored
      <4> QED
        BY <3>1, <4>1 DEF TerminateWrite, Running, Sound, WellFormed, TypeOK, BookingRow
    <3>3. ~ Excused(b, d)
      <4>1. ~ TakesBack(w)
        <5>1. work[w].op \notin {"reactivate", "cancelAbsenceRelease"}
          BY <2>1
        <5> QED
          BY <5>1 DEF TakesBack, ReactivateWrite, CancelAbsenceReleaseWrite, Planned
      <4>2. RefRight(work[w])
        BY <2>1 DEF Sound, DaysInv, RequestRight
      <4> QED
        BY <1>1, <2>2, <2>5, <4>1, <4>2, ExcuseWithdrawn DEF Sound
    <3>4. d \in DaysOf(g)
      BY <1>1, <2>2, <2>5, <3>1, <3>3 DEF GrowthExcused
    <3>5. ~ Hole(work[w].from, work[w].to, d)
      <4> SUFFICES ASSUME Hole(work[w].from, work[w].to, d) PROVE FALSE
        OBVIOUS
      <4>1. CASE SuspendWrite(w)
        <5>1. PICK i : [id |-> i, b |-> work[w].b, start |-> work[w].from,
                        end |-> work[w].to, refunded |-> work[w].amount] \in suspension'
          BY <4>1 DEF SuspendWrite
        <5> QED
          BY <2>5, <3>1, <5>1 DEF Excused, Hole
      <4>2. CASE ReleaseAbsenceWrite(w)
        <5>1. PICK i : [id |-> i, b |-> work[w].b, date |-> work[w].from,
                        canceled |-> FALSE] \in release'
          BY <4>2 DEF ReleaseAbsenceWrite
        <5>2. work[w].op = "releaseAbsence"
          BY <4>2 DEF ReleaseAbsenceWrite, Planned
        <5>3. d = work[w].from
          <6>1. work[w].to = work[w].from /\ work[w].from # None
            BY <2>1, <2>2, <5>2, LastDayAssumption DEF DatesRight, Days, None
          <6>2. d \in Int /\ work[w].from \in Int
            BY <2>1, <3>4, LastDayAssumption DEF DaysOf, CoverageRow, Days
          <6> QED
            BY <6>1, <6>2 DEF Hole
        <5> QED
          BY <2>5, <3>1, <5>1, <5>3 DEF Excused, ActiveReleases
      <4> QED
        BY <1>3, <3>2, <4>1, <4>2 DEF Carves
    <3>6. \/ /\ Survives(g, work[w].from, work[w].to)
             /\ d \in DaysOf(KeptRow(g, g, work[w].from, work[w].to))
          \/ /\ Splits(g, work[w].from, work[w].to)
             /\ d \in DaysOf(ExtraRow(g, work[w].from, work[w].to, id))
      <4>1. g \in Row(Bookings, Umbrellas, Slots) /\ id \in Int
        BY <2>1, CoverageRowIsRow, FreshRow, BoundsAssumption DEF CoverageIds
      <4>2. /\ work[w].from \in Int /\ work[w].to \in Int /\ d \in Int
            /\ work[w].to = None \/ work[w].from <= work[w].to
        BY <2>1, <2>2, <3>4, LastDayAssumption
           DEF DatesRight, DaysOf, CoverageRow, Days, None
      <4> QED
        BY <3>1, <3>4, <3>5, <4>1, <4>2, RemainderDays
    <3>7. CASE /\ Survives(g, work[w].from, work[w].to)
               /\ d \in DaysOf(KeptRow(g, g, work[w].from, work[w].to))
      <4>1. KeptRow(y, g, work[w].from, work[w].to) \in coverage'
        BY <2>3, <2>5, <3>7, CarveHolds
      <4>2. LET x == KeptRow(y, g, work[w].from, work[w].to)
            IN  /\ x.b = y.b /\ x.status = y.status
                /\ DaysOf(x) = DaysOf(KeptRow(g, g, work[w].from, work[w].to))
        BY <2>1, <3>1, <3>7, KeptRowFacts
      <4> QED
        BY <3>7, <4>1, <4>2
    <3>8. CASE /\ Splits(g, work[w].from, work[w].to)
               /\ d \in DaysOf(ExtraRow(g, work[w].from, work[w].to, id))
      <4>1. ExtraRow(g, work[w].from, work[w].to, id) \in coverage'
        BY <2>3, <3>8, CarveHolds
      <4>2. LET x == ExtraRow(g, work[w].from, work[w].to, id)
            IN  x.b = g.b /\ x.status = "confirmed"
        BY <2>1, ExtraRowFacts
      <4> QED
        BY <3>1, <3>8, <4>1, <4>2
    <3> QED
      BY <3>6, <3>7, <3>8
  <2> QED
    BY <2>4, <2>5
<1>4. CASE coverage \subseteq coverage'
  BY <1>4
<1> QED
  BY <1>2, <1>3, <1>4
     DEF WriteStep, Carves, SettlePaymentWrite, TransferWrite, SetAbsenceConsentWrite,
         Abort, CreateWrite, ReactivateWrite, CancelAbsenceReleaseWrite, InsertCoverage

LEMMA ConservationKept ==
  ASSUME Sound, NEW w \in Workers, WriteStep(w)
  PROVE  DayConservation'
<1> SUFFICES ASSUME NEW b \in Stored', Running(b)', NEW d \in Contract(b)'
             PROVE  \/ Excused(b, d)'
                    \/ \E x \in coverage' : x.b = b /\ x.status = "confirmed" /\ d \in DaysOf(x)
  BY DEF DayConservation, Running, Contract, Occupied, OwnCoverage, OwnRows
<1>1. CASE b \in Stored
  <2>1. Running(b) /\ d \in Contract(b)
    BY <1>1, WriteRows, RunningBefore
  <2>2. CASE ~ Excused(b, d)
    <3>1. PICK y \in coverage : y.b = b /\ y.status = "confirmed" /\ d \in DaysOf(y)
      BY <1>1, <2>1, <2>2, OwedDays
    <3> QED
      BY <1>1, <2>1, <3>1, HeldKept
  <2>3. CASE Excused(b, d) /\ ~ Excused(b, d)'
    <3>1. /\ TakesBack(w) /\ work[w].b = b
          /\ work[w].from <= d /\ d <= work[w].to
      <4>1. work[w] # NoRequest => DatesRight(work[w]) /\ RefRight(work[w])
        BY DEF Sound, DaysInv, RequestRight
      <4> QED
        BY <1>1, <2>1, <2>3, <4>1, ExcuseWithdrawn DEF Sound
    <3>2. PICK n \in coverage' : /\ n.b = b /\ n.status = "confirmed"
                                 /\ DaysOf(n) = work[w].from .. work[w].to
      BY <3>1, TakenBack
    <3>3. d \in Int
      <4>1. booking[b] \in BookingRow
        BY <1>1, BookingIsRow DEF Sound, WellFormed, Stored
      <4> QED
        BY <2>1, <4>1, LastDayAssumption DEF Contract, BookingRow, Days
    <3>4. d \in DaysOf(n)
      BY <3>1, <3>2, <3>3
    <3> QED
      BY <3>2, <3>4
  <2> QED
    BY <2>2, <2>3
<1>2. CASE b \notin Stored
  <2>1. CASE CreateWrite(w)
    <3>1. PICK n \in Bookings \ Stored :
            /\ booking' = [booking EXCEPT ![n] = work[w].row]
            /\ InsertCoverage(n, work[w].row, work[w].row.start, work[w].row.end)
      BY <2>1 DEF CreateWrite, FreshBooking, Least
    <3>2. b = n /\ booking'[b] = work[w].row
      BY <1>2, <3>1 DEF Stored, Sound, WellFormed, TypeOK
    <3>3. PICK id : NewCoverage(id, b, work[w].row, work[w].row.start, work[w].row.end) \in coverage'
      BY <3>1, <3>2 DEF InsertCoverage
    <3> QED
      BY <3>2, <3>3 DEF NewCoverage, Contract, DaysOf
  <2>2. CASE ~ CreateWrite(w)
    BY <1>2, <2>2, WriteKeepsBookings DEF Sound
  <2> QED
    BY <2>1, <2>2
<1> QED
  BY <1>1, <1>2

-----------------------------------------------------------------------------
(* The requests under way                                                  *)

(* What a write leaves of the request of another worker.                   *)
LEMMA OthersRight ==
  ASSUME Sound, NEW w \in Workers, WriteStep(w),
         NEW v \in Workers, work[v] # NoRequest,
         NEW r, r = work[v]
  PROVE  RequestRight(r)'
<1>1. BookingsKept /\ RowsKept
  BY WriteRows
<1>2. RequestRight(r)
  BY DEF Sound, DaysInv
<1>3. r.op # "create" => r.b \in Stored
  BY ServedRequest DEF Sound
<1>4. DatesRight(r)'
  BY <1>1, <1>2, <1>3 DEF RequestRight, DatesRight, BookingsKept
<1>5. RefRight(r)'
  <2>1. RecordKeysTell /\ WellFormed
    BY DEF Sound, DaysInv, KeysTell, RecordKeysTell
  <2>2. RefRight(r)
    BY <1>2 DEF RequestRight
  <2>3. CASE r.op = "reactivate"
    <3>1. PICK s \in suspension : s.id = r.ref
      BY <2>2, <2>3 DEF RefRight
    <3>2. \A t \in suspension' : t.id = r.ref => t.b = r.b
      BY <2>1, <2>2, <2>3, <3>1, WriteKeepsSuspensions DEF RefRight
    <3>3. \E t \in suspension' : t.id = r.ref
      BY <2>1, <3>1, WriteKeepsSuspensions
    <3> QED
      BY <2>3, <3>2, <3>3 DEF RefRight
  <2>4. CASE r.op = "cancelAbsenceRelease"
    <3>1. PICK x \in release : x.id = r.ref
      BY <2>2, <2>4 DEF RefRight
    <3>2. \A y \in release' : y.id = r.ref => y.b = r.b /\ y.date = r.from
      BY <2>1, <2>2, <2>4, <3>1, WriteKeepsReleases DEF RefRight
    <3>3. \E y \in release' : y.id = r.ref
      BY <2>1, <3>1, WriteKeepsReleases
    <3> QED
      BY <2>4, <3>2, <3>3 DEF RefRight
  <2> QED
    BY <2>3, <2>4 DEF RefRight
<1>6. ASSUME NEW f \in r.plan PROVE FragmentRight(r, f)' /\ GrowthExcused(f)'
  <2>1. FragmentRight(r, f) /\ f.b \in Stored
    BY <1>2 DEF RequestRight, Sound, SeatInv, Matches
  <2>2. FragmentRight(r, f)'
    BY <1>1, <2>1 DEF FragmentRight, BookingsKept, RowsKept
  <2>3. GrowthExcused(f)'
    BY GrowthKept
  <2> QED
    BY <2>2, <2>3
<1>7. FragmentsApart(r.plan)'
  BY <1>2 DEF RequestRight, FragmentsApart
<1> QED
  BY <1>4, <1>5, <1>6, <1>7 DEF RequestRight

(* The plan of a read is right when it is made.                            *)
LEMMA ReadPlanRight ==
  ASSUME Sound, NEW w \in Workers, ReadStep(w)
  PROVE  \E r : RequestRight(r) /\ work' = [work EXCEPT ![w] = r]
<1>1. work[w] # NoRequest => DatesRight(work[w])
  BY DEF Sound, DaysInv, RequestRight
<1>2. work[w] # NoRequest
  BY <1>1, ReadRight DEF Sound
<1>3. PICK fragments \in SUBSET coverage :
        /\ Plan(w, fragments)
        /\ \A f \in fragments :
             /\ f.b = work[w].b
             /\ InHole(f, work[w].from, work[w].to)
             /\ work[w].op # "terminate" => f.status = "confirmed"
  BY <1>1, ReadRight DEF Sound
<1> DEFINE r == [work[w] EXCEPT !.pc = "planned", !.plan = fragments]
<1>4. work' = [work EXCEPT ![w] = r]
  BY <1>3 DEF Plan, Sound, WellFormed, TypeOK
<1>5. /\ r.op = work[w].op /\ r.b = work[w].b /\ r.from = work[w].from
      /\ r.to = work[w].to /\ r.ref = work[w].ref /\ r.plan = fragments
  BY <1>2, ServedRequest DEF Request, Sound
<1> HIDE DEF r
<1>6. DatesRight(r) /\ RefRight(r)
  <2>1. DatesRight(work[w]) /\ RefRight(work[w])
    BY <1>2 DEF Sound, DaysInv, RequestRight
  <2> QED
    BY <1>5, <2>1 DEF DatesRight, RefRight
<1>7. KeysTell /\ LiveRowsConfirmed
  BY DEF Sound, DaysInv
<1>8. FragmentsApart(fragments)
  <2> SUFFICES ASSUME NEW f \in fragments, NEW g \in fragments, g # f,
                      f.status = "confirmed", g.status = "confirmed",
                      NEW d \in DaysOf(f), d \in DaysOf(g)
               PROVE  FALSE
    BY <1>7 DEF FragmentsApart, KeysTell
  <2>1. f \in CoverageRow /\ g \in CoverageRow
    BY DEF Sound, WellFormed, TypeOK
  <2>2. f.umbrella = g.umbrella /\ f.slot = g.slot
    BY <1>3 DEF Sound, SeatInv, Matches
  <2> QED
    BY <2>1, <2>2, OneSeatCollide DEF Sound, SeatInv, NoOverlap
<1>9. \A f \in fragments : FragmentRight(r, f) /\ GrowthExcused(f)
  BY <1>3, <1>5, <1>7 DEF FragmentRight, GrowthExcused, KeysTell, LiveRowsConfirmed
<1> QED
  BY <1>4, <1>5, <1>6, <1>8, <1>9 DEF RequestRight

LEMMA DaysStep == Sound /\ [Next]_vars => DaysInv'
<1> SUFFICES ASSUME Sound, [Next]_vars PROVE DaysInv'
  OBVIOUS
<1>1. CASE AdvanceDay \/ UNCHANGED vars
  BY <1>1 DEF AdvanceDay, vars, Sound, DaysInv, KeysTell, LiveRowsConfirmed, Confirmed,
     Stored, RequestRight, DatesRight, RefRight, FragmentsApart, FragmentRight,
     GrowthExcused, Running, Contract, Excused, ActiveReleases, DayConservation,
     Occupied, OwnCoverage, OwnRows
<1>2. ASSUME NEW w \in Workers, LoadStep(w) \/ ReadStep(w) PROVE DaysInv'
  <2>1. UNCHANGED <<today, booking, coverage, suspension, release, transfer>>
    BY <1>2, LoadEffect, ReadEffect
  <2>2. PICK r : RequestRight(r) /\ work' = [work EXCEPT ![w] = r]
    <3>1. CASE LoadStep(w)
      <4>1. PICK r : /\ DatesRight(r) /\ RefRight(r) /\ r.plan = {}
                     /\ work' = [work EXCEPT ![w] = r]
        BY <3>1, LoadRight DEF Sound, DaysInv
      <4> QED
        BY <4>1 DEF RequestRight, FragmentsApart
    <3> QED
      BY <1>2, <3>1, ReadPlanRight
  <2>3. \A v \in Workers : work'[v] # NoRequest => RequestRight(work'[v])
    BY <2>2 DEF Sound, DaysInv, WellFormed, TypeOK
  <2>4. \A q : RequestRight(q) => RequestRight(q)'
    BY <2>1 DEF RequestRight, DatesRight, RefRight, FragmentsApart, FragmentRight,
       GrowthExcused, Running, Confirmed, Stored, Contract, Excused, ActiveReleases
  <2>5. \A v \in Workers : work'[v] # NoRequest => RequestRight(work[v])'
    BY <2>3, <2>4
  <2>6. (KeysTell /\ LiveRowsConfirmed /\ DayConservation)'
    BY <2>1 DEF Sound, DaysInv, KeysTell, LiveRowsConfirmed, Confirmed, Stored,
       DayConservation, Excused, ActiveReleases, Occupied, OwnCoverage, OwnRows
  <2> QED
    BY <2>5, <2>6 DEF DaysInv
<1>3. ASSUME NEW w \in Workers, WriteStep(w) PROVE DaysInv'
  <2>1. (KeysTell /\ LiveRowsConfirmed)'
    <3>1. RecordKeysTell /\ WellFormed
      BY DEF Sound, DaysInv, KeysTell, RecordKeysTell
    <3> QED
      BY <1>3, <3>1, WriteRows, WriteKeepsSuspensions, WriteKeepsReleases
         DEF KeysTell, RowsTold
  <2>2. ASSUME NEW v \in Workers, work'[v] # NoRequest
        PROVE  RequestRight(work[v])'
    <3>1. work' = [work EXCEPT ![w] = NoRequest]
      BY <1>3 DEF WriteStep, CreateWrite, CancelWrite, SettlePaymentWrite, SuspendWrite,
         ReactivateWrite, TerminateWrite, TransferWrite, SetAbsenceConsentWrite,
         ReleaseAbsenceWrite, CancelAbsenceReleaseWrite, Abort, Finish
    <3>2. work'[v] = work[v] /\ work[v] # NoRequest
      BY <2>2, <3>1 DEF Sound, WellFormed, TypeOK
    <3>3. PICK r : r = work[v]
      OBVIOUS
    <3>4. RequestRight(r)'
      BY <1>3, <3>2, <3>3, OthersRight
    <3> QED
      BY <3>2, <3>3, <3>4
  <2> QED
    BY <1>3, <2>1, <2>2, ConservationKept DEF DaysInv
<1> QED
  BY <1>1, <1>2, <1>3, StepKinds

LEMMA DaysInit == Init => DaysInv
  BY DEF Init, DaysInv, KeysTell, LiveRowsConfirmed, DayConservation, Stored, NoBooking

(* No day of a contract is lost: whatever requests overlap, with plans of  *)
(* any age, a running booking occupies each day it was sold for, or a      *)
(* suspension or an absence on record accounts for it.                     *)
THEOREM NoDayLost == Spec => []DayConservation
<1>1. Init => Sound
  BY InitType, SeatInit, DaysInit DEF Sound
<1>2. Sound /\ [Next]_vars => Sound'
  BY StepType, SeatStep, DaysStep DEF Sound
<1>3. Sound => DayConservation
  BY DEF Sound, DaysInv
<1> QED
  BY <1>1, <1>2, <1>3, PTL DEF Spec
=============================================================================
