--------------------------- MODULE Subscriptions ----------------------------
(***************************************************************************)
(* The life of the bookings of one season, as BookingsService writes it:   *)
(* sale of a seat, payment, suspension and reactivation, communicated      *)
(* absence and its withdrawal, change of holder, termination, cancellation.*)
(*                                                                         *)
(* Each service method runs in one database transaction at READ COMMITTED  *)
(* that takes no lock of its own, so a method is several steps of a worker *)
(* (a request being served):                                               *)
(*   Load   reads the booking with its suspensions and releases and makes  *)
(*          the checks that need no more;                                  *)
(*   Read   (or Check) reads the rows of BookingCoverage, makes the checks *)
(*          on them and fixes the plan of the carve;                       *)
(*   Write  makes all the writes, which the others see at the commit, and  *)
(*          which the constraints of the database may refuse.              *)
(* Between two steps of a worker the others may commit anything. A request *)
(* whose check or constraint fails has no effect, and neither has one that *)
(* is interrupted: Abort stands for all of them. With one worker the       *)
(* methods run one after the other.                                        *)
(*                                                                         *)
(* Only terminate writes before it reads: it updates the booking, which    *)
(* keeps the row locked until its commit, and then reads the coverage.     *)
(*                                                                         *)
(* There is one season, 1 .. LastDay, so no renewal and no campaign exists *)
(* (both need a second season) and the prelazione check of priceAndWrite   *)
(* finds no campaign.                                                      *)
(***************************************************************************)
EXTENDS Coverage, Payment, Sequences, FiniteSets, FiniteSetsExt

CONSTANTS Workers, Customers, Umbrellas,
          Methods,              \* the service methods that are called
          Slots,                \* a set of [start, end] in minutes
          Types,                \* the booking types that are sold
          LastDay,              \* the season is 1 .. LastDay
          LastToday,            \* bound on the clock
          Prices, Amounts,      \* totals and money inputs, in cents
          MaxBookings, MaxSubscriptions, MaxCoverage, MaxSuspensions, MaxReleases,
          MaxTransfers          \* bounds on the rows of each table

(* The methods of BookingsService that write.                              *)
Ops == {"create", "suspend", "reactivate", "terminate", "transfer",
        "settlePayment", "setAbsenceConsent", "cancel", "releaseAbsence",
        "cancelAbsenceRelease"}

ASSUME MethodsAssumption == Methods \subseteq Ops
ASSUME LastDayAssumption ==
  LastDay \in Nat \ {0} /\ LastToday \in 1 .. LastDay
(* createTimeSlot and updateTimeSlot refuse a slot that does not end after *)
(* it starts (time-slots.service.ts).                                      *)
ASSUME SlotsAssumption ==
  Slots \subseteq { k \in [start: Int, end: Int] : k.start < k.end }
ASSUME TypesAssumption == Types \subseteq {"daily", "periodic", "subscription"}
ASSUME MoneyAssumption == Prices \subseteq Nat /\ Amounts \subseteq Nat
ASSUME BoundsAssumption ==
  /\ MaxBookings \in Nat /\ MaxSubscriptions \in Nat /\ MaxCoverage \in Nat
  /\ MaxSuspensions \in Nat /\ MaxReleases \in Nat /\ MaxTransfers \in Nat

VARIABLES
  today,          \* todayInRome()
  booking,        \* table Booking, by id
  coverage,       \* table BookingCoverage, a set of rows with an id
  suspension,     \* table BookingSuspension
  release,        \* table AbsenceRelease
  transfer,       \* table BookingTransfer, by booking, oldest first
  work            \* the request each worker is serving

vars == <<today, booking, coverage, suspension, release, transfer, work>>

-----------------------------------------------------------------------------
(* Rows                                                                    *)

Days == 1 .. LastDay
Bookings == 1 .. MaxBookings
CoverageIds == 1 .. MaxCoverage
SuspensionIds == 1 .. MaxSuspensions
ReleaseIds == 1 .. MaxReleases

BookingRow ==
  [status: {"confirmed", "cancelled"}, type: Types, customer: Customers,
   umbrella: Umbrellas, slot: Slots, start: Days, end: Days,
   terminated: BOOLEAN, consent: BOOLEAN, total: Prices, collected: Nat,
   refunded: Nat, payment: PaymentStatus]

NoBooking == [status |-> "none"]

CoverageRow ==
  [id: CoverageIds, b: Bookings, umbrella: Umbrellas, slot: Slots,
   start: Days, end: Days, status: {"confirmed", "cancelled"}]

SuspensionRow ==
  [id: SuspensionIds, b: Bookings, start: Days, end: Days \cup {None},
   refunded: Nat]

ReleaseRow ==
  [id: ReleaseIds, b: Bookings, date: Days, canceled: BOOLEAN]

TransferRow == [previous: Customers, new: Customers]

Nobody == "nobody"

(* What a request holds between its steps: its input, what it has read.    *)
NoRequest ==
  [op |-> "none", pc |-> "idle", b |-> 0, from |-> None, to |-> None,
   amount |-> 0, ref |-> 0, flag |-> FALSE, who |-> Nobody, row |-> NoBooking,
   plan |-> {}]

Request ==
  [op: Methods, pc: {"loaded", "planned"}, b: Bookings \cup {0},
   from: Days \cup {None}, to: Days \cup {None}, amount: Nat, ref: Nat,
   flag: BOOLEAN, who: Customers \cup {Nobody},
   row: BookingRow \cup {NoBooking}, plan: SUBSET CoverageRow]

-----------------------------------------------------------------------------
(* What the queries return                                                 *)

Stored == { b \in Bookings : booking[b].status # "none" }

Sold(type) == { b \in Stored : booking[b].type = type }

Confirmed(b) == b \in Stored /\ booking[b].status = "confirmed"

(* The guards every operation on a subscription begins with.               *)
ActiveSubscription(b) ==
  /\ Confirmed(b)
  /\ booking[b].type = "subscription"
  /\ ~ booking[b].terminated

OpenSuspensions(b) == { s \in suspension : s.b = b /\ s.end = None }

ActiveReleases(b) == { r \in release : r.b = b /\ ~ r.canceled }

(* A variant that is not the code: the rows of the umbrella.               *)
OwnRowsOfUmbrella(b) ==
  { c \in coverage : b \in Stored /\ c.umbrella = booking[b].umbrella }

OwnRows(b) == { c \in coverage : c.b = b }

OwnCoverage(b) == { c \in OwnRows(b) : c.status = "confirmed" }

(* A variant that is not the code: earlier refunds forgotten.              *)
RefundFitsCollected(b, refund) == refund <= booking[b].collected

(* refund <= collected - refunded, on the row as it is read.               *)
RefundFits(b, refund) ==
  refund <= booking[b].collected - booking[b].refunded

(* A variant that is not the code: only a row that covers all the days.    *)
SeatTakenThroughout(umbrella, slot, from, to, b) ==
  \E c \in coverage :
     /\ c.status = "confirmed" /\ c.umbrella = umbrella /\ c.b # b
     /\ c.start <= from /\ to <= c.end
     /\ slotsOverlap(booking[c.b].slot, slot)

(* The pre-check of priceAndWrite, reactivate and cancelAbsenceRelease: a  *)
(* confirmed row of another booking on the seat, compared by the booking's *)
(* own time slot and not by the minutes stored in the row.                 *)
SeatTaken(umbrella, slot, from, to, b) ==
  \E c \in coverage :
     /\ c.status = "confirmed" /\ c.umbrella = umbrella /\ c.b # b
     /\ dateRangesOverlap(c.start, c.end, from, to)
     /\ slotsOverlap(booking[c.b].slot, slot)

(* deriveInterval: the intervals a booking of a type may have.             *)
Intervals(type) ==
  CASE type = "daily"        -> { Span(d, d) : d \in Days }
    [] type = "periodic"     -> { s \in [start: Days, end: Days] : s.start <= s.end }
    [] type = "subscription" -> { Span(1, LastDay) }

-----------------------------------------------------------------------------
(* Requests, locks, identifiers                                            *)

Least(S) == { n \in S : \A m \in S : n <= m }

FreshBooking == Least(Bookings \ Stored)

(* The identifier of a deleted row is never given again while a plan that  *)
(* read the row is still to be written.                                    *)
FreshCoverage ==
  Least(CoverageIds \ ({ c.id : c \in coverage }
                       \cup { f.id : f \in UNION { work[v].plan : v \in Workers } }))

FreshSuspension == Least(SuspensionIds \ { s.id : s \in suspension })

FreshRelease == Least(ReleaseIds \ { r.id : r \in release })

Begin(w, r) == /\ work[w] = NoRequest
               /\ r.op \in Methods
               /\ work' = [work EXCEPT ![w] = r]

Loaded(w, op) == work[w].op = op /\ work[w].pc = "loaded"

Planned(w, op) == work[w].op = op /\ work[w].pc = "planned"

Plan(w, fragments) ==
  work' = [work EXCEPT ![w].pc = "planned", ![w].plan = fragments]

Finish(w) == work' = [work EXCEPT ![w] = NoRequest]

(* The row lock a terminate holds on the booking it has updated.           *)
Unlocked(w, b) ==
  \A v \in Workers \ {w} : ~ (Planned(v, "terminate") /\ work[v].b = b)

(* applyCarve. An update or delete of a row that is gone fails (P2025).    *)
WriteCarve(w) ==
  LET r == work[w]
  IN  \E id \in FreshCoverage :
        /\ \A f \in r.plan : \E c \in coverage : c.id = f.id
        /\ coverage' = applyCarve(coverage, r.plan, r.from, r.to, id)
        /\ TableAccepts(coverage')

(* A new confirmed row; the trigger fills its minutes.                     *)
NewCoverage(id, b, row, from, to) ==
  [id |-> id, b |-> b, umbrella |-> row.umbrella, slot |-> row.slot,
   start |-> from, end |-> to, status |-> "confirmed"]

InsertCoverage(b, row, from, to) ==
  \E id \in FreshCoverage :
     /\ coverage' = coverage \cup { NewCoverage(id, b, row, from, to) }
     /\ TableAccepts(coverage')

(* A variant that is not the code: the ledger set and not incremented.     *)
SetRefund(b, amount) ==
  booking' = [booking EXCEPT ![b].refunded = amount]

AddRefund(b, amount) ==
  booking' = [booking EXCEPT ![b].refunded = @ + amount]

-----------------------------------------------------------------------------
(* create and priceAndWrite: the check of the seat, then the two inserts   *)

NewBooking(type, customer, umbrella, slot, span, total) ==
  [status |-> "confirmed", type |-> type, customer |-> customer,
   umbrella |-> umbrella, slot |-> slot, start |-> span.start, end |-> span.end,
   terminated |-> FALSE, consent |-> FALSE, total |-> total, collected |-> 0,
   refunded |-> 0, payment |-> "unpaid"]

CreateCheck(w) ==
  \E type \in Types, c \in Customers, u \in Umbrellas, k \in Slots,
     total \in Prices :
  \E span \in Intervals(type) :
     /\ ~ SeatTaken(u, k, span.start, span.end, 0)
     /\ Begin(w, [NoRequest EXCEPT !.op = "create", !.pc = "planned",
                                   !.row = NewBooking(type, c, u, k, span, total)])
     /\ UNCHANGED <<today, booking, coverage, suspension, release, transfer>>

CreateWrite(w) ==
  LET row == work[w].row
  IN  /\ Planned(w, "create")
      /\ row.type = "subscription" => Cardinality(Sold("subscription")) < MaxSubscriptions
      /\ \E b \in FreshBooking :
            /\ booking' = [booking EXCEPT ![b] = row]
            /\ InsertCoverage(b, row, row.start, row.end)
      /\ Finish(w)
      /\ UNCHANGED <<today, suspension, release, transfer>>

-----------------------------------------------------------------------------
(* cancel: the trigger booking_sync_coverage_status follows the status     *)

CancelLoad(w) ==
  \E b \in Bookings :
     /\ Confirmed(b)
     /\ Begin(w, [NoRequest EXCEPT !.op = "cancel", !.pc = "loaded", !.b = b])
     /\ UNCHANGED <<today, booking, coverage, suspension, release, transfer>>

CancelWrite(w) ==
  LET b == work[w].b
  IN  /\ Loaded(w, "cancel") /\ Unlocked(w, b)
      /\ booking' = [booking EXCEPT ![b].status = "cancelled"]
      /\ coverage' = { IF c.b = b THEN [c EXCEPT !.status = "cancelled"] ELSE c :
                         c \in coverage }
      /\ Finish(w)
      /\ UNCHANGED <<today, suspension, release, transfer>>

-----------------------------------------------------------------------------
(* settlePayment: an absolute amount, whatever has been refunded           *)

SettlePaymentLoad(w) ==
  \E b \in Stored, amount \in Amounts, hasMethod \in BOOLEAN :
     /\ booking[b].status # "cancelled"
     /\ ResolveOk(amount, booking[b].total, hasMethod)
     /\ Begin(w, [NoRequest EXCEPT !.op = "settlePayment", !.pc = "loaded",
                                   !.b = b, !.amount = amount])
     /\ UNCHANGED <<today, booking, coverage, suspension, release, transfer>>

SettlePaymentWrite(w) ==
  LET r == work[w]
  IN  /\ Loaded(w, "settlePayment") /\ Unlocked(w, r.b)
      /\ booking' = [booking EXCEPT
                       ![r.b].collected = r.amount,
                       ![r.b].payment = ResolvedStatus(r.amount, booking[r.b].total)]
      /\ Finish(w)
      /\ UNCHANGED <<today, coverage, suspension, release, transfer>>

-----------------------------------------------------------------------------
(* suspend: closed, [from, to], or open, from `from' on                    *)

SuspendLoad(w) ==
  \E b \in Bookings, from \in Days, to \in Days \cup {None}, refund \in Amounts :
     /\ ActiveSubscription(b)
     /\ OpenSuspensions(b) = {}
     /\ today <= from /\ from <= booking[b].end
     /\ to = None => refund = 0
     /\ RefundFits(b, refund)
     /\ to # None => from <= to /\ to < booking[b].end
     /\ Begin(w, [NoRequest EXCEPT !.op = "suspend", !.pc = "loaded", !.b = b,
                                   !.from = from, !.to = to, !.amount = refund])
     /\ UNCHANGED <<today, booking, coverage, suspension, release, transfer>>

(* A variant that is not the code: the later fragments left alone.         *)
SuspendReadOneFragment(w) ==
  LET r == work[w]
      here == { c \in OwnCoverage(r.b) :
                  /\ c.start <= r.from
                  /\ (IF r.to = None THEN r.from ELSE r.to) <= c.end }
  IN  /\ Loaded(w, "suspend")
      /\ here # {}
      /\ Plan(w, here)
      /\ UNCHANGED <<today, booking, coverage, suspension, release, transfer>>

(* The hole has to lie inside one fragment; an open one has to begin there.*)
SuspendRead(w) ==
  LET r == work[w]
      own == OwnCoverage(r.b)
  IN  /\ Loaded(w, "suspend")
      /\ \E c \in own : /\ c.start <= r.from
                        /\ (IF r.to = None THEN r.from ELSE r.to) <= c.end
      /\ Plan(w, Carved(own, r.from, r.to))
      /\ UNCHANGED <<today, booking, coverage, suspension, release, transfer>>

(* A unique index allows one open suspension of a booking.                 *)
SuspendWrite(w) ==
  LET r == work[w]
  IN  /\ Planned(w, "suspend")
      /\ WriteCarve(w)
      /\ r.to = None => OpenSuspensions(r.b) = {}
      /\ \E id \in FreshSuspension :
            suspension' = suspension \cup
              { [id |-> id, b |-> r.b, start |-> r.from, end |-> r.to,
                 refunded |-> r.amount] }
      /\ IF r.amount > 0 THEN Unlocked(w, r.b) /\ AddRefund(r.b, r.amount)
                         ELSE UNCHANGED booking
      /\ Finish(w)
      /\ UNCHANGED <<today, release, transfer>>

-----------------------------------------------------------------------------
(* reactivate: the open suspension ends the day before the return          *)

ReactivateLoad(w) ==
  \E s \in suspension, return \in Days, refund \in Amounts :
     /\ ActiveSubscription(s.b)
     /\ s.end = None
     /\ s.start < return /\ return <= booking[s.b].end
     /\ RefundFits(s.b, refund)
     /\ Begin(w, [NoRequest EXCEPT !.op = "reactivate", !.pc = "loaded", !.b = s.b,
                                   !.from = return, !.to = booking[s.b].end,
                                   !.amount = refund, !.ref = s.id])
     /\ UNCHANGED <<today, booking, coverage, suspension, release, transfer>>

(* Shared by reactivate and cancelAbsenceRelease: the days to take back    *)
(* have not been sold to another booking.                                  *)
NotResold(w, op) ==
  LET r == work[w]
      row == booking[r.b]
  IN  /\ Loaded(w, op)
      /\ ~ SeatTaken(row.umbrella, row.slot, r.from, r.to, r.b)
      /\ Plan(w, {})
      /\ UNCHANGED <<today, booking, coverage, suspension, release, transfer>>

ReactivateCheck(w) == NotResold(w, "reactivate")

ReactivateWrite(w) ==
  LET r == work[w]
  IN  /\ Planned(w, "reactivate")
      /\ InsertCoverage(r.b, booking[r.b], r.from, r.to)
      /\ suspension' = { IF s.id = r.ref
                         THEN [s EXCEPT !.end = r.from - 1, !.refunded = r.amount]
                         ELSE s : s \in suspension }
      /\ IF r.amount > 0 THEN Unlocked(w, r.b) /\ AddRefund(r.b, r.amount)
                         ELSE UNCHANGED booking
      /\ Finish(w)
      /\ UNCHANGED <<today, release, transfer>>

-----------------------------------------------------------------------------
(* terminate: `from' is the first day the seat is free again               *)

TerminateLoad(w) ==
  \E b \in Bookings, effective \in Days, refund \in Amounts :
     /\ ActiveSubscription(b)
     /\ OpenSuspensions(b) = {}
     /\ booking[b].start < effective /\ effective <= booking[b].end
     /\ RefundFits(b, refund)
     /\ Begin(w, [NoRequest EXCEPT !.op = "terminate", !.pc = "loaded", !.b = b,
                                   !.from = effective, !.amount = refund])
     /\ UNCHANGED <<today, booking, coverage, suspension, release, transfer>>

(* The booking is updated, under its row lock and unseen until the commit, *)
(* and then the fragments are read, of any status.                         *)
TerminateRead(w) ==
  LET r == work[w]
  IN  /\ Loaded(w, "terminate") /\ Unlocked(w, r.b)
      /\ Plan(w, Carved(OwnRows(r.b), r.from, None))
      /\ UNCHANGED <<today, booking, coverage, suspension, release, transfer>>

TerminateWrite(w) ==
  LET r == work[w]
  IN  /\ Planned(w, "terminate")
      /\ booking' = [booking EXCEPT ![r.b].end = r.from - 1,
                                    ![r.b].terminated = TRUE,
                                    ![r.b].refunded = @ + r.amount]
      /\ WriteCarve(w)
      /\ Finish(w)
      /\ UNCHANGED <<today, suspension, release, transfer>>

-----------------------------------------------------------------------------
(* transfer: another customer becomes the holder                           *)

TransferLoad(w) ==
  \E b \in Bookings, new \in Customers, back, paid \in Amounts :
     /\ ActiveSubscription(b)
     /\ OpenSuspensions(b) = {}
     /\ new # booking[b].customer
     /\ CessionOk(booking[b].collected, booking[b].total, back, paid)
     /\ Begin(w, [NoRequest EXCEPT !.op = "transfer", !.pc = "loaded", !.b = b,
                    !.amount = NewCollected(booking[b].collected, back, paid),
                    !.who = new, !.row = booking[b]])
     /\ UNCHANGED <<today, booking, coverage, suspension, release, transfer>>

(* A variant that is not the code: the holder of the booking not updated.  *)
TransferWriteSameHolder(w) ==
  LET r == work[w]
  IN  /\ Loaded(w, "transfer") /\ Unlocked(w, r.b)
      /\ Len(transfer[r.b]) < MaxTransfers
      /\ transfer' = [transfer EXCEPT ![r.b] =
                        Append(@, [previous |-> r.row.customer, new |-> r.who])]
      /\ booking' = [booking EXCEPT
                       ![r.b].collected = r.amount,
                       ![r.b].payment = CessionStatus(r.amount, r.row.total)]
      /\ Finish(w)
      /\ UNCHANGED <<today, coverage, suspension, release>>

TransferWrite(w) ==
  LET r == work[w]
  IN  /\ Loaded(w, "transfer") /\ Unlocked(w, r.b)
      /\ Len(transfer[r.b]) < MaxTransfers
      /\ transfer' = [transfer EXCEPT ![r.b] =
                        Append(@, [previous |-> r.row.customer, new |-> r.who])]
      /\ booking' = [booking EXCEPT
                       ![r.b].customer = r.who,
                       ![r.b].collected = r.amount,
                       ![r.b].payment = CessionStatus(r.amount, r.row.total)]
      /\ Finish(w)
      /\ UNCHANGED <<today, coverage, suspension, release>>

-----------------------------------------------------------------------------
(* setAbsenceConsent: granted or revoked, whatever has been released       *)

SetAbsenceConsentLoad(w) ==
  \E b \in Bookings, consent \in BOOLEAN :
     /\ ActiveSubscription(b)
     /\ Begin(w, [NoRequest EXCEPT !.op = "setAbsenceConsent", !.pc = "loaded",
                                   !.b = b, !.flag = consent])
     /\ UNCHANGED <<today, booking, coverage, suspension, release, transfer>>

SetAbsenceConsentWrite(w) ==
  LET r == work[w]
  IN  /\ Loaded(w, "setAbsenceConsent") /\ Unlocked(w, r.b)
      /\ booking' = [booking EXCEPT ![r.b].consent = r.flag]
      /\ Finish(w)
      /\ UNCHANGED <<today, coverage, suspension, release, transfer>>

-----------------------------------------------------------------------------
(* releaseAbsence: one day is given up for resale                          *)

ReleaseAbsenceLoad(w) ==
  \E b \in Bookings, date \in Days :
     /\ ActiveSubscription(b)
     /\ OpenSuspensions(b) = {}
     /\ booking[b].consent
     /\ booking[b].start <= date /\ date <= booking[b].end
     /\ today <= date
     /\ \A r \in ActiveReleases(b) : r.date # date
     /\ Begin(w, [NoRequest EXCEPT !.op = "releaseAbsence", !.pc = "loaded",
                                   !.b = b, !.from = date, !.to = date])
     /\ UNCHANGED <<today, booking, coverage, suspension, release, transfer>>

ReleaseAbsenceRead(w) ==
  LET r == work[w]
      own == OwnCoverage(r.b)
  IN  /\ Loaded(w, "releaseAbsence")
      /\ \E c \in own : c.start <= r.from /\ r.from <= c.end
      /\ Plan(w, Carved(own, r.from, r.to))
      /\ UNCHANGED <<today, booking, coverage, suspension, release, transfer>>

(* A unique index allows one active release of a day of a booking.         *)
ReleaseAbsenceWrite(w) ==
  LET r == work[w]
  IN  /\ Planned(w, "releaseAbsence")
      /\ WriteCarve(w)
      /\ \A x \in ActiveReleases(r.b) : x.date # r.from
      /\ \E id \in FreshRelease :
            release' = release \cup
              { [id |-> id, b |-> r.b, date |-> r.from, canceled |-> FALSE] }
      /\ Finish(w)
      /\ UNCHANGED <<today, booking, suspension, transfer>>

-----------------------------------------------------------------------------
(* cancelAbsenceRelease: the day is taken back, if nobody bought it        *)

CancelAbsenceReleaseLoad(w) ==
  \E x \in release :
     /\ ~ x.canceled
     /\ ActiveSubscription(x.b)
     /\ OpenSuspensions(x.b) = {}
     /\ Begin(w, [NoRequest EXCEPT !.op = "cancelAbsenceRelease", !.pc = "loaded",
                                   !.b = x.b, !.from = x.date, !.to = x.date,
                                   !.ref = x.id])
     /\ UNCHANGED <<today, booking, coverage, suspension, release, transfer>>

CancelAbsenceReleaseCheck(w) == NotResold(w, "cancelAbsenceRelease")

CancelAbsenceReleaseWrite(w) ==
  LET r == work[w]
  IN  /\ Planned(w, "cancelAbsenceRelease")
      /\ InsertCoverage(r.b, booking[r.b], r.from, r.to)
      /\ release' = { IF x.id = r.ref THEN [x EXCEPT !.canceled = TRUE] ELSE x :
                        x \in release }
      /\ Finish(w)
      /\ UNCHANGED <<today, booking, suspension, transfer>>

-----------------------------------------------------------------------------
(* A request that fails, is refused by a constraint or is cut off: its     *)
(* transaction rolls back.                                                 *)
Abort(w) ==
  /\ work[w] # NoRequest
  /\ Finish(w)
  /\ UNCHANGED <<today, booking, coverage, suspension, release, transfer>>

AdvanceDay ==
  /\ today < LastToday
  /\ today' = today + 1
  /\ UNCHANGED <<booking, coverage, suspension, release, transfer, work>>

-----------------------------------------------------------------------------
Init ==
  /\ today = 1
  /\ booking = [b \in Bookings |-> NoBooking]
  /\ coverage = {} /\ suspension = {} /\ release = {}
  /\ transfer = [b \in Bookings |-> <<>>]
  /\ work = [w \in Workers |-> NoRequest]

Next ==
  \/ AdvanceDay
  \/ \E w \in Workers :
       \/ CreateCheck(w)         \/ CreateWrite(w)
       \/ CancelLoad(w)          \/ CancelWrite(w)
       \/ SettlePaymentLoad(w)   \/ SettlePaymentWrite(w)
       \/ SuspendLoad(w)    \/ SuspendRead(w)     \/ SuspendWrite(w)
       \/ ReactivateLoad(w) \/ ReactivateCheck(w) \/ ReactivateWrite(w)
       \/ TerminateLoad(w)  \/ TerminateRead(w)   \/ TerminateWrite(w)
       \/ TransferLoad(w)          \/ TransferWrite(w)
       \/ SetAbsenceConsentLoad(w) \/ SetAbsenceConsentWrite(w)
       \/ ReleaseAbsenceLoad(w) \/ ReleaseAbsenceRead(w) \/ ReleaseAbsenceWrite(w)
       \/ CancelAbsenceReleaseLoad(w) \/ CancelAbsenceReleaseCheck(w)
       \/ CancelAbsenceReleaseWrite(w)
       \/ Abort(w)

Spec == Init /\ [][Next]_vars
-----------------------------------------------------------------------------
(* Every variable holds values of its type: the rows the tables may hold,  *)
(* and requests built by the service methods.                              *)
TypeOK ==
  /\ today \in Days
  /\ booking \in [Bookings -> BookingRow \cup {NoBooking}]
  /\ coverage \subseteq CoverageRow
  /\ suspension \subseteq SuspensionRow
  /\ release \subseteq ReleaseRow
  /\ transfer \in [Bookings -> Seq(TransferRow)]
  /\ work \in [Workers -> Request \cup {NoRequest}]

-----------------------------------------------------------------------------
(* Occupation                                                              *)

Occupied(b) == UNION { DaysOf(c) : c \in OwnCoverage(b) }

Excused(b, d) ==
  \/ \E s \in suspension :
        s.b = b /\ s.start <= d /\ (s.end = None \/ d <= s.end)
  \/ \E r \in ActiveReleases(b) : r.date = d

(* No day of a contract is lost: as long as a booking is confirmed and not *)
(* terminated, each day it was sold for is either occupied by it or given  *)
(* up by a suspension or an absence that is on record. The rewriting of    *)
(* fragments by applyCarve, reactivate and cancelAbsenceRelease keeps it,  *)
(* however their transactions overlap.                                     *)
DayConservation ==
  \A b \in Stored :
     Confirmed(b) /\ ~ booking[b].terminated =>
       \A d \in booking[b].start .. booking[b].end :
          d \in Occupied(b) \/ Excused(b, d)

(* No two bookings hold clashing seats on the same day (ADR-0013,          *)
(* ADR-0037): however the check of one request and the write of another    *)
(* interleave, compared by the time slots of the bookings.                 *)
NoDoubleBooking ==
  \A b, c \in Stored :
     /\ b # c
     /\ booking[b].umbrella = booking[c].umbrella
     /\ slotsOverlap(booking[b].slot, booking[c].slot)
     => Occupied(b) \cap Occupied(c) = {}

(* A booking occupies no day outside its contract: up to endDate while it  *)
(* is running, up to the last valid day once it is terminated              *)
(* (docs/design/flows.md, the key invariants of the life cycle).           *)
CoverageWithinContract ==
  \A b \in Stored : Occupied(b) \subseteq booking[b].start .. booking[b].end

(* While a suspension is open the subscription occupies no day from its    *)
(* start on, so that reactivate can insert the whole tail.                 *)
OpenSuspensionFreesTail ==
  \A s \in suspension :
     s.end = None /\ Confirmed(s.b) => \A d \in Occupied(s.b) : d < s.start

(* A cancelled booking blocks no seat: the trigger keeps the status of its *)
(* fragments, those created by later operations included.                  *)
CancelledFreesSeat ==
  \A b \in Stored : booking[b].status = "cancelled" => Occupied(b) = {}

(* What a booking occupies one request at a time.                          *)
OccupationAsAgreed ==
  CoverageWithinContract /\ OpenSuspensionFreesTail /\ CancelledFreesSeat

(* The check of reactivate is enough: once it has passed, the insert is    *)
(* refused by the constraint only when another request has come in         *)
(* between.                                                                *)
ReactivateNeverRefused ==
  \A w \in Workers :
     Planned(w, "reactivate") =>
       LET r == work[w]
       IN  \A c \in coverage :
             ~ Collides(c, NewCoverage(0, r.b, booking[r.b], r.from, r.to))

(* The same of cancelAbsenceRelease (bookings.service.ts: the constraint   *)
(* "resta backstop di sola race").                                         *)
CancelReleaseNeverRefused ==
  \A w \in Workers :
     Planned(w, "cancelAbsenceRelease") =>
       LET r == work[w]
       IN  \A c \in coverage :
             ~ Collides(c, NewCoverage(0, r.b, booking[r.b], r.from, r.to))

(* What a request puts on record is true when it commits: a suspension or  *)
(* an absence that is created, or a suspension that is closed, leaves none *)
(* of its days occupied by the subscription. A later reactivate may take   *)
(* the day of an absence back, so no invariant says it.                    *)
FreedOnCommit ==
  [][/\ \A s \in suspension' \ suspension :
           \A d \in s.start .. (IF s.end = None THEN LastDay ELSE s.end) :
              d \notin Occupied(s.b)'
     /\ \A x \in release' \ release :
           ~ x.canceled => x.date \notin Occupied(x.b)']_vars

(* The occupation, seen as a calendar: what it promises is SeatCalendar.   *)
Calendar ==
  INSTANCE SeatCalendar WITH
    Seats <- [umbrella: Umbrellas, slot: Slots],
    NoSeat <- NoBooking,
    Clash <- SameSeat,
    seat <- [b \in Bookings |->
               IF b \in Stored
               THEN [umbrella |-> booking[b].umbrella, slot |-> booking[b].slot]
               ELSE NoBooking],
    occupied <- [b \in Bookings |-> Occupied(b)]

(* As long as requests do not overlap, every method changes the calendar   *)
(* as it promises: an interval of days is sold, given back or taken back,  *)
(* nothing else of the booking moves and no other booking is touched.      *)
CalendarSpec == Calendar!Spec

-----------------------------------------------------------------------------
(* Money and the holder                                                    *)

(* The payment status says what has been collected, and no more than the   *)
(* total is, whichever of settlePayment and transfer wrote last (ADR-0011).*)
PaymentConsistent ==
  \A b \in Stored :
     LET r == booking[b]
     IN  /\ r.collected <= r.total
         /\ r.payment = "paid"    => r.collected = r.total
         /\ r.payment = "partial" => 0 < r.collected /\ r.collected < r.total
         /\ r.payment = "unpaid"  => r.collected = 0

SuspensionRefunds(b) ==
  MapThenSumSet(LAMBDA s : s.refunded, { s \in suspension : s.b = b })

(* refundedAmount is a cumulative ledger: it accounts for every refund that*)
(* a suspension records, and for nothing else until the termination.       *)
RefundLedger ==
  \A b \in Stored :
     /\ SuspensionRefunds(b) <= booking[b].refunded
     /\ ~ booking[b].terminated => SuspensionRefunds(b) = booking[b].refunded

(* The ledger never goes down, and a refund is only given out of what is   *)
(* collected at that moment (docs/design/flows.md, D4).                    *)
RefundStep ==
  [][\A b \in Stored :
        LET old == booking[b].refunded
            new == booking'[b].refunded
        IN  old <= new /\ (old < new => new <= booking[b].collected)]_vars

(* The history of the holder is a chain that ends with the present one,    *)
(* and no link of it hands a subscription to who had it.                   *)
TransferChain ==
  \A b \in Stored :
     LET h == transfer[b]
     IN  /\ h # <<>> => h[Len(h)].new = booking[b].customer
         /\ \A i \in 1 .. Len(h) : h[i].previous # h[i].new
         /\ \A i \in 1 .. Len(h) - 1 : h[i].new = h[i+1].previous
=============================================================================
