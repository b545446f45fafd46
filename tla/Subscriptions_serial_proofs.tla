--------------------- MODULE Subscriptions_serial_proofs ---------------------
(***************************************************************************)
(* What the methods do to the occupation when requests do not overlap, for *)
(* any number of bookings, days, slots and rows. What a request has checked*)
(* still holds when it writes, and its plan is the rows as they are, so a  *)
(* carve takes exactly the days of the hole (CarveExact) and an insert adds*)
(* exactly the days asked for. The calendar of SeatCalendar is refined step*)
(* by step, the occupation is what was agreed with the customer, and the   *)
(* ledger of refunds adds up.                                              *)
(***************************************************************************)
EXTENDS Subscriptions_proofs, WellFoundedInduction, FiniteSetTheorems

(* One request at a time.                                                  *)
Serial == \A v, w \in Workers : v = w

Carvers == {"suspend", "terminate", "releaseAbsence"}
Returners == {"reactivate", "cancelAbsenceRelease"}

(* What a request has checked, and its plan, are still true.               *)
Undisturbed(r) ==
  /\ r.op = "create" => r.row.status = "confirmed"
  /\ r.op \in Carvers \cup Returners \cup {"transfer"} => ActiveSubscription(r.b)
  /\ r.op \in Carvers \cup {"cancelAbsenceRelease", "transfer"} => OpenSuspensions(r.b) = {}
  /\ r.op = "reactivate" =>
       \E s \in OpenSuspensions(r.b) : s.id = r.ref /\ s.start < r.from
  /\ r.op \in Carvers \cup Returners => r.from <= booking[r.b].end
  /\ r.op \in {"terminate", "releaseAbsence", "cancelAbsenceRelease"} =>
       booking[r.b].start <= r.from
  /\ r.op \in Carvers /\ r.pc = "planned" =>
       /\ r.plan = Carved(OwnCoverage(r.b), r.from, r.to)
       /\ booking[r.b].start <= r.from
  /\ r.op \in Returners /\ r.pc = "planned" =>
       ~ SeatTaken(booking[r.b].umbrella, booking[r.b].slot, r.from, r.to, r.b)
  /\ r.op \in {"suspend", "reactivate", "terminate"} => RefundFits(r.b, r.amount)
  /\ r.op = "transfer" => r.row = booking[r.b] /\ r.who # r.row.customer

(* The records of suspensions: a key each, one open of a booking, and none *)
(* from before the contract.                                               *)
SuspensionsAgreed ==
  /\ \A s, t \in suspension : s.id = t.id => s = t
  /\ \A s, t \in suspension : s.b = t.b /\ s.end = None /\ t.end = None => s = t
  /\ \A s \in suspension : s.b \in Stored /\ booking[s.b].start <= s.start

ReleasesAgreed ==
  \A x \in release :
     /\ x.b \in Stored /\ booking[x.b].start <= x.date
     /\ ~ booking[x.b].terminated => x.date <= booking[x.b].end

SerialInv ==
  /\ \A w \in Workers : work[w] # NoRequest => Undisturbed(work[w])
  /\ RangesValid(coverage) /\ SuspensionsAgreed /\ ReleasesAgreed
  /\ OccupationAsAgreed
  /\ \A b \in Bookings \ Stored : transfer[b] = <<>>
  /\ TransferChain

SerialSound == Sound /\ SerialInv

-----------------------------------------------------------------------------
(* The days a booking occupies, before and after a write                   *)

LEMMA OccupiedDays ==
  ASSUME WellFormed, NEW b, NEW d
  PROVE  /\ d \in Occupied(b) <=> Held(coverage, b, d)
         /\ d \in Occupied(b) => d \in Days
<1>1. d \in Occupied(b) <=> Held(coverage, b, d)
  BY DEF Occupied, OwnCoverage, OwnRows, Held
<1>2. \A c \in coverage : DaysOf(c) \subseteq Days
  BY LastDayAssumption DEF WellFormed, TypeOK, CoverageRow, DaysOf, Days
<1> QED
  BY <1>1, <1>2 DEF Held

(* A carve takes the days of the hole, and nothing of another booking.     *)
LEMMA CarveOccupied ==
  ASSUME SerialSound, NEW w \in Workers, Carves(w), NEW b \in Bookings, NEW d
  PROVE  d \in Occupied(b)' <=>
           d \in Occupied(b) /\ ~ (b = work[w].b /\ Hole(work[w].from, work[w].to, d))
<1> DEFINE r == work[w]
<1>1. /\ r # NoRequest /\ r.op \in Carvers /\ r.b \in Stored
      /\ r.plan \subseteq CoverageRow /\ coverage \subseteq CoverageRow
      /\ r.from \in Days /\ r.to \in Days \cup {None}
  BY CarverTypes DEF Carves, Carvers, SerialSound, Sound
<1>2. r.pc = "planned"
  BY DEF Carves, SuspendWrite, TerminateWrite, ReleaseAbsenceWrite, Planned
<1>3. r.plan = Carved(OwnCoverage(r.b), r.from, r.to)
  BY <1>1, <1>2 DEF SerialSound, SerialInv, Undisturbed
<1>4. PICK id \in FreshCoverage : coverage' = applyCarve(coverage, r.plan, r.from, r.to, id)
  BY DEF Carves, SuspendWrite, TerminateWrite, ReleaseAbsenceWrite, WriteCarve
<1>5. r.to = None \/ r.from <= r.to
  BY <1>1, LastDayAssumption DEF SerialSound, Sound, DaysInv, RequestRight, DatesRight,
     Carvers, Days
<1>6. \A c, e \in coverage : c.id = e.id => c = e
  BY DEF SerialSound, Sound, DaysInv, KeysTell
<1>7. d \in Occupied(b) <=> Held(coverage, b, d)
  BY OccupiedDays DEF SerialSound, Sound
<1>8. d \in Occupied(b)' <=> Held(coverage', b, d)
  BY DEF Occupied, OwnCoverage, OwnRows, Held
<1>9. id \in Int /\ coverage \subseteq Row(Bookings, Umbrellas, Slots)
      /\ r.from \in Int /\ r.to \in Int
  BY <1>1, CoverageRowIsRow, FreshRow, BoundsAssumption, LastDayAssumption
     DEF CoverageIds, Days, None
<1> HIDE DEF r
<1>10. CASE b = r.b
  <2>1. r.plan = Carved({ c \in coverage : c.b = b /\ c.status = "confirmed" }, r.from, r.to)
    BY <1>3, <1>10 DEF OwnCoverage, OwnRows, Carved
  <2>2. CASE d \in Int
    <3>1. Held(coverage', b, d) <=> Held(coverage, b, d) /\ ~ Hole(r.from, r.to, d)
      BY <1>4, <1>5, <1>6, <1>9, <2>1, <2>2, CarveExact
    <3> QED
      BY <1>7, <1>8, <1>10, <3>1 DEF r
  <2>3. CASE d \notin Int
    <3>1. d \notin Occupied(b) /\ d \notin Occupied(b)'
      BY <2>3 DEF Occupied, DaysOf
    <3> QED
      BY <3>1
  <2> QED
    BY <2>2, <2>3
<1>11. CASE b # r.b
  <2>1. \A f \in r.plan : f \in coverage /\ f.b = r.b
    BY <1>3 DEF Carved, OwnCoverage, OwnRows
  <2>2. \A c \in coverage : c.b = b => c \in coverage'
    BY <1>4, <1>6, <1>11, <2>1, CarveHolds
  <2>3. \A x \in coverage' : x.b = b => x \in coverage
    <3>1. ASSUME NEW x \in coverage', x.b = b, x \notin coverage
          PROVE  FALSE
      <4>1. CASE \E f \in r.plan : \E c \in coverage :
                    c.id = f.id /\ Survives(f, r.from, r.to) /\ x = KeptRow(c, f, r.from, r.to)
        <5>1. PICK f \in r.plan, c \in coverage :
                c.id = f.id /\ Survives(f, r.from, r.to) /\ x = KeptRow(c, f, r.from, r.to)
          BY <4>1
        <5>2. InHole(f, r.from, r.to) /\ c = f
          BY <1>3, <1>6, <2>1, <5>1 DEF Carved
        <5>3. x.b = c.b
          BY <1>1, <5>1, <5>2, KeptRowFacts DEF r
        <5> QED
          BY <1>11, <2>1, <3>1, <5>2, <5>3
      <4>2. CASE \E f \in r.plan : Splits(f, r.from, r.to) /\ x = ExtraRow(f, r.from, r.to, id)
        <5>1. PICK f \in r.plan : x = ExtraRow(f, r.from, r.to, id)
          BY <4>2
        <5>2. x.b = f.b
          BY <1>1, <5>1, ExtraRowFacts DEF r
        <5> QED
          BY <1>11, <2>1, <3>1, <5>2
      <4> QED
        BY <1>4, <3>1, <4>1, <4>2, CarveForms
    <3> QED
      BY <3>1
  <2>4. Held(coverage', b, d) <=> Held(coverage, b, d)
    BY <2>2, <2>3 DEF Held
  <2> QED
    BY <1>7, <1>8, <1>11, <2>4 DEF r
<1> QED
  BY <1>10, <1>11

(* An insert adds the days of the new row.                                 *)
LEMMA InsertOccupied ==
  ASSUME NEW n, NEW row, NEW from, NEW to, InsertCoverage(n, row, from, to),
         NEW b, NEW d
  PROVE  d \in Occupied(b)' <=> d \in Occupied(b) \/ (b = n /\ d \in from .. to)
<1>1. PICK id : coverage' = coverage \cup { NewCoverage(id, n, row, from, to) }
  BY DEF InsertCoverage
<1>2. LET x == NewCoverage(id, n, row, from, to)
      IN  x.b = n /\ x.status = "confirmed" /\ DaysOf(x) = from .. to
  BY DEF NewCoverage, DaysOf
<1>3. d \in Occupied(b)' <=> \E c \in coverage' : c.b = b /\ c.status = "confirmed" /\ d \in DaysOf(c)
  BY DEF Occupied, OwnCoverage, OwnRows
<1>4. d \in Occupied(b) <=> \E c \in coverage : c.b = b /\ c.status = "confirmed" /\ d \in DaysOf(c)
  BY DEF Occupied, OwnCoverage, OwnRows
<1> QED
  BY <1>1, <1>2, <1>3, <1>4

(* A cancellation takes all the days of its booking.                       *)
LEMMA CancelOccupied ==
  ASSUME WellFormed, NEW w \in Workers, CancelWrite(w), NEW b, NEW d
  PROVE  d \in Occupied(b)' <=> d \in Occupied(b) /\ b # work[w].b
<1>1. coverage' = { IF c.b = work[w].b THEN [c EXCEPT !.status = "cancelled"] ELSE c :
                      c \in coverage }
  BY DEF CancelWrite
<1>2. \A c \in coverage : LET x == [c EXCEPT !.status = "cancelled"]
                          IN  x.b = c.b /\ x.status = "cancelled"
  BY DEF WellFormed, TypeOK, CoverageRow
<1>3. d \in Occupied(b)' <=> \E c \in coverage' : c.b = b /\ c.status = "confirmed" /\ d \in DaysOf(c)
  BY DEF Occupied, OwnCoverage, OwnRows
<1>4. d \in Occupied(b) <=> \E c \in coverage : c.b = b /\ c.status = "confirmed" /\ d \in DaysOf(c)
  BY DEF Occupied, OwnCoverage, OwnRows
<1> QED
  BY <1>1, <1>2, <1>3, <1>4

-----------------------------------------------------------------------------
(* New requests and their plans                                            *)

LEMMA LoadUndisturbed ==
  ASSUME SerialSound, NEW w \in Workers, LoadStep(w)
  PROVE  \E r : Undisturbed(r) /\ work' = [work EXCEPT ![w] = r]
<1>0. \A b : ActiveSubscription(b) => booking[b] \in BookingRow
  BY BookingIsRow DEF SerialSound, Sound, WellFormed, ActiveSubscription, Confirmed, Stored
<1>1. CASE SuspendLoad(w)
  <2>1. PICK b \in Bookings, from \in Days, to \in Days \cup {None}, refund \in Amounts :
          /\ ActiveSubscription(b) /\ OpenSuspensions(b) = {}
          /\ from <= booking[b].end /\ RefundFits(b, refund)
          /\ Begin(w, [NoRequest EXCEPT !.op = "suspend", !.pc = "loaded", !.b = b,
                                        !.from = from, !.to = to, !.amount = refund])
    BY <1>1 DEF SuspendLoad
  <2> DEFINE r == [NoRequest EXCEPT !.op = "suspend", !.pc = "loaded", !.b = b,
                                    !.from = from, !.to = to, !.amount = refund]
  <2>2. r.op = "suspend" /\ r.pc = "loaded" /\ r.b = b /\ r.from = from /\ r.amount = refund
    BY DEF NoRequest
  <2>3. work' = [work EXCEPT ![w] = r]
    BY <2>1 DEF Begin
  <2> HIDE DEF r
  <2> QED
    BY <2>1, <2>2, <2>3 DEF Undisturbed, Carvers, Returners
<1>2. CASE ReactivateLoad(w)
  <2>1. PICK s \in suspension, return \in Days, refund \in Amounts :
          /\ ActiveSubscription(s.b) /\ s.end = None /\ s.start < return
          /\ return <= booking[s.b].end /\ RefundFits(s.b, refund)
          /\ Begin(w, [NoRequest EXCEPT !.op = "reactivate", !.pc = "loaded", !.b = s.b,
                                        !.from = return, !.to = booking[s.b].end,
                                        !.amount = refund, !.ref = s.id])
    BY <1>2 DEF ReactivateLoad
  <2> DEFINE r == [NoRequest EXCEPT !.op = "reactivate", !.pc = "loaded", !.b = s.b,
                                    !.from = return, !.to = booking[s.b].end,
                                    !.amount = refund, !.ref = s.id]
  <2>2. /\ r.op = "reactivate" /\ r.pc = "loaded" /\ r.b = s.b /\ r.from = return
        /\ r.ref = s.id /\ r.amount = refund
    BY DEF NoRequest
  <2>3. work' = [work EXCEPT ![w] = r]
    BY <2>1 DEF Begin
  <2> HIDE DEF r
  <2>4. s \in OpenSuspensions(r.b) /\ s.id = r.ref /\ s.start < r.from
    BY <2>1, <2>2 DEF OpenSuspensions
  <2> QED
    BY <2>1, <2>2, <2>3, <2>4 DEF Undisturbed, Carvers, Returners
<1>3. CASE TerminateLoad(w)
  <2>1. PICK b \in Bookings, effective \in Days, refund \in Amounts :
          /\ ActiveSubscription(b) /\ OpenSuspensions(b) = {}
          /\ booking[b].start < effective /\ effective <= booking[b].end
          /\ RefundFits(b, refund)
          /\ Begin(w, [NoRequest EXCEPT !.op = "terminate", !.pc = "loaded", !.b = b,
                                        !.from = effective, !.amount = refund])
    BY <1>3 DEF TerminateLoad
  <2> DEFINE r == [NoRequest EXCEPT !.op = "terminate", !.pc = "loaded", !.b = b,
                                    !.from = effective, !.amount = refund]
  <2>2. /\ r.op = "terminate" /\ r.pc = "loaded" /\ r.b = b /\ r.from = effective
        /\ r.amount = refund
    BY DEF NoRequest
  <2>3. work' = [work EXCEPT ![w] = r]
    BY <2>1 DEF Begin
  <2>4. booking[b].start <= effective
    BY <1>0, <2>1, LastDayAssumption DEF BookingRow, Days
  <2> HIDE DEF r
  <2> QED
    BY <2>1, <2>2, <2>3, <2>4 DEF Undisturbed, Carvers, Returners
<1>4. CASE TransferLoad(w)
  <2>1. PICK b \in Bookings, new \in Customers, back, paid \in Amounts :
          /\ ActiveSubscription(b) /\ OpenSuspensions(b) = {}
          /\ new # booking[b].customer
          /\ Begin(w, [NoRequest EXCEPT !.op = "transfer", !.pc = "loaded", !.b = b,
                         !.amount = NewCollected(booking[b].collected, back, paid),
                         !.who = new, !.row = booking[b]])
    BY <1>4 DEF TransferLoad
  <2> DEFINE r == [NoRequest EXCEPT !.op = "transfer", !.pc = "loaded", !.b = b,
                     !.amount = NewCollected(booking[b].collected, back, paid),
                     !.who = new, !.row = booking[b]]
  <2>2. /\ r.op = "transfer" /\ r.pc = "loaded" /\ r.b = b /\ r.who = new
        /\ r.row = booking[b]
    BY DEF NoRequest
  <2>3. work' = [work EXCEPT ![w] = r]
    BY <2>1 DEF Begin
  <2> HIDE DEF r
  <2> QED
    BY <2>1, <2>2, <2>3 DEF Undisturbed, Carvers, Returners
<1>5. CASE ReleaseAbsenceLoad(w)
  <2>1. PICK b \in Bookings, date \in Days :
          /\ ActiveSubscription(b) /\ OpenSuspensions(b) = {}
          /\ booking[b].start <= date /\ date <= booking[b].end
          /\ Begin(w, [NoRequest EXCEPT !.op = "releaseAbsence", !.pc = "loaded",
                                        !.b = b, !.from = date, !.to = date])
    BY <1>5 DEF ReleaseAbsenceLoad
  <2> DEFINE r == [NoRequest EXCEPT !.op = "releaseAbsence", !.pc = "loaded",
                                    !.b = b, !.from = date, !.to = date]
  <2>2. r.op = "releaseAbsence" /\ r.pc = "loaded" /\ r.b = b /\ r.from = date
    BY DEF NoRequest
  <2>3. work' = [work EXCEPT ![w] = r]
    BY <2>1 DEF Begin
  <2> HIDE DEF r
  <2> QED
    BY <2>1, <2>2, <2>3 DEF Undisturbed, Carvers, Returners
<1>6. CASE CancelAbsenceReleaseLoad(w)
  <2>1. PICK x \in release :
          /\ ActiveSubscription(x.b) /\ OpenSuspensions(x.b) = {}
          /\ Begin(w, [NoRequest EXCEPT !.op = "cancelAbsenceRelease", !.pc = "loaded",
                                        !.b = x.b, !.from = x.date, !.to = x.date,
                                        !.ref = x.id])
    BY <1>6 DEF CancelAbsenceReleaseLoad
  <2> DEFINE r == [NoRequest EXCEPT !.op = "cancelAbsenceRelease", !.pc = "loaded",
                                    !.b = x.b, !.from = x.date, !.to = x.date,
                                    !.ref = x.id]
  <2>2. /\ r.op = "cancelAbsenceRelease" /\ r.pc = "loaded" /\ r.b = x.b
        /\ r.from = x.date
    BY DEF NoRequest
  <2>3. work' = [work EXCEPT ![w] = r]
    BY <2>1 DEF Begin
  <2>4. booking[x.b].start <= x.date /\ x.date <= booking[x.b].end
    BY <2>1 DEF SerialSound, SerialInv, ReleasesAgreed, ActiveSubscription
  <2> HIDE DEF r
  <2> QED
    BY <2>1, <2>2, <2>3, <2>4 DEF Undisturbed, Carvers, Returners
<1>7. CASE CreateCheck(w)
  <2>1. PICK type, c, u, k, span, total :
          Begin(w, [NoRequest EXCEPT !.op = "create", !.pc = "planned",
                                     !.row = NewBooking(type, c, u, k, span, total)])
    BY <1>7 DEF CreateCheck
  <2> DEFINE row == NewBooking(type, c, u, k, span, total)
             r == [NoRequest EXCEPT !.op = "create", !.pc = "planned", !.row = row]
  <2>2. row.status = "confirmed"
    BY DEF NewBooking
  <2> HIDE DEF row
  <2>3. r.op = "create" /\ r.row = row
    BY DEF NoRequest
  <2>4. work' = [work EXCEPT ![w] = r]
    BY <2>1 DEF Begin, row
  <2> HIDE DEF r
  <2> QED
    BY <2>2, <2>3, <2>4 DEF Undisturbed, Carvers, Returners
<1>8. CASE CancelLoad(w) \/ SettlePaymentLoad(w) \/ SetAbsenceConsentLoad(w)
  <2>1. ASSUME NEW r, Begin(w, r), r.op \in {"cancel", "settlePayment", "setAbsenceConsent"}
        PROVE  \E q : Undisturbed(q) /\ work' = [work EXCEPT ![w] = q]
    BY <2>1 DEF Begin, Undisturbed, Carvers, Returners
  <2>2. CASE CancelLoad(w)
    BY <2>1, <2>2 DEF CancelLoad, NoRequest
  <2>3. CASE SettlePaymentLoad(w)
    <3>1. PICK b \in Stored, amount \in Amounts :
            Begin(w, [NoRequest EXCEPT !.op = "settlePayment", !.pc = "loaded",
                                       !.b = b, !.amount = amount])
      BY <2>3 DEF SettlePaymentLoad
    <3> QED
      BY <2>1, <3>1 DEF NoRequest
  <2>4. CASE SetAbsenceConsentLoad(w)
    <3>1. PICK b \in Bookings, consent \in BOOLEAN :
            Begin(w, [NoRequest EXCEPT !.op = "setAbsenceConsent", !.pc = "loaded",
                                       !.b = b, !.flag = consent])
      BY <2>4 DEF SetAbsenceConsentLoad
    <3> QED
      BY <2>1, <3>1 DEF NoRequest
  <2> QED
    BY <1>8, <2>2, <2>3, <2>4
<1> QED
  BY <1>1, <1>2, <1>3, <1>4, <1>5, <1>6, <1>7, <1>8 DEF LoadStep

(* The plan is the rows of the booking as they are, and what was checked   *)
(* before it stays true.                                                   *)
LEMMA ReadUndisturbed ==
  ASSUME SerialSound, NEW w \in Workers, ReadStep(w)
  PROVE  \E r : Undisturbed(r) /\ work' = [work EXCEPT ![w] = r]
<1>1. /\ work[w] # NoRequest /\ work[w] \in Request
      /\ DatesRight(work[w]) /\ Undisturbed(work[w])
  <2>1. work[w] # NoRequest
    BY ReadRight DEF SerialSound, Sound, DaysInv, RequestRight
  <2> QED
    BY <2>1, ServedRequest DEF SerialSound, Sound, DaysInv, RequestRight, SerialInv
<1>2. ASSUME NEW fragments, Plan(w, fragments)
      PROVE  \E r : /\ work' = [work EXCEPT ![w] = r]
                    /\ r.op = work[w].op /\ r.b = work[w].b /\ r.from = work[w].from
                    /\ r.to = work[w].to /\ r.ref = work[w].ref /\ r.row = work[w].row
                    /\ r.amount = work[w].amount /\ r.who = work[w].who
                    /\ r.plan = fragments
  <2> DEFINE r == [work[w] EXCEPT !.pc = "planned", !.plan = fragments]
  <2>1. work' = [work EXCEPT ![w] = r]
    BY <1>2 DEF Plan, SerialSound, Sound, WellFormed, TypeOK
  <2>2. /\ r.op = work[w].op /\ r.b = work[w].b /\ r.from = work[w].from
        /\ r.to = work[w].to /\ r.ref = work[w].ref /\ r.row = work[w].row
        /\ r.amount = work[w].amount /\ r.who = work[w].who
        /\ r.plan = fragments
    BY <1>1 DEF Request
  <2> HIDE DEF r
  <2> QED
    BY <2>1, <2>2
<1>3. ASSUME NEW fragments, Plan(w, fragments), work[w].op \in Carvers,
             fragments = Carved(OwnCoverage(work[w].b), work[w].from, work[w].to),
             booking[work[w].b].start <= work[w].from
      PROVE  \E r : Undisturbed(r) /\ work' = [work EXCEPT ![w] = r]
  <2>1. PICK r : /\ work' = [work EXCEPT ![w] = r]
                 /\ r.op = work[w].op /\ r.b = work[w].b /\ r.from = work[w].from
                 /\ r.to = work[w].to /\ r.ref = work[w].ref /\ r.row = work[w].row
                 /\ r.amount = work[w].amount /\ r.who = work[w].who
                 /\ r.plan = fragments
    BY <1>2, <1>3
  <2> QED
    BY <1>1, <1>3, <2>1 DEF Undisturbed, Carvers, Returners
<1>4. ASSUME NEW op \in Returners, NotResold(w, op)
      PROVE  \E r : Undisturbed(r) /\ work' = [work EXCEPT ![w] = r]
  <2>1. PICK r : /\ work' = [work EXCEPT ![w] = r]
                 /\ r.op = work[w].op /\ r.b = work[w].b /\ r.from = work[w].from
                 /\ r.to = work[w].to /\ r.ref = work[w].ref /\ r.row = work[w].row
                 /\ r.amount = work[w].amount /\ r.who = work[w].who
    BY <1>2, <1>4 DEF NotResold
  <2>2. /\ work[w].op = op
        /\ ~ SeatTaken(booking[work[w].b].umbrella, booking[work[w].b].slot,
                       work[w].from, work[w].to, work[w].b)
    BY <1>4 DEF NotResold, Loaded
  <2> QED
    BY <1>1, <2>1, <2>2 DEF Undisturbed, Carvers, Returners
<1>5. CASE SuspendRead(w)
  <2>1. /\ work[w].op = "suspend"
        /\ Plan(w, Carved(OwnCoverage(work[w].b), work[w].from, work[w].to))
    BY <1>5 DEF SuspendRead, Loaded
  <2>2. PICK c \in OwnCoverage(work[w].b) : c.start <= work[w].from
    BY <1>5 DEF SuspendRead
  <2>3. booking[work[w].b].start <= work[w].from
    <3>1. c \in CoverageRow /\ c.start <= c.end
      BY DEF SerialSound, Sound, WellFormed, TypeOK, SerialInv, RangesValid, OwnCoverage, OwnRows
    <3>2. c.start \in Occupied(work[w].b)
      <4>1. c.start \in DaysOf(c)
        BY <3>1, LastDayAssumption DEF CoverageRow, Days, DaysOf
      <4> QED
        BY <4>1 DEF Occupied
    <3>3. work[w].b \in Stored /\ booking[work[w].b] \in BookingRow
      BY <1>1, <2>1, ServedRequest DEF SerialSound, Sound
    <3>4. booking[work[w].b].start <= c.start
      BY <3>2, <3>3 DEF SerialSound, SerialInv, OccupationAsAgreed, CoverageWithinContract
    <3>5. work[w].from \in Int
      BY <1>1, LastDayAssumption DEF Request, Days, None
    <3> QED
      BY <2>2, <3>1, <3>3, <3>4, <3>5, LastDayAssumption DEF CoverageRow, BookingRow, Days
  <2> QED
    BY <1>3, <2>1, <2>3 DEF Carvers
<1>6. CASE ReleaseAbsenceRead(w)
  <2>1. /\ work[w].op = "releaseAbsence"
        /\ Plan(w, Carved(OwnCoverage(work[w].b), work[w].from, work[w].to))
    BY <1>6 DEF ReleaseAbsenceRead, Loaded
  <2>2. booking[work[w].b].start <= work[w].from
    BY <1>1, <2>1 DEF Undisturbed
  <2> QED
    BY <1>3, <2>1, <2>2 DEF Carvers
<1>7. CASE TerminateRead(w)
  <2>1. work[w].op = "terminate" /\ Plan(w, Carved(OwnRows(work[w].b), work[w].from, None))
    BY <1>7 DEF TerminateRead, Loaded
  <2>2. /\ booking[work[w].b].start <= work[w].from /\ work[w].to = None
        /\ Confirmed(work[w].b)
    BY <1>1, <2>1 DEF Undisturbed, DatesRight, Carvers, ActiveSubscription
  <2>3. OwnRows(work[w].b) = OwnCoverage(work[w].b)
    BY <2>2 DEF OwnRows, OwnCoverage, SerialSound, Sound, DaysInv, LiveRowsConfirmed
  <2> QED
    BY <1>3, <2>1, <2>2, <2>3 DEF Carvers
<1>8. CASE ReactivateCheck(w)
  BY <1>4, <1>8 DEF ReactivateCheck, Returners
<1>9. CASE CancelAbsenceReleaseCheck(w)
  BY <1>4, <1>9 DEF CancelAbsenceReleaseCheck, Returners
<1> QED
  BY <1>5, <1>6, <1>7, <1>8, <1>9 DEF ReadStep

-----------------------------------------------------------------------------
(* What the writes leave of the bookings                                   *)

LEMMA WriteKeepsTerms ==
  ASSUME WellFormed, NEW w \in Workers, WriteStep(w), NEW b \in Stored
  PROVE  /\ b \in Stored' /\ booking'[b].start = booking[b].start
         /\ \/ booking'[b].end = booking[b].end /\ booking'[b].terminated = booking[b].terminated
            \/ TerminateWrite(w) /\ b = work[w].b /\ booking'[b].terminated
               /\ booking'[b].end = work[w].from - 1
         /\ \/ booking'[b].status = booking[b].status
            \/ CancelWrite(w) /\ b = work[w].b
         /\ \/ booking'[b].customer = booking[b].customer
            \/ TransferWrite(w) /\ b = work[w].b
         /\ booking'[b].umbrella = booking[b].umbrella
         /\ booking'[b].slot = booking[b].slot
<1>1. CASE CreateWrite(w)
  <2>1. PICK c \in Bookings \ Stored : booking' = [booking EXCEPT ![c] = work[w].row]
    BY <1>1 DEF CreateWrite, FreshBooking, Least
  <2>2. b \in Bookings /\ booking'[b] = booking[b]
    BY <2>1 DEF Stored, WellFormed, TypeOK
  <2> QED
    BY <2>2 DEF Stored
<1>2. CASE UNCHANGED booking
  BY <1>2 DEF Stored
<1>3. CASE ~ CreateWrite(w) /\ booking' # booking
  <2>1. PICK op \in Ops \ {"create"} : Loaded(w, op) \/ Planned(w, op)
    BY <1>3 DEF WriteStep, CancelWrite, SettlePaymentWrite, SuspendWrite,
       ReactivateWrite, TerminateWrite, TransferWrite, SetAbsenceConsentWrite,
       ReleaseAbsenceWrite, CancelAbsenceReleaseWrite, Abort, Ops
  <2>2. work[w] # NoRequest /\ work[w].op # "create"
    BY <2>1 DEF Loaded, Planned, NoRequest, Ops
  <2>3. /\ work[w].b \in Stored /\ work[w].b \in Bookings
        /\ booking[work[w].b] \in BookingRow /\ b \in Bookings
        /\ booking \in [Bookings -> BookingRow \cup {NoBooking}]
    BY <2>2, ServedRequest DEF WellFormed, TypeOK, Stored
  <2>4. CASE CancelWrite(w)
    BY <2>3, <2>4 DEF CancelWrite, BookingRow, Stored
  <2>5. CASE SettlePaymentWrite(w)
    BY <2>3, <2>5 DEF SettlePaymentWrite, BookingRow, Stored
  <2>6. CASE TerminateWrite(w)
    BY <2>3, <2>6 DEF TerminateWrite, BookingRow, Stored
  <2>7. CASE TransferWrite(w)
    BY <2>3, <2>7 DEF TransferWrite, BookingRow, Stored
  <2>8. CASE SetAbsenceConsentWrite(w)
    BY <2>3, <2>8 DEF SetAbsenceConsentWrite, BookingRow, Stored
  <2>9. CASE AddRefund(work[w].b, work[w].amount)
    BY <2>3, <2>9 DEF AddRefund, BookingRow, Stored
  <2> QED
    BY <1>3, <2>4, <2>5, <2>6, <2>7, <2>8, <2>9
       DEF WriteStep, SuspendWrite, ReactivateWrite, ReleaseAbsenceWrite,
           CancelAbsenceReleaseWrite, Abort
<1> QED
  BY <1>1, <1>2, <1>3

(* Each write is of one method.                                            *)
LEMMA WriteOps ==
  ASSUME NEW w
  PROVE  /\ CreateWrite(w) => work[w].op = "create"
         /\ CancelWrite(w) => work[w].op = "cancel"
         /\ SettlePaymentWrite(w) => work[w].op = "settlePayment"
         /\ SuspendWrite(w) => work[w].op = "suspend" /\ work[w].pc = "planned"
         /\ ReactivateWrite(w) => work[w].op = "reactivate" /\ work[w].pc = "planned"
         /\ TerminateWrite(w) => work[w].op = "terminate" /\ work[w].pc = "planned"
         /\ TransferWrite(w) => work[w].op = "transfer"
         /\ SetAbsenceConsentWrite(w) => work[w].op = "setAbsenceConsent"
         /\ ReleaseAbsenceWrite(w) => work[w].op = "releaseAbsence" /\ work[w].pc = "planned"
         /\ CancelAbsenceReleaseWrite(w) =>
              work[w].op = "cancelAbsenceRelease" /\ work[w].pc = "planned"
  BY DEF CreateWrite, CancelWrite, SettlePaymentWrite, SuspendWrite, ReactivateWrite,
     TerminateWrite, TransferWrite, SetAbsenceConsentWrite, ReleaseAbsenceWrite,
     CancelAbsenceReleaseWrite, Loaded, Planned

(* The request that carves, and what it has checked.                       *)
LEMMA CarverFacts ==
  ASSUME SerialSound, NEW w \in Workers, Carves(w)
  PROVE  /\ work[w] # NoRequest /\ Undisturbed(work[w]) /\ DatesRight(work[w])
         /\ work[w].op \in Carvers /\ work[w].pc = "planned"
         /\ work[w].b \in Stored /\ Confirmed(work[w].b)
         /\ work[w].from \in Days /\ work[w].to \in Days \cup {None}
         /\ booking[work[w].b].start <= work[w].from
         /\ work[w].from <= booking[work[w].b].end
         /\ ~ CreateWrite(w) /\ ~ CancelWrite(w) /\ ~ TransferWrite(w)
<1>1. /\ work[w] # NoRequest /\ work[w].op \in Carvers /\ work[w].b \in Stored
      /\ work[w].from \in Days /\ work[w].to \in Days \cup {None}
  BY CarverTypes DEF Carves, Carvers, SerialSound, Sound
<1>2. work[w].pc = "planned"
  BY WriteOps DEF Carves
<1>3. Undisturbed(work[w]) /\ DatesRight(work[w])
  BY <1>1 DEF SerialSound, SerialInv, Sound, DaysInv, RequestRight
<1>4. ~ CreateWrite(w) /\ ~ CancelWrite(w) /\ ~ TransferWrite(w)
  BY <1>1, WriteOps DEF Carvers
<1> QED
  BY <1>1, <1>2, <1>3, <1>4 DEF Undisturbed, ActiveSubscription

(* The request that takes days back: inside the contract of its booking.   *)
LEMMA ReturnerFacts ==
  ASSUME SerialSound, NEW w \in Workers,
         work[w] # NoRequest, work[w].op \in Returners
  PROVE  /\ Undisturbed(work[w]) /\ DatesRight(work[w]) /\ RefRight(work[w])
         /\ work[w].b \in Stored /\ Running(work[w].b)
         /\ work[w].from \in Days /\ work[w].to \in Days /\ work[w].from <= work[w].to
         /\ booking[work[w].b].start <= work[w].from
         /\ work[w].to <= booking[work[w].b].end
<1>1. /\ Undisturbed(work[w]) /\ DatesRight(work[w]) /\ RefRight(work[w])
  BY DEF SerialSound, SerialInv, Sound, DaysInv, RequestRight
<1>2. /\ work[w].b \in Stored /\ booking[work[w].b] \in BookingRow
      /\ work[w].from \in Days /\ work[w].to \in Days
  BY ServedRequest DEF SerialSound, Sound, Returners, RequestOK
<1>3. Running(work[w].b) /\ work[w].from <= booking[work[w].b].end
  BY <1>1 DEF Undisturbed, ActiveSubscription, Running
<1>4. CASE work[w].op = "reactivate"
  <2>1. work[w].to = booking[work[w].b].end
    BY <1>1, <1>3, <1>4 DEF DatesRight, Running
  <2>2. PICK s \in suspension : s.b = work[w].b /\ s.start < work[w].from
    BY <1>1, <1>4 DEF Undisturbed, OpenSuspensions
  <2>3. booking[work[w].b].start <= s.start /\ s.start \in Days
    BY <2>2 DEF SerialSound, SerialInv, SuspensionsAgreed, Sound, WellFormed, TypeOK,
       SuspensionRow
  <2> QED
    BY <1>1, <1>2, <1>3, <2>1, <2>2, <2>3, LastDayAssumption DEF BookingRow, Days
<1>5. CASE work[w].op = "cancelAbsenceRelease"
  <2>1. work[w].to = work[w].from
    BY <1>1, <1>5 DEF DatesRight
  <2> QED
    BY <1>1, <1>2, <1>3, <1>5, <2>1, LastDayAssumption DEF Undisturbed, Days
<1> QED
  BY <1>4, <1>5 DEF Returners

-----------------------------------------------------------------------------
(* The occupation stays as agreed                                          *)

LEMMA CarveAgreed ==
  ASSUME SerialSound, NEW w \in Workers, Carves(w)
  PROVE  OccupationAsAgreed'
<1>0. WriteStep(w) /\ WellFormed
  BY DEF Carves, WriteStep, SerialSound, Sound
<1>1. /\ work[w].from \in Days /\ work[w].op \in Carvers /\ DatesRight(work[w])
      /\ ~ CreateWrite(w) /\ ~ CancelWrite(w)
  BY CarverFacts
<1>2. Stored' = Stored
  BY <1>0, <1>1, WriteKeepsBookings DEF BookingsKept
<1>3. /\ Stored \subseteq Bookings
      /\ \A b \in Stored : booking[b] \in BookingRow /\ Occupied(b) \subseteq Days
  BY <1>0, BookingIsRow, OccupiedDays DEF Stored, WellFormed
<1>4. CoverageWithinContract'
  <2> SUFFICES ASSUME NEW b \in Stored, NEW d \in Occupied(b)'
               PROVE  d \in booking'[b].start .. booking'[b].end
    BY <1>2 DEF CoverageWithinContract
  <2>1. d \in Occupied(b) /\ ~ (b = work[w].b /\ Hole(work[w].from, work[w].to, d))
    BY <1>3, CarveOccupied
  <2>2. d \in booking[b].start .. booking[b].end
    BY <2>1 DEF SerialSound, SerialInv, OccupationAsAgreed, CoverageWithinContract
  <2>3. booking'[b].start = booking[b].start
    BY <1>0, WriteKeepsTerms
  <2>4. CASE booking'[b].end = booking[b].end
    BY <2>2, <2>3, <2>4
  <2>5. CASE booking'[b].end # booking[b].end
    <3>1. TerminateWrite(w) /\ b = work[w].b /\ booking'[b].end = work[w].from - 1
      BY <1>0, <2>5, WriteKeepsTerms
    <3>2. work[w].to = None
      BY <1>1, <3>1, WriteOps DEF DatesRight
    <3>3. d \in Days /\ d < work[w].from
      BY <1>1, <1>3, <2>1, <3>1, <3>2, LastDayAssumption DEF Hole, Days
    <3> QED
      BY <1>1, <1>3, <2>2, <2>3, <3>1, <3>3, LastDayAssumption DEF BookingRow, Days
  <2> QED
    BY <2>4, <2>5
<1>5. OpenSuspensionFreesTail'
  <2> SUFFICES ASSUME NEW s \in suspension', s.end = None, Confirmed(s.b)',
                      NEW d \in Occupied(s.b)'
               PROVE  d < s.start
    BY DEF OpenSuspensionFreesTail
  <2>1. s.b \in Stored /\ Confirmed(s.b)
    BY <1>0, <1>2, WriteKeepsBookings DEF BookingsKept, Confirmed
  <2>2. /\ d \in Occupied(s.b) /\ d \in Days
        /\ ~ (s.b = work[w].b /\ Hole(work[w].from, work[w].to, d))
    BY <1>3, <2>1, CarveOccupied
  <2>3. CASE s \in suspension
    BY <2>1, <2>2, <2>3 DEF SerialSound, SerialInv, OccupationAsAgreed, OpenSuspensionFreesTail
  <2>4. CASE s \notin suspension
    <3>1. SuspendWrite(w)
      BY <2>4 DEF Carves, TerminateWrite, ReleaseAbsenceWrite
    <3>2. s.b = work[w].b /\ s.start = work[w].from /\ s.end = work[w].to
      BY <2>4, <3>1 DEF SuspendWrite
    <3> QED
      BY <1>1, <2>2, <3>2, LastDayAssumption DEF Hole, Days
  <2> QED
    BY <2>3, <2>4
<1>6. CancelledFreesSeat'
  <2> SUFFICES ASSUME NEW b \in Stored, booking'[b].status = "cancelled",
                      NEW d \in Occupied(b)'
               PROVE  FALSE
    BY <1>2 DEF CancelledFreesSeat
  <2>1. d \in Occupied(b)
    BY <1>3, CarveOccupied
  <2>2. booking[b].status = "cancelled"
    BY <1>0, <1>1, WriteKeepsTerms
  <2> QED
    BY <2>1, <2>2 DEF SerialSound, SerialInv, OccupationAsAgreed, CancelledFreesSeat
<1> QED
  BY <1>4, <1>5, <1>6 DEF OccupationAsAgreed

LEMMA ReturnAgreed ==
  ASSUME SerialSound, NEW w \in Workers, TakesBack(w)
  PROVE  OccupationAsAgreed'
<1>0. WriteStep(w) /\ WellFormed
  BY DEF TakesBack, WriteStep, SerialSound, Sound
<1>1. /\ work[w] # NoRequest /\ work[w].op \in Returners
      /\ ~ CreateWrite(w) /\ ~ CancelWrite(w) /\ ~ TerminateWrite(w)
  BY WriteOps DEF TakesBack, Returners, NoRequest
<1>2. /\ Undisturbed(work[w]) /\ Running(work[w].b)
      /\ work[w].from \in Days /\ work[w].to \in Days
      /\ booking[work[w].b].start <= work[w].from
      /\ work[w].to <= booking[work[w].b].end
  BY <1>1, ReturnerFacts
<1>3. Stored' = Stored
  BY <1>0, <1>1, WriteKeepsBookings DEF BookingsKept
<1>4. \A b \in Stored : booking[b] \in BookingRow
  BY <1>0, BookingIsRow DEF Stored, WellFormed
<1>5. \A b, d : d \in Occupied(b)' <=>
                  d \in Occupied(b) \/ (b = work[w].b /\ d \in work[w].from .. work[w].to)
  <2>1. InsertCoverage(work[w].b, booking[work[w].b], work[w].from, work[w].to)
    BY DEF TakesBack, ReactivateWrite, CancelAbsenceReleaseWrite
  <2> QED
    BY <2>1, InsertOccupied
<1>6. CoverageWithinContract'
  <2> SUFFICES ASSUME NEW b \in Stored, NEW d \in Occupied(b)'
               PROVE  d \in booking'[b].start .. booking'[b].end
    BY <1>3 DEF CoverageWithinContract
  <2>1. booking'[b].start = booking[b].start /\ booking'[b].end = booking[b].end
    BY <1>0, <1>1, WriteKeepsTerms
  <2>2. CASE d \in Occupied(b)
    BY <2>1, <2>2 DEF SerialSound, SerialInv, OccupationAsAgreed, CoverageWithinContract
  <2>3. CASE b = work[w].b /\ d \in work[w].from .. work[w].to
    BY <1>2, <1>4, <2>1, <2>3, LastDayAssumption DEF BookingRow, Days
  <2> QED
    BY <1>5, <2>2, <2>3
<1>7. OpenSuspensionFreesTail'
  <2> SUFFICES ASSUME NEW s \in suspension', s.end = None, Confirmed(s.b)',
                      NEW d \in Occupied(s.b)'
               PROVE  d < s.start
    BY DEF OpenSuspensionFreesTail
  <2>1. Confirmed(s.b)
    BY <1>0, <1>3, WriteKeepsBookings DEF BookingsKept, Confirmed
  <2>2. s \in suspension /\ s.b # work[w].b
    <3>1. CASE ReactivateWrite(w)
      <4>1. PICK t \in OpenSuspensions(work[w].b) : t.id = work[w].ref
        BY <1>2, <3>1, WriteOps DEF Undisturbed
      <4>2. work[w].from - 1 # None
        <5>1. work[w].from \in 2 .. LastDay
          BY <1>0, <1>1, <3>1, ServedRequest, WriteOps DEF RequestOK
        <5> QED
          BY <5>1, LastDayAssumption DEF None
      <4>3. suspension' = { IF x.id = work[w].ref
                            THEN [x EXCEPT !.end = work[w].from - 1, !.refunded = work[w].amount]
                            ELSE x : x \in suspension }
        BY <3>1 DEF ReactivateWrite
      <4>4. \A x \in suspension :
              [x EXCEPT !.end = work[w].from - 1, !.refunded = work[w].amount].end
                = work[w].from - 1
        BY <1>0 DEF WellFormed, TypeOK, SuspensionRow
      <4>5. s \in suspension /\ s.id # work[w].ref
        BY <4>2, <4>3, <4>4
      <4> QED
        BY <4>1, <4>5 DEF OpenSuspensions, SerialSound, SerialInv, SuspensionsAgreed
    <3>2. CASE CancelAbsenceReleaseWrite(w)
      <4>1. suspension' = suspension /\ OpenSuspensions(work[w].b) = {}
        BY <1>2, <3>2, WriteOps DEF CancelAbsenceReleaseWrite, Undisturbed
      <4> QED
        BY <4>1 DEF OpenSuspensions
    <3> QED
      BY <3>1, <3>2 DEF TakesBack
  <2> QED
    BY <1>5, <2>1, <2>2 DEF SerialSound, SerialInv, OccupationAsAgreed, OpenSuspensionFreesTail
<1>8. CancelledFreesSeat'
  <2> SUFFICES ASSUME NEW b \in Stored, booking'[b].status = "cancelled",
                      NEW d \in Occupied(b)'
               PROVE  FALSE
    BY <1>3 DEF CancelledFreesSeat
  <2>1. booking[b].status = "cancelled"
    BY <1>0, <1>1, WriteKeepsTerms
  <2>2. b # work[w].b
    BY <1>2, <2>1 DEF Running, Confirmed
  <2> QED
    BY <1>5, <2>1, <2>2 DEF SerialSound, SerialInv, OccupationAsAgreed, CancelledFreesSeat
<1> QED
  BY <1>6, <1>7, <1>8 DEF OccupationAsAgreed

(* The booking that create stores, and its first row.                      *)
LEMMA CreateEffect ==
  ASSUME SerialSound, NEW w \in Workers, CreateWrite(w)
  PROVE  \E b \in Bookings \ Stored :
           /\ booking' = [booking EXCEPT ![b] = work[w].row]
           /\ work[w].row \in BookingRow /\ work[w].row.status = "confirmed"
           /\ work[w].row.start <= work[w].row.end
           /\ Stored' = Stored \cup {b}
           /\ Occupied(b) = {}
           /\ \A c, d : d \in Occupied(c)' <=>
                 d \in Occupied(c) \/ (c = b /\ d \in work[w].row.start .. work[w].row.end)
<1>1. PICK b \in Bookings \ Stored :
        /\ booking' = [booking EXCEPT ![b] = work[w].row]
        /\ InsertCoverage(b, work[w].row, work[w].row.start, work[w].row.end)
  BY DEF CreateWrite, FreshBooking, Least
<1>2. /\ work[w] # NoRequest /\ work[w].op = "create" /\ work[w].row \in BookingRow
      /\ work[w].row.status = "confirmed"
  <2>1. work[w].op = "create" /\ work[w] # NoRequest
    BY DEF CreateWrite, Planned, NoRequest
  <2>2. work[w].row \in BookingRow
    BY <2>1, ServedRequest DEF SerialSound, Sound, RequestOK
  <2>3. Undisturbed(work[w])
    BY <2>1 DEF SerialSound, SerialInv
  <2> QED
    BY <2>1, <2>2, <2>3 DEF Undisturbed
<1>3. work[w].row.start <= work[w].row.end
  <2>1. PICK id : /\ coverage' = coverage \cup
                        { NewCoverage(id, b, work[w].row, work[w].row.start, work[w].row.end) }
                  /\ TableAccepts(coverage')
    BY <1>1 DEF InsertCoverage
  <2> DEFINE n == NewCoverage(id, b, work[w].row, work[w].row.start, work[w].row.end)
  <2>2. n.start = work[w].row.start /\ n.end = work[w].row.end
    BY DEF NewCoverage
  <2>3. n \in coverage'
    BY <2>1
  <2> HIDE DEF n
  <2> QED
    BY <2>1, <2>2, <2>3 DEF TableAccepts, RangesValid
<1>4. Stored' = Stored \cup {b}
  <2>1. booking'[b] = work[w].row /\ \A c \in Bookings \ {b} : booking'[c] = booking[c]
    BY <1>1 DEF SerialSound, Sound, WellFormed, TypeOK
  <2>2. work[w].row.status # "none"
    BY <1>2
  <2> QED
    BY <2>1, <2>2 DEF Stored
<1>5. Occupied(b) = {}
  BY DEF Occupied, OwnCoverage, OwnRows, SerialSound, Sound, SeatInv, Matches
<1>6. \A c, d : d \in Occupied(c)' <=>
                  d \in Occupied(c) \/ (c = b /\ d \in work[w].row.start .. work[w].row.end)
  BY <1>1, InsertOccupied
<1> QED
  BY <1>1, <1>2, <1>3, <1>4, <1>5, <1>6

LEMMA CreateAgreed ==
  ASSUME SerialSound, NEW w \in Workers, CreateWrite(w)
  PROVE  OccupationAsAgreed'
<1>1. PICK b \in Bookings \ Stored :
           /\ booking' = [booking EXCEPT ![b] = work[w].row]
           /\ work[w].row.status = "confirmed"
           /\ Stored' = Stored \cup {b}
           /\ Occupied(b) = {}
           /\ \A c, d : d \in Occupied(c)' <=>
                 d \in Occupied(c) \/ (c = b /\ d \in work[w].row.start .. work[w].row.end)
  BY CreateEffect
<1>2. booking'[b] = work[w].row /\ \A c \in Stored : c # b /\ booking'[c] = booking[c]
  BY <1>1 DEF SerialSound, Sound, WellFormed, TypeOK, Stored
<1>3. \A c \in Stored : Occupied(c)' = Occupied(c)
  BY <1>1, <1>2
<1>4. Occupied(b)' = work[w].row.start .. work[w].row.end
  BY <1>1
<1>5. CoverageWithinContract'
  BY <1>1, <1>2, <1>3, <1>4
     DEF CoverageWithinContract, SerialSound, SerialInv, OccupationAsAgreed
<1>6. CancelledFreesSeat'
  BY <1>1, <1>2, <1>3 DEF CancelledFreesSeat, SerialSound, SerialInv, OccupationAsAgreed
<1>7. OpenSuspensionFreesTail'
  <2>1. suspension' = suspension /\ \A s \in suspension : s.b \in Stored
    BY DEF CreateWrite, SerialSound, SerialInv, SuspensionsAgreed
  <2>2. \A c \in Stored : Confirmed(c)' => Confirmed(c)
    BY <1>2 DEF Confirmed, Stored
  <2> QED
    BY <1>3, <2>1, <2>2
       DEF OpenSuspensionFreesTail, SerialSound, SerialInv, OccupationAsAgreed
<1> QED
  BY <1>5, <1>6, <1>7 DEF OccupationAsAgreed

(* Cancellation, and the writes that leave the rows alone.                 *)
LEMMA OtherAgreed ==
  ASSUME SerialSound, NEW w \in Workers, WriteStep(w),
         ~ Carves(w), ~ TakesBack(w), ~ CreateWrite(w)
  PROVE  OccupationAsAgreed'
<1>1. /\ Stored' = Stored /\ suspension' = suspension /\ WellFormed
      /\ ~ TerminateWrite(w)
  BY WriteKeepsBookings
     DEF BookingsKept, WriteStep, Carves, TakesBack, CancelWrite, SettlePaymentWrite,
         TransferWrite, SetAbsenceConsentWrite, Abort, SerialSound, Sound
<1>2. \A b \in Stored : /\ booking'[b].start = booking[b].start
                        /\ booking'[b].end = booking[b].end
                        /\ Confirmed(b)' => Confirmed(b)
  BY <1>1, WriteKeepsTerms, WriteKeepsBookings DEF BookingsKept
<1>3. CASE CancelWrite(w)
  <2>1. \A b, d : d \in Occupied(b)' <=> d \in Occupied(b) /\ b # work[w].b
    BY <1>1, <1>3, CancelOccupied
  <2>2. \A b \in Stored : b # work[w].b => booking'[b].status = booking[b].status
    BY <1>1, WriteKeepsTerms
  <2>3. CoverageWithinContract'
    BY <1>1, <1>2, <2>1
       DEF CoverageWithinContract, SerialSound, SerialInv, OccupationAsAgreed
  <2>4. OpenSuspensionFreesTail'
    BY <1>1, <1>2, <2>1
       DEF OpenSuspensionFreesTail, SerialSound, SerialInv, OccupationAsAgreed, SuspensionsAgreed
  <2>5. CancelledFreesSeat'
    BY <1>1, <2>1, <2>2
       DEF CancelledFreesSeat, SerialSound, SerialInv, OccupationAsAgreed
  <2> QED
    BY <2>3, <2>4, <2>5 DEF OccupationAsAgreed
<1>4. CASE ~ CancelWrite(w)
  <2>1. \A b : Occupied(b)' = Occupied(b)
    BY <1>4 DEF WriteStep, Carves, TakesBack, SettlePaymentWrite, TransferWrite,
       SetAbsenceConsentWrite, Abort, Occupied, OwnCoverage, OwnRows
  <2>2. \A b \in Stored : booking'[b].status = booking[b].status
    BY <1>1, <1>4, WriteKeepsTerms
  <2>3. CoverageWithinContract'
    BY <1>1, <1>2, <2>1
       DEF CoverageWithinContract, SerialSound, SerialInv, OccupationAsAgreed
  <2>4. OpenSuspensionFreesTail'
    BY <1>1, <1>2, <2>1
       DEF OpenSuspensionFreesTail, SerialSound, SerialInv, OccupationAsAgreed, SuspensionsAgreed
  <2>5. CancelledFreesSeat'
    BY <1>1, <2>1, <2>2
       DEF CancelledFreesSeat, SerialSound, SerialInv, OccupationAsAgreed
  <2> QED
    BY <2>3, <2>4, <2>5 DEF OccupationAsAgreed
<1> QED
  BY <1>3, <1>4

-----------------------------------------------------------------------------
(* The records stay as agreed                                              *)

LEMMA RangesKept ==
  ASSUME SerialSound, NEW w \in Workers, WriteStep(w)
  PROVE  RangesValid(coverage)'
<1>1. CASE CancelWrite(w)
  <2>1. coverage' = { IF c.b = work[w].b THEN [c EXCEPT !.status = "cancelled"] ELSE c :
                        c \in coverage }
    BY <1>1 DEF CancelWrite
  <2>2. \A c \in coverage : LET x == [c EXCEPT !.status = "cancelled"]
                            IN  x.start = c.start /\ x.end = c.end
    BY DEF SerialSound, Sound, WellFormed, TypeOK, CoverageRow
  <2> QED
    BY <2>1, <2>2 DEF RangesValid, SerialSound, SerialInv
<1>2. CASE UNCHANGED coverage
  BY <1>2 DEF RangesValid, SerialSound, SerialInv
<1>3. CASE TableAccepts(coverage')
  BY <1>3 DEF TableAccepts, RangesValid
<1> QED
  BY <1>1, <1>2, <1>3
     DEF WriteStep, CreateWrite, SettlePaymentWrite, SuspendWrite, ReactivateWrite,
         TerminateWrite, TransferWrite, SetAbsenceConsentWrite, ReleaseAbsenceWrite,
         CancelAbsenceReleaseWrite, Abort, WriteCarve, InsertCoverage

LEMMA SuspensionsStep ==
  ASSUME SerialSound, NEW w \in Workers, WriteStep(w)
  PROVE  SuspensionsAgreed'
<1>1. \A b \in Stored : b \in Stored' /\ booking'[b].start = booking[b].start
  BY WriteKeepsTerms DEF SerialSound, Sound
<1>2. suspension \subseteq SuspensionRow /\ SuspensionsAgreed
  BY DEF SerialSound, Sound, WellFormed, TypeOK, SerialInv
<1>3. CASE SuspendWrite(w)
  <2>1. /\ work[w].b \in Stored /\ booking[work[w].b].start <= work[w].from
        /\ OpenSuspensions(work[w].b) = {}
    <3>1. Carves(w) /\ work[w].op = "suspend"
      BY <1>3, WriteOps DEF Carves
    <3> QED
      BY <3>1, CarverFacts DEF Undisturbed
  <2>2. PICK id \in FreshSuspension :
          suspension' = suspension \cup
            { [id |-> id, b |-> work[w].b, start |-> work[w].from,
               end |-> work[w].to, refunded |-> work[w].amount] }
    BY <1>3 DEF SuspendWrite
  <2>3. \A s \in suspension : s.id # id
    BY DEF FreshSuspension, Least
  <2>4. \A s \in suspension : s.end = None => s.b # work[w].b
    BY <2>1 DEF OpenSuspensions
  <2>5. PICK n : /\ n.id = id /\ n.b = work[w].b /\ n.start = work[w].from
                 /\ suspension' = suspension \cup {n}
    BY <2>2
  <2> QED
    BY <1>1, <1>2, <2>1, <2>3, <2>4, <2>5 DEF SuspensionsAgreed
<1>4. CASE ReactivateWrite(w)
  <2> DEFINE After(s) == IF s.id = work[w].ref
                         THEN [s EXCEPT !.end = work[w].from - 1, !.refunded = work[w].amount]
                         ELSE s
  <2>1. suspension' = { After(s) : s \in suspension }
    BY <1>4 DEF ReactivateWrite
  <2>2. work[w].from - 1 # None
    <3>1. work[w] # NoRequest /\ work[w].op = "reactivate"
      <4>1. Planned(w, "reactivate")
        BY <1>4 DEF ReactivateWrite
      <4> QED
        BY <4>1 DEF Planned, NoRequest
    <3>2. work[w].from \in 2 .. LastDay
      BY <3>1, ServedRequest DEF RequestOK, SerialSound, Sound
    <3> QED
      BY <3>2, LastDayAssumption DEF None
  <2>3. \A s \in suspension :
          /\ After(s).id = s.id /\ After(s).b = s.b /\ After(s).start = s.start
          /\ After(s).end = None => After(s) = s
    BY <1>2, <2>2 DEF SuspensionRow
  <2> HIDE DEF After
  <2>4. \A s, t \in suspension' : s.id = t.id => s = t
    BY <1>2, <2>1, <2>3 DEF SuspensionsAgreed
  <2>5. \A s, t \in suspension' : s.b = t.b /\ s.end = None /\ t.end = None => s = t
    BY <1>2, <2>1, <2>3 DEF SuspensionsAgreed
  <2>6. \A s \in suspension' : s.b \in Stored' /\ booking'[s.b].start <= s.start
    BY <1>1, <1>2, <2>1, <2>3 DEF SuspensionsAgreed
  <2> QED
    BY <2>4, <2>5, <2>6 DEF SuspensionsAgreed
<1>5. CASE UNCHANGED suspension
  BY <1>1, <1>2, <1>5 DEF SuspensionsAgreed
<1> QED
  BY <1>3, <1>4, <1>5
     DEF WriteStep, CreateWrite, CancelWrite, SettlePaymentWrite, TerminateWrite,
         TransferWrite, SetAbsenceConsentWrite, ReleaseAbsenceWrite,
         CancelAbsenceReleaseWrite, Abort

LEMMA ReleasesStep ==
  ASSUME SerialSound, NEW w \in Workers, WriteStep(w)
  PROVE  ReleasesAgreed'
<1>1. \A b \in Stored : /\ b \in Stored' /\ booking'[b].start = booking[b].start
                        /\ ~ booking'[b].terminated => /\ ~ booking[b].terminated
                                                       /\ booking'[b].end = booking[b].end
  BY WriteKeepsTerms DEF SerialSound, Sound
<1>2. release \subseteq ReleaseRow /\ ReleasesAgreed
  BY DEF SerialSound, Sound, WellFormed, TypeOK, SerialInv
<1>3. CASE ReleaseAbsenceWrite(w)
  <2>1. /\ work[w].b \in Stored /\ booking[work[w].b].start <= work[w].from
        /\ work[w].from <= booking[work[w].b].end
    BY <1>3, CarverFacts DEF Carves
  <2>2. PICK id : release' = release \cup
          { [id |-> id, b |-> work[w].b, date |-> work[w].from, canceled |-> FALSE] }
    BY <1>3 DEF ReleaseAbsenceWrite
  <2>3. PICK n : /\ n.b = work[w].b /\ n.date = work[w].from
                 /\ release' = release \cup {n}
    BY <2>2
  <2> QED
    BY <1>1, <1>2, <2>1, <2>3 DEF ReleasesAgreed
<1>4. CASE CancelAbsenceReleaseWrite(w)
  <2>1. release' = { IF x.id = work[w].ref THEN [x EXCEPT !.canceled = TRUE] ELSE x :
                       x \in release }
    BY <1>4 DEF CancelAbsenceReleaseWrite
  <2>2. \A x \in release : LET y == [x EXCEPT !.canceled = TRUE]
                           IN  y.b = x.b /\ y.date = x.date
    BY <1>2 DEF ReleaseRow
  <2>3. \A y \in release' : \E x \in release : y.b = x.b /\ y.date = x.date
    BY <2>1, <2>2
  <2> QED
    BY <1>1, <1>2, <2>3 DEF ReleasesAgreed
<1>5. CASE UNCHANGED release
  BY <1>1, <1>2, <1>5 DEF ReleasesAgreed
<1> QED
  BY <1>3, <1>4, <1>5
     DEF WriteStep, CreateWrite, CancelWrite, SettlePaymentWrite, SuspendWrite,
         ReactivateWrite, TerminateWrite, TransferWrite, SetAbsenceConsentWrite, Abort

(* A link is added to the chain by the transfer from the present holder.   *)
LEMMA ChainStep ==
  ASSUME SerialSound, NEW w \in Workers, WriteStep(w)
  PROVE  /\ \A b \in Bookings \ Stored' : transfer'[b] = <<>>
         /\ TransferChain'
<1>0. /\ transfer \in [Bookings -> Seq(TransferRow)] /\ WellFormed /\ TransferChain
      /\ \A b \in Bookings \ Stored : transfer[b] = <<>>
      /\ Stored \subseteq Bookings
  BY DEF SerialSound, Sound, WellFormed, TypeOK, SerialInv, Stored
<1>1. Stored \subseteq Stored'
  BY <1>0, WriteKeepsTerms
<1>2. CASE TransferWrite(w)
  <2>1. /\ work[w].b \in Stored /\ work[w].row = booking[work[w].b]
        /\ work[w].who # work[w].row.customer
        /\ booking \in [Bookings -> BookingRow \cup {NoBooking}]
        /\ booking[work[w].b] \in BookingRow
    <3>1. work[w] # NoRequest /\ work[w].op = "transfer"
      BY <1>2 DEF TransferWrite, Loaded, NoRequest
    <3> QED
      BY <3>1, <1>0, ServedRequest DEF SerialSound, SerialInv, Undisturbed, WellFormed, TypeOK
  <2> DEFINE h == transfer[work[w].b]
             n == [previous |-> work[w].row.customer, new |-> work[w].who]
  <2>2. h \in Seq(TransferRow) /\ transfer' = [transfer EXCEPT ![work[w].b] = Append(h, n)]
    BY <1>0, <1>2, <2>1 DEF TransferWrite
  <2>3. booking'[work[w].b].customer = work[w].who
    BY <1>0, <1>2, <2>1 DEF TransferWrite, BookingRow
  <2>4. n.previous = booking[work[w].b].customer /\ n.new = work[w].who
    BY <2>1
  <2> HIDE DEF h, n
  <2>5. /\ Len(Append(h, n)) = Len(h) + 1 /\ Append(h, n)[Len(h) + 1] = n
        /\ \A i \in 1 .. Len(h) : Append(h, n)[i] = h[i]
        /\ Len(h) \in Nat
        /\ Append(h, n) # <<>>
    BY <2>2
  <2>6. /\ h # <<>> => h[Len(h)].new = booking[work[w].b].customer
        /\ \A i \in 1 .. Len(h) : h[i].previous # h[i].new
        /\ \A i \in 1 .. Len(h) - 1 : h[i].new = h[i+1].previous
    BY <1>0, <2>1 DEF TransferChain, h
  <2>7. LET k == Append(h, n)
        IN  /\ k[Len(k)].new = booking'[work[w].b].customer
            /\ \A i \in 1 .. Len(k) : k[i].previous # k[i].new
            /\ \A i \in 1 .. Len(k) - 1 : k[i].new = k[i+1].previous
    <3>1. Append(h, n)[Len(h) + 1].new = booking'[work[w].b].customer
      BY <2>3, <2>4, <2>5
    <3>2. ASSUME NEW i \in 1 .. Len(h) + 1
          PROVE  Append(h, n)[i].previous # Append(h, n)[i].new
      <4>1. CASE i \in 1 .. Len(h)
        BY <2>5, <2>6, <4>1
      <4>2. CASE i = Len(h) + 1
        BY <2>1, <2>4, <2>5, <4>2
      <4> QED
        BY <2>5, <3>2, <4>1, <4>2
    <3>3. ASSUME NEW i \in 1 .. Len(h)
          PROVE  Append(h, n)[i].new = Append(h, n)[i+1].previous
      <4>1. CASE i < Len(h)
        BY <2>5, <2>6, <3>3, <4>1
      <4>2. CASE i = Len(h)
        <5>1. h # <<>>
          BY <2>2, <2>5, <3>3, <4>2
        <5>2. Append(h, n)[i] = h[i] /\ Append(h, n)[i+1] = n
          BY <2>5, <3>3, <4>2
        <5> QED
          BY <2>4, <2>6, <4>2, <5>1, <5>2
      <4> QED
        BY <2>5, <3>3, <4>1, <4>2
    <3> QED
      BY <2>5, <3>1, <3>2, <3>3
  <2>8. Stored' = Stored /\ \A b \in Stored \ {work[w].b} :
            booking'[b].customer = booking[b].customer /\ transfer'[b] = transfer[b]
    <3>1. ~ CreateWrite(w)
      BY <1>2, WriteOps
    <3> QED
      BY <1>0, <1>1, <2>2, <3>1, WriteKeepsTerms, WriteKeepsBookings
  <2>9. transfer'[work[w].b] = Append(h, n)
    BY <1>0, <2>1, <2>2
  <2>10. \A b \in Bookings \ Stored : transfer'[b] = transfer[b]
    BY <1>0, <2>1, <2>2
  <2>11. TransferChain'
    <3> SUFFICES ASSUME NEW b \in Stored
                 PROVE  LET k == transfer'[b]
                        IN  /\ k # <<>> => k[Len(k)].new = booking'[b].customer
                            /\ \A i \in 1 .. Len(k) : k[i].previous # k[i].new
                            /\ \A i \in 1 .. Len(k) - 1 : k[i].new = k[i+1].previous
      BY <2>8 DEF TransferChain
    <3>1. CASE b = work[w].b
      BY <2>7, <2>9, <3>1
    <3>2. CASE b # work[w].b
      BY <1>0, <2>8, <3>2 DEF TransferChain
    <3> QED
      BY <3>1, <3>2
  <2> QED
    BY <1>0, <2>8, <2>10, <2>11
<1>3. CASE ~ TransferWrite(w)
  <2>1. transfer' = transfer
    BY <1>3 DEF WriteStep, CreateWrite, CancelWrite, SettlePaymentWrite, SuspendWrite,
       ReactivateWrite, TerminateWrite, SetAbsenceConsentWrite, ReleaseAbsenceWrite,
       CancelAbsenceReleaseWrite, Abort
  <2>2. \A b \in Stored : booking'[b].customer = booking[b].customer
    BY <1>0, <1>3, WriteKeepsTerms
  <2>3. Stored' \subseteq Bookings
    BY DEF Stored
  <2>4. \A b \in Stored' :
           /\ transfer[b] # <<>> => transfer[b][Len(transfer[b])].new = booking'[b].customer
           /\ \A i \in 1 .. Len(transfer[b]) : transfer[b][i].previous # transfer[b][i].new
           /\ \A i \in 1 .. Len(transfer[b]) - 1 :
                 transfer[b][i].new = transfer[b][i+1].previous
    BY <1>0, <2>2, <2>3 DEF TransferChain
  <2> QED
    BY <1>0, <1>1, <2>1, <2>4 DEF TransferChain
<1> QED
  BY <1>2, <1>3

-----------------------------------------------------------------------------
(* The invariant                                                           *)

LEMMA QuietSerial ==
  ASSUME SerialInv, UNCHANGED <<booking, coverage, suspension, release, transfer>>
  PROVE  /\ \A r : Undisturbed(r) => Undisturbed(r)'
         /\ RangesValid(coverage)' /\ SuspensionsAgreed' /\ ReleasesAgreed'
         /\ OccupationAsAgreed'
         /\ \A b \in Bookings \ Stored' : transfer'[b] = <<>>
         /\ TransferChain'
<1>1. Stored' = Stored /\ \A b : Confirmed(b)' = Confirmed(b) /\ OwnCoverage(b)' = OwnCoverage(b)
  BY DEF Stored, Confirmed, OwnCoverage, OwnRows
<1>2. \A r : Undisturbed(r) => Undisturbed(r)'
  BY <1>1 DEF Undisturbed, ActiveSubscription, OpenSuspensions, SeatTaken, RefundFits
<1>3. RangesValid(coverage)' /\ SuspensionsAgreed' /\ ReleasesAgreed'
  BY <1>1 DEF SerialInv, RangesValid, SuspensionsAgreed, ReleasesAgreed
<1>4. OccupationAsAgreed'
  BY <1>1 DEF SerialInv, OccupationAsAgreed, CoverageWithinContract, Occupied,
     OpenSuspensionFreesTail, CancelledFreesSeat
<1>5. TransferChain'
  BY <1>1 DEF SerialInv, TransferChain
<1> QED
  BY <1>1, <1>2, <1>3, <1>4, <1>5 DEF SerialInv

LEMMA SerialStep == Serial /\ SerialSound /\ [Next]_vars => SerialInv'
<1> SUFFICES ASSUME Serial, SerialSound, [Next]_vars PROVE SerialInv'
  OBVIOUS
<1>1. CASE AdvanceDay \/ UNCHANGED vars
  <2>1. UNCHANGED <<booking, coverage, suspension, release, transfer, work>>
    BY <1>1 DEF AdvanceDay, vars
  <2>2. \A w \in Workers : work'[w] # NoRequest => Undisturbed(work[w])'
    BY <2>1, QuietSerial DEF SerialSound, SerialInv
  <2> QED
    BY <2>1, <2>2, QuietSerial DEF SerialSound, SerialInv
<1>2. ASSUME NEW w \in Workers, LoadStep(w) \/ ReadStep(w) PROVE SerialInv'
  <2>1. UNCHANGED <<booking, coverage, suspension, release, transfer>>
    BY <1>2, LoadEffect, ReadEffect
  <2>2. PICK r : Undisturbed(r) /\ work' = [work EXCEPT ![w] = r]
    BY <1>2, LoadUndisturbed, ReadUndisturbed
  <2>3. \A v \in Workers : work'[v] # NoRequest => Undisturbed(work'[v])
    BY <2>2 DEF SerialSound, SerialInv, Sound, WellFormed, TypeOK
  <2>4. \A v \in Workers : work'[v] # NoRequest => Undisturbed(work[v])'
    BY <2>1, <2>3, QuietSerial DEF SerialSound
  <2> QED
    BY <2>1, <2>4, QuietSerial DEF SerialSound, SerialInv
<1>3. ASSUME NEW w \in Workers, WriteStep(w) PROVE SerialInv'
  <2>1. work' = [work EXCEPT ![w] = NoRequest]
    BY <1>3 DEF WriteStep, CreateWrite, CancelWrite, SettlePaymentWrite, SuspendWrite,
       ReactivateWrite, TerminateWrite, TransferWrite, SetAbsenceConsentWrite,
       ReleaseAbsenceWrite, CancelAbsenceReleaseWrite, Abort, Finish
  <2>2. \A v \in Workers : work'[v] = NoRequest
    BY <2>1 DEF Serial, SerialSound, Sound, WellFormed, TypeOK
  <2>3. OccupationAsAgreed'
    BY <1>3, CarveAgreed, ReturnAgreed, CreateAgreed, OtherAgreed
  <2> QED
    BY <1>3, <2>2, <2>3, RangesKept, SuspensionsStep, ReleasesStep, ChainStep DEF SerialInv
<1> QED
  BY <1>1, <1>2, <1>3, StepKinds

LEMMA SerialInit == Init => SerialInv
  BY DEF Init, SerialInv, RangesValid, SuspensionsAgreed, ReleasesAgreed,
     OccupationAsAgreed, CoverageWithinContract, OpenSuspensionFreesTail,
     CancelledFreesSeat, TransferChain, Stored, NoBooking

LEMMA SerialAlways == Serial /\ Spec => []SerialSound
<1>1. Init => SerialSound
  BY InitType, SeatInit, DaysInit, SerialInit DEF SerialSound, Sound
<1>2. Serial /\ SerialSound /\ [Next]_vars => SerialSound'
  BY StepType, SeatStep, DaysStep, SerialStep DEF SerialSound, Sound
<1>3. Serial => []Serial
  <2>1. Serial => Serial'
    BY DEF Serial
  <2> QED
    BY <2>1, PTL
<1> QED
  BY <1>1, <1>2, <1>3, PTL DEF Spec

(* One request at a time, a booking occupies only days of its contract,    *)
(* none from the start of an open suspension on, and none once cancelled.  *)
THEOREM OccupiedAsAgreed == Serial /\ Spec => []OccupationAsAgreed
<1>1. SerialSound => OccupationAsAgreed
  BY DEF SerialSound, SerialInv
<1> QED
  BY <1>1, SerialAlways, PTL

(* One request at a time, the transfers of a booking are a chain that ends *)
(* with its holder.                                                        *)
THEOREM HolderIsLastOfChain == Serial /\ Spec => []TransferChain
<1>1. SerialSound => TransferChain
  BY DEF SerialSound, SerialInv
<1> QED
  BY <1>1, SerialAlways, PTL

(* One request at a time, the check of reactivate leaves nothing for the   *)
(* exclusion constraint to refuse: other bookings are kept out by the      *)
(* check, and the booking's own rows by the suspension that is open.       *)
THEOREM ReactivateCheckIsEnough == Serial /\ Spec => []ReactivateNeverRefused
<1>1. ASSUME SerialSound, NEW w \in Workers, Planned(w, "reactivate"),
             NEW c \in coverage,
             Collides(c, NewCoverage(0, work[w].b, booking[work[w].b], work[w].from, work[w].to))
      PROVE  FALSE
  <2>1. work[w] # NoRequest /\ work[w].op = "reactivate" /\ work[w].pc = "planned"
    BY <1>1 DEF Planned, NoRequest
  <2>2. /\ Undisturbed(work[w]) /\ work[w].b \in Stored /\ Running(work[w].b)
        /\ work[w].from \in Days /\ work[w].to \in Days
    BY <1>1, <2>1, ReturnerFacts DEF Returners
  <2> DEFINE x == NewCoverage(0, work[w].b, booking[work[w].b], work[w].from, work[w].to)
  <2>3. /\ x.umbrella = booking[work[w].b].umbrella /\ x.slot = booking[work[w].b].slot
        /\ x.start = work[w].from /\ x.end = work[w].to
    BY DEF NewCoverage
  <2>4. Collides(c, x)
    BY <1>1
  <2> HIDE DEF x
  <2>5. c \in CoverageRow /\ c.start <= c.end /\ Matches(c)
    BY <1>1 DEF SerialSound, Sound, WellFormed, TypeOK, SeatInv, SerialInv, RangesValid
  <2>6. /\ c.status = "confirmed" /\ c.umbrella = booking[work[w].b].umbrella
        /\ slotsOverlap(booking[c.b].slot, booking[work[w].b].slot)
        /\ dateRangesOverlap(c.start, c.end, work[w].from, work[w].to)
    BY <2>3, <2>4, <2>5 DEF Collides, SameSeat, Matches
  <2>7. c.b = work[w].b
    BY <1>1, <2>1, <2>2, <2>6 DEF Undisturbed, Returners, SeatTaken
  <2>8. PICK s \in suspension : s.b = work[w].b /\ s.end = None /\ s.start < work[w].from
    BY <2>1, <2>2 DEF Undisturbed, OpenSuspensions
  <2>9. c.end \in Occupied(work[w].b)
    <3>1. c.end \in DaysOf(c)
      BY <2>5, LastDayAssumption DEF DaysOf, CoverageRow, Days
    <3> QED
      BY <2>6, <2>7, <3>1 DEF Occupied, OwnCoverage, OwnRows
  <2>10. c.end < s.start
    BY <1>1, <2>2, <2>8, <2>9
       DEF SerialSound, SerialInv, OccupationAsAgreed, OpenSuspensionFreesTail, Running
  <2>11. s.start \in Days
    BY <1>1, <2>8 DEF SerialSound, Sound, WellFormed, TypeOK, SuspensionRow
  <2> QED
    BY <2>2, <2>5, <2>6, <2>8, <2>10, <2>11, LastDayAssumption
       DEF dateRangesOverlap, CoverageRow, Days
<1>2. SerialSound => ReactivateNeverRefused
  BY <1>1 DEF ReactivateNeverRefused
<1> QED
  BY <1>2, SerialAlways, PTL

-----------------------------------------------------------------------------
(* What a step does to the ledger and to the days on record                *)

LEMMA RefundIncrement ==
  ASSUME SerialSound, NEW w \in Workers, AddRefund(work[w].b, work[w].amount),
         work[w] # NoRequest, work[w].op \in {"suspend", "reactivate"}, NEW b \in Stored
  PROVE  /\ booking[b].refunded <= booking'[b].refunded
         /\ booking[b].refunded < booking'[b].refunded
              => booking'[b].refunded <= booking[b].collected
<1>1. /\ work[w] \in Request /\ work[w].b \in Bookings
      /\ booking[work[w].b] \in BookingRow /\ booking[b] \in BookingRow /\ b \in Bookings
      /\ booking \in [Bookings -> BookingRow \cup {NoBooking}]
  BY ServedRequest, BookingIsRow DEF SerialSound, Sound, WellFormed, TypeOK, Stored
<1>2. RefundFits(work[w].b, work[w].amount)
  BY DEF SerialSound, SerialInv, Undisturbed
<1>3. CASE b = work[w].b
  <2>1. booking'[b].refunded = booking[b].refunded + work[w].amount
    BY <1>1, <1>3 DEF AddRefund, BookingRow
  <2> QED
    BY <1>1, <1>2, <1>3, <2>1 DEF RefundFits, BookingRow, Request
<1>4. CASE b # work[w].b
  BY <1>1, <1>4 DEF AddRefund, BookingRow
<1> QED
  BY <1>3, <1>4

LEMMA RefundWithinCollected ==
  ASSUME SerialSound, NEW w \in Workers, WriteStep(w), NEW b \in Stored
  PROVE  /\ booking[b].refunded <= booking'[b].refunded
         /\ booking[b].refunded < booking'[b].refunded
              => booking'[b].refunded <= booking[b].collected
<1>1. /\ booking[b] \in BookingRow /\ b \in Bookings
      /\ booking \in [Bookings -> BookingRow \cup {NoBooking}] /\ WellFormed
  BY BookingIsRow DEF SerialSound, Sound, WellFormed, TypeOK, Stored
<1>2. CASE booking'[b].refunded = booking[b].refunded
  BY <1>1, <1>2 DEF BookingRow
<1>3. CASE CreateWrite(w)
  <2>1. PICK c \in Bookings \ Stored : booking' = [booking EXCEPT ![c] = work[w].row]
    BY <1>3 DEF CreateWrite, FreshBooking, Least
  <2> QED
    BY <1>1, <1>2, <2>1
<1>4. CASE CancelWrite(w)
  <2>1. booking'[b].refunded = booking[b].refunded
    BY <1>1, <1>4 DEF CancelWrite, BookingRow
  <2> QED
    BY <1>2, <2>1
<1>5. CASE SettlePaymentWrite(w)
  <2>1. booking'[b].refunded = booking[b].refunded
    BY <1>1, <1>5 DEF SettlePaymentWrite, BookingRow
  <2> QED
    BY <1>2, <2>1
<1>6. CASE TransferWrite(w)
  <2>1. booking'[b].refunded = booking[b].refunded
    BY <1>1, <1>6 DEF TransferWrite, BookingRow
  <2> QED
    BY <1>2, <2>1
<1>7. CASE SetAbsenceConsentWrite(w)
  <2>1. booking'[b].refunded = booking[b].refunded
    BY <1>1, <1>7 DEF SetAbsenceConsentWrite, BookingRow
  <2> QED
    BY <1>2, <2>1
<1>8. CASE TerminateWrite(w)
  <2>1. work[w] # NoRequest /\ work[w].op = "terminate" /\ Undisturbed(work[w])
    BY <1>8, CarverFacts, WriteOps DEF Carves
  <2>2. work[w] \in Request /\ RefundFits(work[w].b, work[w].amount)
    BY <1>1, <2>1, ServedRequest DEF Undisturbed
  <2>3. CASE b = work[w].b
    <3>1. booking'[b].refunded = booking[b].refunded + work[w].amount
      BY <1>1, <1>8, <2>3 DEF TerminateWrite, BookingRow
    <3> QED
      BY <1>1, <2>2, <2>3, <3>1 DEF RefundFits, BookingRow, Request
  <2>4. CASE b # work[w].b
    <3>1. booking'[b] = booking[b]
      BY <1>1, <1>8, <2>4 DEF TerminateWrite
    <3> QED
      BY <1>2, <3>1
  <2> QED
    BY <2>3, <2>4
<1>9. CASE SuspendWrite(w) \/ ReactivateWrite(w)
  <2>1. work[w] # NoRequest /\ work[w].op \in {"suspend", "reactivate"}
    BY <1>9, WriteOps DEF NoRequest
  <2>2. CASE AddRefund(work[w].b, work[w].amount)
    BY <2>1, <2>2, RefundIncrement
  <2>3. CASE UNCHANGED booking
    BY <1>2, <2>3
  <2> QED
    BY <1>9, <2>2, <2>3 DEF SuspendWrite, ReactivateWrite
<1>10. CASE UNCHANGED booking
  BY <1>2, <1>10
<1> QED
  BY <1>3, <1>4, <1>5, <1>6, <1>7, <1>8, <1>9, <1>10
     DEF WriteStep, ReleaseAbsenceWrite, CancelAbsenceReleaseWrite, Abort

(* One request at a time, the ledger of refunds never goes down, and grows *)
(* only within what is collected at that moment.                           *)
THEOREM RefundsFitWhatIsCollected == Serial /\ Spec => RefundStep
<1>1. ASSUME SerialSound, [Next]_vars, NEW b \in Stored
      PROVE  /\ booking[b].refunded <= booking'[b].refunded
             /\ booking[b].refunded < booking'[b].refunded
                  => booking'[b].refunded <= booking[b].collected
  <2>1. CASE \E w \in Workers : WriteStep(w)
    BY <1>1, <2>1, RefundWithinCollected
  <2>2. CASE ~ \E w \in Workers : WriteStep(w)
    <3>1. booking' = booking
      BY <1>1, <2>2, StepKinds, LoadEffect, ReadEffect DEF AdvanceDay, vars
    <3>2. booking[b] \in BookingRow
      BY <1>1, BookingIsRow DEF SerialSound, Sound, WellFormed, Stored
    <3> QED
      BY <3>1, <3>2 DEF BookingRow
  <2> QED
    BY <2>1, <2>2
<1>2. SerialSound /\ [Next]_vars =>
        [\A b \in Stored :
            LET old == booking[b].refunded
                new == booking'[b].refunded
            IN  old <= new /\ (old < new => new <= booking[b].collected)]_vars
  BY <1>1
<1> QED
  BY <1>2, SerialAlways, PTL DEF Spec, RefundStep

LEMMA FreedByWrite ==
  ASSUME SerialSound, NEW w \in Workers, WriteStep(w)
  PROVE  /\ \A s \in suspension' \ suspension :
              \A d \in s.start .. (IF s.end = None THEN LastDay ELSE s.end) :
                 d \notin Occupied(s.b)'
         /\ \A x \in release' \ release : ~ x.canceled => x.date \notin Occupied(x.b)'
<1>0. /\ suspension \subseteq SuspensionRow /\ release \subseteq ReleaseRow
      /\ Stored \subseteq Bookings
  BY DEF SerialSound, Sound, WellFormed, TypeOK, Stored
<1>b. PICK b : b = work[w].b
  OBVIOUS
<1>1. CASE SuspendWrite(w)
  <2>1. /\ work[w].b \in Bookings /\ DatesRight(work[w]) /\ work[w].op = "suspend"
        /\ work[w].from \in Days /\ work[w].to \in Days \cup {None}
    BY <1>0, <1>1, CarverFacts, WriteOps DEF Carves
  <2>2. PICK id :
          suspension' = suspension \cup
            { [id |-> id, b |-> work[w].b, start |-> work[w].from,
               end |-> work[w].to, refunded |-> work[w].amount] }
    BY <1>1 DEF SuspendWrite
  <2>3. ASSUME NEW d \in work[w].from .. (IF work[w].to = None THEN LastDay ELSE work[w].to)
        PROVE  d \notin Occupied(b)'
    <3>1. Hole(work[w].from, work[w].to, d)
      BY <2>1, <2>3, LastDayAssumption DEF Hole, Days
    <3> QED
      BY <1>1, <1>b, <2>1, <3>1, CarveOccupied DEF Carves
  <2> DEFINE n == [id |-> id, b |-> work[w].b, start |-> work[w].from,
                   end |-> work[w].to, refunded |-> work[w].amount]
  <2>4. /\ suspension' = suspension \cup {n}
        /\ n.b = work[w].b /\ n.start = work[w].from /\ n.end = work[w].to
    BY <2>2
  <2> HIDE DEF n
  <2>5. release' = release
    BY <1>1 DEF SuspendWrite
  <2> QED
    BY <1>b, <2>3, <2>4, <2>5
<1>2. CASE ReactivateWrite(w)
  <2>1. work[w] # NoRequest /\ work[w].op = "reactivate"
    BY <1>2, WriteOps DEF NoRequest
  <2>2. /\ Undisturbed(work[w]) /\ RefRight(work[w]) /\ Running(work[w].b)
        /\ work[w].from \in Days /\ work[w].to \in Days
    BY <2>1, ReturnerFacts DEF Returners
  <2>3. InsertCoverage(work[w].b, booking[work[w].b], work[w].from, work[w].to)
    BY <1>2 DEF ReactivateWrite
  <2>4. suspension' = { IF s.id = work[w].ref
                        THEN [s EXCEPT !.end = work[w].from - 1, !.refunded = work[w].amount]
                        ELSE s : s \in suspension }
        /\ release' = release
    BY <1>2 DEF ReactivateWrite
  <2>5. PICK o \in suspension : /\ o.b = work[w].b /\ o.end = None /\ o.id = work[w].ref
                                /\ o.start < work[w].from
    BY <2>1, <2>2 DEF Undisturbed, OpenSuspensions
  <2>6. ASSUME NEW s \in suspension' \ suspension
        PROVE  s.b = work[w].b /\ s.start = o.start /\ s.end = work[w].from - 1
    <3>1. PICK t \in suspension :
            /\ t.id = work[w].ref
            /\ s = [t EXCEPT !.end = work[w].from - 1, !.refunded = work[w].amount]
      BY <2>4, <2>6
    <3>2. t = o
      BY <2>5, <3>1 DEF SerialSound, SerialInv, SuspensionsAgreed
    <3> QED
      BY <1>0, <2>5, <3>1, <3>2 DEF SuspensionRow
  <2>7. ASSUME NEW d \in o.start .. work[w].from - 1
        PROVE  d \notin Occupied(b)'
    <3>1. o.start \in Days
      BY <1>0 DEF SuspensionRow
    <3>2. d \notin Occupied(b)
      <4>1. \A e \in Occupied(b) : e < o.start
        BY <1>b, <2>2, <2>5 DEF SerialSound, SerialInv, OccupationAsAgreed,
           OpenSuspensionFreesTail, Running
      <4>2. ~ d < o.start
        BY <2>2, <2>7, <3>1, LastDayAssumption DEF Days
      <4> QED
        BY <4>1, <4>2
    <3>3. d \notin work[w].from .. work[w].to
      BY <2>2, <2>7, <3>1, LastDayAssumption DEF Days
    <3> QED
      BY <1>b, <2>3, <3>2, <3>3, InsertOccupied
  <2>8. work[w].from - 1 # None
    <3>1. o.start \in Days
      BY <1>0 DEF SuspensionRow
    <3> QED
      BY <2>2, <2>5, <3>1, LastDayAssumption DEF Days, None
  <2> QED
    BY <1>b, <2>4, <2>6, <2>7, <2>8
<1>3. CASE ReleaseAbsenceWrite(w)
  <2>1. /\ work[w].b \in Bookings /\ DatesRight(work[w]) /\ work[w].op = "releaseAbsence"
        /\ work[w].from \in Days
    BY <1>0, <1>3, CarverFacts, WriteOps DEF Carves
  <2>2. PICK id : release' = release \cup
          { [id |-> id, b |-> work[w].b, date |-> work[w].from, canceled |-> FALSE] }
    BY <1>3 DEF ReleaseAbsenceWrite
  <2>3. PICK d : d = work[w].from /\ Hole(work[w].from, work[w].to, d)
    BY <2>1, LastDayAssumption DEF Hole, DatesRight, Days
  <2>4. d \notin Occupied(b)'
    BY <1>3, <1>b, <2>1, <2>3, CarveOccupied DEF Carves
  <2>5. suspension' = suspension
    BY <1>3 DEF ReleaseAbsenceWrite
  <2> QED
    BY <1>b, <2>2, <2>3, <2>4, <2>5
<1>4. CASE CancelAbsenceReleaseWrite(w)
  <2>1. /\ suspension' = suspension
        /\ release' = { IF x.id = work[w].ref THEN [x EXCEPT !.canceled = TRUE] ELSE x :
                          x \in release }
    BY <1>4 DEF CancelAbsenceReleaseWrite
  <2>2. \A x \in release : [x EXCEPT !.canceled = TRUE].canceled
    BY <1>0 DEF ReleaseRow
  <2> QED
    BY <2>1, <2>2
<1>5. CASE suspension' = suspension /\ release' = release
  BY <1>5
<1> QED
  BY <1>1, <1>2, <1>3, <1>4, <1>5
     DEF WriteStep, CreateWrite, CancelWrite, SettlePaymentWrite, TerminateWrite,
         TransferWrite, SetAbsenceConsentWrite, Abort

(* One request at a time, a suspension or an absence leaves none of its    *)
(* days occupied when it is put on record.                                 *)
THEOREM RecordedDaysAreFree == Serial /\ Spec => FreedOnCommit
<1>1. ASSUME SerialSound, [Next]_vars
      PROVE  /\ \A s \in suspension' \ suspension :
                   \A d \in s.start .. (IF s.end = None THEN LastDay ELSE s.end) :
                      d \notin Occupied(s.b)'
             /\ \A x \in release' \ release : ~ x.canceled => x.date \notin Occupied(x.b)'
  <2>1. CASE \E w \in Workers : WriteStep(w)
    BY <1>1, <2>1, FreedByWrite
  <2>2. CASE suspension' = suspension /\ release' = release
    BY <2>2
  <2> QED
    BY <1>1, <2>1, <2>2, StepKinds, LoadEffect, ReadEffect DEF AdvanceDay, vars
<1>2. SerialSound /\ [Next]_vars =>
        [/\ \A s \in suspension' \ suspension :
              \A d \in s.start .. (IF s.end = None THEN LastDay ELSE s.end) :
                 d \notin Occupied(s.b)'
         /\ \A x \in release' \ release : ~ x.canceled => x.date \notin Occupied(x.b)']_vars
  BY <1>1
<1> QED
  BY <1>2, SerialAlways, PTL DEF Spec, FreedOnCommit

-----------------------------------------------------------------------------
(* The calendar: every step of the methods is a step of SeatCalendar or    *)
(* leaves the calendar as it is.                                           *)

(* The seat and the days of the bookings, as the calendar sees them.       *)
SeatOf == [b \in Bookings |->
             IF b \in Stored
             THEN [umbrella |-> booking[b].umbrella, slot |-> booking[b].slot]
             ELSE NoBooking]

DaysHeld == [b \in Bookings |-> Occupied(b)]

LEMMA SeatIsNoBooking ==
  ASSUME NEW u, NEW k
  PROVE  [umbrella |-> u, slot |-> k] # NoBooking
<1>1. DOMAIN [umbrella |-> u, slot |-> k] = {"umbrella", "slot"}
  OBVIOUS
<1>2. DOMAIN [status |-> "none"] = {"status"}
  OBVIOUS
<1> QED
  BY <1>1, <1>2 DEF NoBooking

LEMMA StoredHasSeat ==
  ASSUME NEW b \in Bookings
  PROVE  /\ SeatOf[b] # NoBooking <=> b \in Stored
         /\ b \in Stored => /\ SeatOf[b].umbrella = booking[b].umbrella
                            /\ SeatOf[b].slot = booking[b].slot
  BY SeatIsNoBooking DEF SeatOf

LEMMA SeatsStand ==
  ASSUME WellFormed, NEW w \in Workers, WriteStep(w), ~ CreateWrite(w)
  PROVE  SeatOf' = SeatOf
<1>1. Stored' = Stored
  BY WriteKeepsBookings DEF BookingsKept
<1>2. \A b \in Stored : booking'[b].umbrella = booking[b].umbrella
                        /\ booking'[b].slot = booking[b].slot
  BY WriteKeepsTerms
<1> QED
  BY <1>1, <1>2 DEF SeatOf

LEMMA IntervalIsSpan ==
  ASSUME NEW from \in Days, NEW to \in Days
  PROVE  Calendar!Interval(from, to) = from .. to
  BY LastDayAssumption DEF Calendar!Interval, Days, None

LEMMA NoDoubleBookingNext == WellFormed' /\ SeatInv' => NoDoubleBooking'
  BY SeatInvImplies, PTL

(* What nobody else occupies after a write was free before it.             *)
LEMMA FreeForWriter ==
  ASSUME SerialSound, NEW w \in Workers, WriteStep(w), NEW b \in Stored', NEW k, NEW S,
         k.umbrella = booking'[b].umbrella, k.slot = booking'[b].slot,
         S \subseteq Occupied(b)',
         \A c \in Stored \ {b} : /\ Occupied(c)' = Occupied(c)
                                 /\ booking'[c].umbrella = booking[c].umbrella
                                 /\ booking'[c].slot = booking[c].slot
  PROVE  Calendar!Free(b, k, S)
<1>1. [Next]_vars
  BY DEF WriteStep, Next
<1>2. NoDoubleBooking'
  <2>1. WellFormed' /\ SeatInv'
    BY <1>1, StepType, SeatStep DEF SerialSound, Sound
  <2> QED
    BY <2>1, NoDoubleBookingNext
<1>3. Stored \subseteq Stored'
  BY WriteKeepsTerms DEF SerialSound, Sound
<1>4. ASSUME NEW c \in Bookings \ {b}, SeatOf[c] # NoBooking, SameSeat(k, SeatOf[c])
      PROVE  Occupied(c) \cap S = {}
  <2>1. /\ c \in Stored /\ SeatOf[c].umbrella = booking[c].umbrella
        /\ SeatOf[c].slot = booking[c].slot
    BY <1>4, StoredHasSeat
  <2>2. booking'[b].umbrella = booking'[c].umbrella
        /\ slotsOverlap(booking'[b].slot, booking'[c].slot)
    BY <1>4, <2>1 DEF SameSeat
  <2>3. Occupied(b)' \cap Occupied(c)' = {}
    BY <1>2, <1>3, <1>4, <2>1, <2>2 DEF NoDoubleBooking
  <2> QED
    BY <1>4, <2>1, <2>3
<1> QED
  BY <1>4 DEF Calendar!Free, SeatOf

LEMMA CarveGivesBack ==
  ASSUME SerialSound, NEW w \in Workers, Carves(w)
  PROVE  Calendar!Next
<1>1. /\ work[w].b \in Stored /\ work[w].b \in Bookings
      /\ work[w].from \in Days /\ work[w].to \in Days \cup {None}
  BY CarverFacts DEF Stored
<1>2. PICK b, from, to : b = work[w].b /\ from = work[w].from /\ to = work[w].to
  OBVIOUS
<1>3. \A c \in Bookings : Occupied(c)' =
         IF c = b THEN Occupied(c) \ Calendar!Interval(from, to) ELSE Occupied(c)
  <2> SUFFICES ASSUME NEW c \in Bookings, NEW d
               PROVE  d \in Occupied(c)' <=>
                        d \in IF c = b THEN Occupied(c) \ Calendar!Interval(from, to)
                                       ELSE Occupied(c)
    OBVIOUS
  <2>1. d \in Occupied(c)' <=> d \in Occupied(c) /\ ~ (c = b /\ Hole(from, to, d))
    BY <1>2, CarveOccupied
  <2>2. d \in Occupied(c) => d \in Days
    BY OccupiedDays DEF SerialSound, Sound
  <2> QED
    BY <2>1, <2>2 DEF Calendar!Interval, Hole
<1>4. SeatOf' = SeatOf /\ SeatOf[b] # NoBooking
  <2>1. WriteStep(w) /\ ~ CreateWrite(w)
    BY CarverFacts DEF Carves, WriteStep
  <2> QED
    BY <1>1, <1>2, <2>1, SeatsStand, StoredHasSeat DEF SerialSound, Sound
<1>5. DaysHeld' = [DaysHeld EXCEPT ![b] = @ \ Calendar!Interval(from, to)]
  BY <1>1, <1>2, <1>3 DEF DaysHeld
<1>6. Calendar!GiveBack(b, from, to)
  BY <1>4, <1>5 DEF Calendar!GiveBack, SeatOf, DaysHeld
<1> QED
  BY <1>1, <1>2, <1>6 DEF Calendar!Next

LEMMA ReturnTakesBack ==
  ASSUME SerialSound, NEW w \in Workers, TakesBack(w)
  PROVE  Calendar!Next
<1>1. /\ work[w].b \in Stored /\ work[w].b \in Bookings
      /\ work[w].from \in Days /\ work[w].to \in Days
  <2>1. work[w] # NoRequest /\ work[w].op \in Returners
    BY WriteOps DEF TakesBack, Returners, NoRequest
  <2> QED
    BY <2>1, ReturnerFacts DEF Stored
<1>2. PICK b, from, to : b = work[w].b /\ from = work[w].from /\ to = work[w].to
  OBVIOUS
<1>3. WriteStep(w) /\ ~ CreateWrite(w)
  BY WriteOps DEF TakesBack, WriteStep
<1>4. InsertCoverage(b, booking[b], from, to)
  BY <1>2 DEF TakesBack, ReactivateWrite, CancelAbsenceReleaseWrite
<1>5. \A c, d : d \in Occupied(c)' <=> d \in Occupied(c) \/ (c = b /\ d \in from .. to)
  BY <1>4, InsertOccupied
<1>6. Occupied(b)' = Occupied(b) \cup from .. to
      /\ \A c \in Bookings \ {b} : Occupied(c)' = Occupied(c)
  BY <1>5
<1>7. Occupied(b) \cap (from .. to) = {}
  <2>1. PICK id \in FreshCoverage :
          /\ coverage' = coverage \cup { NewCoverage(id, b, booking[b], from, to) }
          /\ TableAccepts(coverage')
    BY <1>4 DEF InsertCoverage
  <2> DEFINE n == NewCoverage(id, b, booking[b], from, to)
  <2>2. /\ n.id = id /\ n.status = "confirmed" /\ n.umbrella = booking[b].umbrella
        /\ n.slot = booking[b].slot /\ DaysOf(n) = from .. to
        /\ n \in CoverageRow
    <3>1. booking[b] \in BookingRow /\ id \in CoverageIds
      BY <1>1, <1>2, BookingIsRow, FreshRow DEF SerialSound, Sound, WellFormed, Stored
    <3> QED
      BY <1>1, <1>2, <3>1 DEF NewCoverage, DaysOf, CoverageRow, BookingRow
  <2>3. n \in coverage'
    BY <2>1
  <2> HIDE DEF n
  <2>4. ASSUME NEW d, d \in Occupied(b), d \in from .. to
        PROVE  FALSE
    <3>1. PICK c \in coverage : c.b = b /\ c.status = "confirmed" /\ d \in DaysOf(c)
      BY <2>4 DEF Occupied, OwnCoverage, OwnRows
    <3>2. /\ c \in CoverageRow /\ c.umbrella = n.umbrella /\ c.slot = n.slot
          /\ c \in coverage' /\ c # n
      BY <2>1, <2>2, <3>1, FreshRow DEF SerialSound, Sound, WellFormed, TypeOK, SeatInv, Matches
    <3>3. Collides(c, n)
      BY <2>2, <2>4, <3>1, <3>2, OneSeatCollide
    <3> QED
      BY <2>1, <2>3, <3>2, <3>3 DEF TableAccepts, NoOverlap
  <2> QED
    BY <2>4
<1>8. SeatOf' = SeatOf /\ SeatOf[b] # NoBooking
  BY <1>1, <1>2, <1>3, SeatsStand, StoredHasSeat DEF SerialSound, Sound
<1>9. Calendar!Free(b, SeatOf[b], from .. to)
  <2>1. \A c \in Stored : /\ c \in Stored' /\ booking'[c].umbrella = booking[c].umbrella
                          /\ booking'[c].slot = booking[c].slot
    BY <1>3, WriteKeepsTerms DEF SerialSound, Sound
  <2>2. SeatOf[b].umbrella = booking[b].umbrella /\ SeatOf[b].slot = booking[b].slot
    BY <1>1, <1>2, StoredHasSeat
  <2>3. Stored \subseteq Bookings
    BY DEF Stored
  <2> QED
    BY <1>1, <1>2, <1>3, <1>6, <2>1, <2>2, <2>3, FreeForWriter
<1>10. DaysHeld' = [DaysHeld EXCEPT ![b] = @ \cup from .. to]
  BY <1>1, <1>2, <1>6 DEF DaysHeld
<1>11. Calendar!TakeBack(b, from, to)
  <2>1. Calendar!Interval(from, to) = from .. to
    BY <1>1, <1>2, IntervalIsSpan
  <2>2. DaysHeld[b] = Occupied(b)
    BY <1>1, <1>2 DEF DaysHeld
  <2> QED
    BY <1>7, <1>8, <1>9, <1>10, <2>1, <2>2 DEF Calendar!TakeBack, SeatOf, DaysHeld
<1> QED
  BY <1>1, <1>2, <1>11 DEF Calendar!Next

LEMMA CreateSells ==
  ASSUME SerialSound, NEW w \in Workers, CreateWrite(w)
  PROVE  Calendar!Next
<1>1. PICK b \in Bookings \ Stored :
           /\ booking' = [booking EXCEPT ![b] = work[w].row]
           /\ work[w].row \in BookingRow /\ work[w].row.start <= work[w].row.end
           /\ Stored' = Stored \cup {b}
           /\ Occupied(b) = {}
           /\ \A c, d : d \in Occupied(c)' <=>
                 d \in Occupied(c) \/ (c = b /\ d \in work[w].row.start .. work[w].row.end)
  BY CreateEffect
<1>2. PICK row, from, to : row = work[w].row /\ from = row.start /\ to = row.end
  OBVIOUS
<1> DEFINE k == [umbrella |-> row.umbrella, slot |-> row.slot]
<1>3. /\ from \in Days /\ to \in Days /\ from <= to
      /\ k \in [umbrella: Umbrellas, slot: Slots]
  BY <1>1, <1>2 DEF BookingRow
<1>4. booking'[b] = row /\ \A c \in Bookings \ {b} : booking'[c] = booking[c]
  BY <1>1, <1>2 DEF SerialSound, Sound, WellFormed, TypeOK
<1>5. Occupied(b)' = from .. to /\ \A c \in Bookings \ {b} : Occupied(c)' = Occupied(c)
  BY <1>1, <1>2
<1>6. k.umbrella = row.umbrella /\ k.slot = row.slot
  OBVIOUS
<1>7. SeatOf' = [SeatOf EXCEPT ![b] = k] /\ SeatOf[b] = NoBooking
  BY <1>1, <1>4 DEF SeatOf
<1> HIDE DEF k
<1>8. Calendar!Free(b, k, from .. to)
  <2>1. WriteStep(w) /\ Stored \subseteq Bookings
    BY DEF WriteStep, Stored
  <2> QED
    BY <1>1, <1>4, <1>5, <1>6, <2>1, FreeForWriter
<1>9. DaysHeld' = [DaysHeld EXCEPT ![b] = from .. to]
  BY <1>5 DEF DaysHeld
<1>10. Calendar!Sell(b, k, from, to)
  <2>1. Calendar!Interval(from, to) = from .. to
    BY <1>3, IntervalIsSpan
  <2>2. from .. to # {}
    BY <1>3, LastDayAssumption DEF Days
  <2> QED
    BY <1>7, <1>8, <1>9, <2>1, <2>2 DEF Calendar!Sell, SeatOf, DaysHeld
<1> QED
  BY <1>1, <1>3, <1>10 DEF Calendar!Next

LEMMA CancelVoids ==
  ASSUME SerialSound, NEW w \in Workers, CancelWrite(w)
  PROVE  Calendar!Next
<1>1. work[w].b \in Stored /\ work[w].b \in Bookings
  <2>1. work[w] # NoRequest /\ work[w].op = "cancel"
    BY WriteOps DEF NoRequest
  <2> QED
    BY <2>1, ServedRequest DEF SerialSound, Sound
<1>2. PICK b : b = work[w].b
  OBVIOUS
<1>3. Occupied(b)' = {} /\ \A c \in Bookings \ {b} : Occupied(c)' = Occupied(c)
  <2>1. \A c, d : d \in Occupied(c)' <=> d \in Occupied(c) /\ c # b
    BY <1>2, CancelOccupied DEF SerialSound, Sound
  <2>2. Occupied(b)' = {}
    BY <2>1
  <2>3. ASSUME NEW c \in Bookings \ {b} PROVE Occupied(c)' = Occupied(c)
    <3>1. \A d : d \in Occupied(c)' <=> d \in Occupied(c)
      BY <2>1
    <3> QED
      BY <3>1
  <2> QED
    BY <2>2, <2>3
<1>4. SeatOf' = SeatOf /\ SeatOf[b] # NoBooking
  <2>1. WriteStep(w) /\ ~ CreateWrite(w)
    BY WriteOps DEF WriteStep
  <2> QED
    BY <1>1, <1>2, <2>1, SeatsStand, StoredHasSeat DEF SerialSound, Sound
<1>5. DaysHeld' = [DaysHeld EXCEPT ![b] = {}]
  BY <1>1, <1>2, <1>3 DEF DaysHeld
<1>6. Calendar!Void(b)
  BY <1>4, <1>5 DEF Calendar!Void, SeatOf, DaysHeld
<1> QED
  BY <1>1, <1>2, <1>6 DEF Calendar!Next

LEMMA CalendarStep == SerialSound /\ [Next]_vars => [Calendar!Next]_(Calendar!vars)
<1> SUFFICES ASSUME SerialSound, [Next]_vars PROVE Calendar!Next \/ UNCHANGED Calendar!vars
  OBVIOUS
<1>1. CASE UNCHANGED <<booking, coverage>>
  BY <1>1 DEF Calendar!vars, Stored, Occupied, OwnCoverage, OwnRows
<1>2. ASSUME NEW w \in Workers, WriteStep(w)
      PROVE  Calendar!Next \/ UNCHANGED Calendar!vars
  <2>1. CASE Carves(w)
    BY <2>1, CarveGivesBack
  <2>2. CASE TakesBack(w)
    BY <2>2, ReturnTakesBack
  <2>3. CASE CreateWrite(w)
    BY <2>3, CreateSells
  <2>4. CASE CancelWrite(w)
    BY <2>4, CancelVoids
  <2>5. CASE SettlePaymentWrite(w) \/ TransferWrite(w) \/ SetAbsenceConsentWrite(w) \/ Abort(w)
    <3>1. SeatOf' = SeatOf
      <4>1. ~ CreateWrite(w) \/ Abort(w)
        BY <2>5, WriteOps
      <4>2. CASE Abort(w)
        BY <4>2 DEF Abort, SeatOf, Stored
      <4> QED
        BY <1>2, <4>1, <4>2, SeatsStand DEF SerialSound, Sound
    <3>2. DaysHeld' = DaysHeld
      BY <2>5 DEF SettlePaymentWrite, TransferWrite, SetAbsenceConsentWrite, Abort,
         DaysHeld, Occupied, OwnCoverage, OwnRows
    <3> QED
      BY <3>1, <3>2 DEF Calendar!vars, SeatOf, DaysHeld
  <2> QED
    BY <1>2, <2>1, <2>2, <2>3, <2>4, <2>5 DEF WriteStep, Carves, TakesBack
<1> QED
  BY <1>1, <1>2, StepKinds, LoadEffect, ReadEffect DEF AdvanceDay, vars

LEMMA CalendarInit == Init => Calendar!Init
  BY DEF Init, Calendar!Init, Stored, NoBooking, Occupied, OwnCoverage, OwnRows

(* As long as requests do not overlap, BookingsService implements the      *)
(* calendar: days are sold, given back and taken back in whole intervals,  *)
(* always free ones, and a method touches the days of its booking only.    *)
THEOREM ImplementsCalendar == Serial /\ Spec => CalendarSpec
<1> QED
  BY CalendarInit, CalendarStep, SerialAlways, PTL DEF Spec, CalendarSpec, Calendar!Spec

-----------------------------------------------------------------------------
(* Sums of refunds. The fold that SuspensionRefunds computes is a recursive*)
(* function on the subsets of a finite set: it is well-defined, whatever   *)
(* set it is computed within, and any row can be taken out first. Each is  *)
(* by induction on the number of rows, for which NatSet is the form of     *)
(* induction a prover can use: of a set, and not of an operator.           *)

(* Induction on the natural numbers, over a set.                           *)
LEMMA NatSet ==
  ASSUME NEW S, 0 \in S, \A n \in Nat : n \in S => n + 1 \in S
  PROVE  \A n \in Nat : n \in S
<1> DEFINE R == OpToRel(<, Nat)
           T == Nat \ S
<1>1. IsWellFoundedOn(R, Nat)
  BY NatLessThanWellFounded
<1>2. SUFFICES ASSUME T # {} PROVE FALSE
  OBVIOUS
<1>3. PICK x \in T : \A y \in T : ~ (<<y, x>> \in R)
  <2> HIDE DEF R
  <2> QED BY <1>1, <1>2, WFMin
<1>4. x - 1 \in T
  OBVIOUS
<1>5. <<x - 1, x>> \in R
  BY <1>4 DEF OpToRel
<1> QED BY <1>3, <1>4, <1>5

(* The sum of the refunds of a set of rows, as the fold computes it.       *)
RefundsOf(S) == MapThenSumSet(LAMBDA s : s.refunded, S)

FirstOf(s) == CHOOSE y \in s : TRUE

Added(g, s) == IF s = {} THEN 0 ELSE FirstOf(s).refunded + g[s \ {FirstOf(s)}]

Fits(g, S) == g = [s \in SUBSET S |-> Added(g, s)]

FoldOf(S) == CHOOSE g : Fits(g, S)

LEMMA RefundsFold ==
  ASSUME NEW S
  PROVE  RefundsOf(S) = FoldOf(S)[S]
BY DEF RefundsOf, MapThenSumSet, MapThenFoldSet, Fits, Added, FirstOf, FoldOf

LEMMA FirstIn ==
  ASSUME NEW S, IsFiniteSet(S), NEW s \in SUBSET S, s # {}
  PROVE  /\ FirstOf(s) \in s
         /\ s \ {FirstOf(s)} \in SUBSET S
         /\ IsFiniteSet(s) /\ Cardinality(s) \in Nat
         /\ IsFiniteSet(s \ {FirstOf(s)})
         /\ Cardinality(s \ {FirstOf(s)}) = Cardinality(s) - 1
         /\ Cardinality(s \ {FirstOf(s)}) \in Nat
<1>1. FirstOf(s) \in s
  BY DEF FirstOf
<1>2. IsFiniteSet(s) /\ Cardinality(s) \in Nat
  BY FS_Subset, FS_CardinalityType
<1>3. /\ IsFiniteSet(s \ {FirstOf(s)})
      /\ Cardinality(s \ {FirstOf(s)}) = Cardinality(s) - 1
  BY <1>1, <1>2, FS_RemoveElement
<1>4. Cardinality(s \ {FirstOf(s)}) \in Nat
  BY <1>3, FS_CardinalityType
<1> QED
  BY <1>1, <1>2, <1>3, <1>4

(* The recursive definition of the fold is well-defined on a finite set.   *)
LEMMA FoldExists ==
  ASSUME NEW S, IsFiniteSet(S)
  PROVE  Fits(FoldOf(S), S)
<1> DEFINE Upto(n) == \E g : \A s \in SUBSET S : Cardinality(s) <= n => g[s] = Added(g, s)
           N == { n \in Nat : Upto(n) }
<1>1. Upto(0)
  <2> DEFINE g == [s \in SUBSET S |-> 0]
  <2>1. ASSUME NEW s \in SUBSET S, Cardinality(s) <= 0
        PROVE  g[s] = Added(g, s)
    <3>1. s = {}
      BY <2>1, FS_Subset, FS_CardinalityType, FS_EmptySet
    <3> QED
      BY <3>1 DEF Added
  <2> HIDE DEF g
  <2> QED
    BY <2>1
<1>2. ASSUME NEW n \in Nat, Upto(n)
      PROVE  Upto(n + 1)
  <2>1. PICK g : \A s \in SUBSET S : Cardinality(s) <= n => g[s] = Added(g, s)
    BY <1>2
  <2> DEFINE h == [s \in SUBSET S |-> IF Cardinality(s) <= n THEN g[s] ELSE Added(g, s)]
  <2>2. ASSUME NEW s \in SUBSET S
        PROVE  h[s] = Added(g, s)
    BY <2>1
  <2>3. ASSUME NEW s \in SUBSET S, Cardinality(s) <= n + 1, s # {}
        PROVE  h[s \ {FirstOf(s)}] = g[s \ {FirstOf(s)}]
    <3>1. s \ {FirstOf(s)} \in SUBSET S
      OBVIOUS
    <3>2. Cardinality(s \ {FirstOf(s)}) <= n
      <4>1. /\ Cardinality(s \ {FirstOf(s)}) = Cardinality(s) - 1
            /\ Cardinality(s) \in Nat
        BY <2>3, FirstIn
      <4> QED
        BY <2>3, <4>1
    <3> QED
      BY <3>1, <3>2
  <2>4. ASSUME NEW s \in SUBSET S, Cardinality(s) <= n + 1
        PROVE  h[s] = Added(h, s)
    <3> HIDE DEF h
    <3> QED
      BY <2>2, <2>3, <2>4 DEF Added
  <2> HIDE DEF h
  <2> QED
    BY <2>4
<1>3. Upto(Cardinality(S))
  <2>1. 0 \in N
    BY <1>1
  <2>2. \A n \in Nat : n \in N => n + 1 \in N
    BY <1>2
  <2> HIDE DEF N
  <2>3. \A n \in Nat : n \in N
    BY <2>1, <2>2, NatSet
  <2> QED
    BY <2>3, FS_CardinalityType DEF N
<1>4. PICK g : \A s \in SUBSET S : Cardinality(s) <= Cardinality(S) => g[s] = Added(g, s)
  BY <1>3
<1>5. \A s \in SUBSET S : g[s] = Added(g, s)
  BY <1>4, FS_Subset
<1> DEFINE h == [s \in SUBSET S |-> g[s]]
<1>6. ASSUME NEW s \in SUBSET S
      PROVE  Added(g, s) = Added(h, s)
  <2>1. CASE s = {}
    BY <2>1 DEF Added
  <2>2. CASE s # {}
    BY <2>2, FirstIn DEF Added
  <2> QED
    BY <2>1, <2>2
<1>7. Fits(h, S)
  BY <1>5, <1>6 DEF Fits
<1> QED
  BY <1>7 DEF FoldOf

LEMMA FoldStep ==
  ASSUME NEW S, IsFiniteSet(S), NEW s \in SUBSET S
  PROVE  FoldOf(S)[s] = Added(FoldOf(S), s)
<1> DEFINE g == FoldOf(S)
<1>1. g = [t \in SUBSET S |-> Added(g, t)]
  BY FoldExists DEF Fits
<1> HIDE DEF g
<1>2. g[s] = Added(g, s)
  BY <1>1
<1> QED
  BY <1>2 DEF g

(* The fold of a set does not depend on the set it is computed within.     *)
LEMMA FoldsAgree ==
  ASSUME NEW S, IsFiniteSet(S), NEW T \in SUBSET S
  PROVE  FoldOf(S)[T] = FoldOf(T)[T]
<1> DEFINE Same(n) == \A s \in SUBSET T : Cardinality(s) = n => FoldOf(S)[s] = FoldOf(T)[s]
           N == { n \in Nat : Same(n) }
<1>1. IsFiniteSet(T)
  BY FS_Subset
<1>2. Same(0)
  <2>1. ASSUME NEW s \in SUBSET T, Cardinality(s) = 0
        PROVE  FoldOf(S)[s] = FoldOf(T)[s]
    <3>1. s = {}
      BY <1>1, <2>1, FS_Subset, FS_EmptySet
    <3> QED
      BY <1>1, <3>1, FoldStep DEF Added
  <2> QED
    BY <2>1
<1>3. ASSUME NEW n \in Nat, Same(n)
      PROVE  Same(n + 1)
  <2>1. ASSUME NEW s \in SUBSET T, Cardinality(s) = n + 1
        PROVE  FoldOf(S)[s] = FoldOf(T)[s]
    <3>1. s # {}
      BY <2>1, FS_EmptySet
    <3>2. Cardinality(s \ {FirstOf(s)}) = n
      <4>1. Cardinality(s \ {FirstOf(s)}) = Cardinality(s) - 1
        BY <1>1, <3>1, FirstIn
      <4> QED
        BY <2>1, <4>1
    <3>3. FoldOf(S)[s \ {FirstOf(s)}] = FoldOf(T)[s \ {FirstOf(s)}]
      BY <1>3, <3>2
    <3>4. FoldOf(S)[s] = Added(FoldOf(S), s) /\ FoldOf(T)[s] = Added(FoldOf(T), s)
      BY <1>1, FoldStep
    <3> QED
      BY <3>1, <3>3, <3>4 DEF Added
  <2> QED
    BY <2>1
<1>4. \A n \in Nat : n \in N
  <2>1. 0 \in N
    BY <1>2
  <2>2. \A n \in Nat : n \in N => n + 1 \in N
    BY <1>3
  <2> HIDE DEF N
  <2> QED
    BY <2>1, <2>2, NatSet
<1>5. Same(Cardinality(T))
  BY <1>1, <1>4, FS_CardinalityType
<1> QED
  BY <1>5

LEMMA RefundsUnfold ==
  ASSUME NEW S, IsFiniteSet(S)
  PROVE  /\ RefundsOf({}) = 0
         /\ S # {} => RefundsOf(S) = FirstOf(S).refunded + RefundsOf(S \ {FirstOf(S)})
<1>1. RefundsOf({}) = 0
  BY RefundsFold, FoldStep, FS_EmptySet DEF Added
<1>2. ASSUME S # {}
      PROVE  RefundsOf(S) = FirstOf(S).refunded + RefundsOf(S \ {FirstOf(S)})
  <2>1. S \ {FirstOf(S)} \in SUBSET S
    OBVIOUS
  <2>2. FoldOf(S)[S \ {FirstOf(S)}] = RefundsOf(S \ {FirstOf(S)})
    BY <2>1, FoldsAgree, RefundsFold
  <2>3. FoldOf(S)[S] = Added(FoldOf(S), S)
    BY FoldStep
  <2> QED
    BY <1>2, <2>2, <2>3, RefundsFold DEF Added
<1> QED
  BY <1>1, <1>2

(* Any row may be taken out first, so the sum does not depend on CHOOSE.   *)
LEMMA RefundsTakeOut ==
  ASSUME NEW S, IsFiniteSet(S), \A s \in S : s.refunded \in Int
  PROVE  /\ RefundsOf(S) \in Int
         /\ \A x \in S : RefundsOf(S) = x.refunded + RefundsOf(S \ {x})
<1> DEFINE Holds(s) == /\ RefundsOf(s) \in Int
                       /\ \A x \in s : RefundsOf(s) = x.refunded + RefundsOf(s \ {x})
           Upto(n) == \A s \in SUBSET S : Cardinality(s) <= n => Holds(s)
           N == { n \in Nat : Upto(n) }
<1>1. Upto(0)
  <2>1. ASSUME NEW s \in SUBSET S, Cardinality(s) <= 0
        PROVE  Holds(s)
    <3>1. s = {}
      BY <2>1, FS_Subset, FS_CardinalityType, FS_EmptySet
    <3>2. RefundsOf({}) = 0
      BY RefundsUnfold
    <3> QED
      BY <3>1, <3>2
  <2> QED
    BY <2>1
<1>2. ASSUME NEW n \in Nat, Upto(n)
      PROVE  Upto(n + 1)
  <2>1. ASSUME NEW s \in SUBSET S, Cardinality(s) <= n + 1, s # {}
        PROVE  Holds(s)
    <3> DEFINE c == FirstOf(s)
    <3>1. s # {}
      BY <2>1
    <3>2. /\ c \in s /\ IsFiniteSet(s) /\ Cardinality(s) \in Nat
          /\ s \ {c} \in SUBSET S /\ Cardinality(s \ {c}) = Cardinality(s) - 1
      BY <2>1, <3>1, FirstIn
    <3>3. RefundsOf(s) = c.refunded + RefundsOf(s \ {c})
      BY <3>1, <3>2, RefundsUnfold
    <3> HIDE DEF c
    <3>4. Holds(s \ {c})
      <4>1. Cardinality(s \ {c}) <= n
        BY <2>1, <3>2
      <4> QED
        BY <1>2, <3>2, <4>1
    <3>5. RefundsOf(s) \in Int
      BY <3>2, <3>3, <3>4
    <3>6. ASSUME NEW x \in s, x # c
          PROVE  RefundsOf(s) = x.refunded + RefundsOf(s \ {x})
      <4>1. s \ {x} \in SUBSET S /\ Cardinality(s \ {x}) <= n
        <5>1. Cardinality(s \ {x}) = Cardinality(s) - 1
          BY <3>2, FS_RemoveElement
        <5> QED
          BY <2>1, <3>2, <5>1
      <4>2. Holds(s \ {x})
        BY <1>2, <4>1
      <4>3. x \in s \ {c} /\ c \in s \ {x} /\ (s \ {x}) \ {c} = (s \ {c}) \ {x}
        BY <3>2, <3>6
      <4> DEFINE rest == RefundsOf((s \ {c}) \ {x})
      <4>4. RefundsOf(s \ {c}) = x.refunded + rest
        BY <3>4, <4>3
      <4>5. RefundsOf(s \ {x}) = c.refunded + rest
        BY <4>2, <4>3
      <4>6. rest \in Int
        <5>1. (s \ {x}) \ {c} \in SUBSET (s \ {x})
          OBVIOUS
        <5>2. IsFiniteSet(s \ {x}) /\ Cardinality(s \ {x}) \in Nat
          BY <3>2, FS_RemoveElement, FS_CardinalityType
        <5>3. /\ Cardinality((s \ {x}) \ {c}) <= Cardinality(s \ {x})
              /\ Cardinality((s \ {x}) \ {c}) \in Nat
          BY <5>1, <5>2, FS_Subset, FS_CardinalityType
        <5>4. Holds((s \ {x}) \ {c})
          <6>1. (s \ {x}) \ {c} \in SUBSET S
            BY <4>1, <5>1
          <6>2. Cardinality((s \ {x}) \ {c}) <= n
            BY <4>1, <5>2, <5>3
          <6> HIDE DEF Holds
          <6> QED
            BY <1>2, <6>1, <6>2
        <5> QED
          BY <4>3, <5>4
      <4>7. c.refunded \in Int /\ x.refunded \in Int
        BY <3>2
      <4> HIDE DEF rest
      <4> QED
        BY <3>3, <4>4, <4>5, <4>6, <4>7
    <3> QED
      BY <3>3, <3>5, <3>6
  <2>2. Holds({})
    BY <1>2, FS_EmptySet
  <2> QED
    BY <2>1, <2>2
<1>3. \A n \in Nat : n \in N
  <2>1. 0 \in N
    BY <1>1
  <2>2. \A n \in Nat : n \in N => n + 1 \in N
    <3> HIDE DEF Upto
    <3> QED
      BY <1>2
  <2> HIDE DEF N
  <2> QED
    BY <2>1, <2>2, NatSet
<1>4. Upto(Cardinality(S)) /\ Cardinality(S) \in Nat
  BY <1>3, FS_CardinalityType
<1>5. Holds(S)
  <2> HIDE DEF Holds
  <2> QED
    BY <1>4
<1> QED
  BY <1>5

-----------------------------------------------------------------------------
(* The ledger of refunds. The sum of a booking's records and its own       *)
(* refundedAmount move together, because the suspension that reactivate    *)
(* ends had no refund while it was open (an open one is refused a refund), *)
(* and because a booking that is created has none.                         *)

RefundRows(b) == { s \in suspension : s.b = b }

LEMMA RefundsOfBooking ==
  \A b : SuspensionRefunds(b) = RefundsOf(RefundRows(b))
BY DEF SuspensionRefunds, RefundsOf, RefundRows, MapThenSumSet, MapThenFoldSet

RefundAgreed(r) ==
  /\ r.op = "create" => r.row.refunded = 0
  /\ r.op = "suspend" /\ r.to = None => r.amount = 0

LedgerInv ==
  /\ IsFiniteSet(suspension)
  /\ \A s \in suspension : s.end = None => s.refunded = 0
  /\ \A w \in Workers : work[w] # NoRequest => RefundAgreed(work[w])
  /\ RefundLedger

(* A request to suspend with no end asks for no refund, and a new booking  *)
(* has had none.                                                           *)
LEMMA LoadRefund ==
  ASSUME WellFormed, NEW w \in Workers, LoadStep(w)
  PROVE  \E r : RefundAgreed(r) /\ work' = [work EXCEPT ![w] = r]
<1>1. ASSUME NEW r, Begin(w, r), r.op \notin {"create", "suspend"}
      PROVE  \E q : RefundAgreed(q) /\ work' = [work EXCEPT ![w] = q]
  BY <1>1 DEF Begin, RefundAgreed
<1>2. CASE CreateCheck(w)
  <2>1. PICK type, c, u, k, total, span :
          Begin(w, [NoRequest EXCEPT !.op = "create", !.pc = "planned",
                                     !.row = NewBooking(type, c, u, k, span, total)])
    BY <1>2 DEF CreateCheck
  <2>2. NewBooking(type, c, u, k, span, total).refunded = 0
    BY DEF NewBooking
  <2> DEFINE row == NewBooking(type, c, u, k, span, total)
             r == [NoRequest EXCEPT !.op = "create", !.pc = "planned", !.row = row]
  <2> HIDE DEF row
  <2>3. r.op = "create" /\ r.row = row
    BY DEF NoRequest
  <2>4. work' = [work EXCEPT ![w] = r]
    BY <2>1 DEF Begin, row
  <2> HIDE DEF r
  <2> QED
    BY <2>2, <2>3, <2>4 DEF RefundAgreed, row
<1>3. CASE SuspendLoad(w)
  <2>1. PICK b \in Bookings, from \in Days, to \in Days \cup {None}, refund \in Amounts :
          /\ to = None => refund = 0
          /\ Begin(w, [NoRequest EXCEPT !.op = "suspend", !.pc = "loaded", !.b = b,
                                        !.from = from, !.to = to, !.amount = refund])
    BY <1>3 DEF SuspendLoad
  <2> QED
    BY <2>1 DEF Begin, NoRequest, RefundAgreed
<1>4. CASE ReactivateLoad(w)
  <2>1. PICK s, return, refund :
          Begin(w, [NoRequest EXCEPT !.op = "reactivate", !.pc = "loaded", !.b = s.b,
                                     !.from = return, !.to = booking[s.b].end,
                                     !.amount = refund, !.ref = s.id])
    BY <1>4 DEF ReactivateLoad
  <2> QED
    BY <2>1, <1>1 DEF NoRequest
<1>5. CASE CancelLoad(w)
  BY <1>5, <1>1 DEF CancelLoad, NoRequest
<1>6. CASE SettlePaymentLoad(w)
  <2>1. PICK b, amount :
          Begin(w, [NoRequest EXCEPT !.op = "settlePayment", !.pc = "loaded",
                                     !.b = b, !.amount = amount])
    BY <1>6 DEF SettlePaymentLoad
  <2> QED
    BY <2>1, <1>1 DEF NoRequest
<1>7. CASE TerminateLoad(w)
  <2>1. PICK b, effective, refund :
          Begin(w, [NoRequest EXCEPT !.op = "terminate", !.pc = "loaded", !.b = b,
                                     !.from = effective, !.amount = refund])
    BY <1>7 DEF TerminateLoad
  <2> QED
    BY <2>1, <1>1 DEF NoRequest
<1>8. CASE TransferLoad(w)
  <2>1. PICK b, new, back, paid :
          Begin(w, [NoRequest EXCEPT !.op = "transfer", !.pc = "loaded", !.b = b,
                      !.amount = NewCollected(booking[b].collected, back, paid),
                      !.who = new, !.row = booking[b]])
    BY <1>8 DEF TransferLoad
  <2> QED
    BY <2>1, <1>1 DEF NoRequest
<1>9. CASE SetAbsenceConsentLoad(w)
  <2>1. PICK b, consent :
          Begin(w, [NoRequest EXCEPT !.op = "setAbsenceConsent", !.pc = "loaded",
                                     !.b = b, !.flag = consent])
    BY <1>9 DEF SetAbsenceConsentLoad
  <2> QED
    BY <2>1, <1>1 DEF NoRequest
<1>10. CASE ReleaseAbsenceLoad(w)
  <2>1. PICK b, date :
          Begin(w, [NoRequest EXCEPT !.op = "releaseAbsence", !.pc = "loaded",
                                     !.b = b, !.from = date, !.to = date])
    BY <1>10 DEF ReleaseAbsenceLoad
  <2> QED
    BY <2>1, <1>1 DEF NoRequest
<1>11. CASE CancelAbsenceReleaseLoad(w)
  <2>1. PICK x :
          Begin(w, [NoRequest EXCEPT !.op = "cancelAbsenceRelease", !.pc = "loaded",
                                     !.b = x.b, !.from = x.date, !.to = x.date,
                                     !.ref = x.id])
    BY <1>11 DEF CancelAbsenceReleaseLoad
  <2> QED
    BY <2>1, <1>1 DEF NoRequest
<1> QED
  BY <1>2, <1>3, <1>4, <1>5, <1>6, <1>7, <1>8, <1>9, <1>10, <1>11 DEF LoadStep

LEMMA ReadRefund ==
  ASSUME WellFormed, LedgerInv, NEW w \in Workers, ReadStep(w)
  PROVE  \E r : RefundAgreed(r) /\ work' = [work EXCEPT ![w] = r]
<1>1. work[w] # NoRequest /\ work[w] \in Request
  BY InService, ServedRequest
     DEF ReadStep, SuspendRead, TerminateRead, ReleaseAbsenceRead, ReactivateCheck,
         CancelAbsenceReleaseCheck, NotResold, WellFormed
<1>2. PICK fragments : Plan(w, fragments)
  BY ReadEffect
<1> DEFINE r == [work[w] EXCEPT !.pc = "planned", !.plan = fragments]
<1>3. work' = [work EXCEPT ![w] = r]
  BY <1>2 DEF Plan, WellFormed, TypeOK
<1>4. r.op = work[w].op /\ r.row = work[w].row /\ r.to = work[w].to /\ r.amount = work[w].amount
  BY <1>1 DEF Request
<1>5. RefundAgreed(r)
  <2> HIDE DEF r
  <2> QED
    BY <1>1, <1>4 DEF LedgerInv, RefundAgreed
<1> QED
  BY <1>3, <1>5

LEMMA RefundRowsFinite ==
  ASSUME IsFiniteSet(suspension), suspension \subseteq SuspensionRow
  PROVE  \A b : /\ IsFiniteSet(RefundRows(b))
                /\ \A s \in RefundRows(b) : s.refunded \in Nat
  BY FS_Subset DEF RefundRows, SuspensionRow

(* The sum when a record joins the suspensions of a booking.               *)
LEMMA RefundsAdded ==
  ASSUME NEW S, IsFiniteSet(S), \A s \in S : s.refunded \in Nat,
         NEW x, x \notin S, x.refunded \in Nat
  PROVE  RefundsOf(S \cup {x}) = RefundsOf(S) + x.refunded /\ RefundsOf(S) \in Int
<1>1. IsFiniteSet(S \cup {x}) /\ (S \cup {x}) \ {x} = S
  BY FS_AddElement
<1>2. \A s \in S \cup {x} : s.refunded \in Int
  OBVIOUS
<1>3. RefundsOf(S \cup {x}) = x.refunded + RefundsOf(S)
  <2>1. RefundsOf(S \cup {x}) = x.refunded + RefundsOf((S \cup {x}) \ {x})
    BY <1>1, <1>2, RefundsTakeOut
  <2> QED
    BY <1>1, <2>1
<1>4. RefundsOf(S) \in Int
  BY RefundsTakeOut
<1> QED
  BY <1>3, <1>4

(* The ledger of a booking follows the records of its suspensions.         *)
Balanced(b) ==
  /\ RefundsOf(RefundRows(b)) <= booking[b].refunded
  /\ ~ booking[b].terminated => RefundsOf(RefundRows(b)) = booking[b].refunded

LEMMA LedgerIsBalance ==
  /\ RefundLedger <=> \A b \in Stored : Balanced(b)
  /\ RefundLedger' <=> \A b \in Stored' : Balanced(b)'
<1>1. RefundLedger <=> \A b \in Stored : Balanced(b)
  BY RefundsOfBooking DEF RefundLedger, Balanced
<1>2. \A b : SuspensionRefunds(b)' = RefundsOf(RefundRows(b)')
  BY DEF SuspensionRefunds, RefundsOf, RefundRows, MapThenSumSet, MapThenFoldSet
<1>3. RefundLedger' <=> \A b \in Stored' : Balanced(b)'
  BY <1>2 DEF RefundLedger, Balanced
<1> QED
  BY <1>1, <1>3

(* A write that adds to the ledger what it records, to one booking.        *)
LEMMA AmountBalanced ==
  ASSUME WellFormed, RefundLedger, NEW c \in Stored, NEW amount \in Nat,
         IF amount > 0 THEN AddRefund(c, amount) ELSE UNCHANGED booking,
         \A b \in Stored : b # c => RefundRows(b)' = RefundRows(b),
         RefundsOf(RefundRows(c)') = RefundsOf(RefundRows(c)) + amount,
         RefundsOf(RefundRows(c)) \in Int
  PROVE  RefundLedger'
<1>1. /\ booking \in [Bookings -> BookingRow \cup {NoBooking}]
      /\ \A b \in Stored : b \in Bookings /\ booking[b] \in BookingRow
  BY BookingIsRow DEF WellFormed, TypeOK, Stored
<1>2. /\ Stored' = Stored
      /\ \A b \in Stored :
           /\ booking'[b].refunded =
                 IF b = c THEN booking[b].refunded + amount ELSE booking[b].refunded
           /\ booking'[b].terminated = booking[b].terminated
  <2>1. CASE amount > 0
    <3>1. Stored' = Stored
      BY <2>1, AddRefundType
    <3> QED
      BY <1>1, <2>1, <3>1 DEF AddRefund, BookingRow
  <2>2. CASE amount = 0
    <3>1. booking' = booking
      BY <2>2
    <3> QED
      BY <1>1, <2>2, <3>1 DEF BookingRow, Stored
  <2> QED
    BY <2>1, <2>2
<1>3. ASSUME NEW b \in Stored
      PROVE  Balanced(b)'
  <2>1. Balanced(b) /\ booking[b].refunded \in Nat
    BY <1>1, LedgerIsBalance DEF BookingRow
  <2>2. CASE b = c
    <3>1. RefundsOf(RefundRows(b)') = RefundsOf(RefundRows(b)) + amount
      BY <2>2
    <3> QED
      BY <1>2, <2>1, <2>2, <3>1 DEF Balanced
  <2>3. CASE b # c
    BY <1>2, <2>1, <2>3 DEF Balanced
  <2> QED
    BY <2>2, <2>3
<1> QED
  BY <1>2, <1>3, LedgerIsBalance

LEMMA SuspendLedger ==
  ASSUME WellFormed, LedgerInv, NEW w \in Workers, SuspendWrite(w)
  PROVE  /\ IsFiniteSet(suspension')
         /\ \A s \in suspension' : s.end = None => s.refunded = 0
         /\ RefundLedger'
<1>1. /\ work[w] # NoRequest /\ work[w].op = "suspend" /\ work[w].b \in Stored
      /\ work[w] \in Request /\ work[w].amount \in Nat
  <2>1. work[w].op = "suspend" /\ work[w] # NoRequest
    BY WriteOps DEF NoRequest
  <2> QED
    BY <2>1, ServedRequest DEF RequestOK, Request
<1>2. PICK id \in FreshSuspension :
        suspension' = suspension \cup
          { [id |-> id, b |-> work[w].b, start |-> work[w].from, end |-> work[w].to,
             refunded |-> work[w].amount] }
  BY DEF SuspendWrite
<1>3. PICK c, amount, x :
        /\ c = work[w].b /\ amount = work[w].amount
        /\ x = [id |-> id, b |-> c, start |-> work[w].from, end |-> work[w].to,
                refunded |-> amount]
  OBVIOUS
<1>4. x.b = c /\ x.end = work[w].to /\ x.refunded = amount /\ x \notin suspension
  BY <1>3 DEF FreshSuspension, Least
<1>5. suspension' = suspension \cup {x}
  BY <1>2, <1>3
<1>6. IsFiniteSet(suspension')
  BY <1>5, FS_AddElement DEF LedgerInv
<1>7. \A s \in suspension' : s.end = None => s.refunded = 0
  BY <1>1, <1>3, <1>4, <1>5 DEF LedgerInv, RefundAgreed
<1>8. \A b \in Stored : b # c => RefundRows(b)' = RefundRows(b)
  BY <1>4, <1>5 DEF RefundRows
<1>9. RefundRows(c)' = RefundRows(c) \cup {x} /\ x \notin RefundRows(c)
  BY <1>4, <1>5 DEF RefundRows
<1>10. /\ RefundsOf(RefundRows(c)') = RefundsOf(RefundRows(c)) + amount
       /\ RefundsOf(RefundRows(c)) \in Int
  <2>1. IsFiniteSet(RefundRows(c)) /\ \A s \in RefundRows(c) : s.refunded \in Nat
    BY RefundRowsFinite DEF WellFormed, TypeOK, LedgerInv
  <2>2. x.refunded \in Nat
    BY <1>1, <1>3, <1>4
  <2> QED
    BY <1>4, <1>9, <2>1, <2>2, RefundsAdded
<1>11. IF amount > 0 THEN AddRefund(c, amount) ELSE UNCHANGED booking
  BY <1>3 DEF SuspendWrite
<1>12. c \in Stored /\ amount \in Nat
  BY <1>1, <1>3
<1> QED
  BY <1>6, <1>7, <1>8, <1>10, <1>11, <1>12, AmountBalanced DEF LedgerInv

(* The suspension that ends had no refund yet, being open.                 *)
LEMMA ReactivateLedger ==
  ASSUME SerialSound, LedgerInv, NEW w \in Workers, ReactivateWrite(w)
  PROVE  /\ IsFiniteSet(suspension')
         /\ \A s \in suspension' : s.end = None => s.refunded = 0
         /\ RefundLedger'
<1>1. /\ work[w] # NoRequest /\ work[w].op = "reactivate" /\ work[w].b \in Stored
      /\ work[w] \in Request /\ work[w].amount \in Nat /\ work[w].from \in Days
      /\ Undisturbed(work[w]) /\ WellFormed
  <2>1. work[w].op = "reactivate" /\ work[w] # NoRequest
    BY WriteOps DEF NoRequest
  <2>2. WellFormed
    BY DEF SerialSound, Sound
  <2> QED
    BY <2>1, <2>2, ServedRequest DEF RequestOK, Request, SerialSound, SerialInv
<1>2. PICK s0 \in suspension : s0.id = work[w].ref /\ s0.b = work[w].b /\ s0.end = None
                             /\ s0.start < work[w].from
  BY <1>1 DEF Undisturbed, OpenSuspensions
<1>3. PICK c, amount, x :
        /\ c = work[w].b /\ amount = work[w].amount
        /\ x = [s0 EXCEPT !.end = work[w].from - 1, !.refunded = amount]
  OBVIOUS
<1>4. s0 \in SuspensionRow /\ s0.refunded = 0
  BY <1>1, <1>2 DEF WellFormed, TypeOK, LedgerInv
<1>5. x.b = c /\ x.end # None /\ x.refunded = amount /\ x.id = s0.id
  <2>1. work[w].from - 1 # None
    BY <1>1, <1>2, <1>4, LastDayAssumption DEF SuspensionRow, None, Days
  <2> QED
    BY <1>2, <1>3, <1>4, <2>1 DEF SuspensionRow
<1> DEFINE rest == suspension \ {s0}
<1>6. suspension' = rest \cup {x}
  <2>1. \A s \in suspension : s.id = work[w].ref <=> s = s0
    BY <1>2 DEF SerialSound, SerialInv, SuspensionsAgreed
  <2>2. suspension' = { IF s.id = work[w].ref
                        THEN [s EXCEPT !.end = work[w].from - 1, !.refunded = work[w].amount]
                        ELSE s : s \in suspension }
    BY DEF ReactivateWrite
  <2> QED
    BY <1>2, <1>3, <2>1, <2>2
<1>7. x \notin rest /\ \A s \in rest : s \in suspension /\ s # s0
  <2>1. \A s \in rest : s.id # s0.id
    BY <1>2 DEF SerialSound, SerialInv, SuspensionsAgreed
  <2> QED
    BY <1>5, <2>1
<1>8. IsFiniteSet(suspension')
  BY <1>6, FS_AddElement, FS_RemoveElement DEF LedgerInv
<1>9. \A s \in suspension' : s.end = None => s.refunded = 0
  BY <1>5, <1>6, <1>7 DEF LedgerInv
<1>10. \A b \in Stored : b # c => RefundRows(b)' = RefundRows(b)
  BY <1>2, <1>3, <1>5, <1>6 DEF RefundRows
<1> DEFINE others == RefundRows(c) \ {s0}
<1>11. RefundRows(c)' = others \cup {x} /\ x \notin others /\ s0 \in RefundRows(c)
  BY <1>2, <1>3, <1>5, <1>6, <1>7 DEF RefundRows
<1>12. /\ RefundsOf(RefundRows(c)') = RefundsOf(RefundRows(c)) + amount
       /\ RefundsOf(RefundRows(c)) \in Int
  <2>1. IsFiniteSet(RefundRows(c)) /\ \A s \in RefundRows(c) : s.refunded \in Nat
    BY <1>1, RefundRowsFinite DEF WellFormed, TypeOK, LedgerInv
  <2>2. IsFiniteSet(others) /\ \A s \in others : s.refunded \in Nat
    BY <2>1, FS_RemoveElement
  <2>3. x.refunded = amount /\ amount \in Nat
    BY <1>1, <1>3, <1>5
  <2>4. RefundsOf(others \cup {x}) = RefundsOf(others) + amount /\ RefundsOf(others) \in Int
    <3> HIDE DEF others
    <3> QED
      BY <1>11, <2>2, <2>3, RefundsAdded
  <2>5. RefundsOf(RefundRows(c)) = s0.refunded + RefundsOf(others)
    BY <1>11, <2>1, RefundsTakeOut
  <2> HIDE DEF others
  <2> QED
    BY <1>4, <1>11, <2>4, <2>5
<1>13. IF amount > 0 THEN AddRefund(c, amount) ELSE UNCHANGED booking
  BY <1>3 DEF ReactivateWrite
<1>14. c \in Stored /\ amount \in Nat
  BY <1>1, <1>3
<1> QED
  BY <1>1, <1>8, <1>9, <1>10, <1>12, <1>13, <1>14, AmountBalanced DEF LedgerInv

(* The other writes leave the suspensions alone. Termination adds to the   *)
(* ledger a refund that no suspension records.                             *)
LEMMA OtherLedger ==
  ASSUME SerialSound, LedgerInv, NEW w \in Workers, WriteStep(w), UNCHANGED suspension,
         ~ SuspendWrite(w), ~ ReactivateWrite(w)
  PROVE  RefundLedger'
<1>1. /\ booking \in [Bookings -> BookingRow \cup {NoBooking}] /\ WellFormed
      /\ \A b \in Stored : b \in Bookings /\ booking[b] \in BookingRow
  BY BookingIsRow DEF SerialSound, Sound, WellFormed, TypeOK, Stored
<1>2. \A b : RefundRows(b)' = RefundRows(b)
  BY DEF RefundRows
<1>3. /\ \A b \in Stored : Balanced(b) /\ booking[b].refunded \in Nat
      /\ \A b \in Bookings \ Stored : RefundsOf(RefundRows(b)) = 0
  <2>1. \A b \in Stored : Balanced(b) /\ booking[b].refunded \in Nat
    BY <1>1, LedgerIsBalance DEF LedgerInv, BookingRow
  <2>2. \A b \in Bookings \ Stored : RefundRows(b) = {}
    BY DEF RefundRows, SerialSound, SerialInv, SuspensionsAgreed
  <2>3. RefundsOf({}) = 0
    BY FS_EmptySet, RefundsUnfold
  <2> QED
    BY <2>1, <2>2, <2>3
<1>4. \A b \in Stored : RefundsOf(RefundRows(b)) \in Int
  BY <1>1, RefundRowsFinite, RefundsTakeOut DEF WellFormed, TypeOK, LedgerInv
<1>5. CASE CreateWrite(w)
  <2>1. PICK c \in Bookings \ Stored : /\ booking' = [booking EXCEPT ![c] = work[w].row]
                                       /\ Stored' = Stored \cup {c}
    BY <1>5, CreateEffect
  <2>2. work[w].row.refunded = 0
    BY <1>5, WriteOps DEF LedgerInv, RefundAgreed, NoRequest
  <2>3. booking'[c].refunded = 0 /\ \A b \in Stored : booking'[b] = booking[b]
    BY <1>1, <2>1, <2>2
  <2>4. \A b \in Stored' : Balanced(b)'
    BY <1>2, <1>3, <2>1, <2>3 DEF Balanced
  <2> QED
    BY <2>4, LedgerIsBalance
<1>6. CASE TerminateWrite(w)
  <2>1. work[w] # NoRequest /\ work[w].b \in Stored /\ work[w].amount \in Nat
    BY <1>1, <1>6, WriteOps, ServedRequest DEF NoRequest, Request
  <2>2. /\ booking'[work[w].b].refunded = booking[work[w].b].refunded + work[w].amount
        /\ booking'[work[w].b].terminated = TRUE
        /\ \A b \in Stored : b # work[w].b => booking'[b] = booking[b]
    BY <1>1, <1>6, <2>1 DEF TerminateWrite, BookingRow
  <2>3. Stored' \subseteq Stored
    BY <1>1, <1>6, <2>1, WriteKeepsBookings, WriteOps
  <2>4. ASSUME NEW b \in Stored
        PROVE  Balanced(b)'
    BY <1>2, <1>3, <1>4, <2>1, <2>2 DEF Balanced
  <2> QED
    BY <2>3, <2>4, LedgerIsBalance
<1>7. CASE \A b \in Stored : /\ booking'[b].refunded = booking[b].refunded
                             /\ booking'[b].terminated = booking[b].terminated
  <2>1. CASE CreateWrite(w)
    BY <1>5, <2>1
  <2>2. CASE Stored' \subseteq Stored
    BY <1>2, <1>3, <1>7, <2>2, LedgerIsBalance DEF Balanced
  <2> QED
    BY <1>1, <2>1, <2>2, WriteKeepsBookings
<1>8. ASSUME CancelWrite(w) \/ SettlePaymentWrite(w) \/ TransferWrite(w)
             \/ SetAbsenceConsentWrite(w) \/ UNCHANGED booking,
             NEW b \in Stored
      PROVE  /\ booking'[b].refunded = booking[b].refunded
             /\ booking'[b].terminated = booking[b].terminated
  <2>1. CASE CancelWrite(w)
    BY <1>1, <2>1 DEF CancelWrite, BookingRow
  <2>2. CASE SettlePaymentWrite(w)
    BY <1>1, <2>2 DEF SettlePaymentWrite, BookingRow
  <2>3. CASE TransferWrite(w)
    BY <1>1, <2>3 DEF TransferWrite, BookingRow
  <2>4. CASE SetAbsenceConsentWrite(w)
    BY <1>1, <2>4 DEF SetAbsenceConsentWrite, BookingRow
  <2> QED
    BY <1>8, <2>1, <2>2, <2>3, <2>4
<1> QED
  BY <1>5, <1>6, <1>7, <1>8
     DEF WriteStep, ReleaseAbsenceWrite, CancelAbsenceReleaseWrite, Abort

LEMMA LedgerStep == Serial /\ SerialSound /\ LedgerInv /\ [Next]_vars => LedgerInv'
<1> SUFFICES ASSUME Serial, SerialSound, LedgerInv, [Next]_vars PROVE LedgerInv'
  OBVIOUS
<1>1. ASSUME UNCHANGED <<booking, suspension>>
      PROVE  RefundLedger' /\ IsFiniteSet(suspension')
             /\ \A s \in suspension' : s.end = None => s.refunded = 0
  <2>1. Stored' = Stored /\ \A b : Balanced(b)' <=> Balanced(b)
    BY <1>1 DEF Stored, Balanced, RefundRows
  <2> QED
    BY <1>1, <2>1, LedgerIsBalance DEF LedgerInv
<1>2. CASE AdvanceDay \/ UNCHANGED vars
  BY <1>1, <1>2 DEF AdvanceDay, vars, LedgerInv, RefundAgreed
<1>3. ASSUME NEW w \in Workers, LoadStep(w) \/ ReadStep(w) PROVE LedgerInv'
  <2>1. UNCHANGED <<booking, suspension>>
    BY <1>3, LoadEffect, ReadEffect
  <2>2. PICK r : RefundAgreed(r) /\ work' = [work EXCEPT ![w] = r]
    BY <1>3, LoadRefund, ReadRefund DEF SerialSound, Sound
  <2>3. \A v \in Workers : work'[v] # NoRequest => RefundAgreed(work'[v])
    BY <2>2 DEF SerialSound, Sound, WellFormed, TypeOK, LedgerInv
  <2> QED
    BY <1>1, <2>1, <2>3 DEF LedgerInv, RefundAgreed
<1>4. ASSUME NEW w \in Workers, WriteStep(w) PROVE LedgerInv'
  <2>1. work' = [work EXCEPT ![w] = NoRequest]
    BY <1>4 DEF WriteStep, CreateWrite, CancelWrite, SettlePaymentWrite, SuspendWrite,
       ReactivateWrite, TerminateWrite, TransferWrite, SetAbsenceConsentWrite,
       ReleaseAbsenceWrite, CancelAbsenceReleaseWrite, Abort, Finish
  <2>2. \A v \in Workers : work'[v] = NoRequest
    BY <2>1 DEF Serial, SerialSound, Sound, WellFormed, TypeOK
  <2>3. CASE SuspendWrite(w)
    BY <2>2, <2>3, SuspendLedger DEF LedgerInv, SerialSound, Sound
  <2>4. CASE ReactivateWrite(w)
    BY <2>2, <2>4, ReactivateLedger DEF LedgerInv
  <2>5. CASE ~ SuspendWrite(w) /\ ~ ReactivateWrite(w)
    <3>1. UNCHANGED suspension
      BY <1>4, <2>5 DEF WriteStep, CreateWrite, CancelWrite, SettlePaymentWrite,
         TerminateWrite, TransferWrite, SetAbsenceConsentWrite, ReleaseAbsenceWrite,
         CancelAbsenceReleaseWrite, Abort
    <3>2. RefundLedger'
      BY <1>4, <2>5, <3>1, OtherLedger
    <3> QED
      BY <2>2, <3>1, <3>2 DEF LedgerInv
  <2> QED
    BY <2>3, <2>4, <2>5
<1> QED
  BY <1>2, <1>3, <1>4, StepKinds

LEMMA LedgerInit == Init => LedgerInv
  BY FS_EmptySet DEF Init, LedgerInv, RefundLedger, Stored, NoBooking

(* One request at a time, the ledger of a booking is the sum of the refunds*)
(* of its suspensions until it is terminated, however many there are.      *)
THEOREM LedgerAddsUp == Serial /\ Spec => []RefundLedger
<1>1. Serial => []Serial
  <2>1. Serial => Serial'
    BY DEF Serial
  <2> QED
    BY <2>1, PTL
<1>2. LedgerInv => RefundLedger
  BY DEF LedgerInv
<1> QED
  BY <1>1, <1>2, LedgerInit, LedgerStep, SerialAlways, PTL DEF Spec
=============================================================================
