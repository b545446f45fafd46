------------------------------ MODULE Renewals ------------------------------
(***************************************************************************)
(* Bookings over several seasons: the renewal of a subscription, the       *)
(* campaigns that hold the seats of those who may renew (prelazione), and  *)
(* what ends a relation: cancellation, change of holder, the removal of a  *)
(* customer (erasure or anonymisation), the retirement of an umbrella.     *)
(*                                                                         *)
(* As in Subscriptions a request is served by a worker, in one step for    *)
(* each group of reads that nothing separates and one for the writes, which *)
(* the others see at the commit. A method that only writes, or whose check *)
(* cannot change between its read and its write, is one step. A booking    *)
(* occupies its seat from start to end as long as it is confirmed: what    *)
(* suspensions, absences and terminations do to that is in Subscriptions.  *)
(*                                                                         *)
(* serial is a history variable: no two requests have overlapped so far.   *)
(* It separates what the code promises of requests served one at a time    *)
(* from what it promises of any.                                           *)
(***************************************************************************)
EXTENDS Coverage, FiniteSets

CONSTANTS Workers, Customers, Umbrellas,
          Slots,                \* a set of [start, end] in minutes
          Types,                \* the booking types that are sold
          SeasonIds, SeasonSpan,    \* the seasons that may exist, and their days
          Methods,              \* the service methods that are called
          LastDay, LastToday,   \* bounds on the days and the clock
          MaxBookings, MaxCampaigns     \* bounds on the rows of each table

Ops == {"create", "renew", "transfer", "remove", "retire"}

ASSUME MethodsAssumption == Methods \subseteq Ops
ASSUME TypesAssumption == Types \subseteq {"daily", "periodic", "subscription"}
ASSUME SlotsAssumption == Slots \subseteq [start: Int, end: Int]
ASSUME DaysAssumption == LastDay \in Nat \ {0} /\ LastToday \in 1 .. LastDay
ASSUME SeasonsAssumption ==
  SeasonSpan \in [SeasonIds -> { s \in [start: 1 .. LastDay, end: 1 .. LastDay] :
                                   s.start <= s.end }]
ASSUME BoundsAssumption == MaxBookings \in Nat /\ MaxCampaigns \in Nat

VARIABLES
  today,          \* todayInRome()
  season,         \* the seasons that exist
  campaign,       \* table RenewalCampaign, by id
  booking,        \* table Booking, by id
  customer,       \* table Customer: what is left of each
  ceded,          \* the customers a row of BookingTransfer names
  retired,        \* the umbrellas with retiredAt set
  work,           \* the request each worker is serving
  serial          \* history: no two requests have overlapped

vars == <<today, season, campaign, booking, customer, ceded, retired, work, serial>>

-----------------------------------------------------------------------------
(* Rows                                                                    *)

Days == 1 .. LastDay
Bookings == 1 .. MaxBookings
Campaigns == 1 .. MaxCampaigns

BookingRow ==
  [status: {"confirmed", "cancelled"}, type: Types \cup {"subscription"},
   customer: Customers, umbrella: Umbrellas, slot: Slots, start: Days, end: Days,
   previous: Bookings \cup {0}, moved: BOOLEAN]

(* since is the number of bookings there were when it was opened.          *)
CampaignRow ==
  [origin: SeasonIds, dest: SeasonIds, deadline: Days, since: 0 .. MaxBookings]

NoRow == [status |-> "none"]
Nobody == "nobody"

NoRequest ==
  [op |-> "none", pc |-> "idle", b |-> 0, row |-> NoRow, who |-> Nobody,
   seat |-> Nobody]

Request ==
  [op: Methods, pc: {"checked", "priced", "loaded", "counted", "erase", "anonymise"},
   b: Bookings \cup {0}, row: BookingRow \cup {NoRow},
   who: Customers \cup {Nobody}, seat: Umbrellas \cup {Nobody}]

Stored == { b \in Bookings : booking[b] # NoRow }

Confirmed(b) == b \in Stored /\ booking[b].status = "confirmed"

Subscription(b) == Confirmed(b) /\ booking[b].type = "subscription"

BookingsOf(c) == { b \in Stored : booking[b].customer = c }

Existing == { c \in Campaigns : campaign[c] # NoRow }

(* Identifiers are given in order and not again.                           *)
FreshBooking == { b \in Bookings \ Stored : \A a \in Bookings \ Stored : b <= a }

-----------------------------------------------------------------------------
(* Seasons, campaigns and windows                                          *)

Overlaps(b, s) ==
  dateRangesOverlap(booking[b].start, booking[b].end, SeasonSpan[s].start, SeasonSpan[s].end)

SeasonsOn(d) == { s \in season : SeasonSpan[s].start <= d /\ d <= SeasonSpan[s].end }

(* resolveSeasonWithin: of overlapping seasons one that starts first.      *)
SeasonOf(d) ==
  { s \in SeasonsOn(d) : \A t \in SeasonsOn(d) : SeasonSpan[s].start <= SeasonSpan[t].start }

Follows(dest, day) == day < SeasonSpan[dest].start

(* A confirmed renewal of the booking overlaps the season.                 *)
RenewedInto(b, s) ==
  \E r \in Bookings : Confirmed(r) /\ booking[r].previous = b /\ Overlaps(r, s)

(* The subscriptions a campaign is about.                                  *)
Entitled(c) == { b \in Stored : Subscription(b) /\ Overlaps(b, campaign[c].origin) }

(* computeRenewalWindowState                                               *)
WindowState(b, c) ==
  IF RenewedInto(b, campaign[c].dest) THEN "exercised"
  ELSE IF today > campaign[c].deadline THEN "expired" ELSE "open"

OpenWindows(c) == { b \in Entitled(c) : WindowState(b, c) = "open" }

(* The campaigns priceAndWrite looks at for a sale of [from, to].          *)
OpenCampaigns(from, to) ==
  { c \in Existing :
      /\ today <= campaign[c].deadline
      /\ dateRangesOverlap(SeasonSpan[campaign[c].dest].start,
                           SeasonSpan[campaign[c].dest].end, from, to) }

(* A variant that is not the code: a renewal for any season counts, and a  *)
(* cancelled one too.                                                      *)
HeldUntilAnyRenewal(row) ==
  \E c \in OpenCampaigns(row.start, row.end) : \E h \in Entitled(c) :
     /\ booking[h].umbrella = row.umbrella
     /\ booking[h].customer # row.customer
     /\ slotsOverlap(booking[h].slot, row.slot)
     /\ ~ \E r \in Stored : booking[r].previous = h

(* The hold: the seat belongs to another customer who may still renew.     *)
Held(row) ==
  \E c \in OpenCampaigns(row.start, row.end) : \E h \in Entitled(c) :
     /\ booking[h].umbrella = row.umbrella
     /\ booking[h].customer # row.customer
     /\ slotsOverlap(booking[h].slot, row.slot)
     /\ ~ RenewedInto(h, campaign[c].dest)

(* The rows of BookingCoverage that block the row, and the constraint.     *)
Blocks(b, row) ==
  /\ Confirmed(b)
  /\ booking[b].umbrella = row.umbrella
  /\ dateRangesOverlap(booking[b].start, booking[b].end, row.start, row.end)
  /\ slotsOverlap(booking[b].slot, row.slot)

-----------------------------------------------------------------------------
(* Requests                                                                *)

Idle == \A w \in Workers : work[w] = NoRequest

(* A step that is a request of its own, or begins one.                     *)
Alone == serial' = (serial /\ Idle)

Begin(w, r) ==
  /\ work[w] = NoRequest
  /\ r.op \in Methods
  /\ work' = [work EXCEPT ![w] = r]
  /\ Alone

At(w, op, pc) == work[w].op = op /\ work[w].pc = pc

GoTo(w, pc) == work' = [work EXCEPT ![w].pc = pc] /\ UNCHANGED serial

Finish(w) == work' = [work EXCEPT ![w] = NoRequest] /\ UNCHANGED serial

tables == <<today, season, campaign, booking, customer, ceded, retired>>

-----------------------------------------------------------------------------
(* priceAndWrite, shared by create and renew: the seat, then the hold and  *)
(* the price, then the two inserts                                         *)

NewRow(type, c, u, k, span, previous) ==
  [status |-> "confirmed", type |-> type, customer |-> c, umbrella |-> u,
   slot |-> k, start |-> span.start, end |-> span.end, previous |-> previous,
   moved |-> FALSE]

(* deriveInterval                                                          *)
Intervals(type) ==
  CASE type = "daily" -> { Span(d, d) : d \in Days }
    [] type = "periodic" ->
         { s \in [start: Days, end: Days] :
             s.start <= s.end /\ \E n \in SeasonOf(s.start) : s.end <= SeasonSpan[n].end }
    [] type = "subscription" -> { SeasonSpan[n] : n \in UNION { SeasonOf(d) : d \in Days } }

CreateCheck(w) ==
  \E type \in Types, c \in Customers, u \in Umbrellas \ retired, k \in Slots :
  \E span \in Intervals(type) :
     LET row == NewRow(type, c, u, k, span, 0)
     IN  /\ customer[c] = "active"
         /\ \A b \in Stored : ~ Blocks(b, row)
         /\ Begin(w, [NoRequest EXCEPT !.op = "create", !.pc = "checked", !.row = row])
         /\ UNCHANGED tables

(* A variant that is not the code: any other season will do.               *)
RenewCheckAnySeason(w) ==
  \E b \in Stored, s \in season :
     LET src == booking[b]
         row == NewRow("subscription", src.customer, src.umbrella, src.slot,
                       SeasonSpan[s], b)
     IN  /\ Subscription(b)
         /\ \A r \in Stored : ~ (Confirmed(r) /\ booking[r].previous = b)
         /\ SeasonOf(src.start) # {s}
         /\ \A a \in Stored \ {b} : ~ Blocks(a, row)
         /\ Begin(w, [NoRequest EXCEPT !.op = "renew", !.pc = "checked", !.b = b,
                                       !.row = row])
         /\ UNCHANGED tables

(* renew: customer, umbrella and slot are copied from the source, which is *)
(* not asked whether the customer or the umbrella are still there.         *)
RenewCheck(w) ==
  \E b \in Stored, s \in season :
     LET src == booking[b]
         row == NewRow("subscription", src.customer, src.umbrella, src.slot,
                       SeasonSpan[s], b)
     IN  /\ Subscription(b)
         /\ \A r \in Stored : ~ (Confirmed(r) /\ booking[r].previous = b)
         /\ SeasonOf(src.start) # {s}
         /\ Follows(s, src.end)
         /\ \A a \in Stored \ {b} : ~ Blocks(a, row)
         /\ Begin(w, [NoRequest EXCEPT !.op = "renew", !.pc = "checked", !.b = b,
                                       !.row = row])
         /\ UNCHANGED tables

(* A variant that is not the code: a retired umbrella has a price.         *)
SaleHoldAnyUmbrella(w) ==
  LET row == work[w].row
  IN  /\ work[w].pc = "checked"
      /\ ~ Held(row)
      /\ SeasonsOn(row.start) # {}
      /\ GoTo(w, "priced")
      /\ UNCHANGED tables

(* The hold; then the price, that needs the row of the umbrella and a      *)
(* season on the first day.                                                *)
SaleHold(w) ==
  LET row == work[w].row
  IN  /\ work[w].pc = "checked"
      /\ ~ Held(row)
      /\ row.umbrella \notin retired
      /\ SeasonsOn(row.start) # {}
      /\ GoTo(w, "priced")
      /\ UNCHANGED tables

(* A variant that is not the code: no index on previousBookingId, and the  *)
(* rows of the source left out of the constraint as they are of the check. *)
SaleWriteNoIndex(w) ==
  LET row == work[w].row
  IN  /\ work[w].pc = "priced"
      /\ \A b \in Stored : Blocks(b, row) => b = row.previous \/ booking[b].previous = row.previous
      /\ customer[row.customer] # "erased"
      /\ \E b \in FreshBooking : booking' = [booking EXCEPT ![b] = row]
      /\ Finish(w)
      /\ UNCHANGED <<today, season, campaign, customer, ceded, retired>>

(* The constraint coverage_no_overlap, the foreign key on the customer and *)
(* the index Booking_previousBookingId_confirmed_key decide.               *)
SaleWrite(w) ==
  LET row == work[w].row
  IN  /\ work[w].pc = "priced"
      /\ \A b \in Stored : ~ Blocks(b, row)
      /\ customer[row.customer] # "erased"
      /\ row.previous # 0 =>
           \A r \in Stored : ~ (Confirmed(r) /\ booking[r].previous = row.previous)
      /\ \E b \in FreshBooking : booking' = [booking EXCEPT ![b] = row]
      /\ Finish(w)
      /\ UNCHANGED <<today, season, campaign, customer, ceded, retired>>

-----------------------------------------------------------------------------
(* cancel, and transfer                                                    *)

Cancel(b) ==
  /\ Confirmed(b)
  /\ booking' = [booking EXCEPT ![b].status = "cancelled"]
  /\ Alone
  /\ UNCHANGED <<today, season, campaign, customer, ceded, retired, work>>

TransferLoad(w) ==
  \E b \in Stored, c \in Customers :
     /\ Subscription(b)
     /\ c # booking[b].customer
     /\ customer[c] = "active"
     /\ Begin(w, [NoRequest EXCEPT !.op = "transfer", !.pc = "loaded", !.b = b,
                                   !.row = booking[b], !.who = c])
     /\ UNCHANGED tables

(* Both customers of the row of BookingTransfer have to exist.             *)
TransferWrite(w) ==
  LET r == work[w]
  IN  /\ At(w, "transfer", "loaded")
      /\ \A c \in {r.who, r.row.customer} : customer[c] # "erased"
      /\ booking' = [booking EXCEPT ![r.b].customer = r.who, ![r.b].moved = TRUE]
      /\ ceded' = ceded \cup {r.who, r.row.customer}
      /\ Finish(w)
      /\ UNCHANGED <<today, season, campaign, customer, retired>>

-----------------------------------------------------------------------------
(* CustomersService.remove: no booking, then erasure; nothing that is not  *)
(* over, then anonymisation                                                *)

RemoveLoad(w) ==
  \E c \in Customers :
     /\ customer[c] # "erased"
     /\ \A b \in BookingsOf(c) : Confirmed(b) => booking[b].end < today
     /\ Begin(w, [NoRequest EXCEPT !.op = "remove", !.who = c,
                    !.pc = IF BookingsOf(c) = {} THEN "erase" ELSE "counted"])
     /\ UNCHANGED tables

(* No window of the customer is open.                                      *)
RemoveWindows(w) ==
  /\ At(w, "remove", "counted")
  /\ \A c \in Existing : OpenWindows(c) \cap BookingsOf(work[w].who) = {}
  /\ GoTo(w, "anonymise")
  /\ UNCHANGED tables

(* A variant that is not the code: the foreign keys dropped.               *)
RemoveEraseAnyway(w) ==
  LET c == work[w].who
  IN  /\ At(w, "remove", "erase")
      /\ customer[c] # "erased"
      /\ customer' = [customer EXCEPT ![c] = "erased"]
      /\ Finish(w)
      /\ UNCHANGED <<today, season, campaign, booking, ceded, retired>>

(* The foreign keys of Booking and of BookingTransfer restrict it.         *)
RemoveErase(w) ==
  LET c == work[w].who
  IN  /\ At(w, "remove", "erase")
      /\ customer[c] # "erased"
      /\ BookingsOf(c) = {} /\ c \notin ceded
      /\ customer' = [customer EXCEPT ![c] = "erased"]
      /\ Finish(w)
      /\ UNCHANGED <<today, season, campaign, booking, ceded, retired>>

RemoveAnonymise(w) ==
  LET c == work[w].who
  IN  /\ At(w, "remove", "anonymise")
      /\ customer[c] # "erased"
      /\ customer' = [customer EXCEPT ![c] = "anonymised"]
      /\ Finish(w)
      /\ UNCHANGED <<today, season, campaign, booking, ceded, retired>>

-----------------------------------------------------------------------------
(* retire and restore, as far as bookings see them                         *)

RetireLoad(w) ==
  \E u \in Umbrellas \ retired :
     /\ \A b \in Stored :
          Confirmed(b) /\ booking[b].umbrella = u => booking[b].end < today
     /\ Begin(w, [NoRequest EXCEPT !.op = "retire", !.pc = "loaded", !.seat = u])
     /\ UNCHANGED tables

RetireWrite(w) ==
  /\ At(w, "retire", "loaded")
  /\ retired' = retired \cup {work[w].seat}
  /\ Finish(w)
  /\ UNCHANGED <<today, season, campaign, booking, customer, ceded>>

Restore(u) ==
  /\ u \in retired
  /\ retired' = retired \ {u}
  /\ Alone
  /\ UNCHANGED <<today, season, campaign, booking, customer, ceded, work>>

-----------------------------------------------------------------------------
(* SeasonsService, RenewalCampaignsService: the foreign keys and the index *)
(* on the destination make each of them one step                           *)

CreateSeason(s) ==
  /\ season' = season \cup {s} /\ s \notin season
  /\ Alone
  /\ UNCHANGED <<today, campaign, booking, customer, ceded, retired, work>>

RemoveSeason(s) ==
  /\ s \in season
  /\ \A c \in Existing : s \notin {campaign[c].origin, campaign[c].dest}
  /\ season' = season \ {s}
  /\ Alone
  /\ UNCHANGED <<today, campaign, booking, customer, ceded, retired, work>>

OpenCampaign ==
  \E c \in Campaigns \ Existing, o, d \in season, deadline \in Days :
     /\ o # d /\ Follows(d, SeasonSpan[o].end)
     /\ \A x \in Existing : campaign[x].dest # d
     /\ campaign' = [campaign EXCEPT ![c] =
          [origin |-> o, dest |-> d, deadline |-> deadline, since |-> Cardinality(Stored)]]
     /\ Alone
     /\ UNCHANGED <<today, season, booking, customer, ceded, retired, work>>

CloseCampaign(c) ==
  /\ c \in Existing
  /\ campaign' = [campaign EXCEPT ![c] = NoRow]
  /\ Alone
  /\ UNCHANGED <<today, season, booking, customer, ceded, retired, work>>

-----------------------------------------------------------------------------
(* A request that is refused, by a check or by the database, or cut off.   *)
Abort(w) == work[w] # NoRequest /\ Finish(w) /\ UNCHANGED tables

AdvanceDay ==
  /\ today < LastToday /\ today' = today + 1
  /\ Alone
  /\ UNCHANGED <<season, campaign, booking, customer, ceded, retired, work>>

Init ==
  /\ today = 1
  /\ season = {}
  /\ campaign = [c \in Campaigns |-> NoRow]
  /\ booking = [b \in Bookings |-> NoRow]
  /\ customer = [c \in Customers |-> "active"]
  /\ ceded = {} /\ retired = {}
  /\ work = [w \in Workers |-> NoRequest]
  /\ serial = TRUE

Serve(w) ==
  \/ CreateCheck(w)   \/ RenewCheck(w)  \/ SaleHold(w)  \/ SaleWrite(w)
  \/ TransferLoad(w)  \/ TransferWrite(w)
  \/ RemoveLoad(w)    \/ RemoveWindows(w) \/ RemoveErase(w) \/ RemoveAnonymise(w)
  \/ RetireLoad(w)    \/ RetireWrite(w)
  \/ Abort(w)

Next ==
  \/ AdvanceDay
  \/ OpenCampaign
  \/ \E w \in Workers : Serve(w)
  \/ \E b \in Bookings : Cancel(b)
  \/ \E u \in Umbrellas : Restore(u)
  \/ \E s \in SeasonIds : CreateSeason(s) \/ RemoveSeason(s)
  \/ \E c \in Campaigns : CloseCampaign(c)

Spec == Init /\ [][Next]_vars
-----------------------------------------------------------------------------
TypeOK ==
  /\ today \in Days
  /\ season \subseteq SeasonIds
  /\ campaign \in [Campaigns -> CampaignRow \cup {NoRow}]
  /\ booking \in [Bookings -> BookingRow \cup {NoRow}]
  /\ customer \in [Customers -> {"active", "anonymised", "erased"}]
  /\ ceded \subseteq Customers
  /\ retired \subseteq Umbrellas
  /\ work \in [Workers -> Request \cup {NoRequest}]
  /\ serial \in BOOLEAN

(* A subscription has at most one confirmed renewal (P2-007), whatever the *)
(* number of requests that renew it at once; one that was cancelled can be *)
(* made again.                                                             *)
OneRenewal ==
  \A a, b \in Stored :
     /\ a # b /\ Confirmed(a) /\ Confirmed(b)
     /\ booking[a].previous # 0
     => booking[a].previous # booking[b].previous

(* A renewal keeps the seat of the subscription it renews and begins after *)
(* it has ended, so that a chain of renewals visits each season once and   *)
(* its length is the seniority of the holder (seniority.ts).               *)
RenewalsRunForward ==
  \A b \in Stored :
     booking[b].previous # 0 =>
       LET src == booking[booking[b].previous]
       IN  /\ booking[b].previous \in Stored
           /\ src.type = "subscription"
           /\ src.umbrella = booking[b].umbrella /\ src.slot = booking[b].slot
           /\ src.end < booking[b].start

(* No day is of two seasons. Nothing in the code asks for it: where it    *)
(* does not hold, a renewal into another season that meets the destination *)
(* is taken for the one that was due, and its cancellation opens the       *)
(* window again on days sold meanwhile.                                    *)
SeasonsApart ==
  \A s, t \in SeasonIds :
     s # t => ~ dateRangesOverlap(SeasonSpan[s].start, SeasonSpan[s].end,
                                  SeasonSpan[t].start, SeasonSpan[t].end)

(* The prelazione: as long as a window is open, nobody else holds the seat *)
(* in the season of destination by a booking made after the campaign was   *)
(* opened and the holder was there (ADR-0034), whatever was booked,        *)
(* renewed, cancelled or closed meanwhile, one request at a time, if the   *)
(* seasons do not overlap. A change of holder moves bookings without a     *)
(* sale and is left out.                                                   *)
HoldHonoured ==
  serial /\ SeasonsApart =>
    \A c \in Existing : \A h \in OpenWindows(c), x \in Stored :
       /\ h < x /\ campaign[c].since < x
       /\ Confirmed(x) /\ Overlaps(x, campaign[c].dest)
       /\ ~ booking[h].moved /\ ~ booking[x].moved
       /\ SameSeat(booking[h], booking[x])
       => booking[h].customer = booking[x].customer

(* No umbrella is retired with a booking that is not over, by create or by *)
(* renew, one request at a time (D-055).                                   *)
RetiredUnbooked ==
  serial =>
    \A b \in Stored :
       Confirmed(b) /\ today <= booking[b].end => booking[b].umbrella \notin retired

(* A customer who is erased leaves no booking and no change of holder that *)
(* names them, however the erasure overlaps the sale or the transfer.      *)
ErasedLeavesNothing ==
  \A c \in Customers : customer[c] = "erased" => BookingsOf(c) = {} /\ c \notin ceded

(* The removal of a customer leaves no confirmed booking to come "senza    *)
(* cliente titolare" (ADR-0043): whoever has been anonymised has none, one *)
(* request at a time.                                                      *)
RemovedNotBooked ==
  serial =>
    \A b \in Stored :
       Confirmed(b) /\ today <= booking[b].end =>
         customer[booking[b].customer] # "anonymised"
=============================================================================
