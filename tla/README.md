# Coralyn: specification and verification

Coralyn manages Italian beach establishments: umbrellas on a map, bookings by
the day, by the period and by the season, suspensions and absences of
subscribers, renewals with a right of first refusal (*prelazione*), payments,
rentals of equipment, a staff application, a customer application and a
platform console. This directory holds TLA+ models of the code that keeps that
state, TLC runs that check them on small instances, and theorems about them
that TLAPS checks for every instance.

All paths below are relative to the repository.

## 1. Inventory

The program is one NestJS API (`apps/api`) over PostgreSQL, three Vue clients
and a few packages. All shared state is in the database. A request handler of
a service runs one interactive transaction (`PrismaService.forTenant`,
`apps/api/src/prisma/prisma.service.ts:22`) at the database's default isolation,
READ COMMITTED; no handler takes a lock with `FOR UPDATE` and none retries. So
components interact through rows: what one handler read, another may have
changed before it writes. Triggers, CHECKs, partial unique indexes and one
EXCLUDE constraint (`apps/api/prisma/migrations`) are the only authority that
does not depend on the order of requests. The clients keep copies of what they
read, tokens in `localStorage`, and what the user sees before the API answers.

| Component | State | Operations | What is hard | What makes it correct |
|---|---|---|---|---|
| Bookings and subscriptions (`bookings/bookings.service.ts`, `coverage.carve.ts`) | `Booking`, `BookingCoverage`, `BookingSuspension`, `AbsenceRelease`, `BookingTransfer` | create, renew, cancel, settlePayment, suspend, reactivate, terminate, transfer, setAbsenceConsent, releaseAbsence, cancelAbsenceRelease | check-then-write, carve plans written by row id, fragmented coverage, order of legal operations | no seat sold twice; no contract day lost; coverage inside the contract; freed days really free; cash, ledger and holder consistent |
| Payment arithmetic (`booking.payment.ts`, `cession.payment.ts`) | none | resolvePayment, reconcileCessionPayment | two derivations of one status | status agrees with the amounts |
| Renewals (`renewal-campaigns.service.ts`, `renewal-window.projection.ts`, `seniority.ts`, `renew`) | `RenewalCampaign`, chain of `previousBookingId` | open, list, close by deadline, renew | lapse of the window by the clock, hold evaluated lazily, double renew | one confirmed renewal per source; during the window the seat goes to its holder |
| Customers (`customers.service.ts`) | `Customer` | create, update, remove | erase or anonymise from a count | no booking loses its customer |
| Layout (`establishment/umbrellas.service.ts`, `rows`, `sectors`) | `Umbrella` with `logicalOrder` and `retiredAt`, `Row`, `Sector` | generate, create, move, retire, restore, remove | rewrites of a whole order from a snapshot, retire against create | labels of active umbrellas unique, an umbrella placed exactly if active |
| Page of the layout (`EstablishmentStructureView.vue`, `umbrellaMove.ts`) | cached tree, mutation, photograph of the tree | request and confirm a move, answer, re-read | answers and re-reads in any order | the page shows what the server has made of the move |
| Cache of the staff application (`queryKeys.ts`, the `use...` hooks, `data-layer`) | cached answers by key, reads and writes in flight | mount, read, write, invalidate by prefix | keys worked out when the answer comes, pages that show what others own | no answer counts as current after a write of this application has changed it |
| Staff users (`establishment-users.service.ts`, `identity/*`, `permissions/*`) | `User`, `StaffPermissionOverride` | create, disable, reset, login, overrides | checks on other rows than the one written | an active administrator is left; permissions are what was asked |
| Credential tokens (`credential-setup.service.ts`) | `CredentialSetupToken` | issue, redeem | double redeem, issue against redeem | a link works once, and only the last issued |
| Customer sessions (`customer-auth/*`) | `CustomerEnrollmentToken`, `CustomerSession` | provisionAccess, activate with a PIN, refresh, logout, revokeAccess | rotation, reuse detection, PIN attempts | at most one live session of a chain; reuse burns the chain |
| Customer application (`apps/web-customer`: `lib/http.ts`, `stores/session.ts`) | two tokens, the page, calls in flight | call, shared refresh, activate, logout, reload | calls denied together, lost answers, an exit during a refresh | no false theft alarm; every call and every exit ends |
| Catalog (`catalog/*`) | `Season`, `TimeSlot`, `Package`, `EquipmentType`, `Rate` | edit, price of an interval | most specific rate, removal of what a rate names, stale hours | one price or one error, independent of the order of the rates |
| Rentals (`rentals/*`) | `RentalItem`, `RentalTariff`, `Rental` | checkout, return, cancel, settle | archive and delete against checkout | a cancelled rental holds no money |
| Tenant isolation (`tenant`, row-level security) | session variable of a transaction | set_config | - | a handler sees one establishment |
| Platform, map, reports, mail, legal | - | provisioning, projections, output | - | read-only or plain input and output |
| Platform console, `contracts`, `ui-kit`, `docs-lint` | - | - | - | rules are enforced by the API |

`PROJECT.json` lists every component with its status and every hazard with its
line and the properties that cover it.

## 2. Plan

Done, in this order: the core (`Coverage`, `Payment`, `Subscriptions`, the
abstract `SeatCalendar`); `CustomerSessions`; `Renewals` with seasons,
campaigns and the removal of customers; `CustomerApp` on top of
`CustomerSessions`; the back office (`UmbrellaLayout`, `StructureEditor`,
`StaffAccess`, `Rates`, `Packages`, `Rentals`, `DaySlots`, composed by `BackOffice`); the
proofs of section 6; the cache of the staff application
(`StaffQueries`, `StaffCache`).

Left:

1. Two tabs of the customer application, which share the tokens and not the
   refresh in flight; no document says what should hold of them.
2. The setup of an establishment and the types of umbrella: small, with no order
   of requests that matters.

## 3. Modules

| Module | Models |
|---|---|
| `Availability` | the two overlap tests of `booking.availability.ts` |
| `Coverage` | the carve and its persistence, the constraints of `BookingCoverage` |
| `Payment` | the two pure functions on cents |
| `Subscriptions` | the service methods on bookings within a season |
| `SeatCalendar` | abstract: who holds which days of which seat |
| `Renewals` | seasons, renewals, campaigns, removal of customers, retirement |
| `CustomerSessions` | enrollments and sessions of customers |
| `CustomerApp` | the customer application, composed with `CustomerSessions` by `INSTANCE` |
| `Requests` | the workers of the back office: `Begin`, `Finish`, `Abort`, `serial` |
| `UmbrellaLayout` | sectors, rows, umbrellas |
| `StructureEditor` | the page that moves umbrellas, over the tables of `UmbrellaLayout` |
| `StaffAccess` | users, links, permissions, login |
| `Rates` | rates, what they name, and the rate that prices a stay |
| `Packages` | packages, what they are made of, and the bookings that name them |
| `Rentals` | items, tariffs, rentals |
| `DaySlots` | time slots under the bookings of an umbrella, and the map of a day |
| `BackOffice` | the seven above, `focus` telling which one moves |
| `StaffQueries` | what the pages of the staff application read, what its writes change and declare out of date |
| `StaffCache` | the cache of those reads: pages, reads and writes under way, invalidations |
| `StaffDesks` | the screens, calls and keys `StaffCache` is checked at |
| `MC...` | constants, bounds, symmetry and views of the runs |
| `..._proofs` | theorems (section 6) |

Definitions whose comment says "a variant that is not the code" are changed
forms of the one after them: with the variant in its place, a run finds one of
its properties violated.

### Bookings

**`Coverage`**: `Carved` is the plan (the fragments that meet the hole);
`applyCarve(rows, plan, from, to, id)` writes it by row identifier, so that a plan
computed from rows that have changed since is written as the code writes it:
dates from the plan, other columns from the row.

**`Payment`** has each of the two functions as the condition under which it
returns `ok` and the status it then returns.

**`Subscriptions`** is the core. Its variables are the tables, `today`, and
`work`, the request each worker is serving. A service method is two or three
steps:

| Step | Code |
|---|---|
| `...Load` | the first `findFirst` with its `include`s, and every check made from it alone |
| `...Read`, `...Check` | the read of `BookingCoverage`, the checks on it, the plan of the carve |
| `...Write` | all writes of the method, with triggers and constraints, visible at the commit |
| `Abort` | any failed check, refused constraint, deadlock victim or lost connection: the transaction rolls back |

Two reads of one method are separate steps because each statement has its own
snapshot. The writes are one step because others see them together at the
commit; a row lock can only delay or abort one of two writers, which the order
of the `Write` steps and `Abort` give. The exception is `terminate`, which
updates `Booking` *before* it reads the coverage: its lock is held across its
`Read`, and `Unlocked` keeps other writers of that booking row out meanwhile.
The trigger `coverage_fill_slot_minutes` is `NewCoverage` (the row gets umbrella
and minutes of its booking), `coverage_sync_status` is in `CancelWrite`, the
CHECK and the EXCLUDE constraint are `TableAccepts`, the partial unique indexes
are the conditions on open suspensions and active releases in the `Write` steps.

Abstracted: rows of other tables that are only validated (umbrella, customer,
package: any value of the constants is valid, one establishment); the price
(any of `Prices`); reasons, timestamps and payment methods beyond "given or
not"; the error texts. There is one season, `1 .. LastDay`; several are in
`Renewals`. Past days cannot be booked apart: `create` does not ask for it
either.

**`SeatCalendar`** is the abstract specification: a booking holds a seat and a
set of days; days are sold, given back as an interval, taken back when nobody
holds them, or voided. `Subscriptions!Calendar` maps the tables to it: the seat
is umbrella and slot of the booking, the days those of its confirmed rows.

**`Renewals`** has several seasons and a clock, and leaves to `Subscriptions`
what a suspension, an absence or a termination does to the days: here a
booking occupies its seat from start to end while it is confirmed. A sale is
three steps: `CreateCheck` or `RenewCheck` (the reads and checks of the method and the
overlap), `SaleHold` (the campaigns, whose windows are evaluated at `today`, and the
price) and `SaleWrite` (the insert, under the constraint, the unique index on the
renewals of a source and the foreign keys). `transfer`, the removal of a customer
(erased when nothing names them, anonymised otherwise) and the retirement of an
umbrella are several steps as well. `serial` is a history variable: no two requests
have overlapped so far. It separates what the code promises of any overlap from
what it promises of requests served one at a time.

**`DaySlots`** is the other view of the same rows: the hours of a time slot may
change under its bookings. The check of a sale and the map of a day go by the
hours the slots have now (`HoursOf`), the constraint by the minutes the trigger
copied into a row when it was inserted (`NewRow`); a row narrowed in place keeps its
own, the second piece of a carve takes the new ones (`Kept`, `Extra`).

### Customers and their sessions

**`CustomerSessions`** has the two tables of the customer's access, and again
`work`. A token is the row that keeps its hash. Here an update is modelled with
more care, because what it sees matters: the claims of `activate` and `refresh`
are one row by its identifier, whose condition is evaluated again under the lock,
so each is one step with the insert of its transaction; the updates over many
rows (`ReuseRead`/`ReuseWrite`, `AccessBegin`/`AccessHold`/`AccessWrite`) take one
step when the statement begins, which fixes the rows it sees, and one when it
writes. `held` has the enrollments a revocation has locked until it commits.

| Action | Code |
|---|---|
| `ActivateFind`, `ActivateMiss`, `ActivateLock`, `ActivateClaim` | `activate`: lookup, `pinAttempts` increment, lock at the limit, claim with the first session |
| `RefreshFind`, `RefreshRotate` | `refresh`: lookup, claim with the successor session |
| `ReuseRead`, `ReuseWrite` | `refresh` of a revoked session: the chain is revoked |
| `Logout` | `logout`, one statement on one row |
| `AccessBegin`, `AccessHold`, `AccessWrite` | `provisionAccess` and `revokeAccess`: enrollments, sessions, new enrollment |
| `Abort` | a refusal, a rolled back transaction, or the end of the process between two statements |
| `Expire` | `expiresAt` of a row that is still good passes |

Abstracted: hashes (a token of no row changes nothing), the access token (it is
not stored), the establishment, and the verification of the PIN (right or wrong
is a choice).

**`CustomerApp`** is one device: `localStorage` (`stored`), the page and its calls,
and the requests to the session endpoints (`fetch`), each served by the worker of
`CustomerSessions` that has its name, also when the page has given it up. A call
that is answered 401 waits for the one refresh of the page and is made again
once (`Answered`); an exit asks the server and signs out whatever becomes of
that (`Completed`); a reload forgets the calls and keeps the tokens. `exit` is a
history variable: how far an exit has got, and the session it was of; a device that
is activated by the link of another customer keeps only the tokens of that one, and an exit
then leaves the session of the first. The network may
lose a request or an answer at any moment. The page is single-threaded, so what
follows an answer up to the next request is one step with it.

### The back office

**`Requests`**: a method is `Begin` (reads and checks, which keep what the method
keeps of them) and a step that writes and `Finish`es; one that only writes, or
whose checks the database repeats, is one step, `Alone`. `serial` is as above.

**`UmbrellaLayout`**: labels are unique among the active umbrellas (a partial
unique index), the others are checks. `move`, `generate`, `restore` and `retire`
are two steps; `planUmbrellaMove` is `MovePlan`, `Moved` writes the shift of the row
and the umbrella under its extended `where`. Bookings and rates only refuse here.

**`StructureEditor`**: the page shows the tree it last read, and during a move the
tree that `applyMove` makes of it, from the request until a re-read lands after
the answer (`MoveSettling`, from `treeAtWrite`). The server may serve other
changes, answers and re-reads come late or not at all, and a re-read may know of
a move before its answer is there.

**`StaffAccess`**: the password is hashed between `RedeemFind` and `RedeemWrite`, which
claims the link; `IssueFind` and `IssueWrite` spend the links before; `DisableCheck`
counts the other administrators; permissions are kept as the rows that differ
from the default. A JWT that was
issued before a user was disabled still works.

**`Rates`**: `ResolvePrice` is the engine: the loop that keeps the best rate so far
ends with the first of those that none is more specific than (`Best`). The query
has no ORDER BY, so the rates come in any of `Orders`. The unique index on the
dimensions and the foreign keys (RESTRICT) are in the writes.

**`Packages`**: a composition is replaced by a deletion and an insertion
(`writePackageEquipment`); the deletion takes the rows that were there when its
statement began (`seen`), so two updates that overlap may leave the rows of both
(`Composed`), unless both rename the package and wait for its row (`renames`). A
row is the one it was, not the type it names: what an update deletes and writes
again is a new row to another that had seen the old one, and stays
(`FinishCompose`), or collides with the same type the other asks for. A
booking that is made between the counts of `deletePackage` and its deletion loses
its package by the foreign key (`DeletePackageWrite`). The names of types are
compared without regard to capitals by the methods, and exactly by the index.

**`Rentals`**: the two-step methods write a row they have read before, so what
they read may have changed.

**`BackOffice`** puts them side by side. Apart from the page, which stands on the
layout, they have no table in common except as refusals, so a behaviour of the
whole is one of each part beside the others: `focus`, chosen at first, is the part
that moves.

### The cache of the staff application

**`StaffQueries`** abstracts the server to facts (the layout, the list of slots, the
coverage of a day, the contracts of a customer...). `Shows` says which facts a query
shows, from the services of the API; `Writes` which ones a call changes; `Page` which
queries a page mounts, from the views; `Invalidates` which prefixes of keys the
hooks list. In **`StaffCache`** an entry of the cache is fresh or not and remembers the writes it is
`behind`. `Send`, `Commit` or `Refuse`, and `Settle` are a mutation; between them
pages are left (`Navigate`) or turned to another date, customer or season (`Turn`).
`SeenBy` is the screen as the thunks of a call see it when it settles: the date is
that of the session, the customer and the season those of the page, frozen when
the page, or the modal, is gone. `Mount`, `Serve`, `Arrive` and `Invalidate` are the
steps of TanStack Query, external to the repository: a first read that is under way
is joined, not repeated, by an invalidation, and what it brings counts as fresh;
such reads, marked `overtaken`, are not held against the application.

A property speaks of one key at a time and the library keeps keys apart, so a run
follows one key, over the screens that show it and the writes that change it: a
`desk`, chosen at first. `MCBackOffice` hosts it beside `BackOffice`: a behaviour is
either one of the tables or one of the cache.

## 4. Properties

| Property | Says | Where |
|---|---|---|
| `NoDoubleBooking` | two bookings never occupy clashing seats on one day | Seat; proved |
| `DayConservation` | each contract day of a running booking is occupied, suspended or released: no rewriting of fragments loses one | Seq, Race; proved |
| `OccupationAsAgreed` | `CoverageWithinContract`: no occupation outside the contract or after the last valid day; `OpenSuspensionFreesTail`: nothing is occupied from the start of an open suspension on; `CancelledFreesSeat`: a cancelled booking occupies nothing, fragments of later operations included | Seq; proved of one worker; the first refuted in Truncation |
| `FreedOnCommit` | what a suspension or a release puts on record is really free at the commit | Seq; proved of one worker |
| `ReactivateNeverRefused` | once its check has passed, reactivate is refused only by a race | Seq; proved of one worker |
| `CancelReleaseNeverRefused` | the same of cancelAbsenceRelease | refuted in Backstop |
| `CalendarSpec` | every step changes the calendar as `SeatCalendar` promises | Seq; proved of one worker |
| `PaymentConsistent` | payment status, collected amount and total agree, whichever method wrote last | Money; proved |
| `RefundLedger` | `refundedAmount` is the sum of the refunds of the suspensions until the termination | Money; proved of one worker |
| `RefundStep` | the ledger never goes down and a refund never exceeds what is collected at that moment | Money; proved of one worker |
| `TransferChain` | the history of holders is a chain that ends with the present one | Money; proved of one worker |
| `OneRenewal` | a subscription has at most one confirmed renewal, however many requests renew it | Renewals; proved |
| `RenewalsRunForward` | a renewal keeps the seat and begins after its source has ended | Renewals; proved |
| `HoldHonoured` | while a window is open nobody else holds the seat by a later booking, if no two seasons have a day in common | Renewals, one request at a time; proved |
| `RetiredUnbooked` | no retired umbrella has a booking that is not over | Renewals, one at a time; proved |
| `ErasedLeavesNothing` | an erased customer leaves no booking and no change of holder | Renewals; proved |
| `RemovedNotBooked` | no confirmed booking to come belongs to an anonymised customer | refuted in RenewalsRemoved |
| `OneLiveSession` | an enrollment never has two sessions that can be refreshed | Sessions; proved |
| `OneChain` | its sessions are one chain, from one activation, each replaced once | Sessions; proved |
| `RevokedForGood` | no request under way undoes a lock, a revocation or an activation, and what is revoked is never activated | Sessions; proved |
| `RevokedEndsSessions` | no session is live under a revoked enrollment | refuted in SessionsRevoke |
| `AppTypeOK` | types; a call waits only for the refresh in flight; both tokens or none; a customer is shown only while the device has them | App; proved |
| `NoFalseAlarm` | the page never presents a rotated token, unless the answer with the next one was lost | App; proved |
| `ExitRevokes` | an exit that the server answered leaves no live session of the enrollment the device had, if no refresh was in flight | App; proved |
| `CallsSettle` | every call is settled in the end, unless the page is reloaded for ever | App |
| `ExitEnds` | who asks to leave is signed out in the end, with the network down too | App |
| `OfficeTypeOK` | types of the part that moves (`BackOfficeTypeOK`, `StaffCacheTypeOK`); what is on screen has data, or is read, or has failed | BackOffice; its two parts proved |
| `ActiveLabelsUnique` | no two active umbrellas have one label, whatever overlaps | BackOffice; proved |
| `ActiveIsPlaced` | an umbrella is in a row that exists exactly if it is active, whatever overlaps | BackOffice; proved |
| `PreviewIsMove` | what the page previews is what the server makes of the move, for every move it offers | BackOffice, one at a time; proved |
| `ShownAsServed` | after the answer the page shows what the server has, and after a refusal what it last read | BackOffice; proved |
| `LinkWorksOnce` | a link sets a password once, and spends every other link of the user | BackOffice; proved |
| `AdminLeft` | some active administrator is left | BackOffice, one at a time; proved |
| `PermissionsAsAsked` | what the staff may do is what was last asked for | BackOffice, one at a time; proved |
| `PriceDetermined` | the price does not hang on the order of the rates, if their periods are equal or apart | BackOffice; proved |
| `RateScopeKept` | no removal widens a rate | BackOffice; proved |
| `PackagesAsAgreed` | a booking keeps the package it was sold with, a package is made of what was last asked for, no two types of equipment have one name | BackOffice, one at a time; proved |
| `RentalsInOrder` | a cancelled rental holds no money (one at a time); item and tariff of a rental are there | BackOffice; proved |
| `SoldOncePerSlot` | a slot of an umbrella is never sold twice on a day, however its hours change | BackOffice, one at a time; proved |
| `FreeIsSellable` | the map and the check of a sale agree on what is free, and the database takes it | BackOffice, one at a time; proved |
| `PiecesFit` | the constraint never refuses the pieces of a carved row, unless the hours have changed since | BackOffice; proved |
| `ShownFresh` | what a page shows as current is not older than an answered write of this application: `LayoutShownFresh` (maps, cards, lists and counts after a change of the layout), `PermissionsShownFresh`, `RenewalShownFresh` (both seasons, the campaign, the maps, whatever the page has gone on to), `CatalogShownFresh` (archived lists included), `SetupShownFresh`, `DayShownFresh` and `CardShownFresh` (while the date, or the customer, stays) | BackOffice; proved |

`TypeOK` of `Subscriptions`, `CustomerSessions` and `Renewals` (`TypeCorrect`) and
`OneLiveLink` of `StaffAccess` (`LinksReplaced`: a user has at most one link that
works) are proved and in no run. Properties marked "one at a time" have `serial` as a
hypothesis; two overlapping requests defeat them in the code, by a check made on
rows another request is about to change. Those overlaps are in the runs, and are
listed as hazards in `PROJECT.json`.

## 5. Runs

| Run | Instance | Result |
|---|---|---|
| Seq | one worker; season of 4 days; a subscription and a daily booking on one seat; two suspensions, one release | holds |
| Race | two workers; season of 3 days; one booking, two suspensions, one release | holds |
| Seat | two workers; season of 2 days; half days and whole day; two bookings | holds |
| Money | one worker; season of 3 days and a clock; amounts 0, 1, 2 of a total 2; two suspensions, two transfers | holds |
| Backstop | one worker; season of 3 days | `CancelReleaseNeverRefused` fails |
| Truncation | two workers; season of 3 days | `CoverageWithinContract` fails |
| Sessions | two workers; one customer, two enrollments, three sessions, a PIN that locks at two misses | holds |
| SessionsRevoke | the same with four sessions and no wrong PIN | `RevokedEndsSessions` fails |
| Renewals | two workers; two customers; two seasons of a day and a clock; overlap once | holds |
| RenewalsRemoved | one worker; the same seasons | `RemovedNotBooked` fails |
| App | two calls and that of `loadMe`; two fetches; one enrollment, two sessions; fairness | holds |
| BackOffice | two workers; one part moves at a time; overlap once. The cache: one write; two days, customers, seasons, users; one key at a time | holds |

### Bounds

*Bookings.* A carve tells a day apart only by its being before, at the ends of,
inside or after a hole; four days give a hole inside a fragment with a head and a
tail of which one can be carved again, three give both at once, and two
already give every clash. Three slots give the three relations two seats may
have (same, overlapping, touching). Two suspensions give a closed one before
and after an open one; two transfers give a chain with an inner link. Two
workers give every pair of overlapping methods. `MaxCoverage` is at the number
of rows these can reach, so the bound never stops a carve. The clock only
removes choices (`today <= from`, `today <= date`), so the occupation runs keep
it at day 1, where every choice is allowed; Money lets it advance. Customers
do not matter to occupation and umbrellas are independent of one another, so
those runs have one of each.

*Sessions.* Two enrollments give a re-provisioning, three sessions a chain with
an inner link, two misses the increment below and at the limit; enrollments of
different customers have no row in common, so one customer is enough. The
`VIEW` of `MCCustomerSessions` forgets whether a row had expired when it was
revoked or claimed, which nothing looks at any more. In SessionsRevoke no PIN is
missed, which leaves the revocation by the staff as the only way to revoke an
enrollment.

*Renewals.* Two seasons of a day are the least in which a renewal has somewhere
to go; a campaign over them can be open, past its deadline or closed. Two
customers give the holder and another; `Bound` allows two bookings that are no
renewals and one change of holder, which gives a chain, its competitor, and a
renewal of a renewal that was cancelled. `OneOverlap` lets two requests overlap
while there is at most one booking, and ends the behaviour when both are over:
what they leave behind has then been checked, and what comes after an overlap is
asked of no property but `serial`'s.

*App.* Two calls are denied together or one after the other, before, during or
after a refresh; two fetches are a refresh and an exit, or a refresh given up and
another; two sessions are a rotation. A third session multiplies the states and
changes nothing, as the page only ever compares with the last.

*BackOffice.* Three umbrellas in two rows give a move within a row, into another
and out of it, with one umbrella on each side; `MaxOrder` caps the gaps of
`logicalOrder` that moves leave, and the page is seen without them. Two users and
three links give a user with a spent, a replaced and a live link while another is
disabled. Two rates over a row and a slot, with no period, one day, another and
one that holds both, give every comparison of the engine. Three times of the day
give two touching slots and one over both; two bookings, `MCSpans` (a day that
splits the season, the season) and at most three rows give a hole with two pieces
beside another booking; one booking is older than the hours of its slot, as
`rehoured` has nothing else to tell; hours change one at a time. A package of two types, three names of which
two differ by a capital, and two bookings give a sale and its renewal, a name
that an archived type keeps, and, with no booking yet, a sale beside a deletion
and two compositions that overlap. The tables share identifiers, which nothing
compares across parts, so that one symmetry serves them all. `View` shows of a
part what its guards and properties look at, and the requests without who serves
them; the comments in `MCBackOffice` say why. Its bounds are conjuncts of `MCNext`,
which spares TLC the states beyond them; a behaviour whose overlap is over stays
where it is.

*The cache.* Two days, customers, seasons or users give the one followed and
another to turn to. `MaxCalls` is 1: a write settles while reads asked before and
after it, by pages left and entered, are under way; two calls only meet in the
cache through such reads. A desk has the pages that show its key and one that
does not; the other keys behave as if they were alone, which is why they need not be
followed together. The desks of the counter and of the card keep to one date and
one customer, for the reason given below.

`CHECK_DEADLOCK FALSE` is in the runs of `Subscriptions` and in App: an instance
really ends there, when the bounded tables are full, or the page has settled
and no row of a session is left to open.

### Fairness

The API has no background job and no queue: every step is the answer to a
request, which nobody is obliged to make. So nothing must eventually happen
there, and all properties of the API are safety. Fairness is in `CustomerApp`
alone: a browser settles every request it has made, with an answer or an error,
and then runs what waits for it, so `Answered` and `Completed` are weakly fair for
each call and each fetch. Nothing is asked of the network, which may lose every
message, or of the API, which may never serve a request (the fetch is then
completed as an error). A reload forgets what is in flight and is not fair; a
page reloaded for ever settles nothing, which `CallsSettle` allows for.

### What the violation runs show

*Backstop.* With requests served one at a time: the absence of day 2 is
released, the subscription is suspended openly from day 1, and reactivated on
day 2. `reactivate` inserts `[R, endDate]` whole, day 2 included, and the release stays
active. `cancelAbsenceRelease` now passes its check, which looks at other
bookings only, and collides with the booking's own row: the answer is "resold"
although nobody bought the day. The comment at `bookings.service.ts:1008` says the
constraint is a backstop of races only.

*Truncation.* A closed suspension reads the coverage; a termination commits; the
suspension writes its plan, whose tail ends where the fragment it read did.
The subscription occupies days after its last valid day, which
`docs/design/flows.md:345-347` excludes. The same overlap defeats the two other
parts of `OccupationAsAgreed` and `RefundStep`, which is why these are checked for one
request at a time; `DayConservation` and `NoDoubleBooking` survive it.

*SessionsRevoke.* A refresh has found its session live; a revocation locks the
enrollment and begins its update of the sessions; the refresh commits, which
revokes the old session and opens a new one; the revocation revokes the
sessions it saw and commits. The new session stays live, and `refresh` looks at
the session alone, never at its enrollment. ADR-0049 (lines 94-96) says that
revocation and re-provisioning invalidate the live sessions of the customer.
What survives the overlap is that nothing is un-revoked and that there is only
one such session (`RevokedForGood`, `OneLiveSession`).

*RenewalsRemoved.* With requests served one at a time: a subscription is sold in
the first season, which ends; its customer is removed, and as the booking still
names them they are anonymised; the second season is created; `renew` of the old
subscription makes a confirmed booking of it. `create` and `transfer` ask
`findActiveCustomer`, `renew` copies the customer of its source
(`bookings.service.ts:447`). ADR-0043 (lines 104-105) excludes such a booking.

### What the writes of the staff application leave in the cache

From `Writes`, `Shows` and `Invalidates`, on the screen of the call, these remain as
they were until `staleTime` is over. `docs/architecture/deferred.md` knows the two
that are marked; of the others no document promises anything, so no property does.

| Write | Not expired |
|---|---|
| createBooking, cancelBooking | the card of the customer; subscriptions and campaigns, for a seasonal sale; the other days of a sale of several |
| settlePayment | the card of the customer |
| renew | the list of the day's bookings, the card |
| openCampaign, closeCampaign | the right of first refusal on the cards |
| terminate, suspend, reactivate, absences | map and list of the days, subscriptions, campaigns |
| transfer | the same, and the card of the one who takes over (D-079) |
| updateCustomer, deleteCustomer | the other cards that name the customer |
| rate | the flag of the structure that says a sector has rates of its own (D-080) |
| season, slot, package | the overview in the sidebar and the cards |
| item, rental | the availability shown with the rentals of other days; for an item, of all |

And two that hang on timing, which is why `DayShownFresh` and `CardShownFresh` are
checked at desks with one date and one customer: with two in `CounterDesks` or
`CardDesks` the run ends in them.

- The map of the first day is on screen; a booking is made, or cancelled; the topbar
  turns to the second day; the answer comes and the keys of `session.activeDate`,
  the second day, are invalidated. The first counts as current for `staleTime` and
  turning back shows it as it was. The specification of the page
  (`docs/specs/2026-06-30-bookings-daily-design.md:240-241`) says the keys of the day.
  `invalidates` is a thunk on purpose (`useQueryResource.ts:11-12`), for dates that
  change between two calls; here it changes under one.
- The same with the customer of the route, whose page is patched into that of
  another (`useCustomers.ts:8-15`). No link of the pages leads from one card to
  another: it takes a jump in the history of the browser.

### Observations on comments

Met while modelling; no run is about them, as they concern no behaviour that a
document promises.

- `time-slots.service.ts:69` and `catalog.service.ts:247` explain a count by foreign
  keys of `Rate` that are SET NULL; migration `20260723062405_rate_fk_restrict` has made
  them RESTRICT, so the count is no longer the only guard (`RateScopeKept` holds
  between the count and the removal).
- `bookings.service.ts:294-300` says that the constraint refuses whatever the check
  of `priceAndWrite` refuses. That is so as long as the hours of a slot have not
  changed since the rows were written; afterwards only the check sees them, and
  without it `SoldOncePerSlot` fails. For the same reason the second piece of
  a carve can be refused (`bookings.service.ts:577-582`), which `PiecesFit`
  leaves out.
- Two updates of a time slot, each of one bound, each valid when it was read, can
  leave it empty or upside down: no CHECK of the table has them (hence `serial` in
  `DaysTypeOK`).
- `EstablishmentStructureView.vue:46-52` says that the photograph is of the tree
  before the write. Not so when a re-read of another change overtakes the answer:
  the history variable `early` of `StructureEditor` marks it, and `ShownAsServed`
  leaves it out; the move is applied to a tree that has it until the next re-read.
- ADR-0032 (lines 66-71) has two rates of one specificity excluded by the
  index. With different periods that overlap they are not, and the order
  in which the database returns them decides; `PriceDetermined` is stated of
  periods that are equal or apart.
- Nothing keeps two seasons from having a day in common: `SeasonsService.create`
  (`seasons.service.ts:23-40`) does not look at the others, and no constraint of the
  table does. `docs/specs/2026-07-01-bookings-renewal-a4-2-design.md:393-394` calls it an
  invariant, kept by the seed. Without it `HoldHonoured` fails: a holder renews into a
  third season that meets the destination, which counts as the renewal that was
  due; the seat is sold in the rest of the destination; the holder cancels, and
  their window is open again over days that are sold. Hence `SeasonsApart`.

## 6. Proofs

Proved by TLAPS for all values of the constants that satisfy the named
assumptions of each module: any number of workers, customers, umbrellas, slots and
days. In `Subscriptions`, days and bounds are naturals, prices and amounts are
naturals, and a slot is a pair of integers whose first is the smaller:
`createTimeSlot` and `updateTimeSlot` refuse any other. The last is needed where a
row meets itself: of an empty slot the constraint would accept two rows a day.

- `Subscriptions_proofs`, **`TypeCorrect`**. `TypeOK` is not inductive: a plan has
  to be made of rows of the request's own shape, the loaded row has to be a
  row, an amount a payment may write has to be a natural number. `WellFormed` adds
  `RequestOK`, what the loads and reads establish for each method; there is
  one lemma per action, grouped by loads, reads and writes.
  **`SeatsSoldOnce`**. `NoOverlap` is kept by the database,
  but it speaks of the minutes and the umbrella stored in a row, and
  `NoDoubleBooking` of those of the booking. `SeatInv` links them: every row of
  `coverage` and of every plan carries the seat of its booking (`Matches`), and
  the rows satisfy `NoOverlap`. Nothing in it depends on the pre-check: as long as
  the hours of a slot stay as they are, the check is not the authority.
  **`PaymentAgrees`**. `MoneyInv` adds to
  `PaymentConsistent` what a request in flight is about to write: the amount of
  a settlePayment is at most the total, and so is that of a transfer,
  whose loaded row has the total of the stored one.
  **`CarveExact`**: written to the rows it was computed
  from, a carve removes exactly the days of the hole: a booking holds a day
  afterwards iff it held it before and the day is not in the hole. From
  the days (`RemainderDays`) and the owner (`RemainderOwner`) of what remains of
  one fragment.
  **`NoDayLost`**: `DayConservation` for any number of overlapping requests, where a
  plan may be older than the rows it is written over. Then the carve takes more
  than the hole: it writes the dates of the plan, so the days by which a row
  has grown since are lost as well. `GrowthExcused` is the reason why none of them is
  missed: a row can only grow by the carve of a plan that is older still,
  `NoOverlap` refuses that carve if another row of the booking holds the day, so the
  day was nobody's, and by `DayConservation` itself it was excused. The rest of
  `DaysInv` is what the argument takes from the code: identifiers tell one row,
  the rows of a confirmed booking are confirmed, the fragments of a plan
  belong to the booking of the request, meet its hole and are disjoint.
- `Subscriptions_serial_proofs`, under the hypothesis `Serial` (there is one worker, so
  no two requests overlap): **`OccupiedAsAgreed`**,
  **`HolderIsLastOfChain`**, **`ReactivateCheckIsEnough`**, **`RefundsFitWhatIsCollected`**,
  **`RecordedDaysAreFree`**, **`ImplementsCalendar`**. `Undisturbed` says that what a request
  has checked, and its plan, are still true, which is what one worker buys;
  `SerialInv` adds that an open suspension is the only one of its booking and that
  no record begins before the contract. Each write then has an exact effect on
  the days (`CarveOccupied`, and its like for an insert). From these effects
  every step of `Subscriptions` is shown to be a step of `SeatCalendar` or to
  leave the calendar as it was. That the hypothesis is needed is what the run
  Truncation shows of `CoverageWithinContract`.
  **`LedgerAddsUp`**: `RefundLedger` compares a number with a sum over the set of
  suspensions. That the sum of a set is what it is without one element plus that
  element (`RefundsTakeOut`) is proved by induction on the size of the set, in the
  form of a set of naturals that has no least element left out (`NatSet`).
  `LedgerInv` adds that an open suspension has refunded nothing, that there are
  finitely many, and what a request is about to write (`RefundAgreed`): its amount is
  that of the suspension it writes. It needs `Serial`: with two workers the run Money ends in a
  `reactivate` that was checked and waits while another one closes the suspension
  with a refund and a new open suspension frees the days again: its write then
  goes through, adds its amount to the ledger and puts it in the place of what
  that suspension had refunded.
- `CustomerSessions_proofs`, **`AtMostOneLiveSession`**, **`SessionsAreOneChain`**,
  **`RevocationsStay`**, **`TypeCorrect`**, for any number of workers, customers,
  enrollments and sessions. The invariant `IInv` adds to the properties that a
  session belongs to an activated enrollment (`RootActivated`: why a second
  activation would be needed for a second root) and what each request knows of
  the rows it has read (`RequestsOK`). Every action is shown to be one of three
  kinds (`Tables`): rows only gain marks, a chain is opened, or its live end is
  replaced; the properties are then proved once for each kind (`TablesKeep`).
- `CustomerApp_proofs`, **`NoTheftAlarm`**, **`ExitEndsSessions`**, **`PageInStep`**,
  **`ServesSessions`**, for any number of calls, fetches, enrollments and sessions.
  `ServesSessions` is the composition: each step of `CustomerApp` is a step of
  `CustomerSessions` or leaves its tables alone, so the invariant of
  `CustomerSessions_proofs` holds here. `AppInv` adds which fetch the worker of
  its name is serving (`AllServed`), what the page may be doing at once
  (`PageInOrder`: one refresh, and no exit or call of a view while the page
  starts or is opened by a link) and, as long as no answer to a refresh was lost, that the page
  holds the tip of its chain or waits for the answer that brings it (`Holding`;
  a `Tip` was replaced by nothing and is the only session of its enrollment
  that may be good). A refresh then never presents a rotated token, which is
  `NoFalseAlarm`; and an exit without a refresh in flight revokes the only
  session that was good (`Leaving`). `ExitRevokes` speaks of the enrollment
  of that session: of all the sessions of a device it would be false with two
  enrollments, which the run App does not have and the proof does.
- `Renewals_proofs`, **`RenewedOnce`**, **`ChainsRunForward`**, **`ErasureIsClean`**,
  **`RetiredIsUnbooked`**, **`TypeCorrect`**, **`HoldersKeepTheirSeat`**. The first three hold however requests
  overlap, as the unique index, the order of the seasons and the foreign keys
  are evaluated at the write; the invariant says of a request in flight only
  that its source is a subscription that is stored with that seat. The fourth
  needs `serial`: a sale that has read an umbrella as not retired is then the only
  request, so the umbrella is still what it read. The last is not
  inductive, as a window opens again when a renewal is cancelled: `HoldInv` leaves the
  renewal out and says that no booking was sold over the head of a holder at all
  until the deadline (`SoldOver`), and that the request about to insert has passed
  the hold. A sale while the window is exercised is then what has to be excluded,
  and it is by the constraint, since the renewal takes the seat for the whole of the
  season of destination. For that: identifiers are given in order (`InOrder`), no two
  confirmed bookings clash (`NoClash`), a renewal is of a whole season (`WholeSeason`),
  and seasons have no day in common (`SeasonsApart`), so that the season the holder
  has renewed into is the destination.
- `BackOffice_proofs`, **`SomeAdminStays`**, **`LinksReplaced`**, **`LinkSpentOnce`**,
  **`PermissionsKept`** of `StaffSpec`, **`LabelsStayUnique`**, **`ActiveStaysPlaced`** of
  `LayoutSpec` with **`PreviewKept`**, **`EditorPreviews`** and **`MoveShownAsServed`** of
  `EditorSpec`, **`RatesKeepTheirScope`**, **`PriceIsDetermined`** of `RatesSpec`,
  **`RentalsKeepOrder`** of `RentalsSpec`, **`PackagesStayAsAgreed`** of `PackagesSpec`. These
  specifications, and `DaysSpec`, are the parts of `BackOffice`, each by itself.
  **`OfficeIsItsParts`**: a behaviour of `BackOffice`, which is what the run checks, is one
  of the part that `focus` names. **`OfficeKeepsItsPromises`**: with what the tables of the other
  parts promise as they were at first (`LayoutAtFirst`, `DaysAtFirst`...), all the
  properties of the parts hold together in every state of the whole.
  **`OfficeTypeCorrect`**: and so do the types. That of the layout does not assume `serial`:
  two umbrellas of a row may have one order, so the `CHOOSE` of `NextOrder` and of
  `OrderAt` is shown to have what it looks for all the same (`HighestOf`, `KthOf`, by the least
  of a set of naturals), and the plan of a move to be made of numbers (`PlanIsTyped`).
  That of the page (`EditorTyped`) rests on the structure being lists (`StructureTyped`).
  `StaffInv` and `LayoutInv` add the types and
  what the request in flight has found; for the two properties of the layout these
  do not suffice when requests overlap, and the proof rests on the index and on the
  extended `where` of the writes. That the page knows what a move will make is about lists:
  a row is the one list of its umbrellas that their orders go up along (`SortedIsListed`), so
  the two sides are compared by showing that what the page makes of its list (`WithoutSorted`,
  `InsertedSorted`) goes up along the orders the server has written. For these, `planUmbrellaMove` is reduced to one
  inequality: the umbrella gets an order that splits the orders of the others at the index asked
  for (`PlanIs`, `PlanShifts`), and these stay in order. It needs that no two umbrellas of a row have one
  order (`Ordered`), which takes `serial`: the order read by a creation or a restoration is past
  the last only if nobody places another meanwhile. `EditorInv` adds for `ShownAsServed`
  what is known of each tree that has been read (`TreesKnown`: it is the one of the server, or is one
  move behind it) and when the window of the preview is open (`WindowKept`).
  `RentalsInv` and `PackagesInv` are of the same kind:
  `RentalFound` and `CatalogStillSo` are what a request has found, which is so still
  if there is no other. The two of the rates need none of it, as the index
  and the foreign keys are evaluated at the write. `PriceIsDetermined` has two parts:
  of any rates that apply there is one that none is more specific than
  (`BestExists`, one dimension after the other, so for no induction), and two that
  apply to one stay with the same specificity are equal in each dimension
  (`SameSpecificity`), which `SignaturesDiffer` excludes.
- `DaySlots_proofs`, **`SlotSoldOnce`**, **`MapAgreesWithSale`**, **`PiecesAlwaysFit`** of
  `DaysSpec`. The constraint of the database goes by the minutes copied into the
  rows, and these are the hours of the slot as long as nobody has changed them
  (`MinutesAsHours`): with that the pieces of a row fit, and what the map shows as
  free the database takes. A slot is sold once for another reason, which
  needs `serial`: what a lone request has checked still holds when it
  writes (`DayStillSo`), so a booking that the constraint no longer sees
  is seen by the check: the hours of a stored slot run forward, so that it
  overlaps itself.

- `StaffCache_proofs`, **`NothingStaleShown`**, **`ListsAreComplete`**, **`CacheTypeCorrect`**,
  for any desk, that is any set of keys, screens and calls, however many are under way. Whatever is
  fresh, or is being read and will be, and is behind a write has a call of that write that is
  served and still to settle (`ExpiredInTime`); when it settles, the key expires, provided that
  one of the prefixes it lists is a prefix of the key, whatever screen its closures see by then
  (`Expires`, over all the `Sights` of the desk). `BehindStep` says where data can come to
  be behind. There remains that the lists of the hooks are complete: one lemma for
  each write and the keys that show it (`LayoutExpires`...); `openCampaign` lists
  neither maps nor subscriptions, which show nothing of a campaign (`OpeningSpares`). The keys
  of a day and of a card name what the page is of when the call settles, so `DayShownFresh` and
  `CardShownFresh` take `DesksSteady`: where bookings are written the screens have one date, and where
  contracts are, one customer; only those then mount the key (`PageOfDay`, `PageOfCard`). Without it
  they fail (section 5). The other hypothesis, `DesksWellFormed`, is the type of a desk. The
  desks of `StaffDesks` satisfy both.

Only model-checked: the properties of section 4 that are not marked as proved. `ShownFresh` and
`OfficeTypeOK` are definitions of `MCBackOffice`, an instance, so no theorem names them: what
they are made of is proved in `StaffCache_proofs` and `BackOffice_proofs`.
Outside the reach of the prover: liveness under fairness (`CallsSettle`, `ExitEnds`)
and recursive operators (there are none in these modules).

## 7. Not modelled

See `PROJECT.json` for each component.

- Row-level security: one establishment is modelled. A handler sets the tenant in
  the transaction it runs, and no state of it outlives the transaction.
- Reports, occupancy statistics, the projection of the map beyond the state of a
  slot: they change nothing.
- Mail, informativa, legal documents: input and output, with no state but a
  version number.
- Provisioning of a tenant: one transaction of inserts; the reset of an
  administrator by the platform is in `StaffAccess`.
- Umbrella types, pricing lists and the setup checklist: single-row updates and
  counts.
- Of the staff application: the permissions that disable a query (the user of
  `StaffCache` has all of them) and the guard of the routes, the report and the quote
  of a price, the forms, what the modals hold while they are open, the clearing of
  what no page has used for minutes; `retry` and its wait are one failure.
  Of the platform console: everything, as its writes are those of `StaffAccess`.
- `ui-kit`, `contracts` (types and validators), `docs-lint`, seeds and demo data.
