# Verification of the Eurotrips booking system

TLA+ modules, TLC runs and TLAPS proofs for the server in `src/src` (Fastify,
TypeScript, Prisma on PostgreSQL, Redis optional) and for the web client in
`src/frontend/src` (React, React Query, axios). The first part below is an
inventory of the system; then come the modules and what is checked and proved
about them, what is left out, and the plan.

## The system

HTTP requests of staff, agents and tourists are handled concurrently by one or
more Node processes. A handler awaits the database several times, so requests
interleave at every query. PostgreSQL runs at its default isolation, READ
COMMITTED: a SELECT takes no lock, an UPDATE locks its rows and evaluates its
WHERE clause on their latest committed version. A `prisma.$transaction` makes
writes atomic, but a value read before it (or in it, without a lock) may be
stale when it is written back. This is where almost every hazard of the server
is. The client adds its own: requests that race with the renewal of a token, a
cache that is refreshed by key prefixes, and a second copy of who may do what.

| component | state | operations | what makes it correct |
|---|---|---|---|
| Tours and seats (`tours.service.ts`, `seat-claim.ts`) | `tours`: status, archived, prices, totalSeats, availableSeats | create, departure, update, status with its gates, archive; claim and release of seats | BR-01: no seat sold twice, none lost; never below zero; gates hold when passed |
| Booking status machine (`booking-status-machine.ts`) | none | table of transitions | BR-06: 15 statuses, terminal ones final |
| Booking desk (`bookings.service.ts`) | `bookings`, `payments`, `agent_commissions` | create, change status, add payment, cancel | sums match receipts; refunds covered; a cancelled booking stays so; roles |
| Card payments (`liqpay.service.ts`) | `payments.external_id`, sums of the booking | callback: success, reversal, failure | each charge booked once, and counted |
| Booking numbers (`booking-number.ts`) | last number of the year | read last, add one | unique; a clash loses nothing |
| Leads (`leads.service.ts`, `tourist-identity.ts`) | `leads`, `tourists` | create, update, convert to booking | a lead is converted once, no address and no passport has two profiles |
| Bus seat map (`seat-map.service.ts`) | `booking_tourists.bus_seat_number` | assign, preferences | one tourist per seat and departure |
| Room structure (`room-structure.service.ts`) | `hotel_bookings.structure_status`, planned rooms | set, approve, finalise | approved structures change only by an administrator; no more beds than seats |
| Rooming (`rooming.service.ts`, `rooming-trigger.*`) | `actual_room_number`, `final_rooming_done`, `ops_rooming_required` | assign, finalise, scan (its worker is not started) | everyone confirmed has a room when final; the office is told of what is marked, once |
| Checklist (`checklist.service.ts`) | items, readiness | patch an item | readiness matches items; gate of departure |
| Drivers (`tour-drivers.service.ts`) | `tour_driver_assignments` | assign, unassign | at most two |
| Extras, coaches, papers | `tour_extras`, `transport_bookings`, `documents` and files on disk | create, patch, cancel, generate | sums match columns; a listed document can be fetched |
| Sessions (`auth.service.ts`, `jwt.guard.ts`) | refresh token and blacklist in Redis | login, refresh, logout, password | nothing survives a logout; nobody is signed out by a refresh whose answer arrives |
| E-mail queue (`email.queue.ts`) | delayed BullMQ jobs | schedule, cancel, send | no reminder for a cancelled booking |
| Commissions | commission status and amounts | calculated at creation, cancelled | follows the booking |
| Web client (`src/frontend/src`) | token and cookie of a browser, cache of queries, screen | navigate, query, change, renew the token | what a user changes is shown; screens agree with the server's guards |
| Catalogues, reports, Telegram, Zoho import | | CRUD, reads, I/O | see "Not modelled" |

How they interact: the desk and lead conversion claim seats of a tour in the
transaction that inserts a booking, and cancellation releases them; desk and
gateway both write the sums and the status of a booking; `changeTourStatus`
reads prices, hotel bookings and the checklist before it opens a tour or lets it
depart; rooming and the scan count participants of confirmed bookings; the status
route schedules and removes e-mail jobs after its update; the client's
interceptor renews the access token the guards ask for. There are no locks between
handlers other than row locks of single UPDATEs and one `FOR UPDATE` in the seat
map. Nothing in the server retries, and nothing in it runs by the clock: the hourly
scan for roomings is written, but `main.ts:31-42` has the start of its worker
commented out. The gateway's callback is answered 200 whatever happened.

`PROJECT.json` lists under `hazards`, each at its line, what in this code is hard
to test, and which property covers it.

## The modules

| module | models |
|---|---|
| `BookingStatusMachine` | the table of BR-06 |
| `TourInventory` | tours, their seats, and the requests of the tour office |
| `Bookings` | the booking desk, on top of the two above |
| `LiqPay` | the gateway (external) and its callbacks, on top of `Bookings` |
| `BookingSystem` | their composition, with the environment's bounds |
| `SeatLedger` | abstract specification: what BR-01 promises of seats |
| `Sums` | the sum of the weights of a finite set of ids, in which seats and charges are counted |
| `BookingProperties` | the properties, and the refinement mapping to `SeatLedger` |
| `TourOperations` | hotel bookings and room structures, checklist, drivers, extras, coaches, papers, and the gates of a tour's status, on top of `TourInventory` |
| `Passengers` | seats in the coach, rooms, the closing of the rooming, the scan with its alerts |
| `TourOffice` | their composition around one departure, and its properties |
| `SeatPlan` | abstract specification: one traveller per seat |
| `Leads` | leads, profiles of persons, booking numbers, and the sale of a booking step by step, on top of `Bookings` |
| `BookingMail` | the e-mail jobs of bookings and the triggers of the status route |
| `SalesOffice` | composition of the two, and its properties |
| `Sessions` | Redis, tokens and the clock: the server's side of a user's session |
| `WebSession` | tabs and browsers of that user: cookie, store, interceptors |
| `ApiRoutes` | every route of the API with the roles its guard admits |
| `QueryHooks` | the client's queries and mutations: their routes, keys, staleness, and what each mutation invalidates; and, for checking, which data each handler writes or reads for its answer |
| `Pages` | every page and tab: what it reads, offers and links to, by role; routes and menu |
| `WebClient` | one user at those pages, with React Query's cache, and its properties |
| `*Proofs` | the theorems and their proofs |
| `MC*` | values for TLC; the `.cfg` files are its instances |

**State.** The variables of the server's modules are the tables, as functions from
ids to rows with the columns that decide anything. `payments` keeps, for each
booking and payment type, the sum of its rows. `recorded` and `revRecorded` are the
`external_id`s present, as sets of charges, and `charges` is what the gateway itself
knows. `plans`, `desk`, `hooks`, `office`, `clerks`, `scans` and `sales` hold what a
request in flight has read and will use: the local variables of the handler between
its read and its write. An id not yet used has status `"none"`.

**Steps.** A handler that reads, checks and then writes is two actions: `Begin…`
(the SELECT with every check made on it; what it read that is used later goes
into the request) and `Commit…` or `Write…` (the transaction, with every write it
makes). Between them any other step may happen, and `Abandon…` covers a request
that is rejected by its WHERE clause or an index, rolled back, or lost with the
process. Where a handler writes, awaits and writes again (an item of the checklist,
then the readiness; the file of a document, then its row; the deletion of a refresh
token, then the new one) each write is a step. `CreateBooking` of `Bookings` is
one action: its first statement is the conditional UPDATE of the tour, which tests
and decrements and holds the row lock until the transaction ends, and nothing read
before it is used. `Leads` opens it up (`BeginBooking`, `ClaimForSale`, `TakeNumber`,
`CommitSale`, `ClashSale`), because the number it draws is read under that lock
but is shared by all tours. `handleReversal` is one action too: it reads nothing.

| action | code |
|---|---|
| `CreateTour`, `CreateDeparture`, `Reprice` | `createTour`, `createDeparture`, `updateTour` |
| `BeginResize` / `CommitResize` | `updateTour` with a new totalSeats |
| `BeginTourStatus` / `CommitTourStatus`; `BeginGatedStatus`, `PassGates`, `CommitGatedStatus` | `changeTourStatus` without and with its gates |
| `BeginArchive` / `CommitArchive` | `archiveTour` |
| `CreateBooking` | `createBooking` with `claimSeats` |
| `BeginChangeStatus` / `CommitChangeStatus`, `CommitStatusAndFire` | `changeStatus`, `fireEmailTriggers` |
| `BeginAddPayment` / `CommitAddPayment` | `addPayment` |
| `BeginCancel` / `CommitCancel` | `cancelBooking` with `calculatePenalty` |
| `BeginSuccess` / `CommitSuccess`, `HandleReversal` | `handleSuccess`, `handleReversal` |
| `BeginSetStructure` / `CommitSetStructure`, … | `setStructure`, `approve`, `finalize` |
| `PatchItem` / `StoreReadiness` | `patchItem` of the checklist |
| `BeginAssignDriver` / `CommitAssignDriver`, `UnassignDriver` | `assign`, `unassign` |
| `BeginPatchExtra` / `CommitPatchExtra`, `BeginPatchTransport` / … | `patchExtra`, `patch` of a coach order |
| `WriteFile` / `InsertPaper` | `renderAndSave` |
| `BeginSeat` or `BeginWish` / `CheckSeat` / `WriteSeat` | `assignSeatByTourist`, `setPreferences` |
| `BeginRoom` / `WriteRoom`, `BeginFinalizeRooming` / `CommitFinalizeRooming` | `assignRoom`, `finalizeRooming` |
| `BeginScan` / `MarkHotel` / `TellHotel` or `LoseAlert`, `CrashScan` | `scanRoomingTriggers` and `notifyRoomingRequired`, which it does not await |
| `BeginCreateLead` / `FindByEmail` / `CreateProfile` or `BeginLeadOfKnown`, `CommitCreateLead` | `createLead` with `findExistingTourist`, or with a touristId |
| `BeginConvert` / `ClaimForSale` / `TakeNumber` / `CommitSale` | `convertToBooking` with `generateBookingNumber` |
| `Login`; `CheckRefresh` / `DeleteOld` / `StoreNew`; `ForgetRefreshToken` / `BlacklistTokens` | `login`; `refresh`; `logout` |
| `ReceiveDenied` / `ReceiveRefresh` / `ReceiveRefusal` | the response interceptor of `api.ts` |
| `Open` of `WebSession` / `DropAnswer`; `LoseRefresh` | a page is loaded anew and the browser drops what the old one waited for; a refresh whose connection breaks |
| `OpenFromMenu`, `OpenTab`, `Follow`, `GoBack`, `GetLost`, `Click` | menu, tabs, links, the browser's way back, unknown addresses and buttons of the pages |
| `ServeQuery`, `ReceiveData`, `ServeChange`, `ReceiveAnswer`, … | a query or a mutation of React Query |

**Abstractions.** Amounts are whole cents; the code keeps two decimals in the
database and floats in between, whose rounding is not modelled except
`Math.round` of the penalty and of the readiness. Cards are charged in UAH and
bookings kept in EUR by the same numbers: the code adds them, and so does the
model. A policy is any set of rules, the day of a cancellation any of `DaysAhead`.
`TourInventory` alone lets the gates of `changeTourStatus` reject any request
(`AbandonPlan`); `TourOperations` has them in full. A second delivery of a callback
is another `BeginSuccess` of the same charge. `Passengers` knows of a booking only
its stage (pending, confirmed, underway, absent, cancelled), each the set of its
statuses, and moves between stages along the status machine; whether `claimSeats` takes a
booking or refuses it is left open (`BookParty`), as its counter is that of `TourInventory`. A token is the second
in which it was signed: two tokens of one user and second are the same string. Booking
numbers are strings of digits compared as strings (`Leads` models the padding), in a
small base. A passport has two spellings, with blanks around it and without (`padded`): the
search trims what it is given (`tourist-identity.ts:47`), the insert stores what was sent
(`leads.service.ts:102`). What a page shows of the user's own changes is, for each query, how much
of the log of changes the server had when it answered; values are not modelled, only which
columns or rows a handler writes and which it reads for its answer. The answer of a change that the
client puts into its cache (`setQueryData`) counts as a full answer of the query, although some
are the bare row where the query's has more (`useBookings.ts:305`).

**Contention and loads.** The server lets any two requests work on the same row, and
several properties fail because of it. To say also what does hold, and under which
discipline, each composition has a parameter that says what may overlap.

In `BookingSystem` it is the constant `Contention`: it contains `"booking"` if two
requests may be in flight on one booking, and `"tour"` if two requests of the tour
office may be in flight on one tour. `{"booking", "tour"}` is the program as
deployed. Requests of different kinds (a resize and a booking on one tour, for
example) always interleave.

In `TourOffice`, `SalesOffice`, `WebSession` and `WebClient` it is the variable
`load`, chosen in `Init` among `Loads` and never changed: which requests arrive in
this behaviour, and its `overlap`, which of them may overlap, on which rows, and
whether processes crash or answers get lost. One run then covers many loads, with
the properties saying which overlaps they exclude; each is checked under the
overlaps it withstands, and for most of them the loads also contain the overlap it
does not mention. A load leaves out requests that share no row with those it has,
which would only multiply states.

`MaxPaid` and `MaxFree` stop new payments, cancellations and resizes once a sum
or a number of free seats has grown to the bound; without them repeated
payments and double cancellations grow for ever. They stop `Begin…` steps only,
never a commit. The other bounds are `MaxProfiles` (persons created), `MaxSecond` (the
clock of the sessions), `MaxLosses` (processes of the scan that die, and alerts that are lost) and
`MaxChanges` (changes one user makes). A tab has one refresh of its page and one of a page it has
left (`GiveUpRefresh`), and requests of such pages leave at least one slot free (`LoadPage`).

## What TLC checks

Deadlock is not checked: nobody has to send a request, the ids of tours, bookings,
charges and papers run out, and a state in which everything rests is a correct end.

| run | instance | shows |
|---|---|---|
| `seats_shared` | `MCBookingSystem`, no contention: 2 tours, 2 bookings, 2 desks, 1 planner, 1 callback | `SeatConservation`, `NoOverbooking`, `BooksMatchGateway`, `ImplementsSeatLedger` |
| `contended` | everything contended: one tour, 2 bookings, 2 desks that take deposits and balances, 1 planner, no cards | `NoSeatLost`, `SeatsNeverNegative`, `FullyPaidMeansPaid` |
| `cards_contended` | contended bookings: a desk, 2 callbacks, 2 charges | `PaidIsBacked`, `ChargeBookedOnce` |
| `booking_life` | no contention: a manager and an agent, two policies | `TypeOK`, `RefundsBacked`, `CancelledStaysCancelled`, `TerminalIsFinal` |
| `tour_office` | `MCTourOffice`: one departure of two seats, 2 requests of the operations office, 2 clerks, 1 planner, 2 scanners, 17 loads | `BedsWithinSeats`, `DriversWithinLimit`, `ExtrasAddUp`, `ListedPaperHasFile`, `ClosedRoomingIsComplete`, `AlertedOnce`, `MarkedIsTold`, `ApprovedStructureStands`, `OpensWithStructure`, `DepartsReady`, `ImplementsSeatPlan` |
| `sales_office` | `MCSalesOffice`: 2 leads of 4 persons, 2 tours, 2 bookings, 2 desks, 2 e-mail triggers, 9 loads | `LeadHasItsBooking`, `SeatsOfSales`, `NextNumberIsFree`, `IdentitiesAreUnique`, `CancelledHasNoReminders` |
| `sessions` | `MCWebSession`: one tab, alone, with reloads, with lost and hanging refreshes and with everything at once; two tabs; two browsers; seconds 1 to 3, tokens that live one | `SessionsEnd`, `OneTabKeepsSession`, and the liveness property `RequestsAnswered` |
| `web_client` | `MCWebClient`: every page as every role that may open it, the one of unknown addresses for all; 14 loads of pages that show each other's changes, 4 loads with overlaps; 2 requests in flight, up to 2 changes | `OwnChangesShown`, `PagesFitGuards`, `LinksOpen` |

`MCWebClient` also states, as an assumption for TLC to evaluate, that the rows of `ApiRoutes`,
`QueryHooks` and `Pages` agree for all roles and pages at once (`TablesFit`): ways with
route guards, requests with the server's guards, what a change writes with what it refreshes. The
exceptions are listed one by one: `Forgotten` has, for each change, the queries that show what it
writes and that its hook does not refresh. (For `createLead` that is the search for tourists, as
the handler inserts the tourist of a new lead; for `createBooking` also the commissions and
royalties of the agent; the coach orders of a tour count its participants.) The runs
then ask whether what happens in time, between pages, loads and answers, keeps to the tables.

Each composition's type invariant (`TypeOK`, `TourOfficeTypeOK`, `SalesTypeOK`,
`WebSessionTypeOK`, `WebClientTypeOK`) is checked by its run as well. It types the
requests in flight by the values the handlers can have computed, so that some
slips of the code break it first (a sum written from the wrong read, a price rounded
away).

**Bounds.** Every hazard listed needs at most two requests on one row, and a third
party on another table: two desks (or two callbacks, or a desk and a callback)
and a planner give every pair. Tours have one to three seats, so the last seat is
always contended and a resize may cut below what is sold. Totals are 3 or 4 with
deposits of 1 or 2 and payments of 1 to 3, so a payment may be below, at and above the
deposit, the balance and the total. The policy of `booking_life` has two rules, and
the days reach one, both or none. In `tour_office` the structures hold beds for one,
two and three persons in a coach of two or three seats, so one or two hotel bookings may
fit or exceed it; three participants of two bookings include one person twice; a
checklist of three items has a readiness that is rounded. Booking numbers have the
base 3 and a padding of two digits, so that the year in which the padding
overflows is reached after a few sales; the numbers of earlier sales are `EarlierNumbers`.
In `contended` the offer is for one person with a deposit of 1 and a balance of 2, and payments are
of 3, so that a desk can fill either part, one payment overshoots its part, and fully_paid is
reached both in turn and by two desks that started from the same row.
The clock of the sessions runs from 1 to 3 with access tokens that live one second,
so a session sees tokens expire before, during and after each of its requests. A user
at the pages makes at most two changes: one that is shown wrong needs one change and
one query in flight. Symmetry is used among requests in flight that are
interchangeable, for safety properties only: `sessions`, which has a liveness property,
uses none.

For every property of these runs `PROJECT.json` names a mutant: an operator placed
just before the one it replaces, marked "wrong on purpose", that changes it the
way a slip in the code would, and for which TLC finds the property violated.

### Where the code and its documents disagree

Each of these runs checks one property that a document, a comment or a test of
the repository states, and TLC finds a behaviour of the code that violates it.
`PROJECT.json` quotes the line under `findings`.

| run | property | behaviour |
|---|---|---|
| `double_cancel` | `AvailableWithinTotal` | two cancellations release the same seats twice |
| `lost_charge` | `BooksMatchGateway` | two callbacks at once, one charge is forgotten |
| `operator_cancel` | `OperatorCancelRefunds` | cancelling through the status route refunds nothing |
| `logist_rooming` | `LogistIsServed` | the rooming tab shown to a logist reads a list refused to that role |

The first two need two requests in flight at once on one row; the others happen
with one user and one request at a time. The same races break other properties, as can be
seen by giving the runs above a wider `Contention` or `overlap` (and leaving out the condition of
a property that names the overlap):

* With `"booking"` in `seats_shared`, `NoOverbooking` fails: a stale status change revives
  a cancelled booking whose seat is sold again. With it in `booking_life`,
  `CancelledStaysCancelled` (a payment that read the booking before its cancellation writes
  the old status back) and `RefundsBacked` (two cancellations refund twice) fail. With
  `"tour"` and two planners `SeatConservation` and `NoSeatLost` fail (two capacity
  changes computed from one read).
* With charges, `FullyPaidMeansPaid` fails (a card payment changes what balanceAmount
  means, and a desk payment after it confirms a part-paid booking). A reversal moves even a
  completed booking to refund: `TerminalIsFinal` allows that step and asks for the reversal.
* In `tour_office`: three drivers with `"drivers"` and a limit of two, an alert of the scan lost
  with its process or its message, which nobody sends again, a departure with an item
  that an overlapping patch has unticked, a tour opened over a hotel booking made after the gate,
  somebody confirmed after the closing of the rooming without a room, a coach's planned
  kilometres that do not add up with `"costs"`, a structure changed after its approval
  with overlapping requests on one hotel booking.
* In `sales_office`: a lead converted twice with overlapping conversions, two profiles of one
  person with overlapping creations, reminders of a
  cancelled booking with overlapping triggers or a crash between the update and the trigger.
* In `sessions`: a session that outlives its logout when a refresh or a login was under
  way; two tabs of one browser share the cookie but not the refresh lock, so one of
  them may be signed out by the other's renewal; a tab that is loaded anew while its refresh is
  under way, or whose answer is lost, keeps the old cookie when Redis has the new token, and is
  signed out by its next refresh. `OneTabKeepsSession` says that this is the only way one tab
  is, and names these tokens (`unseen`).

So some hazards are stated by a property and left out of its run. What the conditions exclude: the
second planner on a tour (`SeatConservation`, `NoSeatLost`), a status or payment written over a
cancellation from a stale read (`NoOverbooking`, `CancelledStaysCancelled`), requests on a hotel
booking that overlap with each other or with the opening of the tour (`ApprovedStructureStands`,
`OpensWithStructure`), overlapping patches of a checklist (`DepartsReady`), two requests on one lead
(`LeadHasItsBooking`) and two creations at once (`IdentitiesAreUnique`), someone confirmed after the
closing of a rooming (`ClosedRoomingIsComplete`), a cancellation by `POST /cancel`
(`CancelledHasNoReminders`), a refresh or a login under way at a logout (`SessionsEnd`), and a
deployment, which empties the disk (`ListedPaperHasFile`). For these the project shows what the code
promises without the overlap, and the lists above what happens with it; `PROJECT.json` says so at
each.

Further divergences met on the way, without a run:

* *Desk.* `changeStatus` lets an agent cancel only up to awaiting_payment,
  `cancelBooking` does not ask. `addPayment` means to reject cancelled bookings, and
  rejects terminal statuses only, which the cancelled ones are not. It moves a booking
  from awaiting_payment to pre_booked, which the status machine has no edge for. A refund
  recorded at a desk as a payment of type `refund` is not subtracted by a later
  cancellation; reversals are recorded as negative refunds, cancellations record
  positive ones. A commission never becomes payable in the server's code.
  `EUROTRIPS_PROJECT_CONTEXT.md` says seats are taken only once the deposit is
  confirmed, the code takes them at creation. `POST /bookings/:id/cancel` leaves the
  e-mail jobs the status route would remove. (`operator_cancel` shows the refund alone: its
  booking has no agent, so that the commission left pending is not part of that run.)
* *Leads.* Persons who share an e-mail address and give no passport become one
  profile. One passport sent with a blank, twice, becomes two profiles, one request at a time: it
  is searched without and stored with it (`tourist-identity.ts:47`, `leads.service.ts:102`).
  `createBooking` stores whatever `leadId` the request has (`bookings.schema.ts:52`,
  `bookings.service.ts:191`), so that a lead may have bookings beside the one it was converted to. A
  conversion whose request alone names the agent makes no commission. The client's board converts a lead with an empty body, which is always rejected.
* *Tours.* The seat number is only required to be positive, though `schema.prisma:778` says
  1 to the coach's seats. Participants of a cancelled booking keep their seat in the
  coach. A person with two bookings on one tour is found by `findFirst`, which may take
  the row of the cancelled one. `opsRoomingRequired` is never reset, and as the
  scan asks for rows without it, the seven days after which it would repeat an alert
  (`rooming-trigger.service.ts:6,55`) never matter: an alert that is lost stays lost. A number in the
  coach is not promised to every seat sold, since those of cancelled bookings stay taken.
* *Sessions.* A token of a login in the second of a logout is rejected with the tokens
  before it. The old refresh token is deleted and the new one stored in two calls. The
  client never calls the change of password. An entry of the blacklist lives 15 minutes whatever
  the tokens do (`auth.service.ts:134-136`), so with a longer `JWT_ACCESS_EXPIRES` a token outlives
  its revocation. The refresh is sent without the time-out of the other calls (`api.ts:97`,
  `api.ts:23`): one that hangs keeps every request of its page waiting.
* *Client.* The menu of a booking's status offers moves the server refuses (new to
  pre_booked, in_work to cancelled_client, docs_collected to the cancelled statuses,
  ready_to_depart to no_show and cancelled_operator) and lacks others it accepts (in_work
  and needs_clarification to awaiting_payment, on_trip to no_show). A booking's page lists
  tourists that are constants of the source. `useTourAvailability.ts:39-41` refreshes
  nothing although `useBookings.ts:308` counts on it. `DeadLinks`, `RefusedReads` and
  `LeftBehind` in `WebClient` name each exception that `LinksOpen`, `PagesFitGuards`
  and `OwnChangesShown` make. Among the last (`Forgotten`): a new booking leaves the
  tour's page and the lists of tours with the old number of free seats. The page for
  unknown addresses links to /dashboard (`NotFound.tsx:21`), which agents, tourists, product
  managers and logists may not open.

### Fairness and liveness

`BookingSystem`, `SalesOffice` and `WebClient` have no fairness, and only safety
properties. A request there runs to its end unless the process stops, but nothing makes
anything happen later: no retry and no sweeper. That a charge taken by the gateway is
eventually booked is what one would want, and it is false by the design of the
route, which answers 200 to a callback it failed to process.

The scan for roomings has no fairness either: nothing in the program starts its worker or calls it
(`main.ts:31-42`), so that it eventually gets to a hotel booking is no property of this code.
`TourOffice` says what its steps may and may not leave behind.

In `WebSession` the steps of server and browser that follow a request (`RequestStep`,
`RefreshStep`) and the clock are weakly fair: the server handles what it has received, an answer
that is not lost arrives, and the browser runs its handlers. Users are not: they need not click.
A refresh whose connection breaks gets an error or hangs for ever (`LoseRefresh`), since `api.ts:97`
calls axios without a time-out; nothing is assumed to end one that hangs, and `RequestsAnswered`
allows a request of that page to wait for it, and for nothing else. The connections of the other
requests, which have the instance's time-out (`api.ts:23`), do not break in the model.

## What is proved

All theorems hold for every value of the constants that satisfies the named
assumptions of the modules. What a theorem needs beyond them it says after `ASSUME`: some
hold for every `Contention`, some only where no two requests work on one booking
(`"booking" \notin Contention`) or no two change the size of one tour (`"tour" \notin
Contention`, or a single planner). These conditions are the ones the runs set, and the runs
`double_cancel` and `lost_charge` show that the properties need them. Nothing is assumed of
the number of requests, tours or bookings.

`SumsProofs` has the laws of `SumOf`, the sum over a finite set. `MapThenSumSet` of the
community modules is a recursive function; the proofs show that it exists and does not
depend on the order in which it takes the elements (`SumOfOne`, `SumOfMore`, `SumOfPart`,
`SumOfChange`), by induction on the number of elements. The library's induction
theorems cannot be instantiated here: `LeastNatural`, a consequence of the
well-foundedness of the naturals, takes their place (a least counterexample).

`BookingsProofs` shows that the handlers of `Bookings` keep rows and requests well formed; the
compositions cite it.

`BookingSystemProofs` (assuming non-empty sets of ids, positive amounts as the
request schemas demand, policies with non-negative numbers, roles and agencies of
desks):

* `TypeCorrect`: `Spec => []TypeOK`. `TypeOK` is inductive. The parts that take
  work are the rows of `bookings`: that the capped and uncapped sums, the payment
  status and the status computed by desk and gateway are values of their types,
  and that a refund is a natural number although policies, amounts and days are
  arbitrary (`RefundAmountType`, from `PenaltyPctType`, which needs that a
  non-empty set of reached rules has one with a largest `days_before`; the lemma
  `LeastNatural` gets it from the well-foundedness of the naturals, since sets of
  rules need not be finite).
* `NoSeatBelowZero`: `Spec => []SeatsNeverNegative`. Inductive together with
  `TypeOK`. A claim is guarded by the same UPDATE that decrements; a shrinking
  resize by its WHERE clause, whatever totalSeats it had read.
* `PaidAmountsAreBacked`: `Spec => []PaidIsBacked`. Not inductive, because a commit
  writes amounts computed from a row read some steps before. The strengthening
  `MoneyInv` adds that receipts are never negative, and that the row a desk payment
  or a callback holds is backed by what its booking has received *now*. Two facts
  carry it: receipts of types deposit and balance only grow, and a charge keeps
  its booking; so a row that was backed when read is still backed when used
  (`MoneyFrame`), and the commit adds to the receipts at least what it adds to
  the row (`Credit` is capped, a card charge is not).

The same module has the theorems about seats and about the life of a booking:

* `SeatsAreNotLost`: `Spec => []NoSeatLost`, with stale reads of bookings allowed. The sum over
  all holding bookings changes at one booking per step; a release adds to the free seats what
  it takes from the sum, a second release of the same booking only adds. The inductive
  invariant adds `BaseInv` (finitely many ids in use, each for somebody and on a tour that
  exists; requests in flight are about bookings that exist) and `FreshPlans`: at most one plan
  in flight per tour, so that the totalSeats it has read is still the tour's, and the
  difference it adds to availableSeats is the difference it makes to totalSeats.
* `SeatsAreConserved`, `NobodyStands`, `FreeSeatsExist`: `SeatConservation`, `NoOverbooking`,
  `AvailableWithinTotal`, where also no two requests work on one booking. `OrderInv` adds that
  requests and callbacks in flight are about different bookings (`Apart`), that what each has read
  and checked still stands when it writes (`FreshReads`), and that a booking whose seats were
  given back is cancelled (`ReleasedAreCancelled`): the status machine then keeps it from being
  cancelled, and released, a second time. No overbooking follows from conservation, since whoever
  travels holds seats.
* `SeatLedgerImplemented`: `Spec => ImplementsSeatLedger`, the refinement of `SeatLedger`. Every
  step opens a tour, changes its size, reserves, gives exactly those seats back, or is a
  stutter of the ledger, again from `SeatsInv`.
* `CancelledForGood`, `FinalForGood`: the action properties `CancelledStaysCancelled` and
  `TerminalIsFinal`, from `OrderInv`: a payment or a callback writes a status computed from the
  row as it is, and the machine has no edge out of a terminal status but for the reversal.

`BookingMoneyProofs`:

* `ChargesAreBookedOnce`: `Spec => ChargeBookedOnce`, for every `Contention`: a callback's commit
  adds the amount of a charge that is not recorded yet, to one booking, and no other step that is
  no desk's touches receipts or `recorded`. `RecordedInv` (the recorded charges are finitely many,
  and charges of the gateway) makes the sums well-defined and keeps a recorded charge from being
  paid anew.
* `BooksMatchTheGateway`: `Spec => []BooksMatchGateway`, where desks take no deposits or balances
  (they would add to the books what the gateway does not know). From `FreshReads`: the row
  a callback adds to is the booking's.
* `RefundsAreBacked`: `Spec => []RefundsBacked`, where refunds are booked by cancellations and
  reversals only. `RefundsInv` adds that a booking that holds its seats has had no refund, and
  that a cancellation in flight will refund at most what has come in; `MoneyInv` gives
  the latter when it reads.
* `FullyPaidIsPaid`: `Spec => []FullyPaidMeansPaid`, for every `Contention`, where all payments
  come from desks or all from the gateway. The desk compares the sums with depositAmount +
  balanceAmount, the gateway with the total; `PricesInv` says these agree, in the row and in
  every copy in flight, for as long as no callback has rewritten balanceAmount.

`SalesOfficeProofs` (assuming that what stands for null is no id, that a tour has a capacity to
begin with, and that a base is at least 2):

* `SalesTypeCorrect`: `Spec => []SalesTypeOK`. `CreationsInv` adds that the creation of a lead
  is about somebody.
* `LeadsHaveTheirBookings`: `Spec => []LeadHasItsBooking`. `RequestsFitLeads` adds, where no two
  requests work on one lead, that each lead has one request, which found it there and not
  converted, and that a booking not yet used is nobody's: only then does the commit of a sale,
  which reads the lead outside its transaction, convert it for the first time. A direct booking
  that names a lead does not work on it (`WorksOnLead`), and what it writes is not `converted`.
* `IdentitiesStayUnique`: `Spec => []IdentitiesAreUnique`. `CreationsSearch` adds, where leads
  are created in turn, that what a creation has looked for so far, first the passport and then
  the address, is still not there when it inserts. A passport with blanks is stored in a spelling
  that no search finds; the property and the invariant speak of those without.
* `SalesKeepSeats`: `Spec => []SeatsOfSales`. The claim of a sale is inside its transaction:
  nobody sees it before the commit, which adds the booking to the sum in the same step, and a
  rollback leaves both alone. `RequestsTakeTurns` adds that what a
  desk's request checked still stands when it writes; `SeatsFit` that a commission is
  cancelled only where the booking is, which keeps it from being cancelled again.
* `CancellationEndsReminders`: `Spec => []CancelledHasNoReminders`, where the status route
  alone cancels, in turn, and triggers run to their end. The property speaks of the queue after
  the triggers; `RemindersFade` says what holds on the way: they have nothing left to do but
  removals, and each job still in the queue is named by one of these.
* `NextNumbersAreFree`: `Spec => []NextNumberIsFree`. No induction over states but over
  digits: as long as all numbers fit the padding they have the same width, so
  the last one as a string is the largest (`PaddedWidth`, `PaddedOrder`). Powers of the base
  are a recursive function, which exists and grows (`PowersExist`, `PowerGrows`) by a least
  counterexample, as for `SumOf`.

`TourOfficeProofs` (assuming finite sets of officers, scanners and participants, seat numbers
from 1, structures of natural numbers of rooms):

* `TourOfficeTypeCorrect`: `Spec => []TourOfficeTypeOK`, inductive; its parts are the facts about
  rows and requests that the other proofs begin with.
* `SeatsAreAPlan`: `Spec => ImplementsSeatPlan`, the refinement of `SeatPlan`. A write
  is the only step that moves anyone; the unique index makes it a `Take` of a free
  seat or a `GetUp`, and every other step of the office, the clerks and the scan, a
  cancellation of a booking included, is a stutter of the plan (`NextSeats`). `SeatInv` adds
  that what requests in flight carry is a seat and a participant.
* `DriversLimited`: `Spec => []DriversWithinLimit`. The count is not inductive: a request
  that has counted inserts later. `DriversInv` bounds the drivers *plus* the requests that
  have counted and not yet inserted, so that an insert only moves one from the second sum to
  the first.
* `AlertsAreBounded`: `Spec => []AlertedOnce`, by the same idea: alerts sent plus processes
  that still have the hotel booking before them, or its alert on the way, stay within the bound, and
  an alert once on its way finds `required` set, so no later scan takes the row as a candidate. A
  loss only lowers the sum.
* `MarksAreTold`: `Spec => []MarkedIsTold`, from the same invariant (`AlertInv`): an alert on its
  way belongs to a row that is marked, and as long as nothing was lost it leaves `telling` only by
  arriving.
* `ListedPapersAreOnDisk`: `Spec => []ListedPaperHasFile`. `PaperInv` adds that a request
  between the file and the row has its file.
* `ApprovalsHold`: `Spec => ApprovedStructureStands` (OPS-10). `DraftInv` says that without
  overlap on hotel bookings at most one request on them is in flight, and that the draft a
  request with rooms has read is still one, unless its sender is an administrator.
* `OpensApproved`: `Spec => OpensWithStructure` (OPS-01). `GateInv` says that while a change
  of status of a tour is in flight no request on its hotel bookings is, and that a change
  that has passed the gates still finds every structure approved. A finalisation would
  break it, a commit of an approval would not, an insertion would; the first and the last
  are what the gate's discipline keeps out.
* `ExtraTotalsAreSums`: `Spec => []ExtrasAddUp`, with patches of one extra overlapping. A patch
  writes the columns it has, the sum of these and of what it has read of the others, and may
  overwrite a patch that came between; what holds is that every write is consistent in itself
  (`SumOf` over any set of columns, `SumOfZeros` at the start).
* `ClosedRoomingsComplete`: `Spec => []ClosedRoomingIsComplete` (OPS-16). The closing counts and
  closes in two steps. `RoomsInv` says that from the count on nobody is without a room and
  no request that takes one away is in flight.
* `DepartsWithChecklistDone`: `Cardinality(CHECKLIST_ITEMS) < 200 => (Spec => DepartsReady)`
  (OPS-18). The gate reads the stored readiness, not the items. `ReadyInv` says that the stored
  readiness is that of the items done, or that one request, and one only, has still to store it,
  with the right value; and that a change of status past its gate excludes such a request.
  `HundredPercent` is the rounding: from 200 items on, all but one of them would be 99.5 %, which
  rounds to 100. The list in the code (`checklist.schema.ts:9`) has nine.
* `BedsFitTheTour`: `Spec /\ [][Enlarges]_officeVars => []BedsWithinSeats` (BR-10). `BedsInv` adds
  that the rooms a request in flight will order fit the tour as it is by now.

The last one holds of a behaviour in which no step makes a tour smaller (`Enlarges`). It is a
condition on the requests that arrive, not on their order: the resize handler
(`tours.service.ts:361`) compares the new size with the seats sold and with nothing else, so that
a smaller coach leaves rooms ordered beyond its seats.

`SessionsProofs` (any number of tabs, browsers, requests; any life of a token):

* `SessionsTypeCorrect`: `Spec => []WebSessionTypeOK`, inductive.
* `LogoutEndsSessions`: `Spec => []SessionsEnd`. A logout is two commands to Redis, and an
  earlier rotation may have its second command still to come, so the property is not
  inductive. `EndInv` adds that no token is signed in the future; that, without overlap,
  a logout in flight is alone with the rotation done and between its two commands nothing is
  stored; and that after it all tokens anywhere, in flight and of pages that were left included, are
  at most as young as `revokedAt`, with the blacklist entry living as long as the youngest of them
  where `AccessLife <= BlacklistLife`.
* `OneTabSession`: `Spec => []OneTabKeepsSession`. The property speaks of moments at which
  no answer is on its way; `OneTab` (the body of `OneTabInv`) says where the token of Redis is at the others: in
  the login or the refresh that brings it back, in the cookie, among those no page has seen, or
  nowhere since a rotation has deleted it or a request that ends the sessions has been taken up.
  A reload, a lost connection and a hung refresh move the call of the page to the one of the page that
  was left, and `OneTab` says of both what they may still write.

`WebClientProofs` (any number of changes under way, any bound, any set of loads). The four
theorems have the hypothesis `TablesFit`: that the tables of routes, hooks and pages agree, row
by row. It speaks of constants alone (no state, no step), TLC evaluates it on the tables of this
program whenever it runs `MCWebClient` (`TablesAgree`), and it is what a change of a route, a hook or
a page may break; the
theorems say that where it holds nothing a user does, in whatever order answers come, gets
past it. The prover would have to expand some two hundred rows to show it.

* `WebClientTypeCorrect`: `Spec => []WebClientTypeOK`. `ClientInv` adds that the changes on
  their way to the server still fit into the log, and that what was read or answered is in it.
* `PagesAskForWhatTheyMay`, `LinksLeadWhereTheyMay`: `PagesFitGuards` and `LinksOpen`, from
  `ByTheTables`: the screen is one the role has a way to, each load comes from such a screen, each
  change was offered on one, also after the user has gone on to another page, and nothing
  malformed gets into the log.
* `ChangesAreShown`: `Spec => []OwnChangesShown`. The property speaks of moments at which
  nothing is on its way. `ShowInv` says at all times where the newer data is, for each query:
  in the cache, being loaded (`Coming`), or not there, with the entry stale and, where the page shows
  it, an error (`Behind`); that a load never brings older data than there is; and that what
  was loaded when the page was opened is as of then. Each load goes through one of seven moves
  (`Moves`), which keep all this (`ComingKept`, `ShowKept`), and the answer of a change starts anew what
  it invalidates (`ShowAnswer`). It lets nothing new be mounted (`AnswerMountsNothing`), since
  what a button sets was there before the button was.

The attempt to prove the last one found `OwnChangesShown` wrong as it was first stated, for loads the
run did not have: a tour's page whose load is under way when a booking is made shows the
seats of before. `trusted` counts such a load among what was not loaded for the page, `LeftBehind`
names what bookings leave behind, and the run has the loads.

Model-checked only are the liveness property `RequestsAnswered`, which is out of the
prover's reach, and that the tables fit.

## Not modelled, and why

* Wording, layout, forms and charts; audit rows; Telegram messages (fire and forget); the
  text and sending of e-mails; rendering of PDFs; signatures of the gateway, of tokens and
  the hashing of passwords.
* The services of the catalogues (tourists, hotels, carriers, staff), of activities, of the
  other columns of hotel bookings and of correspondence: create, read, update and delete
  of one row each, in which nothing is read and used later. Their guards and what the
  client caches of them are modelled.
* Finance, analytics and the operations dashboard: read-only reports. Their guards
  and cache times are modelled.
* The amounts of commissions and the insurances of a booking: calculations without state.
* The return of `LoginPage` to the page one was sent away from (`App.tsx:67-77`): the path is
  taken without a look at the role, so that a user who signs in with another role may land on the
  forbidden screen. `LinksOpen` speaks of clicks.
* The server without Redis: it then keeps no session state, so nothing can be said of it.
* The e-mail worker: `main.ts` does not start it; the jobs it would take are modelled.
* The Zoho import: `tsconfig.build.json:15-20` excludes it from the build, it writes columns the
  Prisma schema does not have, and it is run by hand on an idle database.
* `seed.ts` and the tests.

## Plan

Done: all components but those just listed. What could follow, most useful first:

1. The composition of `Bookings` with `Passengers`: today the latter knows of a booking
   only its stage.
2. The catalogues' merging and deactivation of rows that others refer to.
