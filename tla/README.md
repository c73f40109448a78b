# Desavii / TravelHub: a TLA+ verification of the booking core

The repository is a monorepo for a travel marketplace: an Express API over
MySQL (`src/apps/api`), a React client (`src/apps/web`) and shared packages.
What can go wrong in it in a way a test hardly reaches is mostly in the booking
core of the API, where several requests, two periodic jobs, partners' edits and
a payment provider change the same rows. This project models that core, and
the other parts in which more than one request, job, tab or process acts on the
same state: refunds, feed synchronisation, promotions, staff invitations,
refresh tokens, blackouts, notifications and conversations.

## Inventory

All paths below `src/apps/api/src` unless they start with `src/`.

| component | state it keeps | operations that change it | talks to | what makes it correct |
|---|---|---|---|---|
| Availability engine (`modules/availability/services/availabilityService.js`) | `availability_calendar`, `reservation_holds`, `inventory_blocks`, `external_reservations`, `inventory_ledger` | reserve, release, consume and expire holds; restore booked capacity; block, release; external reservation, CSV import, cancel; edit and delete calendar rows | called by booking-holds, bookings, connections inside their transactions | capacity is neither lost nor invented; nothing is sold twice; a request is granted whole or not at all |
| Booking holds (`modules/booking-holds`) | none of its own | createHolds, releaseHolds, the expiry sweep (a BullMQ job every 30 s) | Availability, in one transaction | all-or-nothing; expired holds come back |
| Blackouts (`blackoutService.js`) | `blackout_dates` | create, update, delete a range | read by Availability as a veto | no hold over a vetoed day; ranges do not overlap |
| Transactions (`infrastructure/database/transaction.js`) | a pooled connection | begin, commit, roll back, at REPEATABLE READ | everything above | atomicity; what a snapshot read may miss |
| Bookings (`modules/bookings`) | `bookings`, `booking_items`, status history | create, confirm, reject, cancel, complete, no-show, SLA expiry, refund review | Availability (consumeHold, releaseBookedCapacity), Payments (capture, void, refund), event bus | status moves only along `bookingStatusTransitions.js`; capacity is restored once; a cancelled booking's money is resolved |
| Payments (`modules/payments`) | `payments`, `refunds`, `payment_transactions`, `payment_webhook_events` | intent, webhook, capture, void, refund, local settlement worker | provider (outside every transaction), Bookings | one active payment per booking; captured - refunded is never negative; each event is applied once |
| Inventory connections (`inventoryConnectionService.js`, `connectors/`) | `inventory_connections`, `external_reservations`, sync runs | connect, map, pause or resume, disconnect; feed synchronisation by job or by hand | Availability (applySystemExternalReservation), the bus | a feed event takes its days exactly while it is in the feed; the partner knows of a failure |
| Domain event bus (`core/events`) and Notifications | handlers; `notifications`, `email_deliveries`, a BullMQ queue | publish after commit; insert, mark read, queue, mail, record | all services, the mail provider | a notification is mailed again only after a fault, and what was sent is recorded |
| Auth (`modules/auth`, `src/apps/web/src/api/client.js`) | `refresh_tokens`; the browser's cookie | login, refresh, logout, logoutAll | users | a token is spent once; an ended session stays ended |
| Partners and staff (`modules/partners`) | `partner_employee_invitations`, `partner_employees` | invite, revoke, accept, change role, remove | users, mail | a dead link stays dead |
| Advertising (`modules/advertising`) | `advertisements` | create, mark paid, approve, cancel, extend; an hourly sweep | the bus | nothing unpaid is shown; periods are apart; reminders are sent |
| Messaging (`modules/messaging`, `ChatWindow.jsx`) | `messages`, read positions; what a window shows | send, delete, mark read; polling | the bus | what counts as read was seen, as far as the window's pages go |
| Listings, Reviews | one status per row | moderation, one review per booking | users, bus | legal status sequences |
| Search, Blog, CMS, Media, Favorites, Contact, Users, Admin, Managers, AI | single rows, or nothing | single statements | - | - |
| Placeholders (analytics, coupons, payouts, ...) | none | none | - | - |

Hard behaviours, in the order of the damage they do: snapshot reads used after
another transaction has committed; check-then-act outside a transaction; row
locks taken one day at a time, in an order the client chooses; errors swallowed
inside a transaction; two jobs racing requests; provider calls between two
transactions; webhooks that come early, twice or after a failure.
`PROJECT.json` lists each at its line under `hazards`.

## Plan

All of it is written. The order is that of the damage a wrong step does.

1. `Availability` (the capacity engine, one action per database step) and its
   small instances `MCAvailability`.
2. `Inventory` (the promise: claims are granted, returned and converted whole)
   and `AvailabilityRefinement` (the engine implements it).
3. Theorems: `Availability_proofs` (types, no row below zero, no hold over a
   blocked day) and `Conservation_proofs` (the books balance, and the refinement
   of `Inventory`).
4. `Lifecycle` (the two tables of allowed transitions) and `Bookings` (the
   status machine with its two parties and the SLA sweep).
5. `Payments`, which EXTENDS `Bookings` and so is the composition of the two:
   checkouts, captures against voids, webhooks, the decisions that meet them.
   `MCPayments`; `Payments_proofs`, about both.
6. `Refunds`, which implements the abstract `Escrow` (money is set aside once,
   then paid out or put back): refunds that reserve before they call, their
   webhooks, the cancellation that starts one, manual reviews. Its theorems are in
   `Payments_proofs` too.
7. `Connections`: synchronisation runs against a feed whose events move,
   disappear and come back.
8. `Blackouts`, `Sessions`, `Staff`, `Advertising`, `Notifications` (with the
   event bus; `MCNotifications`) and `Messaging`. `MCPlatform` has the small
   instances of 6 to 8.
9. Theorems: `Listings_proofs` (blackouts, promotions, feeds) and `Users_proofs`
   (staff, sessions, notifications, conversations), each from an invariant that
   says what a request still knows of the rows it has read. `Sums_proofs` has the
   lemmas about sums and folds they all use.
10. Theorems about what joins them: `Platform_proofs` (the composition in
    `MCPlatform` is each of its components, so what is proved of them holds of
    it) and `Promises_proofs` (what the abstract `Inventory` and `Escrow` are worth).

No safety property of a run is left to prove; liveness stays with TLC.

## The capacity engine

`Availability` keeps the tables as variables. `calendar` is the committed
`availability_calendar`, `draft` the same rows as the transaction that locked
them sees them, `lockedBy` the row locks; `holds`, `bookings`, `records` (manual
blocks and external reservations) and `blackout` are the other tables. `txn[w]` is
the transaction that connection `w` has open: what it read in its snapshot, the
stays it still has to write and its cursor.

A row that does not exist reads as AVAILABLE with the unit's capacity, because
`lockForCapacity` inserts exactly that row before it locks it. So every slot
has a row from the start and `removeCalendarEntry` resets it.

An action is one database step.

* `Begin` opens a transaction: its plain SELECTs read the committed tables once
  (REPEATABLE READ gives all of them one snapshot) and the early returns on
  what they read are its guards. It is `createHolds`, `releaseHolds`,
  `createBooking`, `releaseExpiredHoldsBatch`, `rejectBooking` / `cancelBooking`,
  `createManualBlock`, `createExternalReservation`, one row of a CSV upload,
  `releaseManualBlock` / `cancelExternalReservation`, `setAvailability` or
  `updateCalendarEntry`.
* `WriteRow` is one turn of the loops in `reserveCapacity`,
  `#consumeCapacityForRange`, `#restoreCapacityForRange` and
  `#writeCalendarRow`: lock the row of the next day, check it, write it.
* `Finish` ends the transaction: the commits insert, delete or update the
  tables' rows and publish the calendar rows; `Refuse` is the ConflictError
  that rolls back, `ImportRowFails` the one that does not, `DeadlockVictim`
  InnoDB's choice in a cycle of waits.
* `LoseTransaction` rolls back at any point: a lock wait timeout, a lost
  connection, a killed process.
* `HoldExpires`, `RemoveCalendarEntry` and the blackout edits are single
  statements.

A booking row is locked by `lockById`, so two closings of one booking are
serialised; holds, blocks and external reservations are read without a lock, so
two transactions can act on the same one. That difference is the source of most
findings.

Abstractions. One listing and one unit type. Units, users and stays are model
values and small records; equal stays of one request are one stay. Prices,
notes, guests and the ledger (written beside every row and never read by these
operations) are left out. Every day lies in the future, so the restoration of
past days, which the code skips, does not arise. Locks on the status table that
the join in `lockForCapacity` also takes are left out: they can only remove
interleavings or add victims, and a victim is possible anywhere already. A
booking's status is only whether it still holds capacity.

## The promise

`Inventory` has what is free of each slot and the set of claims. A step grants
claims that are free, returns claims, or converts claims into others of the same
demand (a hold into a booking); claims are finitely many and each takes a number
of units. That these steps keep the books, free and claimed units of a slot
making up its capacity (`Balanced`), is a theorem about `Inventory`
(`Promises_proofs`). `AvailabilityRefinement` maps the committed tables to it. A transaction's row writes are stutters; each commit is one step.

## Bookings

`status` is `bookings.status_id`, `restored` counts how often the capacity of a
booking was given back, `sweep` is the transaction of `expireStaleBookings`
and `afterCommit` holds what a request that has committed still has to do about
the payment (the code's calls after `withTransaction` returns).

`confirmBooking`, `rejectBooking`, `cancelBooking`, `completeBooking` and
`markNoShow` lock the row with `lockById` before they check the transition, so
each is one action. `expireStaleBookings` does not: it reads the overdue
bookings with a plain SELECT, at most `SlaBatch` of them, applies EXPIRED to
each, and commits. It is `SweepRead`, a `SweepWrite` for each row and
`SweepCommit`; `SweepFails` is one failing row, which rolls back the batch.
A written row is locked until the commit (`Lockable`), and requests on it wait.
That InnoDB shows the sweep's writes to nobody before the commit is why
`SweepWrite` changes only `sweep`.

Guests, items, history rows and prices are left out; so is the time of a
deadline: an open request may be overdue at any moment (`Overdue`).

## Payments

A checkout, a capture and a void are chains of transactions with provider calls
between them.

* `createPaymentIntent`: `BeginCheckout` reads booking and active payment,
  `InsertPayment` or `RefuseCheckout` is TX-1, `CreateIntent` the call (or
  `ProviderUnreachable`, with the intent created or not), `FinishCheckout` or
  `FailCheckout` TX-2. An answer AUTHORIZED for a booking read as CONFIRMED
  starts a capture. `FinishCheckout` also puts the settlement job of the local
  provider into its queue, which the code does a little after the commit: a
  process that dies between the two, and leaves a PROCESSING payment nobody
  settles, is not modelled.
* `#executeCaptureOrVoid` is a job: `CheckJob` is its TX-1, `CallProvider`,
  `CallProviderTooLate` or `CallFails` the call, `ApplyAnswer` its TX-2.
* After a decision, `SettleAuthorization` looks for an authorization and starts
  the job; for a cancellation that finds none, `ResolveRefundPolicy` looks for
  a taken payment and sets `refund_status`. These are two actions because they
  are two queries.
* `handleProviderWebhook`: `Deliver` inserts the event row (a repetition is
  answered as a duplicate and does nothing); `HandleUnknown`, `HandleEvent`,
  `HandleConflict` process it, `HandleFails` loses the processing transaction.
  `SyncWithDecision` is `#syncPaymentWithBookingDecision` after it.
* `SettleLocally` is the BullMQ job of the local provider.
* `Crash` forgets whatever is in memory: requests, jobs, follow-ups, handlers.
  What is committed or queued in Redis stays.

Stripe is modelled by its side of each intent and of each call
(`StripeProgress`, `StripeAttemptFails`, `StripeReleases`, and the calls above),
marked external in `PROJECT.json`. It reports statuses as events that arrive in
any order and late. A booking's status is read under its lock where the code
locks it and without one where it does not.

Left out: amounts (a capture is of the whole), attempts and audit rows, client
secrets and currencies. What a cancellation does for a payment that may be
refunded automatically is in `Refunds`; here that decision stays open, and no
property speaks of it.

## Refunds

`Refunds` has one captured payment, administrators' `createRefund` requests and
the refund that a vendor's cancellation starts. A call of `#executeRefund` is
`CreateRefund` (the look-up of its key), `ReserveRefund` (TX-1: under the
payment's lock, reserve the amount and insert the row), `SendRefund`,
`StripeRefuses` or `RefundUnreachable` (the call to Stripe, outside any
transaction), and `ApplyRefundAnswer` or `GiveUpRefund` (TX-2). `StripeSettles`
and `RefundWebhook` bring the late word about a pending refund; one that comes
before TX-2 finds no row with the provider's id and is dropped, as the code drops
it. The cancellation is `CancelPaidBooking`, `ReadRefundable` and
`WriteRefundStatus`, three steps with a refund in between, because
`refund_status` is written without a condition at the end. Its policy decides
by dates and terms that nothing else here depends on; the model has its two
outcomes, a refund of all that is left or a manual review.

`Escrow` is the promise: money is set aside for a refund and is then paid out
or put back, and never exceeds what was captured. `ImplementsEscrow` maps a row
that is CREATED or PROCESSING to money aside, one that is SUCCEEDED to money
paid. What it does not promise, and the code does not keep: a call that timed
out puts the money back although Stripe may have paid it.

## Feed synchronisation

In `Connections` a feed has a few events, each absent, cancelled or on one
slot. A run is `SyncLoad` (the connection row it keeps to the end),
`SyncStart` (the mapping and what had been imported), `SyncRead` (the feed and the
snapshot), `SyncImport` (the whole transaction: it locks the calendar rows it
changes, and what it read before was fixed by `SyncRead`) and `SyncFinish`.
`Import` folds the events in the order of the feed (`EventApplied`, with the
savepoint's effect in `Refused`), and then the removals (`RemovalApplied`). A cancellation looks its row up on the
transaction's connection but then loads it from the pool; `fresh` is the choice
of which rows another run had changed by then. `SyncFails` takes the write of
ERROR and the event as one step, and `SyncDies` is a crash.
`PatchReads` and `PatchWrites` are `updateConnection`, which finds the connection
and then writes ACTIVE or PAUSED over whatever its status is by then; it tells
nobody, and `unsaid` remembers that it ended an ERROR.
`overlapped` and `reused` are history variables: they record that two runs
overlapped, or that a cancelled uid came back, for both of which the code keeps
no accounts.

## Promotions, staff, tokens, blackouts

These have one shape: a request reads, checks, and writes later by id.

* `Advertising`: `Begin` is the read and the check of `createPromotion`,
  `markPaid`, `approve`, `cancel` or `extend`, `AdWrite` the write. The sweep reads
  its three lists at once (`AdSweepRead`), then activates, expires and reminds
  one row at a time; a reminder is marked and then published. `AdSweepDies` may
  end it anywhere. `NextDay` moves the calendar.
* `Staff`: `BeginStaffTask` reads an invitation or a member, `EndStaffTask`
  writes. `InviteStaff` revokes and inserts in one transaction. The unique keys of
  the two tables are `MayInsert` and the guard of `InviteStaff`.
* `Sessions`: `refresh` is `RefreshCheck`, `RefreshIssue`, `RefreshRevoke` and
  `RefreshAnswer`, four steps since nothing is in a transaction. Tabs share the
  cookie. `CallLost` is a lost answer, a dead server or a closed tab.
* `Blackouts`: `updateRange` is `UpdateRange` (the row read), `UpdateChecks`
  (the overlap query), `EditWrites` (an UPDATE of the given fields only).
  `always` in a hold request is the set of days of its stay that have been vetoed
  ever since it began; it may go on only if there are none.

## Notifications and messages

`Notifications` follows one event to one recipient: `Publish` starts a handler,
which reads a preference, inserts the row, reads the other preference and puts
a job into the queue; the worker sends (`SendMail`), inserts the row of `email_deliveries`
(`RecordDelivery`) and returns, and BullMQ completes the job (`CompleteDelivery`).
The handler is lost with its process, the job is not: Redis keeps it, and BullMQ
tries it again when it throws or stalls. A worker that dies after the row and
before the completion leaves a stalled job, which mails again. `SendMail` answers in any case, since the mail provider's
adapter catches everything. That is what `email_retry` is about.

`Messaging` has the two sides of a conversation: `sendMessage` takes its id, a
shared lock, an exclusive lock and commits (ids and commits in different order,
two senders in a deadlock); a window polls the newest pages of the thread it has
(`PollMessages`, `PageSize` for MESSAGES_LIMIT), loads an earlier one when the
reader asks for it (`LoadEarlier`), fetches the conversation, and an effect marks
read up to the last message shown. The poll reads all the pages at one moment,
where the page asks for them one after another.

## Runs

The runs of the capacity engine use two connections, one unit, at most three
days (two nights) and capacity one or two. Two connections are enough for
every race of two transactions, and every hazard of the engine is one between
two. Two nights are enough to have something between the rows of one request,
and capacity two distinguishes restoring a count from restoring one. Workers
are symmetric in the safety runs.

`MCPlatform` has the small instances of the other components. They share no
variable, so interleaving them would multiply their states and show nothing. A
behaviour therefore picks a `scope`, one component in one of its sizes, and the
rest stays in its initial state; a run names the scopes it explores. This loses
nothing the modules say: no action of one reads a variable of another. Where
components do meet in the code, one module has both sides (`Payments` extends
`Bookings`; `Refunds` has the cancellation; `Notifications` the bus and the
queue; `Messaging` server and window).

| scope | instance | why it is enough |
|---|---|---|
| `bookings` | two bookings, batches of one, one failing batch | the sweep has to come back, and may write over either |
| `checkouts` | two checkouts with the local provider (run `platform`), or one with Stripe (run `stripe`), one fault, no sweep | a second payment beside the first; every order of decision, webhooks, captures and voids with a crash or a lost call. In `stripe` CREATED is not subscribed: it says what TX-2 says |
| `expiries` (run `stripe`) | the checkout with Stripe and the sweep; no fault, no challenge to the customer | an expiry that is written over a decision, before, between and after the steps of a payment |
| `noFaults` | one checkout with Stripe, no fault, no sweep; CREATED, the event that can come before TX-2, is subscribed | what must happen, does |
| `refunds` | two requests and the automatic refund (one in `progress`), capture of 2, parts of 1, one fault | two parts make the whole; the third must be refused. The two requests share a key, so they are also a retry |
| `oneSync`, `patched`, `twoSyncs` | two events on two slots and failing runs; or one event, runs of which one fails or dies, and PATCH requests; or one event and two overlapping runs without failures (`progress` has the last only). The feed, the mapping and the PATCH requests change three times in all | an event can take the room of another; a PATCH falls between any two steps of a run and after a failure; two runs can do everything twice |
| `oneAdRequest`, `oneAd` | two promotions and one request at a time; or one and two requests at a time; two days | periods that touch; writes that overtake |
| `staff` | one invited user, two invitations, two members, two requests | a link and its resend, a removed member who comes back |
| `sessions` | two tabs, four tokens | a rotation in each tab, and one after it |
| `oneEditor`, `noGuest` | two ranges on two days, an editor and a hold request; or two editors | all ways two ranges of two days can meet |
| `notices` | one event and one recipient, three attempts, three faults | notifications do not meet; three faults exhaust the attempts, or use two of them and the rerun of a stalled job |
| `twoSenders`, `oneSender` | two senders and two messages; or one, three messages (two in `progress`) and marks that arrive in order; one window with pages of two messages (one in `progress`) | ids committed out of order, a mark that is late; a message more than a page holds |

| run | specification | shows |
|---|---|---|
| `accounts` | `SerialSpec` | `Conservation`: free + taken = capacity on every slot in every committed state; `ImplementsInventory`. Two-unit holds, bookings, blocks, refusals, a lost transaction |
| `races` | `Spec` | `TypeOK`; `CapacityNeverLost`: whatever races, deadlocks, is swallowed or lost, free + taken is never below capacity |
| `edits` | `Spec` | `NeverNegative`; `HoldsOnlyOnOpenDays`: edits, deletions and blackouts against holds. Deadlock is checked: something can always happen |
| `sweep` | `FairSpec` | `ExpiredHoldsReturn`: every expired hold is eventually deleted |
| `stripe` | `PlatformSpec`, Stripe | `BooksFollowStripe`: the ledger never runs ahead of Stripe, whatever comes late; `ChargedOnlyIfAccepted`: no card is charged for an open or rejected booking |
| `platform` | `PlatformSpec`, the local provider | the safety properties below |
| `progress` | `PlatformFairSpec`, Stripe | the liveness properties below |

`platform`, by scope:

* bookings: `CapacityFollowsStatus`, the capacity is back exactly when the
  booking has ended without a stay, although the sweep writes over what it has not
  read again; `NeverReopened`.
* checkouts: `OneActivePayment`, `SummaryFollowsPayment`.
* refunds: `RefundedIsReserved`, every reservation is taken once and given back
  once; `OneRefundPerKey`; `LedgerFollowsRefunds`; `RefundedMeansAll`, stated for
  payments without a pending or failed refund, because the code counts a
  pending one and has no way back; `RefundStatusIsEarned`, each word of
  `refund_status` is backed by refunds, although it is written after the call and
  from what was read before it; `ImplementsEscrow`.
* feeds: `ImportedRoomAccounted` and `FeedMirrored`, while runs do not overlap
  and no cancelled uid comes back; `PartnerWasTold`, while runs do not overlap: an ERROR has
  been told, and one that ended without a word was disconnected or patched.
* promotions: `ShownIsPaid`, without any condition; `SerialPeriodsDisjoint` and
  `ReminderWasSent`, for requests that do not overlap.
* staff: `DeadLinksStayDead`, only an acceptance that had
  read the link before it died can still use it.
* tokens: `CookieIsTheSession`, between requests that do not overlap;
  `EndedSessionsStayEnded`, always.
* blackouts: `BlackoutsHold`, between edits that do not overlap.
* mails: `MailedAgainOnlyAfterFault`, one mail and one more for each lost answer,
  and one for the rerun of a stalled job; and a mail is in the table unless its
  answer was lost.
* messages: `ReadWasSeen`, with two exceptions: a message overtaken in its commit,
  and one a page or more below the read position. The window marks up to
  its last message and shows 30, so of more than 30 unread the older ones become
  read unseen.

A condition such as `~overlapped` names a race the code does not guard; with it
dropped, TLC shows the race at once. The property then says that everything
else, faults and crashes included, keeps the accounts.

`progress`: `RequestsEnd` (no booking request stays open),
`DecisionSettlesAuthorization` (an authorization that is there at a decision is
captured, voided or released), `CancellationsAreDecided`,
`PendingRefundsResolve`, `RemovedEventsFreeRoom` (however the runs overlap),
`NothingStaysDue` (the advertising sweep catches up), `ShownBecomesRead`.

`SerialSpec` is `Spec` restricted to steps after which no two open transactions
have read the same hold, block or external reservation. It is not a claim
about the code: it separates the bookkeeping, which is right, from the races
over rows, which are not. Deadlock checking is off where the bounds on requests
let the system come to rest.

Five more runs each find a violation of a sentence in the repository, which
`PROJECT.json` quotes with its line:

| run | sentence | what the code does |
|---|---|---|
| `double_submit` | at most one of two contending requests succeeds | two bookings consume one hold |
| `sla_overwrite` | the transition is validated against the state machine | the sweep expires a booking that was confirmed after it was read |
| `cancel_capture` | refund_status is always well defined, never silent | the void loses to a capture in flight and the money is forgotten |
| `redelivery` | a redelivered event is an already-handled no-op | an event whose processing failed is never processed |
| `email_retry` | a provider's timeout or error is no longer a silent drop without a second attempt | the adapter turns it into an answer, so the job succeeds and is not tried again |

The models contain more behaviours a sentence of the repository does not admit.
No run is kept for them; each is in the `note` of its hazard:

* two requests over two units lock in the order of the request and wait for
  each other (`DeadlockVictim`);
* expired, unswept holds count as confirmed in `getAvailabilityBreakdown`;
* the same desired total of a day, set twice, is subtracted twice;
* a CSV row reported FAILED leaves its reservation and its first days behind;
* a blackout created while a hold request waits for its rows is not seen;
* two releases of one hold give its unit back twice;
* a booking confirmed during a checkout's provider call keeps an authorization
  that nobody captures;
* a capture and a void of one authorization can both be with the provider;
* a payment recorded as REQUIRES_ACTION refuses the AUTHORIZED that ends the
  3-D Secure challenge;
* `refunded_amount` is reserved before the provider is called, although
  `refundStatusTransitions.js:6-8` says it is only updated once a refund
  reaches SUCCEEDED (`RefundedIsReserved` says what the code does);
* AUTO_REFUNDED is written for a refund that is still PROCESSING, and stays when
  it fails;
* a PATCH to ACTIVE shows a failing connection as connected, although
  `inventoryConnectionService.js:331` says it is never falsely shown so, and its
  recovery is not told; a run that ends writes ACTIVE over a pause;
* a refund webhook that comes before the refund's id is stored is dropped, and a
  payment becomes REFUNDED while a part of it is only pending;
* a feed event that was cancelled and comes back takes no room, and two
  overlapping runs give the room of one event back twice;
* a sweep or an approval writes over a cancelled promotion, and two requests
  together are granted overlapping periods;
* two editors leave a blackout that ends before it starts;
* two tabs that refresh at once log the user out, or leave two live tokens;
* two messages sent at once wait for each other, and one is lost.

## Fairness

`FairSpec` adds weak fairness of the row writes and of the endings of each
connection: MySQL grants a lock that has become free and the service's loop takes
its next step. It adds strong fairness of starting a sweep. The job is
repeated every 30 seconds and the pool's queue is first-in first-out, so a sweep
is served although other requests keep taking the connection that has become
free. Nothing else is fair: no customer has to come back. The run has one
lost transaction at most; a fault forever repeated would starve anything.

`PlatformFairSpec` is a conjunction of the fairness of the components.
`BookingsFairness` is weakly fair of each step of the SLA sweep, a job repeated
every 15 minutes whose transaction goes on once it is open. For payments it is
weakly fair of `Progress`: a running process gets on with what it has begun, and
Stripe delivers its webhooks. `Progress` as a whole is enough, since each of its
steps brings a finite chain nearer to its end. `noFaults` allows no fault because
a follow-up lives in memory only and a crash loses it: with a fault the property
is false, and no sentence of the code promises it. `RefundsFairness`: a request
that runs goes on, Stripe settles what is pending and delivers each event.
`ConnectionsFairness`: the job is repeated every few minutes and some run goes
on. `AdvertisingFairness`: the hourly sweep starts again, a request that has
read writes, and, since a sweep may die, strong fairness of its writes: not
every run dies. `MessagingFairness`: an open window polls and its requests are
answered; that it is used is a premise of `ShownBecomesRead`, not fairness.
Customers, vendors, banks, partners and administrators may do nothing at all.

In a scope of one component the fairness of the others asks nothing, because
nothing of theirs is enabled in their initial states (a sweep with no row due, no
pending refund, no connection, an empty thread). `Bookings` and `Payments` share
`status`: the fairness of `Payments` names its scope, and in `noFaults`, where the
sweep stands still, `BookingsFairness` leaves only the behaviours whose booking is
answered. Nothing is lost by that, since `DecisionSettlesAuthorization` begins with
the answer; what the sweep does with a request nobody answers is `RequestsEnd`, in
the scope `bookings`.

## Proofs

Checked with TLAPS, for every value of the constants that satisfies the named
assumptions of the modules: capacities positive, bounds natural numbers,
requests, units and events finite, a stay or range that does not end before it
starts. The code justifies the last one: the validators refuse a `dateTo` before
`dateFrom`, and a CSV row that gets past them makes `enumerateDates` throw, which
rolls the row back. Every safety property of the runs, invariant or action
property, and both refinements are theorems.

**Capacity engine** (`Availability_proofs`, `Conservation_proofs`). `EngineInv`
is inductive (`EngineInvariance`) and has four parts.

* `IInv`, the types with `FiniteRows`: ids and quantities are cardinalities, and
  the order of a transaction's stays is a sequence only if they are finitely
  many. `TypeCorrect` and `NothingNegative` follow.
* `OpenInv`: unlocked rows have no uncommitted write, idle connections have no
  locks, and a transaction placing holds has locked, and found open, every day
  its cursor has passed. A row checked early is protected by its lock until the
  commit; `AdvancePassesOneSlot` shows the cursor skips nothing. `OpenDaysOnly`.
* `WriteInv`: what a transaction's draft and the committed row differ by is
  what it has written so far, slot by slot.
* `TablesInv`: ids are unique and of the request that made them, and what a
  snapshot has read is still a set of rows, even if they were deleted since.

`CapacityIsNeverLost` follows from these: each commit adds to calendar and tables
together at least what it takes from them, whatever races (`StepBalance`).
Its hypothesis `EditsNeverLower` says that no calendar edit asks for less than the
unit's capacity: an edit that does is not a loss but the owner's wish to sell
less. The run `races`, which has no edits, and every constant that has none
satisfy it.

`BooksBalance` (`Conservation`, of `SerialSpec`) needs two parts more, in
`SerialInv`: no two open transactions have read the same row (`OneAtATime`, which
is the restriction of `SerialSpec`), so that what one has read is still there
when it commits (`StillThere`). It supposes `TotalsStay`, no edit changes what
there is to sell, and `ImportRequests = {}`: a row of a CSV upload that fails in the
middle leaves its first days behind (a hazard in `PROJECT.json`), so with imports
the equation is false. Both are constants, and the run `accounts` has the values
the theorem supposes. `SerialNeverOverbooks` draws the conclusion a customer
cares for: what is taken of a slot never exceeds the capacity.

`SerialImplementsInventory`, under the same hypotheses. Initial states map to
initial states; a step that is no commit changes neither `Free` nor `Claims` and is
a stutter; a commit grants, returns or converts (`CommitGrantsOrReturns`). That it
may, because what it grants is free, follows from `Conservation` after the step;
that its claims can be counted, from `FiniteRows` (`ClaimsAreRows`).

**Bookings and payments** (`Payments_proofs`).

* `BookingsTyped`, `CapacityFollows`, `EndedStaysEnded` and, with everything that
  goes on about its payment, `EndedStaysEndedWhilePaid`. `BookingsInv`, the types
  and `CapacityFollowsStatus`, is inductive: a request restores exactly when it
  ends a booking without a stay, and the sweep, which writes over anything but
  DRAFT, restores and stamps EXPIRED together.
* `PaymentsTyped`, `OnePayment`, `SummaryAgrees`, for both providers.
  `PaymentsInv` needs `RowInv` beside the properties: it ties the stage of a
  checkout to its row, and says that every row a job or a webhook reaches has
  its provider id, so that the same answer again changes nothing. Without it an
  old answer that repeats its status could write the summary of a newer payment.
* `ChargedIsAccepted`. `ChargeInv` says that consent is stable (`Accepted`: a
  booking that is neither open nor rejected stays so) and that everything that
  leads to a capture, a decision waiting after its commit, a capture job, a
  checkout that read CONFIRMED, implies it.
* `BooksAgree`. `BooksInv` says that whatever is on its way to a row, an
  event, an answer that a job holds, the row itself, is about a status its
  intent has been in (`WasIn`), and that what an intent has been in, as far
  as money goes, it has been in for good (`Follows`). So no order of late words
  can make a row say SUCCEEDED or CANCELLED of an intent that is not.

**Refunds** (`Payments_proofs`). `RefundsInv` joins the properties with what a call
has inserted at each of its steps (`RefundRowInv`), what Stripe has made of it
(`StripeRefundInv`), the unique key (`OneRowPerKey`) and the roll-up
(`RolledUpInv`). `ReservationsAddUp`, `StripeRefundsOncePerKey`, `LedgerIsOfRefunds`,
`RefundedIsAll`, `RefundsTypes`, and `RefundStatusEarned`, which needs beside them
what the automatic refund was asked for and what may have been refunded since
(`EarnedInv`). `RefundsImplementEscrow`: each step of a refund is
one step of money that is set aside, paid out or put back, or a stutter.

**Feeds, promotions, blackouts** (`Listings_proofs`).

* `RoomIsAccounted`, `FeedIsMirrored`, `PartnerKnows`, `ConnectionsTypes`. An import
  is a fold over the events of the feed; `EventsInOrder` and `RemovalsInOrder` turn
  it into the transaction after each event. `ImportedSoFar` holds along it: the
  places add up, the events behind are as in the feed or reported, those ahead
  are as they were. `ConnectionsInv` says, while runs do not overlap, that a run
  finds the rows it has read (`RunsAreFresh`), and that one which has loaded an
  error knows the last word about it, while beside one that has loaded none the
  connection is in none (`LoadedIsKnown`), whatever a PATCH writes. `FeedAssumption` states that a
  calendar has an event once; a feed that repeats a UID is outside of the model.
* `ShownArePaid`, `PeriodsAreApart`, `RemindersAreSent`, from `AdsInv`; `BlackoutsAreKept`,
  from `RangesInv`. Each has a part that holds whatever overlaps and one that
  holds as long as nothing has.

**Staff and sessions** (`Users_proofs`). `DeadLinks` needs no more
than the unique keys and that a request is about a row that exists; `TheCookieWorks`
needs that, between requests that do not overlap, the token that a request has
sent is the one live token; `SessionsEndForGood` that a family that is over is never
joined again, whatever overlaps.

**Notifications and messages** (`Users_proofs`). `MailsAgainOnlyAfterFault`
counts, for each notification, the mails against the rows, the answers that were
lost and the attempts that are left.
`ReadMessagesWereSeen` follows every read position there is or is about to be, on
a screen, in a request, in the table, and finds nothing unseen within a page below
it.

**The platform** (`Platform_proofs`). The runs `stripe`, `platform` and `progress` explore
one component at a time. `PlatformIsItsComponents` says that what they explore is
behaviour of the components: for every set of scopes, a behaviour of the platform
is one of each component, since a step of the platform is a step of one and leaves
the variables of the others alone (`StepsAreComponentSteps`). So every safety
property that `stripe` and `platform` check of an instance holds of all of
them: `PlatformTyped`, `PlatformMoneyIsSafe`, `PlatformListingsAreSafe`,
`PlatformUsersAreSafe` and `PlatformDoesNotGoBack`.

**The promises** (`Promises_proofs`). A refinement is worth what the abstract
specification is worth. `StockIsBalanced`: in `Inventory` free and claimed units of
a slot always make up its capacity and neither is negative, by splitting what is
claimed before and after a step into what stays, goes and comes (`DemandSplits`).
`PurseIsCovered` and `PaidStaysPaid`: in `Escrow` what is set aside and paid never
exceeds what was captured, and what is paid stays paid; the invariant adds that
no refund is both set aside and paid. Finitely many refunds and capacities that are
functions into the numbers are their hypotheses; the refinements meet them.

**Sums and folds** (`Sums_proofs`). The models add with `MapThenSumSet` and apply
with `FoldLeft`, which choose a function that satisfies a recursion. That there is
one, and that a sum over a finite set counts the units of its values (`SumIsCount`),
is proved by the smallest counterexample: a set of numbers, or of finite sets,
that is not empty has a least member, so an induction needs no theorem with an
operator for a parameter.

Only model-checked: liveness (`ExpiredHoldsReturn`, `RequestsEnd`,
`DecisionSettlesAuthorization`, `CancellationsAreDecided`, `PendingRefundsResolve`,
`RemovedEventsFreeRoom`, `NothingStaysDue`, `ShownBecomesRead`), because liveness under
fairness is out of the prover's reach.

## Not modelled

`PROJECT.json` lists every component with its reason. In short:

* Of the engine: `updateUnit` changing a capacity while days are consumed,
  prices, the ledger. Of payments: amounts of a checkout, and the gap locks of two
  checkouts that insert at once, which can only make one the victim of a
  deadlock. Of connections: a PATCH that gives another address, the export feed, a feed that repeats a UID, and
  the retries inside one HTTP request. Of sessions: password
  reset, verification and the login lock-out.
* Listings, partner applications and reviews are a read, a check and a write
  on one row. Their races have the shape of those in `Advertising` (a status
  overwritten by a check that was stale), and reviews have a unique key.
* Search, the assistant, blog, CMS, media, favorites, contact, users and
  administration are reads, calls to outside models, or single statements.
* The web application is forms, lists and pages. Two of its parts take part in a
  protocol and are modelled (the token client in `Sessions`, the chat window in
  `Messaging`); the checkout page is a hazard in `PROJECT.json` without a model.
* Demo seeds, migrations, translations, styles and generated pages hold no
  behaviour. They are most of the lines of the repository, so the models map a
  small share of its lines although they cover nearly all of its concurrent
  state.
