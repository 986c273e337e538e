# Formal models of the Hamidian Silver shop

This directory holds TLA+ specifications of the shop's server, the TLC
configurations that check them on small instances, and proofs, checked by TLAPS,
of what holds for every instance. The reference is the code: `PROJECT.json`
names, for every definition that stands for code, the lines it was written from.
Paths below are relative to `src/apps/api/src/modules/` unless they start with
`src/`.

    tlc -config MCCheckout_stock.cfg MCCheckout      # a check
    tlapm Checkout_proofs.tla                        # its proofs

## The system

The repository is a shop for silver jewellery: a NestJS API (`src/apps/api`) over
PostgreSQL (Prisma), two Next.js applications (storefront, administration) that
only talk to the API, and a stateless Telegram relay. All shared state is rows of
the database. Whatever runs concurrently does so as database transactions at
isolation level READ COMMITTED: HTTP requests of customers and staff, callbacks
of payment gateways, and the jobs every replica of the API runs each minute.

### Inventory of components

| Component | State | Operations | What is hard |
|---|---|---|---|
| Orders (`orders/orders.service.ts`) | `Order.status`, `reservationExpiresAt` | place, cancel, fulfilment statuses | races with payment and expiry; claims filtered on other rows |
| Expiry (`orders/order-expiration.*`) | none of its own | sweep of due orders each minute | reads before it claims; orders it skips; batch limit |
| Inventory (`inventory/*`) | `onHand`, `reserved` of a variant in a warehouse | reserve, release, sell, correct | compare-and-set contention; double release; limits of the column |
| Payments (`payments/*`) | `Payment.status`, `PaymentAttempt.status`, redirect data, reconciliation rows | initiate, callback, receipts and review, reconcile, resolve, recover | lost, late, repeated and contradictory gateway answers; crashes between gateway and database |
| Gateway adapters, settings (`payments/adapters`) | configuration | translate gateway protocols | environment of the payments model |
| Customer outbox (`notifications/notification-outbox*`) | event rows with status, attempts, lease | enqueue, lease, send, settle, quarantine, staff decisions | leases that end, duplicates, crashes, partial failure |
| Stock subscriptions (`notifications/stock-notifications*`, trigger) | subscription status | subscribe, queue (trigger), notify | two updates without a transaction |
| Alert and admin-message outboxes | event rows like the above | lease, send, settle | as above, other senders |
| Refunds (`finance/payment-refunds*`) | `refundAllocatedToman`, `refundedAmountToman` and status of a payment, refund rows | create, confirm, cancel | allocation races; the status is computed from an earlier read |
| Returns (`orders/order-returns*`) | return rows, allocated and returned units of order items, supplier credits | authorise, create, receive, cancel | allocation races; stock is written back as read plus the units |
| Shipping (`shipping/*`) | shipment, provider creation state, parcel id, tracking lease | choose a rate, create, create by hand, reset, track, set the status | provider answers late or never; missing `await`; states written back as read; order and shipment move each other |
| Plating (`plating/*`) | one plating row per order | start, complete, cancel | gates the parcel |
| Costs, payables, settlements, credits (`finance/*`) | payables, settlements with their totals, credits with their balance, applications | pay, collect, apply, remove, settle, cancel | totals claimed by value under concurrency; what is paid must stay paid |
| Pricing (`pricing/*`, `common/toman.ts`) | rates | compute prices | rounding, limits |
| Catalog (`catalog/*`) | products, variants, bundle recipes | edit | recipe changes against open orders |
| Authentication (`auth/*`) | codes in the table `otpChallenge`, sessions | request, verify | attempt limits under concurrency |
| Supplier imports, site settings, guide, SEO, users, audit, health | single rows | edit, list | little |

### How the components interact

Placing an order reserves stock in the same transaction (`reserveInventory`). A
payment request locks the order row (`lockOrderRowForUpdate`), creates payment and
attempt, commits, and only then calls the gateway; the answer is stored by another
statement. The gateway calls back; the handler asks the gateway to verify and then
finalizes in a transaction that claims order, stock, attempt and payment, or
records a reconciliation. A card-to-card receipt moves payment and attempt to
review and the deadline of the order by seven days; staff confirm or reject it.
The sweep expires due orders and releases their stock; customers and staff
cancel. Most of these transactions also write an outbox event. A rise of the
available stock makes a database trigger queue the subscriptions of the variant.
The outbox worker leases events, sends messages and settles them.

After payment the order is prepared: plating, then a parcel at the shipping provider
(claimed in one transaction, asked for outside it, recorded in another) or one that
staff carry out by hand. Staff and the tracker set the shipment's status, and the
order follows it (`syncOrderStatusForShipment`); staff also move the order itself.
Refunds change the payment only. A return allocates units of the order's items; when
it is received each item goes back into the stock or to its supplier, who then owes a
credit. What the shop owes the supplier (payables) is paid one by one or collected in
settlements, to which credits are applied.

The idiom shared by nearly all of the code is the *claim*: `updateMany` with the
expected status in its `where`, followed by a check that one row was changed. A
failing claim throws and rolls the transaction back. What the code reads and does
not claim again can be stale; that is where the hazards are.

### What makes each component correct

- Stock: what is reserved is what open orders hold; nothing is promised twice.
- Orders: a decision (paid, cancelled, expired) is made once; a due order leaves.
- Payments: order, payment and attempts agree; captured money is never lost
  without a trace; a reconciliation can be resolved.
- Outbox: one holder per lease, bounded retries, duplicates only for a known
  reason, every event is settled in the end.
- Sweep: every due order is reached, whatever is in front of it.
- Fulfilment: order and shipment tell the same story and never go back; one parcel
  per order, never lost, never replaced.
- Refunds, returns, credits: what is promised stays within the limit, is redeemed
  once, and every total is the sum of its rows.
- Settlements: a payable is paid once; what is paid stays paid.

The hazards found in the code, each with its line and the properties that watch
it, are the list `hazards` of `PROJECT.json`.

## Modules

| Module | Role |
|---|---|
| `Checkout` | orders, stock, expiry, gateway payments, receipts, reconciliation, recovery |
| `Reservation` | abstract specification: what buyers are promised about stock |
| `MCCheckout` | instances of `Checkout` for TLC |
| `Checkout_proofs` | theorems about the stock of `Checkout`, including that it implements `Reservation` |
| `CheckoutMoney_proofs` | theorems about its payments: paid and expired orders, captured money, reconciliations |
| `OrderHandover`, `OrderHandover_proofs` | composes `Checkout` with `Fulfillment` and `ExpirationSweep`: it does to their rows only what they allow |
| `ExpirationSweep`, `MCExpirationSweep` | the batches of the minute scheduler: which orders a sweep gets to |
| `NotificationOutbox` | outbox rows, workers, leases, staff decisions, stock subscriptions |
| `MCNotificationOutbox` | instances for TLC |
| `NotificationOutbox_proofs` | theorems about `NotificationOutbox` |
| `Fulfillment`, `MCFulfillment` | one order from the choice of a rate to delivery: plating, parcel, statuses, tracking |
| `Fulfillment_proofs` | theorems about `Fulfillment` |
| `Allowance` | abstract specification: a bounded quantity given out in pieces |
| `PaymentRefunds`, `PaymentRefunds_proofs` | the refunds of one payment, implementing `Allowance` |
| `OrderReturns`, `MCOrderReturns`, `OrderReturns_proofs` | returns of an order's items, restocking, credits; `Allowance` per item |
| `SupplierLedger`, `SupplierLedger_proofs` | extends `OrderReturns` by payables, settlements and credit applications; `Allowance` per credit |
| `MCSupplierLedger` | an instance of the last three for TLC |

`Fulfillment` begins where `Checkout` ends: its `PaymentStarts`, `PaymentSettles` and
`OrderCloses` are what it sees of `Checkout`, and `PaymentRefunded` what it sees of
`PaymentRefunds`. `ExpirationSweep` sees of `Checkout` the moves of an order between
OPEN, PROTECTED and LEFT. `OrderHandover` says how the rows of `Checkout` look to the two
and instantiates them with that (`HandsOver`), so that what they take for granted is
checked and proved rather than assumed. `SupplierLedger` composes with `OrderReturns` by extending it: a credit
exists once `Receive` has created it. `StockMoves` of `OrderReturns` is what it sees of
the sales and corrections of `Checkout`. The specifications without shared rows are
kept apart, since a product would only multiply states.

### Checkout: state and actions

`order`, `payment` and `attempt` are the status columns; `due` says whether
`reservationExpiresAt` has passed; `redirect` whether authority and URL are
stored; `onHand` and `reserved` are the inventory columns. Transactions in
progress are `cancelling`, `expiring`, `request` (one per idempotency key) and
`callback` (one record per delivery: its step and what it has read). `bank` and
`captured` are the gateway's and the API's knowledge of the money; `interrupted`
remembers deliveries that ended after a successful verification without recording
it, and exists only to state `CapturedMoneyAccounted`.

A transaction is one committing action, guarded by the claims it makes on current
rows. Reads that are used later without a new claim are actions of their own:

- `CancelReads` / `CancelCommits` / `CancelAborts`. The `where` of the claim names
  the order's status and the payment's. When the statement had to wait for the
  order row, PostgreSQL evaluates the condition again on the new order row, but
  other tables are seen as of the statement's snapshot. So the order's status is
  in the guard of the commit, and the payment's in the guard of the read.
- `ExpireReads` / `ExpireCommits` / `ExpireAborts` likewise; expiry also updates the
  payment and rolls back when a payment it had read as PENDING has moved on.
- `FinalizeReads` takes the inventory values of the compare-and-set;
  `FinalizeCommits` needs them unchanged, `FinalizeConflicts` is the
  `ConflictException` that `verifyCallback` turns into a reconciliation.
- `ReconcileReads` / `ReconcileCommits` / `ReconcileAborts`: the statuses read are
  claimed, except a settled payment, which is left alone.
- `CheckPayable` holds the order row (`RowLocked`) and has looked at the clock;
  `CreateAttempt`, `SubmitReceipt` and `NotPayable` end its transaction. Claims on
  the order row wait for it.
- `CallbackDies` and `RequestDies` end a request at any step.

A read of attempt, payment and order spread over several statements is one
action: each status is either claimed again with the value read or leads only to a
handler that reads again, so a mixed read is equal to one at a single moment.
`RejectReceipt` reads the order's status and does not claim it; a cancellation
that commits in between would have committed as well after the rejection.

Left out: amounts and snapshots of prices; the seven-day hold as a duration (the
deadline a receipt moves does not pass while an expiry transaction that read the
old one is open, since that lives for seconds); the two minutes before an
initiation may be recovered; movements, audit and history rows; idempotent
replays, which change nothing. `PAID` stands for PAID and the fulfilment statuses
after it, and a payment's `PAID` for itself and the statuses that refunds of a paid
payment lead to. Orders reserve in the one default warehouse; the units of an order
(`Need`) are what `resolveVariantInventoryRequirements` makes of its items, bundle
recipes included, and do not change while the order lives. An inventory conflict
of a cancellation, an expiry, an order or a receipt's confirmation rolls back and
is therefore as if it had not begun. `bulkSetStock` is `AdjustStock`, per variant. The status of a reconciliation row follows
from that of its attempt and is not kept apart.

### NotificationOutbox: state and actions

`status` and `attempts` are the columns. A lease is the value of `claimedAt`;
every claim also increments `attempts`, so `worker[w].claim`, the value of attempts
at the claim, stands for it. `due` and `stale` say whether `nextAttemptAt` has
passed and whether the lease has ended. `worker` holds for each process the event
in hand, the step and the lease it knows; a batch is handled one event after the
other with values read at its start, so `Pick` reads and every later step may come
arbitrarily late. `accepted` records what the provider took, per claim;
`approvals`, `confirmed`, `unrecorded` and `forgotten` are histories the properties
refer to.

`RecordSentFails` is a database error at the update to SENT, which the code handles
as an error of the send. Errors elsewhere in the batch end it, which `WorkerDies`
covers. The backoff's length, the texts and the feature flag for stock messages
(taken as on) are left out. `ORDER` events differ from stock events only in having no
subscription.

### ExpirationSweep: state and actions

`Checkout` lets any due order be the next to expire. Which order really is next is
the business of `expireDueOrders`: `OldestDue` is its query (ordered by deadline, at
most `Take` rows, orders that cannot expire included, since the query cannot tell),
`Expire` and `Skip` the loop over the batch, `SweepFails` an exception that ends it,
`isRunning` the guard of the scheduler. `OrderMoves` is everything else that takes an
order into, through and out of the states in which `expireOrder` skips it. Deadlines
pass in their order; the seven days a receipt adds are left out.

### Fulfillment: state and actions

`order`, `payment`, `plating` and `shipment` (status, `providerCreationState`,
`providerShipmentId`) are rows; `lease` is the token of the tracker. `creation`,
`editor` and `tracker` hold the progress of concurrent requests and what they have
read. `registered` is the provider's knowledge and `excused` remembers which creation
requests staff have overtaken (a reset, or a status request that undid the claim); it
exists only to state `OneParcel` and `ParcelTraced`.

- `createProviderShipment` is `BeginCreation` (readiness and claim), a call that may
  register a parcel at any time after it (`ProviderRegisters`, also after the API has
  given up), `ProviderAnswers` or `CallFails`, and `RecordParcel`, `RecordEscapes` or
  `RecordFailure`. `RecordEscapes` is the missing `await`: a failure of the recording
  transaction does not reach the catch block. The readiness is computed a moment
  before the claim; what it reads and the claim does not repeat (the order is PAID or
  PROCESSING, plating is ready) cannot change back, so both are one action.
- `updateStatus` of the shipment is `EditReads` and `EditCommits`, which claims only the
  status and writes back the creation state it has read.
- `syncTracking` is `BeginTracking` (lease), `ProviderReports` (any report, however
  old), `FinalizeTracking`, `TrackingFails`; a tracker may die with its lease.
- `UpdateOrderStatus` is `updateStatus` of the order, whose claims cover its reads.

Staff who reset a creation have looked for the parcel and found none (that is what
`confirmNoProviderShipment` says), so `ResetProviderCreation` needs an empty
`registered`; a call they overtake may still arrive. The ids staff enter belong to
parcels they know of, and are entered with the step to READY. `CLOSED` is CANCELLED or
EXPIRED, payment `REFUNDED` includes a partial refund. Tracking codes, carriers, costs
and outbox events are left out.

### PaymentRefunds, OrderReturns, SupplierLedger: state and actions

Rows are records of their columns; `request`, `clerk` and `keeper` are concurrent
requests of staff with what they have read. An operation whose claims repeat all it
has read is one action (`CreateRefund`, `CreateReturn`, `CancelReturn`, `MarkPaid`,
`CreateSettlement`); the others are a read and a commit (`ConfirmReads`/`Confirms`,
`CancelReads`/`Cancels`, `ReceiveReads`/`Receive`, `ApplyReads`/`ApplyCredit`,
`RemoveReads`/`RemoveCredit`, `CloseReads`/`PaySettlement` and `CancelSettlement`). A
failing claim, an early return and a crash roll back: `RefundRequestEnds`, `ReceiveEnds`,
`KeeperEnds`. Sums over sets of rows are cardinalities of sets of units, so that nothing
recursive stands in the way of the proofs.

Left out: the uniqueness of bank references and the figures copied into the order's
financial snapshot; who may ask for a return and the authorisation of a late one;
warehouses, and bundles in returns (each item has a stock row of its own); the
settlement status VOIDED, which no code sets; suppliers other than one, since every
operation is within one supplier. `restockItem` reads the stock a moment after the
other reads of `receive`; it compares with what it has read, so the earlier reading only
makes it fail more often. `MaxMoved` bounds how far other movements take the stock.

## Checks

| Run | Instance | Shows |
|---|---|---|
| `checkout_stock` | two orders, one gateway attempt for the first, one receipt for the second, one variant with 1 unit and room for 2, two callbacks | TypeOK, ReservedMatchesPending, NoOversell, PendingOrderSettleable, DecisionsAreFinal, KeepsPromise |
| `checkout_payments` | one order, two gateway attempts, one receipt, two callbacks | PaidOrderIsBacked, CapturedMoneyAccounted, OpenReconciliationResolvable, ExpiredOrderIsClosed, HandsOver |
| `checkout_liveness` | one order, one gateway attempt, one receipt, two callbacks | DueOrdersLeave, CapturedMoneyRecorded |
| `receipt_cancelled` | one order, attempt, receipt, callback | violation of ReviewedOrderNotCancelled |
| `contention` | two orders of one variant | violation of PayableMoneyFinalized |
| `outbox_leases` | two workers, one stock message, one silent event, three automatic attempts, one approved retry | TypeOK, RetriesBounded, DuplicatesExplained, NoConcurrentSends, SubscriptionFollowsMessage, LiveLeaseIsRespected |
| `outbox_settles` | two workers, one stock message, three automatic attempts, one approved retry | EventsSettle |
| `outbox_failed` | two workers, one order message | violation of FailedMeansRefused |
| `sweep` | four orders, two of them due together, batches of two | SweepReachesDueOrders |
| `fulfillment_parcel` | one order, two creation requests, one status request, one tracker | FulfillmentTypeOK, OrderFollowsShipment, ParcelAndStateAgree, OneParcel, ParcelTraced, ParcelNeverReplaced, MovesForward |
| `returns_overlap` | two items, three returns, two clerks, stock moved by one unit either way | QuantitiesMatchReturns, ReturnedUnitsGoSomewhere, ReturnsKeepAllowance |
| `aftersales` | a payment of 3 with four refunds and two requests; two items, two returns, one clerk; two payables, settlements, applications and requests | LedgerTypeOK, SettlementsAddUp, CreditsAddUp, PaidIsFinal, CreditsKeepAllowance; RefundsTypeOK, TotalsMatchRefunds, StatusFollowsRefunds, RefundsKeepAllowance |

Why these bounds suffice: with one unit and two orders every reservation is
contended; the second unit lets stock corrections win and lose; two deliveries
are enough for every pairwise race of callbacks on one attempt or on two
attempts; two attempts plus a receipt give every way in which a payment can be
settled twice. An attempt is used once (idempotency key), so all counters are
bounded by the instance. In the outbox two workers give every race for a lease, three
attempts a first, an inner and a last retry and an exhausted event, one approval a
retry past the limit and a sender that hangs beside a new one; `MaxAttempts` is 8 in
the code, `MaxApprovals` bounds what staff may do without limit. The events of the
outbox share nothing but the workers, so one contended event is enough for liveness.

In `fulfillment_parcel` two creation requests give a reset that is overtaken by a
late parcel, and a second parcel; one status request and one tracker give each of them
every step of the others to be stale against, and the order's own status request
needs no reads. In `returns_overlap` one return is about everything that was sold and
two are about one unit each of the same item, so that returns exclude each other or
share an item; two clerks receive the same return, or two of them, over reads that the
other, a cancellation or a sale has made old. In `aftersales` three small refunds use up
the payment that the larger one wants most of; two applications, two settlements and two
requests race for a credit of 2 (units priced at 1), which one clerk's receipt of a
return creates. `side` runs one of two groups of actions at a time: returns with the
supplier's accounts, refunds. They share no rows, so nothing is lost; the stock of
returned items is no part of the accounts and stays put there (`MaxMoved` is 0).
In `sweep` batches of two with four orders let protected orders fill a batch, or nearly.

Symmetry is used for callbacks, gateway attempts, outbox workers, requests of staff and
rows of one kind and size in the runs that check safety only; their constants are
interchangeable in the instance (all attempts are for one order, or there is one of
them; the workers run the same job). Deadlock is
checked in the runs of `Checkout` (stock can always be corrected) and in
`returns_overlap` (stock can always move); an outbox whose
events are all settled may stop, and so may an order that is delivered and a ledger
whose rows are all closed.

### Fairness

`Checkout!FairSpec`: the sweep reads every due order that may expire (weak fairness
of `ExpireReads`, the job runs each minute), an open expiry transaction gets its
row and ends, a transaction that holds the order row ends, and a callback's
handler goes on. Where the wait is for a row lock that others may take again and
again fairness is strong: PostgreSQL queues waiters. Customers, staff, the gateway
and repeated callbacks are not fair. `DueOrdersLeave` therefore rests on the sweep
alone, and `CapturedMoneyRecorded` allows for deliveries that were cut short. Weak
fairness of `ExpireReads` is right where a batch has room for every order, as in the
instance with one order; the batch limit is the subject of `ExpirationSweep`.

`DueOrdersLeave` is about orders whose payment is PENDING, CANCELLED or absent. The
others are skipped by `expireOrder` and left to staff: a receipt under review, a
reconciliation that is open, and also one that `resolveExternalRefund` has closed. The
last, an order whose money was returned, keeps its stock reserved past its deadline
until it is cancelled by hand; nothing in the repository says that it should not.

`NotificationOutbox!FairSpec`: time passes; each event that stays selectable is
picked (batches are ordered by `nextAttemptAt`); and a worker proceeds with what it
has picked, sooner or later, even if its process dies now and then.

`ExpirationSweep!Spec`: the scheduler ticks and ends a sweep that is through (weak
fairness), and an order that is next again and again is dealt with in the end: a sweep
may be cut short, but not always before the same order, and receipts do not come and
go in step with the sweep (strong fairness of `Expire` and of `Expire \/ Skip`).
Decisions of staff are not fair, hence the condition of `SweepReachesDueOrders`: when
orders under review fill a batch again and again, no younger order expires, and the
property without the condition is violated.

### Findings

- `receipt_cancelled`: a cancellation whose claim waited for a receipt submission
  cancels the order under review; the receipt can then be neither confirmed nor
  rejected.
- `contention`: `Inventory changed; payment finalization must retry.` - nothing
  retries; a payable payment is handed to reconciliation.
- `outbox_failed`: a message the provider accepted can be left FAILED and is sent
  again, contrary to `src/docs/kavenegar-order-templates.fa.md`.

`SubscriptionFollowsMessage` holds, but names what it has to except: a subscription
whose message staff declared sent, or whose worker stopped after SENT, stays QUEUED,
and the unique index then refuses its customer a new one.

Every property of a passing run has a mutant in `PROJECT.json`: a change of one
mapped definition, the way a plausible bug would make it, that breaks it.

## Proofs

`Checkout_proofs`, for every finite set of orders and any sets of attempts,
variants and callbacks, from `CheckoutAssumption`:

- `TypeCorrect`: the type invariant, by cases over the actions.
- `StockInvariant`: the inductive invariant. `ReservedMatchesPending` alone is not
  inductive: a release must not go below zero, which needs the types, and a sale
  must find its units on hand, which needs `NoOversell`. The conjunction is
  inductive because an order's units are a subset of the units all pending orders
  hold, and cardinality follows (`UnitsCounted`, `HeldGrows`, `HeldShrinks`).
- `ReservationConserved`, `NeverOversold` and `PendingOrdersSettleable` follow from it.
- `ImplementsReservation`: with `claim` and `available` as the refinement mapping
  every step of `Checkout` is a step of `Reservation` or leaves its variables alone.

`CheckoutMoney_proofs`, from the same assumption: `PaidOrdersAreBacked`,
`CapturedMoneyIsAccounted`, `ReconciliationsResolvable`, `ExpiredOrdersAreClosed` and
`DecisionsStayFinal`. None of the four invariants is inductive: each rests on what requests,
callbacks and expiries in progress have read. `MoneyInv` adds

- `LockHoldersAreFresh`: a request that holds the row of an order has found it awaiting
  payment and has no attempt yet, so that an attempt is never made twice and never for
  a decided order. It is inductive because every claim on the row waits for the lock.
- `OnlyMadeAttemptsAreKnown` and `CallbackReadsHold`: a callback is about an attempt that
  exists; the status it will compare its update with was not a recorded one, so an update
  that wins cannot overwrite recorded money; and a payment it has read as settled still is
  when it leaves the payment alone.
- `ReviewStopsExpiry`: while an expiry is open, an order whose receipt came under review
  after it has a new deadline, so the claim on the deadline fails. Without this an
  expired order could keep a payment under review.
- `PaidOnlyByOrder`: a payment is PAID only with its order.

`MoneySteps` says for each of some forty actions which of ten changes it makes to order,
payment and attempt; the lemmas about the conjuncts are by cases over these.

`OrderHandover_proofs`: `CheckoutHandsOver`, from `MoneyInv` and the fact that an attempt has
a payment (`AttemptsHavePayments`): without it a reconciliation could begin the payment of a
closed order, which `Fulfillment` does not allow. An order reaches LEFT once and for all
because decisions are final.

`NotificationOutbox_proofs`, for any events and workers, from `OutboxAssumption`:

- `OutboxTypeCorrect` and `RetriesStayBounded`, from `IInv`. The bound is not
  inductive by itself: a claim of a PENDING event has no limit, so the invariant
  says that a PENDING event has an attempt left, which each approval pays for.
- `LeasesAreRespected`: the action property; a claim needs a free or stale row, and
  every other update compares the lease.
- `SubscriptionsFollow`: its invariant `SubscriptionInv` adds that a worker about to tell
  a subscription has had its message accepted and recorded (`MessageIsOut`).
- `DuplicatesAreExplained` and `SendersAreFew`: `DuplicatesInv` counts `Out(e)`, the claims
  whose message is out, or may yet go out from a hanging call, unless its record failed.
  The room for them grows with the approvals, and by one while a message is
  DISPATCHING, SENT or UNKNOWN (`RoomFor`). An event can return to FAILED from
  DISPATCHING only through a worker that was refused, and such a worker knows that
  nothing of its claim is out (`SendsOnce`, `ClaimsApart`, `RefusedIsNotOut`).

`Fulfillment_proofs`, for any creation requests, status requests and trackers, from
`FulfillmentAssumption`: every safety property of the module (`FulfillmentTypeCorrect`,
`OrderAndShipmentAgree`, `ParcelStateAgrees`, `OneParcelMade`, `ParcelsTraced`,
`ParcelsStay`, `OnlyForward`). The inductive invariant `FulfillmentInv` adds what makes
stale reads harmless: `EditsFit` says that a status request that is still allowed to
commit has read a creation state that still fits the parcel, and an order that agreed
with the shipment it read; `OnlyOneAsks` that whoever has begun a creation is
unique or excused; `NoParcelBeforeReady` that a stored parcel means a status from
which the status requests with an id no longer start.

`PaymentRefunds_proofs`, from `RefundsAssumption`: types, `RefundTotalsAgree`,
`RefundStatusAgrees`, `RefundsImplementAllowance`. `RefundsInv` adds what `confirm` and
`cancel` have checked of the payment they have read; since the claim compares totals
and status, it holds of the current payment when they commit.

`OrderReturns_proofs`, from `ReturnsAssumption`: types, `QuantitiesAgree`,
`UnitsGoSomewhere`, `ReturnsImplementAllowance`. `ReturnsInv` adds that allocated units
never exceed those sold, which together with the totals is what keeps `receive` from
failing half way.

`SupplierLedger_proofs`, from `LedgerAssumption`: `LedgerKeepsReturns` (the accounts leave
the returns as they are, so that their theorems hold here too), types (those of the
returns included), `SettlementsAgree`,
`CreditsAgree`, `PaidStaysPaid`, `CreditsImplementAllowance`. `LedgerInv` adds what each
request has read of rows that no longer change. The step that needs an argument is
the cancellation (`CancelMeetsAll`): it takes back the applications it has read and
compares only the settlement's credit total. As all of them are still active, as the
total is still their sum, and as amounts are positive, no other application can have
come in between.

What an allowance guarantees follows from `Allowance` alone (`WithinLimit`), and so holds of
whatever implements it: `RefundsWithinPayment`, `ReturnsWithinSold` and `CreditsWithinWorth`
take it from the refinements.

Every safety property of a passing run, the refinements included, is a theorem. Only
model-checked is liveness (`DueOrdersLeave`, `CapturedMoneyRecorded`, `EventsSettle`,
`SweepReachesDueOrders`), which is beyond TLAPS here, as are ENABLED, induction over data and
RECURSIVE operators; no module uses the latter. The four properties that are violated are
shown by their counterexamples.

## Plan

Done: `Checkout` with `Reservation`, `ExpirationSweep`, `NotificationOutbox`, `Fulfillment`,
`PaymentRefunds`, `OrderReturns` and `SupplierLedger` with `Allowance`, `OrderHandover`, their
checks, and proofs of all their safety properties.

Left, in this order:

1. The outboxes of operational alerts and of administrators' messages: the former
   repeats the customer outbox's protocol, the latter needs a composition with the
   receipts of `Checkout` (a message stored once per order, already on submission).
2. Bundle recipes that change against open orders, and the choice of the default
   warehouse: two hazards no property covers yet.
3. Limits of one-time codes under concurrent verification; pure operators (prices,
   retry delay) against reference definitions.

## Not modelled

User interfaces, gateway adapters, catalog and content administration, imports,
reports, deployment: translation, single-row edits or I/O without a protocol between
actors. `PROJECT.json` lists every component with its reason.
