------------------------------ MODULE Checkout ------------------------------
(***************************************************************************)
(* The life of an order from checkout to payment: stock reservation, the   *)
(* gateway and card-to-card payment paths, cancellation, expiry, and the   *)
(* reconciliation of money that arrives too late.                          *)
(*                                                                         *)
(* A handler is one PostgreSQL READ COMMITTED transaction (or several).    *)
(* Each transaction is ONE committing action, whose guard is the set of    *)
(* claims (`updateMany` with the expected status) the transaction makes on *)
(* current rows; a claim that fails rolls everything back.  Whatever the   *)
(* code read in an earlier statement and does not claim again is taken by  *)
(* a separate reading action and may be stale when the commit uses it.     *)
(***************************************************************************)
EXTENDS Integers, FiniteSets

CONSTANTS
    Order,           \* identifiers of the orders that may be placed
    GatewayAttempt,  \* idempotency keys sent to POST .../payments (gateway)
    CardAttempt,     \* idempotency keys of card-to-card receipts
    OrderOf,         \* the order each attempt is for
    Variant,         \* inventory rows of the default warehouse
    Need,            \* units of each variant the items of an order resolve to
    InitialStock,    \* units on hand of each variant
    MaxStock,        \* upper limit of a stock column (int32 in the schema)
    Callback,        \* requests that deliver a gateway callback
    NoAttempt        \* the attempt of an idle callback request

Attempt == GatewayAttempt \cup CardAttempt

ASSUME CheckoutAssumption ==
    /\ IsFiniteSet(Order)
    /\ GatewayAttempt \cap CardAttempt = {}
    /\ NoAttempt \notin Attempt
    /\ OrderOf \in [Attempt -> Order]
    /\ Need \in [Order -> [Variant -> Nat]]
    /\ MaxStock \in Nat
    /\ InitialStock \in [Variant -> 0..MaxStock]

VARIABLES
    order,       \* Order.status, "NONE" before the order exists
    due,         \* whether Order.reservationExpiresAt has passed
    payment,     \* Payment.status of the order's payment row, "NONE" without one
    attempt,     \* PaymentAttempt.status, "NONE" before the attempt exists
    redirect,    \* whether authority and paymentUrl of the attempt are stored
    onHand,      \* Inventory.onHand
    reserved,    \* Inventory.reserved
    cancelling,  \* cancellations that have read the payment, not yet claimed
    expiring,    \* payment status an open expiry transaction has read, or "IDLE"
    request,     \* progress of the checkout request that created an attempt
    callback,    \* progress and reads of each gateway callback request
    bank,        \* what the gateway holds for an attempt
    captured,    \* attempts the gateway has reported as paid to the API
    interrupted  \* attempts whose successful verification was cut short

db == <<order, due, payment, attempt, redirect>>
stock == <<onHand, reserved>>
inFlight == <<cancelling, expiring, request, callback>>
gateway == <<bank, captured>>
vars == <<order, due, payment, attempt, redirect, onHand, reserved, cancelling,
          expiring, request, callback, bank, captured, interrupted>>

-----------------------------------------------------------------------------
(* Types                                                                   *)

OrderStatus == {"NONE", "PENDING_PAYMENT", "PAID", "CANCELLED", "EXPIRED"}

PaymentStatus ==
    {"NONE", "PENDING", "AWAITING_REVIEW", "PAID", "CANCELLED", "REFUNDED",
     "RECONCILIATION_REQUIRED"}

AttemptStatus ==
    {"NONE", "CREATED", "REDIRECTED", "AWAITING_REVIEW", "FAILED", "VERIFIED",
     "RECONCILIATION_REQUIRED", "RECONCILED"}

\* Statuses in which a payment attempt records that its money arrived.
Recorded == {"VERIFIED", "RECONCILIATION_REQUIRED", "RECONCILED"}

\* Payment statuses that a later reconciliation must leave alone.
Settled == {"PAID", "REFUNDED"}

RequestStep == {"IDLE", "CHECKED", "CALLING", "ACCEPTED", "REJECTED"}

CallbackStep ==
    {"VERIFY", "FAIL", "FINALIZE", "COMMIT", "RECONCILE", "RECORD"}

\* Steps of a callback that has been told the money arrived.
Succeeding == {"FINALIZE", "COMMIT", "RECONCILE", "RECORD"}

NoStockRead == [v \in Variant |-> <<0, 0>>]

IdleCallback ==
    [step |-> "IDLE", on |-> NoAttempt, attempt |-> "NONE", payment |-> "NONE",
     stock |-> NoStockRead]

CallbackState ==
    {IdleCallback} \cup
    [step: CallbackStep, on: GatewayAttempt, attempt: AttemptStatus,
     payment: PaymentStatus, stock: [Variant -> Nat \X Nat]]

TypeOK ==
    /\ order \in [Order -> OrderStatus]
    /\ due \in [Order -> BOOLEAN]
    /\ payment \in [Order -> PaymentStatus]
    /\ attempt \in [Attempt -> AttemptStatus]
    /\ redirect \in [Attempt -> BOOLEAN]
    /\ onHand \in [Variant -> 0..MaxStock]
    /\ reserved \in [Variant -> 0..MaxStock]
    /\ cancelling \subseteq Order
    /\ expiring \in [Order -> {"IDLE", "NONE", "PENDING", "CANCELLED"}]
    /\ request \in [Attempt -> RequestStep]
    /\ callback \in [Callback -> CallbackState]
    /\ bank \in [Attempt -> {"CLOSED", "OPEN", "PAID"}]
    /\ captured \subseteq GatewayAttempt
    /\ interrupted \subseteq GatewayAttempt

Init ==
    /\ order = [o \in Order |-> "NONE"]
    /\ due = [o \in Order |-> FALSE]
    /\ payment = [o \in Order |-> "NONE"]
    /\ attempt = [a \in Attempt |-> "NONE"]
    /\ redirect = [a \in Attempt |-> FALSE]
    /\ onHand = InitialStock
    /\ reserved = [v \in Variant |-> 0]
    /\ cancelling = {}
    /\ expiring = [o \in Order |-> "IDLE"]
    /\ request = [a \in Attempt |-> "IDLE"]
    /\ callback = [c \in Callback |-> IdleCallback]
    /\ bank = [a \in Attempt |-> "CLOSED"]
    /\ captured = {}
    /\ interrupted = {}

-----------------------------------------------------------------------------
(* Stock: reserveInventory, releaseReservedInventory, commitReservedInventory.
   Each loops over the variants of the order inside the caller's transaction;
   one failing variant rolls the whole transaction back.                   *)

\* Mutant: the available units are compared with an off-by-one.
CanReserveOneTooMany(o) ==
    \A v \in Variant : onHand[v] - reserved[v] + 1 >= Need[o][v]

CanReserve(o) == \A v \in Variant : onHand[v] - reserved[v] >= Need[o][v]

Reserve(o) ==
    /\ CanReserve(o)
    /\ reserved' = [v \in Variant |-> reserved[v] + Need[o][v]]
    /\ UNCHANGED onHand

CanRelease(o) == \A v \in Variant : reserved[v] >= Need[o][v]

Release(o) ==
    /\ CanRelease(o)
    /\ reserved' = [v \in Variant |-> reserved[v] - Need[o][v]]
    /\ UNCHANGED onHand

CanSell(o) ==
    \A v \in Variant : reserved[v] >= Need[o][v] /\ onHand[v] >= Need[o][v]

\* Mutant: a sale lowers the stock but keeps the reservation.
SellKeepsReservation(o) ==
    /\ CanSell(o)
    /\ onHand' = [v \in Variant |-> onHand[v] - Need[o][v]]
    /\ UNCHANGED reserved

Sell(o) ==
    /\ CanSell(o)
    /\ onHand' = [v \in Variant |-> onHand[v] - Need[o][v]]
    /\ reserved' = [v \in Variant |-> reserved[v] - Need[o][v]]

\* What a transaction sees of the inventory rows of order o.
StockRead(o) ==
    [v \in Variant |-> IF Need[o][v] > 0 THEN <<onHand[v], reserved[v]>>
                                         ELSE <<0, 0>>]

\* Mutants: the upper or the lower limit of an adjustment is forgotten.
StockLevelsPastColumn(v) == reserved[v]..(MaxStock + 1)
StockLevelsBelowReserved(v) == 0..MaxStock

\* Staff set the stock of a variant (adjustStock, bulkSetStock), never below
\* what is reserved and never beyond the column.
StockLevels(v) == reserved[v]..MaxStock

AdjustStock(v) ==
    /\ \E n \in StockLevels(v) \ {onHand[v]} :
          onHand' = [onHand EXCEPT ![v] = n]
    /\ UNCHANGED <<db, reserved, inFlight, gateway, interrupted>>

-----------------------------------------------------------------------------
(* Orders                                                                  *)

\* lockOrderRowForUpdate: a checkout request that has checked order o holds its
\* row until its transaction ends, and every claim on the row waits.
RowLocked(o) == \E a \in Attempt : OrderOf[a] = o /\ request[a] = "CHECKED"

CreateOrder(o) ==
    /\ order[o] = "NONE"
    /\ Reserve(o)
    /\ order' = [order EXCEPT ![o] = "PENDING_PAYMENT"]
    /\ UNCHANGED <<due, payment, attempt, redirect, inFlight, gateway, interrupted>>

\* reservationExpiresAt passes.  An expiry transaction lives for seconds and the
\* review hold for days, so the deadline a receipt has moved does not pass again
\* while an expiry transaction that read the order before is still open.
DeadlinePasses(o) ==
    /\ order[o] = "PENDING_PAYMENT"
    /\ ~due[o]
    /\ expiring[o] = "IDLE"
    /\ due' = [due EXCEPT ![o] = TRUE]
    /\ UNCHANGED <<order, payment, attempt, redirect, stock, inFlight, gateway,
                   interrupted>>

\* cancelOrderReservation, up to the snapshot its claim statement takes: the
\* payment filter of the claim is evaluated on this snapshot.
CancelReads(o) ==
    /\ o \notin cancelling
    /\ order[o] = "PENDING_PAYMENT"
    /\ payment[o] # "AWAITING_REVIEW"
    /\ cancelling' = cancelling \cup {o}
    /\ UNCHANGED <<db, stock, expiring, request, callback, gateway, interrupted>>

\* The claim gets the row lock.  If another transaction changed the order row
\* meanwhile PostgreSQL evaluates the filter again on the new order row, but on
\* the old snapshot of the payment row.  The payment row itself is not written.
CancelClaimsNothing(o) == CanRelease(o) \* mutant: no claim on the order row

CancelClaims(o) == order[o] = "PENDING_PAYMENT" /\ CanRelease(o)

CancelCommits(o) ==
    /\ o \in cancelling
    /\ ~RowLocked(o)
    /\ CancelClaims(o)
    /\ Release(o)
    /\ order' = [order EXCEPT ![o] = "CANCELLED"]
    /\ cancelling' = cancelling \ {o}
    /\ UNCHANGED <<due, payment, attempt, redirect, expiring, request, callback,
                   gateway, interrupted>>

CancelAborts(o) ==
    /\ o \in cancelling
    /\ ~RowLocked(o)
    /\ ~CancelClaims(o)
    /\ cancelling' = cancelling \ {o}
    /\ UNCHANGED <<db, stock, expiring, request, callback, gateway, interrupted>>

-----------------------------------------------------------------------------
(* Expiry (OrderExpirationService.expireOrder, run by the minute scheduler) *)

\* Payment statuses that let an unpaid order expire.
ExpirableWithPayment == {"PENDING", "CANCELLED"} \* mutant: payment row required

Expirable == {"NONE", "PENDING", "CANCELLED"}

ExpireReads(o) ==
    /\ expiring[o] = "IDLE"
    /\ order[o] = "PENDING_PAYMENT"
    /\ due[o]
    /\ payment[o] \in Expirable
    /\ expiring' = [expiring EXCEPT ![o] = payment[o]]
    /\ UNCHANGED <<db, stock, cancelling, request, callback, gateway, interrupted>>

\* Mutant: the deadline is not claimed again.
ExpireClaimsStatusOnly(o) == order[o] = "PENDING_PAYMENT" /\ CanRelease(o)

\* The claim on the current order row; then the stock; then, if the payment was
\* read as PENDING, a payment that has moved on rolls the expiry back.
ExpireClaims(o) ==
    /\ order[o] = "PENDING_PAYMENT"
    /\ due[o]
    /\ CanRelease(o)
    /\ expiring[o] = "PENDING" =>
          payment[o] \in {"PENDING", "CANCELLED", "RECONCILIATION_REQUIRED"}

CancelledAtExpiry(status) == "CANCELLED" \* mutant: whatever the status

PaymentAtExpiry(status) == IF status = "PENDING" THEN "CANCELLED" ELSE status

ExpireCommits(o) ==
    /\ expiring[o] # "IDLE"
    /\ ~RowLocked(o)
    /\ ExpireClaims(o)
    /\ Release(o)
    /\ order' = [order EXCEPT ![o] = "EXPIRED"]
    /\ payment' = [payment EXCEPT ![o] = PaymentAtExpiry(@)]
    /\ expiring' = [expiring EXCEPT ![o] = "IDLE"]
    /\ UNCHANGED <<due, attempt, redirect, cancelling, request, callback, gateway,
                   interrupted>>

ExpireAborts(o) ==
    /\ expiring[o] # "IDLE"
    /\ ~RowLocked(o)
    /\ ~ExpireClaims(o)
    /\ expiring' = [expiring EXCEPT ![o] = "IDLE"]
    /\ UNCHANGED <<db, stock, cancelling, request, callback, gateway, interrupted>>

-----------------------------------------------------------------------------
(* Starting a payment                                                      *)

\* initiateOrderPayment and submitCardToCardReceipt lock the order row and look
\* at the clock; the deadline may pass before they commit.
CheckPayable(a) ==
    /\ request[a] = "IDLE"
    /\ attempt[a] = "NONE"
    /\ ~RowLocked(OrderOf[a])
    /\ order[OrderOf[a]] = "PENDING_PAYMENT"
    /\ ~due[OrderOf[a]]
    /\ request' = [request EXCEPT ![a] = "CHECKED"]
    /\ UNCHANGED <<db, stock, cancelling, expiring, callback, gateway, interrupted>>

\* The payment row is absent (it is upserted) or PENDING, and a receipt is not
\* submitted beside one that is under review or approved.
Payable(a) ==
    /\ payment[OrderOf[a]] \in {"NONE", "PENDING"}
    /\ a \in CardAttempt =>
          \A k \in CardAttempt : OrderOf[k] = OrderOf[a] =>
              attempt[k] \notin {"AWAITING_REVIEW", "VERIFIED"}

NotPayable(a) ==
    /\ request[a] = "CHECKED"
    /\ ~Payable(a)
    /\ request' = [request EXCEPT ![a] = "IDLE"]
    /\ UNCHANGED <<db, stock, cancelling, expiring, callback, gateway, interrupted>>

CreateAttempt(a) ==
    /\ a \in GatewayAttempt
    /\ request[a] = "CHECKED"
    /\ Payable(a)
    /\ payment' = [payment EXCEPT ![OrderOf[a]] = "PENDING"]
    /\ attempt' = [attempt EXCEPT ![a] = "CREATED"]
    /\ request' = [request EXCEPT ![a] = "CALLING"]
    /\ UNCHANGED <<order, due, redirect, stock, cancelling, expiring, callback,
                   gateway, interrupted>>

\* The gateway opens a payment and its answer reaches the API ...
GatewayAccepts(a) ==
    /\ request[a] = "CALLING"
    /\ bank' = [bank EXCEPT ![a] = "OPEN"]
    /\ request' = [request EXCEPT ![a] = "ACCEPTED"]
    /\ UNCHANGED <<db, stock, cancelling, expiring, callback, captured, interrupted>>

\* ... or it definitively refuses ...
GatewayRejects(a) ==
    /\ request[a] = "CALLING"
    /\ request' = [request EXCEPT ![a] = "REJECTED"]
    /\ UNCHANGED <<db, stock, cancelling, expiring, callback, gateway, interrupted>>

\* ... or the answer is unknown or the process dies.  The row lock goes with the
\* transaction; an attempt that was committed stays CREATED.
RequestDies(a) ==
    /\ request[a] # "IDLE"
    /\ request' = [request EXCEPT ![a] = "IDLE"]
    /\ UNCHANGED <<db, stock, cancelling, expiring, callback, gateway, interrupted>>

\* The answer is stored only on an attempt that is still CREATED.
StoreRedirect(a) ==
    /\ request[a] = "ACCEPTED"
    /\ IF attempt[a] = "CREATED"
       THEN /\ attempt' = [attempt EXCEPT ![a] = "REDIRECTED"]
            /\ redirect' = [redirect EXCEPT ![a] = TRUE]
       ELSE UNCHANGED <<attempt, redirect>>
    /\ request' = [request EXCEPT ![a] = "IDLE"]
    /\ UNCHANGED <<order, due, payment, stock, cancelling, expiring, callback,
                   gateway, interrupted>>

StoreRejection(a) ==
    /\ request[a] = "REJECTED"
    /\ attempt' = [attempt EXCEPT ![a] = IF @ = "CREATED" THEN "FAILED" ELSE @]
    /\ request' = [request EXCEPT ![a] = "IDLE"]
    /\ UNCHANGED <<order, due, payment, redirect, stock, cancelling, expiring,
                   callback, gateway, interrupted>>

\* Staff recover an attempt left CREATED for more than two minutes, the gateway
\* having shown them the payment it opened ...
RecoverRedirect(a) ==
    /\ ~RowLocked(OrderOf[a])
    /\ attempt[a] = "CREATED"
    /\ bank[a] = "OPEN"
    /\ payment[OrderOf[a]] = "PENDING"
    /\ order[OrderOf[a]] = "PENDING_PAYMENT"
    /\ ~due[OrderOf[a]]
    /\ attempt' = [attempt EXCEPT ![a] = "REDIRECTED"]
    /\ redirect' = [redirect EXCEPT ![a] = TRUE]
    /\ UNCHANGED <<order, due, payment, stock, inFlight, gateway, interrupted>>

\* ... or give it up.
RecoverAbandon(a) ==
    /\ ~RowLocked(OrderOf[a])
    /\ attempt[a] = "CREATED"
    /\ payment[OrderOf[a]] \in {"PENDING", "CANCELLED"}
    /\ attempt' = [attempt EXCEPT ![a] = "FAILED"]
    /\ UNCHANGED <<order, due, payment, redirect, stock, inFlight, gateway, interrupted>>

\* The customer pays on the gateway's page, whatever has become of the order.
CustomerPays(a) ==
    /\ redirect[a]
    /\ bank[a] = "OPEN"
    /\ bank' = [bank EXCEPT ![a] = "PAID"]
    /\ UNCHANGED <<db, stock, inFlight, captured, interrupted>>

-----------------------------------------------------------------------------
(* Card-to-card receipts                                                   *)

\* A new receipt supersedes the gateway attempts that are still open and moves
\* the reservation deadline by the review hold.
SubmitReceipt(k) ==
    LET o == OrderOf[k] IN
    /\ k \in CardAttempt
    /\ request[k] = "CHECKED"
    /\ Payable(k)
    /\ attempt' = [a \in Attempt |->
          IF a = k THEN "AWAITING_REVIEW"
          ELSE IF /\ a \in GatewayAttempt
                  /\ OrderOf[a] = o
                  /\ attempt[a] \in {"CREATED", "REDIRECTED"}
               THEN "FAILED" ELSE attempt[a]]
    /\ payment' = [payment EXCEPT ![o] = "AWAITING_REVIEW"]
    /\ due' = [due EXCEPT ![o] = FALSE]
    /\ request' = [request EXCEPT ![k] = "IDLE"]
    /\ UNCHANGED <<order, redirect, stock, cancelling, expiring, callback, gateway,
                   interrupted>>

\* Mutant: the order row is not claimed.
UnderReviewIgnoringOrder(k) ==
    attempt[k] = "AWAITING_REVIEW" /\ payment[OrderOf[k]] = "AWAITING_REVIEW"

\* Both staff decisions demand attempt, payment and order as they were left by
\* the submission; every failing claim rolls the decision back.
UnderReview(k) ==
    /\ attempt[k] = "AWAITING_REVIEW"
    /\ payment[OrderOf[k]] = "AWAITING_REVIEW"
    /\ order[OrderOf[k]] = "PENDING_PAYMENT"

ConfirmReceipt(k) ==
    /\ UnderReview(k)
    /\ ~RowLocked(OrderOf[k])
    /\ Sell(OrderOf[k])
    /\ order' = [order EXCEPT ![OrderOf[k]] = "PAID"]
    /\ attempt' = [attempt EXCEPT ![k] = "VERIFIED"]
    /\ payment' = [payment EXCEPT ![OrderOf[k]] = "PAID"]
    /\ UNCHANGED <<due, redirect, inFlight, gateway, interrupted>>

RejectReceipt(k) ==
    /\ UnderReview(k)
    /\ attempt' = [attempt EXCEPT ![k] = "FAILED"]
    /\ payment' = [payment EXCEPT ![OrderOf[k]] = "PENDING"]
    /\ UNCHANGED <<order, due, redirect, stock, inFlight, gateway, interrupted>>

-----------------------------------------------------------------------------
(* Gateway callbacks: verifyCallback, finalizeVerifiedPayment,
   recordPaymentReconciliation                                             *)

Moves(c, state) ==
    /\ callback' = [callback EXCEPT ![c] = state]
    /\ UNCHANGED <<cancelling, expiring, request>>

\* The callback reads the attempt; one whose money is recorded is answered as is.
CallbackArrives(c, a) ==
    /\ callback[c].step = "IDLE"
    /\ redirect[a]
    /\ attempt[a] \notin Recorded
    /\ Moves(c, [IdleCallback EXCEPT !.step = "VERIFY", !.on = a, !.attempt = attempt[a]])
    /\ UNCHANGED <<db, stock, gateway, interrupted>>

GatewayConfirms(c) ==
    /\ callback[c].step = "VERIFY"
    /\ bank[callback[c].on] = "PAID"
    /\ captured' = captured \cup {callback[c].on}
    /\ Moves(c, [callback[c] EXCEPT !.step = "FINALIZE", !.attempt = "NONE"])
    /\ UNCHANGED <<db, stock, bank, interrupted>>

GatewayDenies(c) ==
    /\ callback[c].step = "VERIFY"
    /\ bank[callback[c].on] # "PAID"
    /\ Moves(c, [callback[c] EXCEPT !.step = "FAIL"])
    /\ UNCHANGED <<db, stock, gateway, interrupted>>

FailureOverAnything(read, current) == "FAILED" \* mutant: unconditional update

\* A failed verification is written only over the status the callback has read.
AfterFailure(read, current) == IF current = read THEN "FAILED" ELSE current

RecordFailure(c) ==
    LET a == callback[c].on IN
    /\ callback[c].step = "FAIL"
    /\ attempt' = [attempt EXCEPT ![a] = AfterFailure(callback[c].attempt, @)]
    /\ Moves(c, IdleCallback)
    /\ UNCHANGED <<order, due, payment, redirect, stock, gateway, interrupted>>

\* finalizeVerifiedPayment finds the attempt verified by another callback ...
FinalizeFindsVerified(c) ==
    /\ callback[c].step = "FINALIZE"
    /\ attempt[callback[c].on] = "VERIFIED"
    /\ Moves(c, IdleCallback)
    /\ UNCHANGED <<db, stock, gateway, interrupted>>

\* ... or attempt, order and payment as initiateOrderPayment left them ...
Finalizable(a) ==
    /\ attempt[a] = "REDIRECTED"
    /\ order[OrderOf[a]] = "PENDING_PAYMENT"
    /\ payment[OrderOf[a]] = "PENDING"

\* ... or neither: the money goes to reconciliation.
FinalizeFindsUnpayable(c) ==
    LET a == callback[c].on IN
    /\ callback[c].step = "FINALIZE"
    /\ attempt[a] # "VERIFIED"
    /\ ~Finalizable(a)
    /\ Moves(c, [callback[c] EXCEPT !.step = "RECONCILE"])
    /\ UNCHANGED <<db, stock, gateway, interrupted>>

FinalizeReads(c) ==
    /\ callback[c].step = "FINALIZE"
    /\ Finalizable(callback[c].on)
    /\ Moves(c, [callback[c] EXCEPT !.step = "COMMIT",
                                    !.stock = StockRead(OrderOf[callback[c].on])])
    /\ UNCHANGED <<db, stock, gateway, interrupted>>

\* The claims on order, inventory rows, attempt and payment, in that order.
FinalizeClaims(c) ==
    LET a == callback[c].on IN
    /\ Finalizable(a)
    /\ StockRead(OrderOf[a]) = callback[c].stock
    /\ CanSell(OrderOf[a])

FinalizeCommits(c) ==
    LET a == callback[c].on
        o == OrderOf[a]
    IN
    /\ callback[c].step = "COMMIT"
    /\ ~RowLocked(o)
    /\ FinalizeClaims(c)
    /\ Sell(o)
    /\ order' = [order EXCEPT ![o] = "PAID"]
    /\ attempt' = [attempt EXCEPT ![a] = "VERIFIED"]
    /\ payment' = [payment EXCEPT ![o] = "PAID"]
    /\ Moves(c, IdleCallback)
    /\ UNCHANGED <<due, redirect, gateway, interrupted>>

\* Mutant: the conflict is not caught.
FinalizeConflictEscapes(c) ==
    /\ callback[c].step = "COMMIT"
    /\ ~RowLocked(OrderOf[callback[c].on])
    /\ ~FinalizeClaims(c)
    /\ Moves(c, IdleCallback)
    /\ UNCHANGED <<db, stock, gateway, interrupted>>

\* A failing claim rolls the finalization back and the conflict is reconciled.
FinalizeConflicts(c) ==
    /\ callback[c].step = "COMMIT"
    /\ ~RowLocked(OrderOf[callback[c].on])
    /\ ~FinalizeClaims(c)
    /\ Moves(c, [callback[c] EXCEPT !.step = "RECONCILE", !.stock = NoStockRead])
    /\ UNCHANGED <<db, stock, gateway, interrupted>>

ReconcileFindsRecorded(c) ==
    /\ callback[c].step = "RECONCILE"
    /\ attempt[callback[c].on] \in Recorded
    /\ Moves(c, IdleCallback)
    /\ UNCHANGED <<db, stock, gateway, interrupted>>

ReconcileReads(c) ==
    LET a == callback[c].on IN
    /\ callback[c].step = "RECONCILE"
    /\ attempt[a] \notin Recorded
    /\ Moves(c, [callback[c] EXCEPT !.step = "RECORD", !.attempt = attempt[a],
                                    !.payment = payment[OrderOf[a]]])
    /\ UNCHANGED <<db, stock, gateway, interrupted>>

\* The attempt must be as read; so must the payment, unless it was read settled,
\* in which case it is neither claimed nor written.
RecordClaims(c) ==
    LET a == callback[c].on IN
    /\ attempt[a] = callback[c].attempt
    /\ callback[c].payment \in Settled \/ payment[OrderOf[a]] = callback[c].payment

\* Mutant: settled payments are not preserved.
ReconciledOverSettled(read, current) == "RECONCILIATION_REQUIRED"

AfterReconciliation(read, current) ==
    IF read \in Settled THEN current ELSE "RECONCILIATION_REQUIRED"

ReconcileCommits(c) ==
    LET a == callback[c].on
        o == OrderOf[a]
    IN
    /\ callback[c].step = "RECORD"
    /\ RecordClaims(c)
    /\ attempt' = [attempt EXCEPT ![a] = "RECONCILIATION_REQUIRED"]
    /\ payment' = [payment EXCEPT ![o] = AfterReconciliation(callback[c].payment, @)]
    /\ Moves(c, IdleCallback)
    /\ UNCHANGED <<order, due, redirect, stock, gateway, interrupted>>

\* The DomainException of a failing claim is not a ConflictException: nothing
\* catches it, and the callback ends with the money captured but not recorded
\* (unless another callback has recorded it).
ReconcileAborts(c) ==
    /\ callback[c].step = "RECORD"
    /\ ~RecordClaims(c)
    /\ interrupted' = interrupted \cup {callback[c].on}
    /\ Moves(c, IdleCallback)
    /\ UNCHANGED <<db, stock, gateway>>

\* The process dies, or the gateway's answer to verify never comes.
CallbackDies(c) ==
    /\ callback[c].step # "IDLE"
    /\ interrupted' = IF callback[c].step \in Succeeding
                      THEN interrupted \cup {callback[c].on} ELSE interrupted
    /\ Moves(c, IdleCallback)
    /\ UNCHANGED <<db, stock, gateway>>

\* Staff have returned the money outside the system and close the reconciliation.
ResolveExternalRefund(a) ==
    LET o == OrderOf[a] IN
    /\ attempt[a] = "RECONCILIATION_REQUIRED"
    /\ payment[o] \in Settled \cup {"RECONCILIATION_REQUIRED"}
    /\ attempt' = [attempt EXCEPT ![a] = "RECONCILED"]
    /\ payment' = [payment EXCEPT ![o] = IF @ \in Settled THEN @ ELSE "REFUNDED"]
    /\ UNCHANGED <<order, due, redirect, stock, inFlight, gateway, interrupted>>

-----------------------------------------------------------------------------
(* Specification                                                           *)

OrderNext(o) ==
    \/ CreateOrder(o) \/ DeadlinePasses(o)
    \/ CancelReads(o) \/ CancelCommits(o) \/ CancelAborts(o)
    \/ ExpireReads(o) \/ ExpireCommits(o) \/ ExpireAborts(o)

RequestNext(a) ==
    \/ CheckPayable(a) \/ NotPayable(a) \/ RequestDies(a) \/ CreateAttempt(a)
    \/ GatewayAccepts(a) \/ GatewayRejects(a)
    \/ StoreRedirect(a) \/ StoreRejection(a)
    \/ RecoverRedirect(a) \/ RecoverAbandon(a) \/ CustomerPays(a)
    \/ ResolveExternalRefund(a)

ReceiptNext(k) == SubmitReceipt(k) \/ ConfirmReceipt(k) \/ RejectReceipt(k)

\* What a callback does once it has arrived.
HandlerNext(c) ==
    \/ GatewayConfirms(c) \/ GatewayDenies(c) \/ RecordFailure(c)
    \/ FinalizeFindsVerified(c) \/ FinalizeFindsUnpayable(c) \/ FinalizeReads(c)
    \/ FinalizeCommits(c) \/ FinalizeConflicts(c)
    \/ ReconcileFindsRecorded(c) \/ ReconcileReads(c)
    \/ ReconcileCommits(c) \/ ReconcileAborts(c)

CallbackNext(c) ==
    \/ \E a \in GatewayAttempt : CallbackArrives(c, a)
    \/ HandlerNext(c)
    \/ CallbackDies(c)

Next ==
    \/ \E v \in Variant : AdjustStock(v)
    \/ \E o \in Order : OrderNext(o)
    \/ \E a \in Attempt : RequestNext(a)
    \/ \E k \in CardAttempt : ReceiptNext(k)
    \/ \E c \in Callback : CallbackNext(c)

Spec == Init /\ [][Next]_vars

\* The scheduler sweeps every minute, a transaction that holds a row lock ends,
\* and a handler that does not die goes on.  Where it waits for a row lock that
\* others take again and again, PostgreSQL's lock queue lets it in: strong
\* fairness.  Customers, staff, the gateway and the repetition of callbacks are
\* not fair.
CheckoutTransactionEnds(a) ==
    /\ request[a] = "CHECKED"
    /\ NotPayable(a) \/ CreateAttempt(a) \/ SubmitReceipt(a) \/ RequestDies(a)

FairSpec ==
    /\ Spec
    /\ \A o \in Order : /\ WF_vars(ExpireReads(o))
                       /\ SF_vars(ExpireCommits(o) \/ ExpireAborts(o))
    /\ \A a \in Attempt : WF_vars(CheckoutTransactionEnds(a))
    /\ \A c \in Callback : SF_vars(HandlerNext(c))

-----------------------------------------------------------------------------
(* Properties                                                              *)

\* The units of variant v that orders awaiting payment hold, one pair per unit.
HeldUnits(v) ==
    {u \in Order \X (1..MaxStock) :
        order[u[1]] = "PENDING_PAYMENT" /\ u[2] <= Need[u[1]][v]}

\* Inventory.reserved is at all times the sum of what the orders awaiting payment
\* hold: no cancel, expiry, sale or retry releases an order's units twice or
\* forgets them, in whatever order the transactions commit.
ReservedMatchesPending == \A v \in Variant : reserved[v] = Cardinality(HeldUnits(v))

\* Never are more units promised than the warehouse holds, staff corrections of
\* the stock included.
NoOversell == \A v \in Variant : reserved[v] <= onHand[v]

\* Whoever wins the claim on an order awaiting payment finds its units: the
\* branches 'Reserved inventory is inconsistent' of the payment, the expiry and
\* the cancellation are never taken, so none of them is blocked for good.
PendingOrderSettleable ==
    \A o \in Order : order[o] = "PENDING_PAYMENT" => CanRelease(o) /\ CanSell(o)

VerifiedAttempts(o) == {a \in Attempt : OrderOf[a] = o /\ attempt[a] = "VERIFIED"}

\* An order is PAID exactly when one of its attempts, and only one, is VERIFIED,
\* and then its payment says PAID, whatever later callbacks, failures and
\* reconciliations of its other attempts do.
PaidOrderIsBacked ==
    \A o \in Order :
        /\ order[o] = "PAID" <=> VerifiedAttempts(o) # {}
        /\ order[o] = "PAID" => payment[o] = "PAID"
        /\ \A a, b \in VerifiedAttempts(o) : a = b

\* Money the gateway has confirmed to the API is on record, or a callback is
\* still at work on it, or the one that was has been cut short.
CapturedMoneyAccounted ==
    \A a \in captured :
        \/ attempt[a] \in Recorded
        \/ \E c \in Callback : callback[c].on = a /\ callback[c].step \in Succeeding
        \/ a \in interrupted

\* An open reconciliation can always be resolved: its payment stays in a status
\* resolveExternalRefund accepts, although expiry, receipts and other attempts
\* keep writing that payment.
OpenReconciliationResolvable ==
    \A a \in Attempt : attempt[a] = "RECONCILIATION_REQUIRED" =>
        payment[OrderOf[a]] \in Settled \cup {"RECONCILIATION_REQUIRED"}

\* Expiry leaves no payment behind that could still be paid or approved.
ExpiredOrderIsClosed ==
    \A o \in Order : order[o] = "EXPIRED" =>
        payment[o] \notin {"PENDING", "AWAITING_REVIEW", "PAID"}

\* A decided order, a settled payment and a verified or reconciled attempt are
\* never decided again.
DecisionsAreFinal ==
    [][/\ \A o \in Order :
             /\ order[o] \in {"PAID", "CANCELLED", "EXPIRED"} => order'[o] = order[o]
             /\ payment[o] \in Settled => payment'[o] = payment[o]
       /\ \A a \in Attempt :
             attempt[a] \in {"VERIFIED", "RECONCILED"} => attempt'[a] = attempt[a]]_vars

\* What buyers are promised about stock (module Reservation).
claim == [o \in Order |-> CASE order[o] = "NONE"            -> "none"
                            [] order[o] = "PENDING_PAYMENT" -> "held"
                            [] order[o] = "PAID"            -> "sold"
                            [] OTHER                        -> "released"]

available == [v \in Variant |-> onHand[v] - reserved[v]]

Promise == INSTANCE Reservation WITH claim <- claim, available <- available

\* Checkout keeps that promise: every step is a step of Reservation or none.
KeepsPromise == Promise!Spec

\* An order whose deadline has passed and whose payment is open, cancelled or
\* absent does not stay: the sweep expires it or someone decides it first.  Orders whose
\* receipt is under review or whose money is being or has been returned are excepted:
\* expireOrder leaves them to staff.
DueOrdersLeave ==
    \A o \in Order :
        []<>~(/\ order[o] = "PENDING_PAYMENT"
              /\ due[o]
              /\ payment[o] \in {"NONE", "PENDING", "CANCELLED"})

\* Money the gateway has confirmed reaches the books unless a callback was cut
\* short on the way.
CapturedMoneyRecorded ==
    \A a \in GatewayAttempt :
        a \in captured ~> (attempt[a] \in Recorded \/ a \in interrupted)

\* "Order cannot be cancelled while its payment receipt is under review."
\* (orders.service.ts, cancelOrderReservation)
ReviewedOrderNotCancelled ==
    \A o \in Order : payment[o] = "AWAITING_REVIEW" => order[o] # "CANCELLED"

\* 'Inventory changed; payment finalization must retry.' (payments.service.ts,
\* commitReservedInventory): an attempt that could still be finalized, order,
\* payment and stock allowing it, is not handed to reconciliation.
PayableMoneyFinalized ==
    [][\A a \in GatewayAttempt :
          Finalizable(a) /\ CanSell(OrderOf[a])
              => attempt'[a] # "RECONCILIATION_REQUIRED"]_vars

=============================================================================
