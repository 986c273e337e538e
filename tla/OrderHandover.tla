---------------------------- MODULE OrderHandover ----------------------------
(***************************************************************************)
(* Checkout together with the modules that go on from its orders.          *)
(* Fulfillment and ExpirationSweep each take for granted what checkout,    *)
(* payment, cancellation and expiry may do to the rows they share with     *)
(* them; this module says what they see of the rows of Checkout, and that  *)
(* Checkout does nothing else to them.                                     *)
(***************************************************************************)
EXTENDS Checkout

-----------------------------------------------------------------------------
(* What Fulfillment sees: an order before any parcel, and its payment      *)

\* An order that does not exist yet cannot be told from one that has just been placed.
OrderSeen(o) ==
    IF order[o] \in {"NONE", "PENDING_PAYMENT"} THEN "PENDING_PAYMENT"
    ELSE IF order[o] = "PAID" THEN "PAID" ELSE "CLOSED"

\* A payment that was begun and has not paid its order is PENDING, be it under review,
\* cancelled, in reconciliation or returned after that.
PaymentSeen(o) ==
    IF payment[o] \in {"NONE", "PAID"} THEN payment[o] ELSE "PENDING"

Unshipped(o) == INSTANCE Fulfillment WITH
    Creation <- {}, Editor <- {}, Tracker <- {},
    Manual <- "MANUAL", Panel <- "PANEL", None <- "NONE",
    order <- OrderSeen(o), payment <- PaymentSeen(o),
    plating <- "NOT_REQUIRED",
    shipment <- [status |-> "NONE", state |-> "NOT_STARTED", parcel |-> "NONE"],
    creationStale <- FALSE, lease <- "NONE", leaseStale <- FALSE,
    creation <- [c \in {} |-> "IDLE"], registered <- {},
    tracker <- [t \in {} |-> "IDLE"], editor <- [e \in {} |-> "IDLE"], excused <- {}

FulfillmentSees(o) ==
    \/ Unshipped(o)!PaymentStarts
    \/ Unshipped(o)!PaymentSettles
    \/ Unshipped(o)!OrderCloses

-----------------------------------------------------------------------------
(* What ExpirationSweep sees: whether an order may expire                  *)

Waits(o) ==
    IF order[o] \notin {"NONE", "PENDING_PAYMENT"} THEN "LEFT"
    ELSE IF payment[o] \in Expirable THEN "OPEN" ELSE "PROTECTED"

waits == [o \in Order |-> Waits(o)]

Swept == INSTANCE ExpirationSweep WITH
    Deadline <- [o \in Order |-> 0], Take <- 1,
    status <- waits, due <- {}, isRunning <- FALSE, batch <- {}

SweepSees ==
    \E o \in Order, from, to \in Swept!OrderState : Swept!OrderMoves(o, from, to)

-----------------------------------------------------------------------------

\* Whatever interleaving of payments, callbacks, receipts, cancellations and expiries
\* produced it, every step of Checkout is to Fulfillment a payment that starts or
\* settles or an order that closes, each on the terms Fulfillment states (an order is
\* paid out of PENDING_PAYMENT with an open payment and is not closed afterwards, a
\* payment does not leave PAID), and to the sweep a move of one order that leaves
\* it OPEN, PROTECTED or gone for good.
HandsOver ==
    /\ \A o \in Order : Unshipped(o)!FulfillmentInit
    /\ Swept!Init
    /\ [][order' # order \/ payment' # payment =>
             /\ \A o \in Order : [FulfillmentSees(o)]_<<OrderSeen(o), PaymentSeen(o)>>
             /\ [SweepSees]_waits]_vars

=============================================================================
