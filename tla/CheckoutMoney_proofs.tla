------------------------- MODULE CheckoutMoney_proofs -------------------------
(***************************************************************************)
(* Proofs about the money of Checkout for every set of orders, attempts,   *)
(* variants and callbacks: what a paid order, an expired order, an open    *)
(* reconciliation and captured money may be relied on for, and that no     *)
(* decision is taken twice.                                                *)
(***************************************************************************)
EXTENDS Checkout_proofs

-----------------------------------------------------------------------------
(* The invariant                                                           *)

\* A checkout request that holds the order row is for an order awaiting payment and has
\* not created its attempt yet.
LockHoldersAreFresh ==
    \A a \in Attempt : request[a] = "CHECKED" =>
        order[OrderOf[a]] = "PENDING_PAYMENT" /\ attempt[a] = "NONE"

\* Only an attempt that exists has a page to pay on and callbacks.
OnlyMadeAttemptsAreKnown ==
    /\ \A a \in Attempt : redirect[a] => attempt[a] # "NONE"
    /\ \A c \in Callback : callback[c].step \in CallbackStep =>
          attempt[callback[c].on] # "NONE"

\* What a callback has read and will compare its update with: an attempt whose money
\* was not on record, and, if the payment was settled, that it is.
CallbackReadsHold ==
    \A c \in Callback :
        /\ callback[c].step \in {"VERIFY", "FAIL", "RECORD"} =>
              callback[c].attempt \notin Recorded
        /\ callback[c].step = "RECORD" /\ callback[c].payment \in Settled =>
              payment[OrderOf[callback[c].on]] \in Settled

\* The deadline of an order whose receipt is under review does not pass under an open
\* expiry transaction.
ReviewStopsExpiry ==
    \A o \in Order : expiring[o] # "IDLE" /\ payment[o] = "AWAITING_REVIEW" => ~due[o]

PaidOnlyByOrder == \A o \in Order : payment[o] = "PAID" => order[o] = "PAID"

MoneyInv ==
    /\ TypeOK
    /\ LockHoldersAreFresh
    /\ OnlyMadeAttemptsAreKnown
    /\ CallbackReadsHold
    /\ ReviewStopsExpiry
    /\ PaidOnlyByOrder
    /\ PaidOrderIsBacked
    /\ OpenReconciliationResolvable
    /\ ExpiredOrderIsClosed
    /\ CapturedMoneyAccounted

LEMMA InitMoney == Init => MoneyInv
<1> SUFFICES ASSUME Init PROVE MoneyInv
  OBVIOUS
<1>1. TypeOK
  BY InitTyped
<1>2. /\ LockHoldersAreFresh /\ ReviewStopsExpiry /\ PaidOnlyByOrder
      /\ ExpiredOrderIsClosed /\ CapturedMoneyAccounted /\ OpenReconciliationResolvable
  BY CheckoutAssumption DEF Init, LockHoldersAreFresh, ReviewStopsExpiry, PaidOnlyByOrder,
     ExpiredOrderIsClosed, CapturedMoneyAccounted, OpenReconciliationResolvable
<1>3. OnlyMadeAttemptsAreKnown /\ CallbackReadsHold
  BY DEF Init, OnlyMadeAttemptsAreKnown, CallbackReadsHold, IdleCallback, CallbackStep
<1>4. PaidOrderIsBacked
  <2>1. \A o \in Order : VerifiedAttempts(o) = {}
    BY DEF Init, VerifiedAttempts
  <2>2. QED  BY <2>1 DEF Init, PaidOrderIsBacked
<1>5. QED  BY <1>1, <1>2, <1>3, <1>4 DEF MoneyInv

-----------------------------------------------------------------------------
(* What a step does to orders, payments and attempts.                      *)

MoneyAlone == UNCHANGED <<order, payment, attempt>>

OrderPlaced(o) ==
    /\ order[o] = "NONE"
    /\ order' = [order EXCEPT ![o] = "PENDING_PAYMENT"]
    /\ UNCHANGED <<payment, attempt>>

OrderCancelled(o) ==
    /\ order[o] = "PENDING_PAYMENT" /\ ~RowLocked(o)
    /\ order' = [order EXCEPT ![o] = "CANCELLED"]
    /\ UNCHANGED <<payment, attempt>>

OrderExpired(o) ==
    /\ order[o] = "PENDING_PAYMENT" /\ ~RowLocked(o)
    /\ payment[o] # "AWAITING_REVIEW"
    /\ order' = [order EXCEPT ![o] = "EXPIRED"]
    /\ payment' = [payment EXCEPT ![o] = PaymentAtExpiry(@)]
    /\ UNCHANGED attempt

\* A gateway attempt or a receipt of an order awaiting payment; a receipt makes open
\* gateway attempts fail.
AttemptMade(a) ==
    /\ order[OrderOf[a]] = "PENDING_PAYMENT" /\ attempt[a] = "NONE"
    /\ payment[OrderOf[a]] \in {"NONE", "PENDING"}
    /\ request[a] = "CHECKED" /\ request'[a] # "CHECKED"
    /\ \E status \in {"PENDING", "AWAITING_REVIEW"} :
          payment' = [payment EXCEPT ![OrderOf[a]] = status]
    /\ attempt'[a] \in {"CREATED", "AWAITING_REVIEW"}
    /\ \A b \in Attempt : b # a =>
          \/ attempt'[b] = attempt[b]
          \/ attempt[b] \in {"CREATED", "REDIRECTED"} /\ attempt'[b] = "FAILED"
    /\ UNCHANGED order

AttemptMoves(a) ==
    /\ attempt[a] \notin Recorded \cup {"NONE"}
    /\ \E status \in {"REDIRECTED", "FAILED"} :
          attempt' = [attempt EXCEPT ![a] = status]
    /\ UNCHANGED <<order, payment>>

MoneyTaken(a) ==
    /\ order[OrderOf[a]] = "PENDING_PAYMENT" /\ ~RowLocked(OrderOf[a])
    /\ payment[OrderOf[a]] \in {"PENDING", "AWAITING_REVIEW"}
    /\ attempt[a] \in {"REDIRECTED", "AWAITING_REVIEW"}
    /\ order' = [order EXCEPT ![OrderOf[a]] = "PAID"]
    /\ payment' = [payment EXCEPT ![OrderOf[a]] = "PAID"]
    /\ attempt' = [attempt EXCEPT ![a] = "VERIFIED"]

ReceiptRefused(a) ==
    /\ order[OrderOf[a]] = "PENDING_PAYMENT"
    /\ payment[OrderOf[a]] = "AWAITING_REVIEW" /\ attempt[a] = "AWAITING_REVIEW"
    /\ payment' = [payment EXCEPT ![OrderOf[a]] = "PENDING"]
    /\ attempt' = [attempt EXCEPT ![a] = "FAILED"]
    /\ UNCHANGED order

\* The money of an attempt goes to reconciliation, with the payment unless it is settled.
Reconciled(a) ==
    /\ attempt[a] \notin Recorded \cup {"NONE"}
    /\ attempt' = [attempt EXCEPT ![a] = "RECONCILIATION_REQUIRED"]
    /\ \/ payment[OrderOf[a]] \in Settled /\ UNCHANGED payment
       \/ /\ payment[OrderOf[a]] \notin Settled
          /\ payment' = [payment EXCEPT ![OrderOf[a]] = "RECONCILIATION_REQUIRED"]
    /\ UNCHANGED order

Resolved(a) ==
    /\ attempt[a] = "RECONCILIATION_REQUIRED"
    /\ attempt' = [attempt EXCEPT ![a] = "RECONCILED"]
    /\ \/ payment[OrderOf[a]] \in Settled /\ UNCHANGED payment
       \/ /\ payment[OrderOf[a]] = "RECONCILIATION_REQUIRED"
          /\ payment' = [payment EXCEPT ![OrderOf[a]] = "REFUNDED"]
    /\ UNCHANGED order

OrderMoney(o) == OrderPlaced(o) \/ OrderCancelled(o) \/ OrderExpired(o)

AttemptMoney(a) ==
    \/ AttemptMade(a) \/ AttemptMoves(a) \/ MoneyTaken(a) \/ ReceiptRefused(a)
    \/ Reconciled(a) \/ Resolved(a)

MoneyStep ==
    \/ MoneyAlone
    \/ \E o \in Order : OrderMoney(o)
    \/ \E a \in Attempt : AttemptMoney(a)

LEMMA OrderStepsMoney ==
    ASSUME MoneyInv, NEW o \in Order, OrderNext(o)
    PROVE  MoneyAlone \/ OrderMoney(o)
<1>1. CASE CreateOrder(o)
  BY <1>1 DEF CreateOrder, OrderMoney, OrderPlaced
<1>2. CASE CancelCommits(o)
  BY <1>2 DEF CancelCommits, CancelClaims, OrderMoney, OrderCancelled
<1>3. CASE ExpireCommits(o)
  <2>1. payment[o] # "AWAITING_REVIEW"
    BY <1>3 DEF ExpireCommits, ExpireClaims, MoneyInv, ReviewStopsExpiry
  <2>2. QED  BY <1>3, <2>1 DEF ExpireCommits, ExpireClaims, OrderMoney, OrderExpired
<1>4. CASE \/ DeadlinePasses(o) \/ CancelReads(o) \/ CancelAborts(o) \/ ExpireReads(o)
           \/ ExpireAborts(o)
  BY <1>4 DEF DeadlinePasses, CancelReads, CancelAborts, ExpireReads, ExpireAborts,
     MoneyAlone, db
<1>5. QED
  BY <1>1, <1>2, <1>3, <1>4 DEF OrderNext

LEMMA RequestStepsMoney ==
    ASSUME MoneyInv, NEW a \in Attempt, RequestNext(a)
    PROVE  MoneyAlone \/ AttemptMoney(a)
<1>1. TypeOK /\ OrderOf[a] \in Order
  BY CheckoutAssumption DEF MoneyInv
<1>2. CASE \/ CheckPayable(a) \/ NotPayable(a) \/ RequestDies(a) \/ GatewayAccepts(a)
           \/ GatewayRejects(a) \/ CustomerPays(a)
  BY <1>2 DEF CheckPayable, NotPayable, RequestDies, GatewayAccepts, GatewayRejects,
     CustomerPays, MoneyAlone, db
<1>3. CASE CreateAttempt(a)
  <2>1. order[OrderOf[a]] = "PENDING_PAYMENT" /\ attempt[a] = "NONE"
    BY <1>3 DEF CreateAttempt, MoneyInv, LockHoldersAreFresh
  <2>2. /\ request[a] = "CHECKED" /\ request'[a] # "CHECKED"
        /\ attempt'[a] = "CREATED"
        /\ \A b \in Attempt : b # a => attempt'[b] = attempt[b]
    BY <1>1, <1>3 DEF CreateAttempt, TypeOK
  <2>3. AttemptMade(a)
    BY <1>3, <2>1, <2>2 DEF CreateAttempt, Payable, AttemptMade
  <2>4. QED  BY <2>3 DEF AttemptMoney
<1>4. CASE StoreRedirect(a) \/ StoreRejection(a)
  <2>1. CASE attempt[a] = "CREATED"
    BY <1>4, <2>1 DEF StoreRedirect, StoreRejection, AttemptMoney, AttemptMoves, Recorded
  <2>2. CASE attempt[a] # "CREATED"
    <3>1. attempt' = attempt
      BY <1>1, <1>4, <2>2 DEF StoreRedirect, StoreRejection, TypeOK
    <3>2. QED  BY <1>4, <3>1 DEF StoreRedirect, StoreRejection, MoneyAlone
  <2>3. QED  BY <2>1, <2>2
<1>5. CASE RecoverRedirect(a) \/ RecoverAbandon(a)
  BY <1>5 DEF RecoverRedirect, RecoverAbandon, AttemptMoney, AttemptMoves, Recorded
<1>6. CASE ResolveExternalRefund(a)
  <2>1. CASE payment[OrderOf[a]] \in Settled
    <3>1. payment' = payment
      BY <1>1, <1>6, <2>1 DEF ResolveExternalRefund, TypeOK
    <3>2. QED  BY <1>6, <2>1, <3>1 DEF ResolveExternalRefund, AttemptMoney, Resolved
  <2>2. CASE payment[OrderOf[a]] \notin Settled
    BY <1>6, <2>2 DEF ResolveExternalRefund, AttemptMoney, Resolved
  <2>3. QED  BY <2>1, <2>2
<1>7. QED
  BY <1>2, <1>3, <1>4, <1>5, <1>6 DEF RequestNext

LEMMA ReceiptStepsMoney ==
    ASSUME MoneyInv, NEW k \in CardAttempt, ReceiptNext(k)
    PROVE  AttemptMoney(k)
<1>1. TypeOK /\ k \in Attempt /\ OrderOf[k] \in Order
  BY CheckoutAssumption DEF MoneyInv, Attempt
<1>2. CASE SubmitReceipt(k)
  <2>1. order[OrderOf[k]] = "PENDING_PAYMENT" /\ attempt[k] = "NONE"
    BY <1>1, <1>2 DEF SubmitReceipt, MoneyInv, LockHoldersAreFresh
  <2>2. /\ request[k] = "CHECKED" /\ request'[k] # "CHECKED"
        /\ attempt'[k] = "AWAITING_REVIEW"
        /\ \A b \in Attempt : b # k =>
              \/ attempt'[b] = attempt[b]
              \/ attempt[b] \in {"CREATED", "REDIRECTED"} /\ attempt'[b] = "FAILED"
    BY <1>1, <1>2 DEF SubmitReceipt, TypeOK
  <2>3. AttemptMade(k)
    BY <1>2, <2>1, <2>2 DEF SubmitReceipt, Payable, AttemptMade
  <2>4. QED  BY <2>3 DEF AttemptMoney
<1>3. CASE ConfirmReceipt(k)
  BY <1>3 DEF ConfirmReceipt, UnderReview, AttemptMoney, MoneyTaken
<1>4. CASE RejectReceipt(k)
  BY <1>4 DEF RejectReceipt, UnderReview, AttemptMoney, ReceiptRefused
<1>5. QED
  BY <1>2, <1>3, <1>4 DEF ReceiptNext

LEMMA CallbackStepsMoney ==
    ASSUME MoneyInv, NEW c \in Callback, CallbackNext(c)
    PROVE  \/ MoneyAlone
           \/ /\ callback[c].step \in CallbackStep
              /\ callback[c].on \in Attempt /\ AttemptMoney(callback[c].on)
<1> DEFINE a == callback[c].on
<1>1. TypeOK
  BY DEF MoneyInv
<1>2. CASE RecordFailure(c)
  <2>1. callback[c].step \in CallbackStep /\ callback[c].step = "FAIL"
    BY <1>2 DEF RecordFailure, CallbackStep
  <2>2. a \in Attempt /\ attempt[a] # "NONE" /\ callback[c].attempt \notin Recorded
    BY <1>1, <2>1, CallbackTyped DEF MoneyInv, OnlyMadeAttemptsAreKnown, CallbackReadsHold
  <2>3. CASE attempt[a] = callback[c].attempt
    <3>1. attempt' = [attempt EXCEPT ![a] = "FAILED"]
      BY <1>2, <2>3 DEF RecordFailure, AfterFailure
    <3>2. AttemptMoves(a)
      BY <1>2, <2>2, <2>3, <3>1 DEF RecordFailure, AttemptMoves
    <3>3. QED  BY <2>1, <2>2, <3>2 DEF AttemptMoney
  <2>4. CASE attempt[a] # callback[c].attempt
    <3>1. attempt' = attempt
      BY <1>1, <1>2, <2>2, <2>4 DEF RecordFailure, AfterFailure, TypeOK
    <3>2. QED  BY <1>2, <3>1 DEF RecordFailure, MoneyAlone
  <2>5. QED  BY <2>3, <2>4
<1>3. CASE FinalizeCommits(c)
  <2>1. callback[c].step \in CallbackStep
    BY <1>3 DEF FinalizeCommits, CallbackStep
  <2>2. a \in Attempt
    BY <1>1, <2>1, CallbackTyped
  <2>3. MoneyTaken(a)
    BY <1>3 DEF FinalizeCommits, FinalizeClaims, Finalizable, MoneyTaken
  <2>4. QED  BY <2>1, <2>2, <2>3 DEF AttemptMoney
<1>4. CASE ReconcileCommits(c)
  <2>1. callback[c].step \in CallbackStep /\ callback[c].step = "RECORD"
    BY <1>4 DEF ReconcileCommits, CallbackStep
  <2>2. /\ a \in Attempt /\ OrderOf[a] \in Order /\ attempt[a] # "NONE"
        /\ callback[c].attempt \notin Recorded
        /\ callback[c].payment \in Settled => payment[OrderOf[a]] \in Settled
    BY <1>1, <2>1, CallbackTyped DEF MoneyInv, OnlyMadeAttemptsAreKnown, CallbackReadsHold
  <2>3. /\ attempt[a] \notin Recorded \cup {"NONE"}
        /\ attempt' = [attempt EXCEPT ![a] = "RECONCILIATION_REQUIRED"]
        /\ UNCHANGED order
    BY <1>4, <2>2 DEF ReconcileCommits, RecordClaims
  <2>4. CASE callback[c].payment \in Settled
    <3>1. payment' = payment
      BY <1>1, <1>4, <2>2, <2>4 DEF ReconcileCommits, AfterReconciliation, TypeOK
    <3>2. Reconciled(a)
      BY <2>2, <2>3, <2>4, <3>1 DEF Reconciled
    <3>3. QED  BY <2>1, <2>2, <3>2 DEF AttemptMoney
  <2>5. CASE callback[c].payment \notin Settled
    <3>1. Reconciled(a)
      BY <1>4, <2>3, <2>5 DEF ReconcileCommits, RecordClaims, AfterReconciliation, Reconciled
    <3>2. QED  BY <2>1, <2>2, <3>1 DEF AttemptMoney
  <2>6. QED  BY <2>4, <2>5
<1>5. CASE ~(RecordFailure(c) \/ FinalizeCommits(c) \/ ReconcileCommits(c))
  BY <1>5 DEF CallbackNext, CallbackArrives, CallbackDies, HandlerNext, GatewayConfirms,
     GatewayDenies, FinalizeFindsVerified, FinalizeFindsUnpayable, FinalizeReads,
     FinalizeConflicts, ReconcileFindsRecorded, ReconcileReads, ReconcileAborts,
     MoneyAlone, db
<1>6. QED
  BY <1>2, <1>3, <1>4, <1>5

LEMMA MoneySteps == MoneyInv /\ [Next]_vars => MoneyStep
<1> SUFFICES ASSUME MoneyInv, [Next]_vars PROVE MoneyStep
  OBVIOUS
<1>1. CASE UNCHANGED vars
  BY <1>1 DEF vars, MoneyStep, MoneyAlone
<1>2. ASSUME NEW v \in Variant, AdjustStock(v) PROVE MoneyAlone
  BY <1>2 DEF AdjustStock, MoneyAlone, db
<1>3. \A k \in CardAttempt : k \in Attempt
  BY DEF Attempt
<1>4. QED
  BY <1>1, <1>2, <1>3, OrderStepsMoney, RequestStepsMoney, ReceiptStepsMoney,
     CallbackStepsMoney DEF Next, MoneyStep

-----------------------------------------------------------------------------
(* What is decided, and what the decisions agree on                        *)

\* The statuses before and after a step, each function with its domain.
LEMMA StepFunctions ==
    ASSUME MoneyInv, [Next]_vars
    PROVE  /\ TypeOK /\ TypeOK' /\ MoneyStep
           /\ OrderOf \in [Attempt -> Order]
           /\ order \in [Order -> OrderStatus] /\ payment \in [Order -> PaymentStatus]
           /\ attempt \in [Attempt -> AttemptStatus]
BY StepTyped, MoneySteps, CheckoutAssumption DEF MoneyInv, TypeOK

\* A decision is final, an attempt that exists keeps existing and recorded money
\* stays on record.
LEMMA DecisionsStand ==
    ASSUME MoneyInv, [Next]_vars
    PROVE  /\ \A o \in Order :
                 /\ order[o] \in {"PAID", "CANCELLED", "EXPIRED"} => order'[o] = order[o]
                 /\ payment[o] \in Settled => payment'[o] = payment[o]
           /\ \A a \in Attempt :
                 /\ attempt[a] \in {"VERIFIED", "RECONCILED"} => attempt'[a] = attempt[a]
                 /\ attempt[a] \in Recorded => attempt'[a] \in Recorded
                 /\ attempt[a] # "NONE" => attempt'[a] # "NONE"
<1> DEFINE Goal ==
             /\ \A o \in Order :
                   /\ order[o] \in {"PAID", "CANCELLED", "EXPIRED"} => order'[o] = order[o]
                   /\ payment[o] \in Settled => payment'[o] = payment[o]
             /\ \A a \in Attempt :
                   /\ attempt[a] \in {"VERIFIED", "RECONCILED"} => attempt'[a] = attempt[a]
                   /\ attempt[a] \in Recorded => attempt'[a] \in Recorded
                   /\ attempt[a] # "NONE" => attempt'[a] # "NONE"
<1>1. ASSUME MoneyAlone PROVE Goal
  BY <1>1 DEF MoneyAlone
<1>2. ASSUME NEW o \in Order, OrderMoney(o) PROVE Goal
  BY <1>2, StepFunctions
  DEF OrderMoney, OrderPlaced, OrderCancelled, OrderExpired, PaymentAtExpiry, Settled
<1>3. ASSUME NEW a \in Attempt, AttemptMoney(a) PROVE Goal
  <2>1. CASE AttemptMade(a)
    BY <2>1, StepFunctions DEF AttemptMade, Settled, Recorded
  <2>2. CASE AttemptMoves(a) \/ MoneyTaken(a) \/ ReceiptRefused(a)
    BY <2>2, StepFunctions DEF AttemptMoves, MoneyTaken, ReceiptRefused, Settled, Recorded
  <2>3. CASE Reconciled(a) \/ Resolved(a)
    BY <2>3, StepFunctions DEF Reconciled, Resolved, Settled, Recorded
  <2>4. QED  BY <1>3, <2>1, <2>2, <2>3 DEF AttemptMoney
<1>4. QED
  BY <1>1, <1>2, <1>3, StepFunctions DEF MoneyStep

LEMMA PaidOnlyByOrderStep ==
    ASSUME MoneyInv, [Next]_vars
    PROVE  PaidOnlyByOrder'
<1>0. PaidOnlyByOrder
  BY DEF MoneyInv
<1>1. CASE MoneyAlone
  BY <1>0, <1>1 DEF MoneyAlone, PaidOnlyByOrder
<1>2. ASSUME NEW o \in Order, OrderMoney(o) PROVE PaidOnlyByOrder'
  BY <1>0, <1>2, StepFunctions
  DEF OrderMoney, OrderPlaced, OrderCancelled, OrderExpired, PaymentAtExpiry,
      PaidOnlyByOrder
<1>3. ASSUME NEW a \in Attempt, AttemptMoney(a) PROVE PaidOnlyByOrder'
  BY <1>0, <1>3, StepFunctions
  DEF AttemptMoney, AttemptMade, AttemptMoves, MoneyTaken, ReceiptRefused, Reconciled,
      Resolved, PaidOnlyByOrder
<1>4. QED
  BY <1>1, <1>2, <1>3, StepFunctions DEF MoneyStep

\* An attempt is verified only with its order, which was not paid before.
LEMMA PaidOrderIsBackedStep ==
    ASSUME MoneyInv, [Next]_vars
    PROVE  PaidOrderIsBacked'
<1>1. ASSUME NEW o \in Order
      PROVE  /\ order[o] = "PAID" <=>
                   \E a \in Attempt : OrderOf[a] = o /\ attempt[a] = "VERIFIED"
             /\ order[o] = "PAID" => payment[o] = "PAID"
             /\ \A a, b \in Attempt :
                   /\ OrderOf[a] = o /\ attempt[a] = "VERIFIED"
                   /\ OrderOf[b] = o /\ attempt[b] = "VERIFIED"
                   => a = b
  BY DEF MoneyInv, PaidOrderIsBacked, VerifiedAttempts
<1> DEFINE Backed(o) ==
             /\ order'[o] = "PAID" <=>
                   \E a \in Attempt : OrderOf[a] = o /\ attempt'[a] = "VERIFIED"
             /\ order'[o] = "PAID" => payment'[o] = "PAID"
             /\ \A a, b \in Attempt :
                   /\ OrderOf[a] = o /\ attempt'[a] = "VERIFIED"
                   /\ OrderOf[b] = o /\ attempt'[b] = "VERIFIED"
                   => a = b
<1>2. SUFFICES ASSUME NEW o \in Order PROVE Backed(o)
  BY DEF PaidOrderIsBacked, VerifiedAttempts
<1>3. ASSUME order'[o] = "PAID" <=> order[o] = "PAID",
             \A a \in Attempt : OrderOf[a] = o =>
                (attempt'[a] = "VERIFIED" <=> attempt[a] = "VERIFIED")
      PROVE  Backed(o)
  <2>1. order[o] = "PAID" => payment'[o] = "PAID"
    BY <1>1, DecisionsStand DEF Settled
  <2>2. QED  BY <1>1, <1>3, <2>1
<1>4. CASE MoneyAlone
  BY <1>3, <1>4 DEF MoneyAlone
<1>5. ASSUME NEW q \in Order, OrderMoney(q) PROVE Backed(o)
  BY <1>3, <1>5, StepFunctions DEF OrderMoney, OrderPlaced, OrderCancelled, OrderExpired
<1>6. ASSUME NEW a \in Attempt, AttemptMoney(a) PROVE Backed(o)
  <2>1. CASE MoneyTaken(a)
    <3>1. CASE OrderOf[a] = o
      <4>1. \A b \in Attempt : OrderOf[b] = o => attempt[b] # "VERIFIED"
        BY <1>1, <2>1, <3>1 DEF MoneyTaken
      <4>2. /\ order'[o] = "PAID" /\ payment'[o] = "PAID" /\ attempt'[a] = "VERIFIED"
            /\ \A b \in Attempt : b # a => attempt'[b] = attempt[b]
        BY <2>1, <3>1, StepFunctions DEF MoneyTaken
      <4>3. QED  BY <3>1, <4>1, <4>2
    <3>2. CASE OrderOf[a] # o
      BY <1>3, <2>1, <3>2, StepFunctions DEF MoneyTaken
    <3>3. QED  BY <3>1, <3>2
  <2>2. CASE AttemptMade(a)
    BY <1>3, <2>2, StepFunctions DEF AttemptMade
  <2>3. CASE AttemptMoves(a) \/ ReceiptRefused(a) \/ Reconciled(a) \/ Resolved(a)
    BY <1>3, <2>3, StepFunctions
    DEF AttemptMoves, ReceiptRefused, Reconciled, Resolved, Recorded
  <2>4. QED  BY <1>6, <2>1, <2>2, <2>3 DEF AttemptMoney
<1>7. QED
  BY <1>4, <1>5, <1>6, StepFunctions DEF MoneyStep

\* A payment in reconciliation leaves that status only for REFUNDED.
LEMMA OpenReconciliationStep ==
    ASSUME MoneyInv, [Next]_vars
    PROVE  OpenReconciliationResolvable'
<1> DEFINE Open == Settled \cup {"RECONCILIATION_REQUIRED"}
<1>1. \A o \in Order : payment[o] \in Open => payment'[o] \in Open
  <2>1. CASE MoneyAlone
    BY <2>1 DEF MoneyAlone
  <2>2. ASSUME NEW q \in Order, OrderMoney(q)
        PROVE  \A o \in Order : payment[o] \in Open => payment'[o] \in Open
    BY <2>2, StepFunctions
    DEF OrderMoney, OrderPlaced, OrderCancelled, OrderExpired, PaymentAtExpiry, Settled
  <2>3. ASSUME NEW a \in Attempt, AttemptMoney(a)
        PROVE  \A o \in Order : payment[o] \in Open => payment'[o] \in Open
    BY <2>3, StepFunctions
    DEF AttemptMoney, AttemptMade, AttemptMoves, MoneyTaken, ReceiptRefused, Reconciled,
        Resolved, Settled
  <2>4. QED
    BY <2>1, <2>2, <2>3, StepFunctions DEF MoneyStep
<1>2. ASSUME NEW a \in Attempt, attempt'[a] = "RECONCILIATION_REQUIRED",
             attempt[a] # "RECONCILIATION_REQUIRED"
      PROVE  payment'[OrderOf[a]] \in Open
  <2>1. ~MoneyAlone /\ \A o \in Order : ~OrderMoney(o)
    BY <1>2 DEF MoneyAlone, OrderMoney, OrderPlaced, OrderCancelled, OrderExpired
  <2>2. PICK b \in Attempt : AttemptMoney(b)
    BY <2>1, StepFunctions DEF MoneyStep
  <2>3. Reconciled(b) /\ b = a
    BY <1>2, <2>2, StepFunctions
    DEF AttemptMoney, AttemptMade, AttemptMoves, MoneyTaken, ReceiptRefused, Reconciled,
        Resolved
  <2>4. QED  BY <2>3, StepFunctions DEF Reconciled
<1>3. \A a \in Attempt : OrderOf[a] \in Order
  BY StepFunctions
<1>4. QED
  BY <1>1, <1>2, <1>3 DEF MoneyInv, OpenReconciliationResolvable

LEMMA ExpiredOrderIsClosedStep ==
    ASSUME MoneyInv, [Next]_vars
    PROVE  ExpiredOrderIsClosed'
<1>0. ExpiredOrderIsClosed /\ PaidOnlyByOrder
  BY DEF MoneyInv
<1>1. CASE MoneyAlone
  BY <1>0, <1>1 DEF MoneyAlone, ExpiredOrderIsClosed
<1>2. ASSUME NEW o \in Order, OrderMoney(o) PROVE ExpiredOrderIsClosed'
  <2>1. CASE OrderExpired(o)
    <3>1. payment[o] \notin {"AWAITING_REVIEW", "PAID"}
      BY <1>0, <2>1 DEF OrderExpired, PaidOnlyByOrder
    <3>2. payment'[o] \notin {"PENDING", "AWAITING_REVIEW", "PAID"}
      BY <2>1, <3>1, StepFunctions DEF OrderExpired, PaymentAtExpiry
    <3>3. QED
      BY <1>0, <2>1, <3>2, StepFunctions DEF OrderExpired, ExpiredOrderIsClosed
  <2>2. CASE OrderPlaced(o) \/ OrderCancelled(o)
    BY <1>0, <2>2, StepFunctions DEF OrderPlaced, OrderCancelled, ExpiredOrderIsClosed
  <2>3. QED  BY <1>2, <2>1, <2>2 DEF OrderMoney
<1>3. ASSUME NEW a \in Attempt, AttemptMoney(a) PROVE ExpiredOrderIsClosed'
  BY <1>0, <1>3, StepFunctions
  DEF AttemptMoney, AttemptMade, AttemptMoves, MoneyTaken, ReceiptRefused, Reconciled,
      Resolved, ExpiredOrderIsClosed
<1>4. QED
  BY <1>1, <1>2, <1>3, StepFunctions DEF MoneyStep

-----------------------------------------------------------------------------
(* What requests, callbacks and expiry know                                *)

\* A request that holds the row of its order is new or was there before the step.
LEMMA LockTaken ==
    ASSUME MoneyInv, [Next]_vars, NEW a \in Attempt, request'[a] = "CHECKED"
    PROVE  \/ request[a] = "CHECKED"
           \/ /\ order[OrderOf[a]] = "PENDING_PAYMENT" /\ attempt[a] = "NONE"
              /\ MoneyAlone
<1>1. request \in [Attempt -> RequestStep]
  BY StepFunctions DEF TypeOK
<1>2. ASSUME NEW b \in Attempt, CheckPayable(b)
      PROVE  \/ request[a] = "CHECKED"
             \/ /\ order[OrderOf[a]] = "PENDING_PAYMENT" /\ attempt[a] = "NONE"
                /\ MoneyAlone
  BY <1>1, <1>2 DEF CheckPayable, MoneyAlone, db
<1>3. ASSUME NEW b \in Attempt, RequestNext(b), ~CheckPayable(b)
      PROVE  request[a] = "CHECKED"
  BY <1>1, <1>3 DEF RequestNext, NotPayable, RequestDies, CreateAttempt, GatewayAccepts,
     GatewayRejects, StoreRedirect, StoreRejection, RecoverRedirect, RecoverAbandon,
     CustomerPays, ResolveExternalRefund, inFlight
<1>4. ASSUME NEW k \in CardAttempt, ReceiptNext(k)
      PROVE  request[a] = "CHECKED"
  BY <1>1, <1>4 DEF ReceiptNext, SubmitReceipt, ConfirmReceipt, RejectReceipt, inFlight
<1>5. ASSUME NEW o \in Order, OrderNext(o)
      PROVE  request' = request
  BY <1>5 DEF OrderNext, CreateOrder, DeadlinePasses, CancelReads, CancelCommits,
     CancelAborts, ExpireReads, ExpireCommits, ExpireAborts, inFlight
<1>6. ASSUME NEW c \in Callback, CallbackNext(c)
      PROVE  request' = request
  BY <1>6 DEF CallbackNext, CallbackArrives, CallbackDies, HandlerNext, GatewayConfirms,
     GatewayDenies, RecordFailure, FinalizeFindsVerified, FinalizeFindsUnpayable,
     FinalizeReads, FinalizeCommits, FinalizeConflicts, ReconcileFindsRecorded,
     ReconcileReads, ReconcileCommits, ReconcileAborts, Moves
<1>7. CASE UNCHANGED vars \/ \E v \in Variant : AdjustStock(v)
  BY <1>7 DEF vars, AdjustStock, inFlight
<1>8. QED
  BY <1>2, <1>3, <1>4, <1>5, <1>6, <1>7 DEF Next

\* While the row is held no other transaction decides the order, and none but the
\* holder creates its attempt.
LEMMA LockHoldersStep ==
    ASSUME MoneyInv, [Next]_vars
    PROVE  LockHoldersAreFresh'
<1> SUFFICES ASSUME NEW a \in Attempt, request'[a] = "CHECKED"
             PROVE  order'[OrderOf[a]] = "PENDING_PAYMENT" /\ attempt'[a] = "NONE"
  BY DEF LockHoldersAreFresh
<1>1. CASE ~(request[a] = "CHECKED")
  BY <1>1, LockTaken DEF MoneyAlone
<1>2. CASE request[a] = "CHECKED"
  <2>1. /\ order[OrderOf[a]] = "PENDING_PAYMENT" /\ attempt[a] = "NONE"
        /\ OrderOf[a] \in Order /\ RowLocked(OrderOf[a])
    BY <1>2, StepFunctions DEF MoneyInv, LockHoldersAreFresh, RowLocked
  <2>2. CASE MoneyAlone
    BY <2>1, <2>2 DEF MoneyAlone
  <2>3. ASSUME NEW o \in Order, OrderMoney(o)
        PROVE  order'[OrderOf[a]] = "PENDING_PAYMENT" /\ attempt'[a] = "NONE"
    <3>1. CASE o = OrderOf[a]
      BY <2>1, <2>3, <3>1 DEF OrderMoney, OrderPlaced, OrderCancelled, OrderExpired
    <3>2. CASE o # OrderOf[a]
      BY <2>1, <2>3, <3>2, StepFunctions
      DEF OrderMoney, OrderPlaced, OrderCancelled, OrderExpired
    <3>3. QED  BY <3>1, <3>2
  <2>4. ASSUME NEW b \in Attempt, AttemptMoney(b)
        PROVE  order'[OrderOf[a]] = "PENDING_PAYMENT" /\ attempt'[a] = "NONE"
    <3>1. CASE AttemptMade(b)
      BY <1>2, <2>1, <3>1 DEF AttemptMade
    <3>2. CASE MoneyTaken(b)
      <4>1. OrderOf[b] # OrderOf[a]
        BY <2>1, <3>2 DEF MoneyTaken
      <4>2. QED  BY <2>1, <3>2, <4>1, StepFunctions DEF MoneyTaken
    <3>3. CASE AttemptMoves(b) \/ ReceiptRefused(b) \/ Reconciled(b) \/ Resolved(b)
      BY <2>1, <3>3, StepFunctions DEF AttemptMoves, ReceiptRefused, Reconciled, Resolved
    <3>4. QED  BY <2>4, <3>1, <3>2, <3>3 DEF AttemptMoney
  <2>5. QED  BY <2>2, <2>3, <2>4, StepFunctions DEF MoneyStep
<1>3. QED  BY <1>1, <1>2

\* A step gives one callback a new record and leaves the others alone.  The record is
\* idle, or has just arrived, or goes on with the same attempt.
Arrives(c) ==
    /\ callback[c].step = "IDLE"
    /\ callback'[c].step = "VERIFY" /\ callback'[c].on \in GatewayAttempt
    /\ redirect[callback'[c].on]
    /\ callback'[c].attempt = attempt[callback'[c].on]
    /\ attempt[callback'[c].on] \notin Recorded

GoesOn(c) ==
    /\ callback[c].step \in CallbackStep /\ callback'[c].on = callback[c].on
    /\ \/ /\ callback[c].step = "VERIFY" /\ callback'[c].step = "FAIL"
          /\ callback'[c].attempt = callback[c].attempt
       \/ callback'[c].step \in {"FINALIZE", "COMMIT", "RECONCILE"}
       \/ /\ callback[c].step = "RECONCILE" /\ callback'[c].step = "RECORD"
          /\ callback'[c].attempt = attempt[callback[c].on]
          /\ attempt[callback[c].on] \notin Recorded
          /\ callback'[c].payment = payment[OrderOf[callback[c].on]]
          /\ UNCHANGED payment

\* A callback that was told the money arrived ends with the money on record, or is
\* noted as cut short.
EndsKnown(c) ==
    /\ callback'[c].step = "IDLE"
    /\ callback[c].step \in Succeeding =>
          attempt'[callback[c].on] \in Recorded \/ callback[c].on \in interrupted'

CallbackStill == UNCHANGED <<callback, captured>>

CallbackMoves(c) ==
    /\ \A d \in Callback : d # c => callback'[d] = callback[d]
    /\ \/ (Arrives(c) \/ EndsKnown(c)) /\ UNCHANGED captured
       \/ /\ GoesOn(c)
          /\ callback[c].step \in Succeeding => callback'[c].step \in Succeeding
          /\ \/ UNCHANGED captured
             \/ /\ captured' = captured \cup {callback[c].on}
                /\ callback'[c].step \in Succeeding

LEMMA CallbackRecord ==
    ASSUME TypeOK, NEW c \in Callback, NEW state \in CallbackState, Moves(c, state)
    PROVE  callback'[c] = state /\ \A d \in Callback : d # c => callback'[d] = callback[d]
BY DEF TypeOK, Moves

LEMMA HandlerMoves ==
    ASSUME MoneyInv, NEW c \in Callback, HandlerNext(c)
    PROVE  CallbackMoves(c)
<1> DEFINE r == callback[c]
           a == callback[c].on
           Rest == \A d \in Callback : d # c => callback'[d] = callback[d]
<1>1. TypeOK /\ callback \in [Callback -> CallbackState]
  BY DEF MoneyInv, TypeOK
<1>2. r.step \in CallbackStep
  BY DEF HandlerNext, GatewayConfirms, GatewayDenies, RecordFailure, CallbackStep,
         FinalizeFindsVerified, FinalizeFindsUnpayable, FinalizeReads, FinalizeCommits,
         FinalizeConflicts, ReconcileFindsRecorded, ReconcileReads, ReconcileCommits,
         ReconcileAborts
<1>3. /\ r \in [step: CallbackStep, on: GatewayAttempt, attempt: AttemptStatus,
                payment: PaymentStatus, stock: [Variant -> Nat \X Nat]]
      /\ a \in Attempt /\ OrderOf[a] \in Order /\ a \in GatewayAttempt
  BY <1>1, <1>2, CallbackTyped
<1>4. ASSUME Moves(c, IdleCallback)
      PROVE  callback'[c].step = "IDLE" /\ Rest
  BY <1>1, <1>4 DEF Moves, IdleCallback
<1>5. CASE GatewayConfirms(c)
  <2>1. callback'[c] = [r EXCEPT !.step = "FINALIZE", !.attempt = "NONE"] /\ Rest
    BY <1>1, <1>5 DEF GatewayConfirms, Moves
  <2>2. callback'[c].step = "FINALIZE" /\ callback'[c].on = a
    BY <1>3, <2>1
  <2>3. r.step = "VERIFY" /\ captured' = captured \cup {a}
    BY <1>5 DEF GatewayConfirms
  <2>4. QED  BY <1>2, <2>1, <2>2, <2>3 DEF CallbackMoves, GoesOn, Succeeding
<1>6. CASE GatewayDenies(c)
  <2>1. callback'[c] = [r EXCEPT !.step = "FAIL"] /\ Rest
    BY <1>1, <1>6 DEF GatewayDenies, Moves
  <2>2. callback'[c].step = "FAIL" /\ callback'[c].on = a /\ callback'[c].attempt = r.attempt
    BY <1>3, <2>1
  <2>3. r.step = "VERIFY" /\ UNCHANGED captured
    BY <1>6 DEF GatewayDenies, gateway
  <2>4. QED  BY <1>2, <2>1, <2>2, <2>3 DEF CallbackMoves, GoesOn, Succeeding
<1>7. CASE FinalizeFindsUnpayable(c) \/ FinalizeReads(c) \/ FinalizeConflicts(c)
  <2>1. PICK step \in {"COMMIT", "RECONCILE"} :
          \E stockRead : callback'[c] = [r EXCEPT !.step = step, !.stock = stockRead] /\ Rest
    <3>1. CASE FinalizeFindsUnpayable(c)
      <4>1. callback'[c] = [r EXCEPT !.step = "RECONCILE"] /\ Rest
        BY <1>1, <3>1 DEF FinalizeFindsUnpayable, Moves
      <4>2. callback'[c] = [r EXCEPT !.step = "RECONCILE", !.stock = r.stock]
        BY <1>3, <4>1
      <4>3. QED  BY <4>1, <4>2
    <3>2. CASE FinalizeReads(c)
      BY <1>1, <3>2 DEF FinalizeReads, Moves
    <3>3. CASE FinalizeConflicts(c)
      BY <1>1, <3>3 DEF FinalizeConflicts, Moves
    <3>4. QED  BY <1>7, <3>1, <3>2, <3>3
  <2>2. callback'[c].step = step /\ callback'[c].on = a
    BY <1>3, <2>1
  <2>3. r.step \in {"FINALIZE", "COMMIT"} /\ UNCHANGED captured
    BY <1>7 DEF FinalizeFindsUnpayable, FinalizeReads, FinalizeConflicts, gateway
  <2>4. QED  BY <1>2, <2>1, <2>2, <2>3 DEF CallbackMoves, GoesOn, Succeeding
<1>8. CASE ReconcileReads(c)
  <2>1. /\ callback'[c] = [r EXCEPT !.step = "RECORD", !.attempt = attempt[a],
                                    !.payment = payment[OrderOf[a]]]
        /\ Rest
    BY <1>1, <1>8 DEF ReconcileReads, Moves
  <2>2. /\ callback'[c].step = "RECORD" /\ callback'[c].on = a
        /\ callback'[c].attempt = attempt[a] /\ callback'[c].payment = payment[OrderOf[a]]
    BY <1>3, <2>1
  <2>3. /\ r.step = "RECONCILE" /\ attempt[a] \notin Recorded
        /\ UNCHANGED captured /\ UNCHANGED payment
    BY <1>8 DEF ReconcileReads, gateway, db
  <2>4. QED  BY <1>2, <2>1, <2>2, <2>3 DEF CallbackMoves, GoesOn, Succeeding
<1>9. CASE FinalizeFindsVerified(c) \/ ReconcileFindsRecorded(c)
  <2>1. callback'[c].step = "IDLE" /\ Rest
    BY <1>4, <1>9 DEF FinalizeFindsVerified, ReconcileFindsRecorded
  <2>2. attempt'[a] \in Recorded /\ UNCHANGED captured
    BY <1>9 DEF FinalizeFindsVerified, ReconcileFindsRecorded, Recorded, db, gateway
  <2>3. QED  BY <2>1, <2>2 DEF CallbackMoves, EndsKnown
<1>10. CASE RecordFailure(c)
  <2>1. callback'[c].step = "IDLE" /\ Rest
    BY <1>4, <1>10 DEF RecordFailure
  <2>2. r.step = "FAIL" /\ UNCHANGED captured
    BY <1>10 DEF RecordFailure, gateway
  <2>3. QED  BY <2>1, <2>2 DEF CallbackMoves, EndsKnown, Succeeding
<1>11. CASE FinalizeCommits(c) \/ ReconcileCommits(c)
  <2>1. callback'[c].step = "IDLE" /\ Rest
    BY <1>4, <1>11 DEF FinalizeCommits, ReconcileCommits
  <2>2. attempt \in [Attempt -> AttemptStatus]
    BY <1>1 DEF TypeOK
  <2>3. attempt'[a] \in Recorded /\ UNCHANGED captured
    BY <1>3, <1>11, <2>2 DEF FinalizeCommits, ReconcileCommits, Recorded, gateway
  <2>4. QED  BY <2>1, <2>3 DEF CallbackMoves, EndsKnown
<1>12. CASE ReconcileAborts(c)
  <2>1. callback'[c].step = "IDLE" /\ Rest
    BY <1>4, <1>12 DEF ReconcileAborts
  <2>2. a \in interrupted' /\ UNCHANGED captured
    BY <1>12 DEF ReconcileAborts, gateway
  <2>3. QED  BY <2>1, <2>2 DEF CallbackMoves, EndsKnown
<1>13. QED
  BY <1>5, <1>6, <1>7, <1>8, <1>9, <1>10, <1>11, <1>12 DEF HandlerNext

LEMMA CallbackSteps ==
    ASSUME MoneyInv, [Next]_vars
    PROVE  /\ CallbackStill \/ \E c \in Callback : CallbackMoves(c)
           /\ interrupted \subseteq interrupted'
<1>1. TypeOK
  BY DEF MoneyInv
<1>2. CASE UNCHANGED vars \/ \E v \in Variant : AdjustStock(v)
  BY <1>2 DEF vars, AdjustStock, CallbackStill, inFlight, gateway
<1>3. ASSUME NEW o \in Order, OrderNext(o)
      PROVE  CallbackStill /\ UNCHANGED interrupted
  BY <1>3 DEF OrderNext, CreateOrder, DeadlinePasses, CancelReads, CancelCommits,
     CancelAborts, ExpireReads, ExpireCommits, ExpireAborts, CallbackStill, inFlight, gateway
<1>4. ASSUME NEW a \in Attempt, RequestNext(a)
      PROVE  CallbackStill /\ UNCHANGED interrupted
  BY <1>4 DEF RequestNext, CheckPayable, NotPayable, RequestDies, CreateAttempt,
     GatewayAccepts, GatewayRejects, StoreRedirect, StoreRejection, RecoverRedirect,
     RecoverAbandon, CustomerPays, ResolveExternalRefund, CallbackStill, inFlight, gateway
<1>5. ASSUME NEW k \in CardAttempt, ReceiptNext(k)
      PROVE  CallbackStill /\ UNCHANGED interrupted
  BY <1>5 DEF ReceiptNext, SubmitReceipt, ConfirmReceipt, RejectReceipt, CallbackStill,
     inFlight, gateway
<1>6. ASSUME NEW c \in Callback, HandlerNext(c)
      PROVE  CallbackMoves(c) /\ interrupted \subseteq interrupted'
  <2>1. interrupted \subseteq interrupted'
    BY <1>6 DEF HandlerNext, GatewayConfirms, GatewayDenies, RecordFailure,
       FinalizeFindsVerified, FinalizeFindsUnpayable, FinalizeReads, FinalizeCommits,
       FinalizeConflicts, ReconcileFindsRecorded, ReconcileReads, ReconcileCommits,
       ReconcileAborts
  <2>2. QED  BY <1>6, <2>1, HandlerMoves
<1>7. ASSUME NEW c \in Callback, CallbackDies(c)
      PROVE  CallbackMoves(c) /\ interrupted \subseteq interrupted'
  <2>1. callback'[c].step = "IDLE" /\ \A d \in Callback : d # c => callback'[d] = callback[d]
    BY <1>1, <1>7 DEF CallbackDies, Moves, IdleCallback, TypeOK
  <2>2. /\ callback[c].step \in Succeeding => callback[c].on \in interrupted'
        /\ interrupted \subseteq interrupted' /\ UNCHANGED captured
    BY <1>7 DEF CallbackDies, gateway
  <2>3. QED  BY <2>1, <2>2 DEF CallbackMoves, EndsKnown
<1>8. ASSUME NEW c \in Callback, NEW a \in GatewayAttempt, CallbackArrives(c, a)
      PROVE  CallbackMoves(c) /\ interrupted \subseteq interrupted'
  <2>1. /\ callback'[c]
              = [IdleCallback EXCEPT !.step = "VERIFY", !.on = a, !.attempt = attempt[a]]
        /\ \A d \in Callback : d # c => callback'[d] = callback[d]
    BY <1>1, <1>8 DEF CallbackArrives, Moves, TypeOK
  <2>2. /\ callback'[c].step = "VERIFY" /\ callback'[c].on = a
        /\ callback'[c].attempt = attempt[a]
    BY <2>1 DEF IdleCallback
  <2>3. /\ callback[c].step = "IDLE" /\ redirect[a] /\ attempt[a] \notin Recorded
        /\ UNCHANGED captured /\ UNCHANGED interrupted
    BY <1>8 DEF CallbackArrives, gateway
  <2>4. QED  BY <2>1, <2>2, <2>3 DEF CallbackMoves, Arrives
<1>9. QED
  BY <1>2, <1>3, <1>4, <1>5, <1>6, <1>7, <1>8 DEF Next, CallbackNext

LEMMA OnlyMadeStep ==
    ASSUME MoneyInv, [Next]_vars
    PROVE  OnlyMadeAttemptsAreKnown'
<1>1. TypeOK /\ OnlyMadeAttemptsAreKnown
  BY DEF MoneyInv
<1>2. \A a \in Attempt : attempt[a] # "NONE" => attempt'[a] # "NONE"
  BY DecisionsStand
<1>3. ASSUME NEW a \in Attempt, redirect'[a], ~redirect[a]
      PROVE  attempt[a] # "NONE"
  <2>1. redirect \in [Attempt -> BOOLEAN]
    BY <1>1 DEF TypeOK
  <2>2. ASSUME UNCHANGED redirect PROVE FALSE
    BY <1>3, <2>2
  <2>3. ~(UNCHANGED vars \/ \E v \in Variant : AdjustStock(v))
    BY <2>2 DEF vars, AdjustStock, db
  <2>4. \A o \in Order : ~OrderNext(o)
    BY <2>2 DEF OrderNext, CreateOrder, DeadlinePasses, CancelReads, CancelCommits,
       CancelAborts, ExpireReads, ExpireCommits, ExpireAborts, db
  <2>5. \A k \in CardAttempt : ~ReceiptNext(k)
    BY <2>2 DEF ReceiptNext, SubmitReceipt, ConfirmReceipt, RejectReceipt
  <2>6. \A c \in Callback : ~CallbackNext(c)
    BY <2>2 DEF CallbackNext, CallbackArrives, CallbackDies, HandlerNext, GatewayConfirms,
       GatewayDenies, RecordFailure, FinalizeFindsVerified, FinalizeFindsUnpayable,
       FinalizeReads, FinalizeCommits, FinalizeConflicts, ReconcileFindsRecorded,
       ReconcileReads, ReconcileCommits, ReconcileAborts, db
  <2>7. PICK b \in Attempt : RequestNext(b)
    BY <2>3, <2>4, <2>5, <2>6 DEF Next
  <2>8. StoreRedirect(b) \/ RecoverRedirect(b)
    BY <2>2, <2>7 DEF RequestNext, CheckPayable, NotPayable, RequestDies, CreateAttempt,
       GatewayAccepts, GatewayRejects, StoreRejection, RecoverAbandon, CustomerPays,
       ResolveExternalRefund, db
  <2>9. attempt[b] = "CREATED" /\ redirect' = [redirect EXCEPT ![b] = TRUE]
    BY <2>2, <2>8 DEF StoreRedirect, RecoverRedirect
  <2>10. QED  BY <1>3, <2>1, <2>9
<1>4. ASSUME NEW c \in Callback, callback'[c].step \in CallbackStep
      PROVE  attempt'[callback'[c].on] # "NONE"
  <2>1. CASE callback'[c] = callback[c]
    <3>1. callback[c].on \in Attempt /\ attempt[callback[c].on] # "NONE"
      BY <1>1, <1>4, <2>1, CallbackTyped DEF OnlyMadeAttemptsAreKnown
    <3>2. QED  BY <1>2, <2>1, <3>1
  <2>2. CASE callback'[c] # callback[c]
    <3>1. CallbackMoves(c)
      BY <2>2, CallbackSteps DEF CallbackStill, CallbackMoves
    <3>2. CASE Arrives(c)
      BY <1>1, <1>2, <3>2 DEF Arrives, OnlyMadeAttemptsAreKnown, Attempt
    <3>3. CASE GoesOn(c)
      <4>1. callback[c].on \in Attempt /\ attempt[callback[c].on] # "NONE"
        BY <1>1, <3>3, CallbackTyped DEF GoesOn, OnlyMadeAttemptsAreKnown
      <4>2. QED  BY <1>2, <3>3, <4>1 DEF GoesOn
    <3>4. CASE EndsKnown(c)
      BY <1>4, <3>4 DEF EndsKnown, CallbackStep
    <3>5. QED  BY <3>1, <3>2, <3>3, <3>4 DEF CallbackMoves
  <2>3. QED  BY <2>1, <2>2
<1>5. \A a \in Attempt : redirect'[a] => attempt'[a] # "NONE"
  BY <1>1, <1>2, <1>3 DEF OnlyMadeAttemptsAreKnown
<1>6. QED
  BY <1>4, <1>5 DEF OnlyMadeAttemptsAreKnown

LEMMA CallbackReadsStep ==
    ASSUME MoneyInv, [Next]_vars
    PROVE  CallbackReadsHold'
<1>1. TypeOK /\ CallbackReadsHold
  BY DEF MoneyInv
<1> SUFFICES ASSUME NEW c \in Callback
             PROVE  /\ callback'[c].step \in {"VERIFY", "FAIL", "RECORD"} =>
                          callback'[c].attempt \notin Recorded
                    /\ callback'[c].step = "RECORD" /\ callback'[c].payment \in Settled =>
                          payment'[OrderOf[callback'[c].on]] \in Settled
  BY DEF CallbackReadsHold
<1>2. CASE callback'[c] = callback[c]
  <2>1. callback[c].step = "RECORD" => OrderOf[callback[c].on] \in Order
    BY <1>1, CallbackTyped DEF CallbackStep
  <2>2. QED  BY <1>1, <1>2, <2>1, DecisionsStand DEF CallbackReadsHold
<1>3. CASE callback'[c] # callback[c]
  <2>1. CallbackMoves(c)
    BY <1>3, CallbackSteps DEF CallbackStill, CallbackMoves
  <2>2. CASE Arrives(c) \/ EndsKnown(c)
    BY <2>2 DEF Arrives, EndsKnown
  <2>3. CASE GoesOn(c)
    BY <1>1, <2>3 DEF GoesOn, CallbackReadsHold
  <2>4. QED  BY <2>1, <2>2, <2>3 DEF CallbackMoves
<1>4. QED  BY <1>2, <1>3

\* An expiry transaction starts on an order without a receipt under review, and a
\* receipt that comes later moves the deadline for as long as the transaction is open.
LEMMA ReviewStopsExpiryStep ==
    ASSUME MoneyInv, [Next]_vars
    PROVE  ReviewStopsExpiry'
<1>1. /\ TypeOK /\ ReviewStopsExpiry /\ OrderOf \in [Attempt -> Order]
      /\ due \in [Order -> BOOLEAN] /\ payment \in [Order -> PaymentStatus]
      /\ expiring \in [Order -> {"IDLE", "NONE", "PENDING", "CANCELLED"}]
  BY CheckoutAssumption DEF MoneyInv, TypeOK
<1> DEFINE Stopped(o) == expiring'[o] # "IDLE" /\ payment'[o] = "AWAITING_REVIEW" => ~due'[o]
<1>2. SUFFICES ASSUME NEW o \in Order PROVE Stopped(o)
  BY DEF ReviewStopsExpiry
<1>3. expiring[o] # "IDLE" /\ payment[o] = "AWAITING_REVIEW" => ~due[o]
  BY <1>1 DEF ReviewStopsExpiry
<1>4. ASSUME UNCHANGED <<expiring, due>>,
             payment'[o] = payment[o] \/ payment'[o] # "AWAITING_REVIEW"
      PROVE  Stopped(o)
  BY <1>3, <1>4
<1>5. CASE UNCHANGED vars \/ \E v \in Variant : AdjustStock(v)
  BY <1>4, <1>5 DEF vars, AdjustStock, db, inFlight
<1>6. ASSUME NEW q \in Order, OrderNext(q) PROVE Stopped(o)
  <2>1. CASE CreateOrder(q) \/ CancelReads(q) \/ CancelCommits(q) \/ CancelAborts(q)
    BY <1>4, <2>1 DEF CreateOrder, CancelReads, CancelCommits, CancelAborts, db, inFlight
  <2>2. CASE DeadlinePasses(q)
    BY <1>1, <1>3, <2>2 DEF DeadlinePasses, inFlight
  <2>3. CASE ExpireReads(q)
    BY <1>1, <1>3, <2>3 DEF ExpireReads, Expirable, db
  <2>4. CASE ExpireAborts(q)
    BY <1>1, <1>3, <2>4 DEF ExpireAborts, db
  <2>5. CASE ExpireCommits(q)
    BY <1>1, <1>3, <2>5 DEF ExpireCommits, PaymentAtExpiry
  <2>6. QED  BY <1>6, <2>1, <2>2, <2>3, <2>4, <2>5 DEF OrderNext
<1>7. ASSUME NEW a \in Attempt, RequestNext(a) PROVE Stopped(o)
  <2>1. UNCHANGED <<expiring, due>>
    BY <1>7 DEF RequestNext, CheckPayable, NotPayable, RequestDies, CreateAttempt,
       GatewayAccepts, GatewayRejects, StoreRedirect, StoreRejection, RecoverRedirect,
       RecoverAbandon, CustomerPays, ResolveExternalRefund, db, inFlight
  <2>2. payment'[o] = payment[o] \/ payment'[o] # "AWAITING_REVIEW"
    BY <1>1, <1>7 DEF RequestNext, CheckPayable, NotPayable, RequestDies, CreateAttempt,
       GatewayAccepts, GatewayRejects, StoreRedirect, StoreRejection, RecoverRedirect,
       RecoverAbandon, CustomerPays, ResolveExternalRefund, db
  <2>3. QED  BY <1>4, <2>1, <2>2
<1>8. ASSUME NEW k \in CardAttempt, ReceiptNext(k) PROVE Stopped(o)
  <2>1. OrderOf[k] \in Order
    BY <1>1 DEF Attempt
  <2>2. CASE SubmitReceipt(k)
    BY <1>1, <1>3, <2>1, <2>2 DEF SubmitReceipt
  <2>3. CASE ConfirmReceipt(k) \/ RejectReceipt(k)
    BY <1>1, <1>4, <2>1, <2>3 DEF ConfirmReceipt, RejectReceipt, inFlight
  <2>4. QED  BY <1>8, <2>2, <2>3 DEF ReceiptNext
<1>9. ASSUME NEW c \in Callback, CallbackNext(c) PROVE Stopped(o)
  <2>1. UNCHANGED <<expiring, due>>
    BY <1>9 DEF CallbackNext, CallbackArrives, CallbackDies, HandlerNext, GatewayConfirms,
       GatewayDenies, RecordFailure, FinalizeFindsVerified, FinalizeFindsUnpayable,
       FinalizeReads, FinalizeCommits, FinalizeConflicts, ReconcileFindsRecorded,
       ReconcileReads, ReconcileCommits, ReconcileAborts, Moves, db
  <2>2. payment'[o] = payment[o] \/ payment'[o] # "AWAITING_REVIEW"
    BY <1>1, <1>9 DEF CallbackNext, CallbackArrives, CallbackDies, HandlerNext,
       GatewayConfirms, GatewayDenies, RecordFailure, FinalizeFindsVerified,
       FinalizeFindsUnpayable, FinalizeReads, FinalizeCommits, FinalizeConflicts,
       ReconcileFindsRecorded, ReconcileReads, ReconcileCommits, ReconcileAborts,
       AfterReconciliation, db
  <2>3. QED  BY <1>4, <2>1, <2>2
<1>10. QED
  BY <1>5, <1>6, <1>7, <1>8, <1>9 DEF Next

LEMMA CapturedMoneyStep ==
    ASSUME MoneyInv, [Next]_vars
    PROVE  CapturedMoneyAccounted'
<1> DEFINE AtWork(a) == \E c \in Callback : callback[c].on = a /\ callback[c].step \in Succeeding
<1>1. TypeOK /\ captured \subseteq Attempt
  BY DEF MoneyInv, TypeOK, Attempt
<1>2. \A a \in captured : attempt[a] \in Recorded \/ AtWork(a) \/ a \in interrupted
  BY DEF MoneyInv, CapturedMoneyAccounted
<1>3. \A a \in captured : attempt[a] \in Recorded => attempt'[a] \in Recorded
  BY <1>1, DecisionsStand
<1>4. interrupted \subseteq interrupted'
  BY CallbackSteps
<1>5. CASE CallbackStill
  BY <1>2, <1>3, <1>4, <1>5 DEF CallbackStill, CapturedMoneyAccounted
<1>6. ASSUME NEW c \in Callback, CallbackMoves(c) PROVE CapturedMoneyAccounted'
  <2>1. ASSUME NEW a \in captured, AtWork(a)
        PROVE  AtWork(a)' \/ attempt'[a] \in Recorded \/ a \in interrupted'
    <3>1. PICK d \in Callback : callback[d].on = a /\ callback[d].step \in Succeeding
      BY <2>1
    <3>2. CASE d # c
      BY <1>6, <3>1, <3>2 DEF CallbackMoves
    <3>3. CASE d = c
      BY <1>6, <3>1, <3>3 DEF CallbackMoves, Arrives, GoesOn, EndsKnown, Succeeding
    <3>4. QED  BY <3>2, <3>3
  <2>2. ASSUME NEW a \in captured', a \notin captured
        PROVE  AtWork(a)'
    BY <1>6, <2>2 DEF CallbackMoves, GoesOn
  <2>3. QED  BY <1>2, <1>3, <1>4, <2>1, <2>2 DEF CapturedMoneyAccounted
<1>7. QED
  BY <1>5, <1>6, CallbackSteps

-----------------------------------------------------------------------------
(* Theorems                                                                *)

LEMMA StepMoney == MoneyInv /\ [Next]_vars => MoneyInv'
<1> SUFFICES ASSUME MoneyInv, [Next]_vars PROVE MoneyInv'
  OBVIOUS
<1>1. TypeOK'
  BY StepFunctions
<1>2. QED
  BY <1>1, LockHoldersStep, OnlyMadeStep, CallbackReadsStep, ReviewStopsExpiryStep,
     PaidOnlyByOrderStep, PaidOrderIsBackedStep, OpenReconciliationStep,
     ExpiredOrderIsClosedStep, CapturedMoneyStep DEF MoneyInv

\* Every part of MoneyInv holds in every reachable state: the parts are inductive
\* together, and none of the four properties of the runs is by itself.
THEOREM MoneyInvariant == Spec => []MoneyInv
BY InitMoney, StepMoney, PTL DEF Spec

\* An order is PAID exactly when one of its attempts, and only one, is VERIFIED: no race
\* of callbacks, receipts, cancellation and expiry pays an order twice, or takes the
\* payment of a paid order away.
THEOREM PaidOrdersAreBacked == Spec => []PaidOrderIsBacked
<1>1. MoneyInv => PaidOrderIsBacked
  BY DEF MoneyInv
<1>2. QED
  BY <1>1, MoneyInvariant, PTL

\* No money that the gateway has confirmed to verifyCallback is lost without a trace.
THEOREM CapturedMoneyIsAccounted == Spec => []CapturedMoneyAccounted
<1>1. MoneyInv => CapturedMoneyAccounted
  BY DEF MoneyInv
<1>2. QED
  BY <1>1, MoneyInvariant, PTL

\* resolveExternalRefund never finds an open reconciliation with a payment it refuses.
THEOREM ReconciliationsResolvable == Spec => []OpenReconciliationResolvable
<1>1. MoneyInv => OpenReconciliationResolvable
  BY DEF MoneyInv
<1>2. QED
  BY <1>1, MoneyInvariant, PTL

\* An order that expireOrder has closed has no payment that could still be paid.
THEOREM ExpiredOrdersAreClosed == Spec => []ExpiredOrderIsClosed
<1>1. MoneyInv => ExpiredOrderIsClosed
  BY DEF MoneyInv
<1>2. QED
  BY <1>1, MoneyInvariant, PTL

\* What is decided about an order, a payment or an attempt is decided for good.
THEOREM DecisionsStayFinal == Spec => DecisionsAreFinal
<1>1. MoneyInv /\ [Next]_vars =>
        [/\ \A o \in Order :
               /\ order[o] \in {"PAID", "CANCELLED", "EXPIRED"} => order'[o] = order[o]
               /\ payment[o] \in Settled => payment'[o] = payment[o]
         /\ \A a \in Attempt :
               attempt[a] \in {"VERIFIED", "RECONCILED"} => attempt'[a] = attempt[a]]_vars
  BY DecisionsStand
<1>2. QED
  BY <1>1, MoneyInvariant, PTL DEF Spec, DecisionsAreFinal

===============================================================================
