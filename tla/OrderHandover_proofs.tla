------------------------ MODULE OrderHandover_proofs ------------------------
(***************************************************************************)
(* Proof that Checkout does to its orders and payments only what           *)
(* Fulfillment and ExpirationSweep take it to do, for every set of orders, *)
(* attempts, variants and callbacks.                                       *)
(***************************************************************************)
EXTENDS CheckoutMoney_proofs, OrderHandover

\* Money is only ever asked for through a payment that was begun.
AttemptsHavePayments ==
    \A a \in Attempt : attempt[a] # "NONE" => payment[OrderOf[a]] # "NONE"

HandoverInv == MoneyInv /\ AttemptsHavePayments

LEMMA InitHandover == Init => HandoverInv
BY InitMoney DEF Init, HandoverInv, AttemptsHavePayments

LEMMA StepHandover == HandoverInv /\ [Next]_vars => HandoverInv'
<1> SUFFICES ASSUME HandoverInv, [Next]_vars PROVE HandoverInv'
  OBVIOUS
<1>0. MoneyInv /\ AttemptsHavePayments /\ MoneyInv'
  BY StepMoney DEF HandoverInv
<1>1. SUFFICES ASSUME NEW b \in Attempt, attempt'[b] # "NONE"
               PROVE  payment'[OrderOf[b]] # "NONE"
  BY <1>0 DEF HandoverInv, AttemptsHavePayments
<1> DEFINE q == OrderOf[b]
<1>2. q \in Order /\ (attempt[b] # "NONE" => payment[q] # "NONE")
  BY <1>0, StepFunctions DEF AttemptsHavePayments
<1>3. CASE MoneyAlone
  BY <1>1, <1>2, <1>3 DEF MoneyAlone
<1>4. ASSUME NEW o \in Order, OrderMoney(o) PROVE payment'[q] # "NONE"
  BY <1>0, <1>1, <1>2, <1>4, StepFunctions
  DEF OrderMoney, OrderPlaced, OrderCancelled, OrderExpired, PaymentAtExpiry
<1>5. ASSUME NEW a \in Attempt, AttemptMoney(a) PROVE payment'[q] # "NONE"
  <2>1. CASE AttemptMade(a)
    <3>1. OrderOf[a] = q => payment'[q] # "NONE"
      BY <1>0, <1>2, <2>1, StepFunctions DEF AttemptMade
    <3>2. OrderOf[a] # q => attempt[b] # "NONE" /\ payment'[q] = payment[q]
      BY <1>0, <1>1, <1>2, <2>1, StepFunctions DEF AttemptMade
    <3>3. QED  BY <1>2, <3>1, <3>2
  <2>2. CASE ~AttemptMade(a)
    BY <1>0, <1>1, <1>2, <1>5, <2>2, StepFunctions
    DEF AttemptMoney, AttemptMoves, MoneyTaken, ReceiptRefused, Reconciled, Resolved
  <2>3. QED  BY <2>1, <2>2
<1>6. QED
  BY <1>0, <1>3, <1>4, <1>5, StepFunctions DEF MoneyStep

-----------------------------------------------------------------------------
(* What Fulfillment sees                                                   *)

\* The same payment as before, or one that starts or settles, or an order that closes.
FulfillmentStep(o) ==
    \/ OrderSeen(o)' = OrderSeen(o) /\ PaymentSeen(o)' = PaymentSeen(o)
    \/ /\ OrderSeen(o) = "PENDING_PAYMENT" /\ OrderSeen(o)' = OrderSeen(o)
       /\ PaymentSeen(o) = "NONE" /\ PaymentSeen(o)' = "PENDING"
    \/ /\ OrderSeen(o) = "PENDING_PAYMENT" /\ OrderSeen(o)' = "PAID"
       /\ PaymentSeen(o) = "PENDING" /\ PaymentSeen(o)' = "PAID"
    \/ /\ OrderSeen(o) = "PENDING_PAYMENT" /\ OrderSeen(o)' = "CLOSED"
       /\ PaymentSeen(o)' = PaymentSeen(o)

LEMMA FulfillmentStepIs ==
    ASSUME NEW o \in Order, FulfillmentStep(o)
    PROVE  [FulfillmentSees(o)]_<<OrderSeen(o), PaymentSeen(o)>>
BY DEF FulfillmentStep, FulfillmentSees, Unshipped!PaymentStarts, Unshipped!PaymentSettles,
   Unshipped!OrderCloses

LEMMA FulfillmentSteps ==
    ASSUME HandoverInv, [Next]_vars, NEW o \in Order
    PROVE  FulfillmentStep(o)
<1>0. MoneyInv /\ AttemptsHavePayments
  BY DEF HandoverInv
<1>1. /\ order[o] \in OrderStatus /\ payment[o] \in PaymentStatus
      /\ payment[o] = "PAID" => order[o] = "PAID"
      /\ order[o] = "PAID" => payment[o] = "PAID"
  BY <1>0 DEF MoneyInv, TypeOK, PaidOnlyByOrder, PaidOrderIsBacked
<1>2. ASSUME order'[o] = order[o], payment'[o] = payment[o] PROVE FulfillmentStep(o)
  BY <1>2 DEF FulfillmentStep, OrderSeen, PaymentSeen
<1>3. CASE MoneyAlone
  BY <1>2, <1>3 DEF MoneyAlone
<1>4. ASSUME NEW p \in Order, OrderMoney(p) PROVE FulfillmentStep(o)
  <2>1. CASE p # o
    BY <1>0, <1>2, <1>4, <2>1, StepFunctions
    DEF OrderMoney, OrderPlaced, OrderCancelled, OrderExpired
  <2>2. CASE p = o
    BY <1>0, <1>1, <1>4, <2>2, StepFunctions
    DEF OrderMoney, OrderPlaced, OrderCancelled, OrderExpired, PaymentAtExpiry,
        FulfillmentStep, OrderSeen, PaymentSeen
  <2>3. QED  BY <2>1, <2>2
<1>5. ASSUME NEW a \in Attempt, AttemptMoney(a) PROVE FulfillmentStep(o)
  <2>1. CASE OrderOf[a] # o
    BY <1>0, <1>2, <1>5, <2>1, StepFunctions
    DEF AttemptMoney, AttemptMade, AttemptMoves, MoneyTaken, ReceiptRefused, Reconciled,
        Resolved
  <2>2. CASE OrderOf[a] = o /\ (AttemptMade(a) \/ AttemptMoves(a) \/ MoneyTaken(a))
    BY <1>0, <1>1, <2>2, StepFunctions
    DEF AttemptMade, AttemptMoves, MoneyTaken, FulfillmentStep, OrderSeen, PaymentSeen
  <2>3. CASE OrderOf[a] = o /\ (ReceiptRefused(a) \/ Reconciled(a) \/ Resolved(a))
    <3>1. payment[o] # "NONE"
      BY <1>0, <2>3 DEF AttemptsHavePayments, ReceiptRefused, Reconciled, Resolved
    <3>2. QED
      BY <1>0, <1>1, <2>3, <3>1, StepFunctions
      DEF ReceiptRefused, Reconciled, Resolved, FulfillmentStep, OrderSeen, PaymentSeen,
          Settled
  <2>4. QED  BY <1>5, <2>1, <2>2, <2>3 DEF AttemptMoney
<1>6. QED
  BY <1>0, <1>3, <1>4, <1>5, StepFunctions DEF MoneyStep

-----------------------------------------------------------------------------
(* What ExpirationSweep sees                                               *)

LEMMA SweepSteps ==
    ASSUME HandoverInv, [Next]_vars
    PROVE  [SweepSees]_waits
<1>0. MoneyInv
  BY DEF HandoverInv
<1>1. ASSUME NEW o \in Order,
             \A p \in Order : p # o => order'[p] = order[p] /\ payment'[p] = payment[p]
      PROVE  [SweepSees]_waits
  <2>1. Waits(o) \in Swept!OrderState /\ Waits(o)' \in Swept!OrderState
    BY DEF Waits, Swept!OrderState
  <2>2. waits' = [waits EXCEPT ![o] = Waits(o)']
    BY <1>1 DEF waits, Waits
  <2>3. waits[o] = Waits(o)
    BY DEF waits
  <2>4. Waits(o) = "LEFT" => Waits(o)' = "LEFT"
    BY <1>0, DecisionsStand, StepFunctions DEF Waits, OrderStatus
  <2>5. CASE Waits(o)' = Waits(o)
    BY <2>2, <2>3, <2>5 DEF waits
  <2>6. CASE Waits(o)' # Waits(o)
    <3>1. Swept!OrderMoves(o, Waits(o), Waits(o)')
      BY <2>1, <2>2, <2>3, <2>4, <2>6 DEF Swept!OrderMoves, Swept!OrderState
    <3>2. QED  BY <2>1, <3>1 DEF SweepSees
  <2>7. QED  BY <2>5, <2>6
<1>2. CASE MoneyAlone
  BY <1>2 DEF MoneyAlone, waits, Waits
<1>3. ASSUME NEW o \in Order, OrderMoney(o) PROVE [SweepSees]_waits
  <2>1. \A p \in Order : p # o => order'[p] = order[p] /\ payment'[p] = payment[p]
    BY <1>0, <1>3, StepFunctions DEF OrderMoney, OrderPlaced, OrderCancelled, OrderExpired
  <2>2. QED  BY <1>1, <2>1
<1>4. ASSUME NEW a \in Attempt, AttemptMoney(a) PROVE [SweepSees]_waits
  <2>1. OrderOf[a] \in Order
    BY <1>0, StepFunctions
  <2>2. \A p \in Order : p # OrderOf[a] => order'[p] = order[p] /\ payment'[p] = payment[p]
    BY <1>0, <1>4, StepFunctions
    DEF AttemptMoney, AttemptMade, AttemptMoves, MoneyTaken, ReceiptRefused, Reconciled,
        Resolved
  <2>3. QED  BY <1>1, <2>1, <2>2
<1>5. QED
  BY <1>0, <1>2, <1>3, <1>4, StepFunctions DEF MoneyStep

-----------------------------------------------------------------------------

LEMMA InitHandsOver ==
    ASSUME Init
    PROVE  (\A o \in Order : Unshipped(o)!FulfillmentInit) /\ Swept!Init
<1>1. ASSUME NEW o \in Order PROVE Unshipped(o)!FulfillmentInit
  BY DEF Init, Unshipped!FulfillmentInit, OrderSeen, PaymentSeen, Unshipped!IdleTracker,
     Unshipped!IdleEditor
<1>2. Swept!Init
  BY DEF Init, Swept!Init, waits, Waits, Expirable
<1>3. QED  BY <1>1, <1>2

\* Fulfillment and the sweep may rely on the steps they allow Checkout, however many
\* orders, attempts and callbacks there are.
THEOREM CheckoutHandsOver == Spec => HandsOver
<1>1. HandoverInv /\ [Next]_vars =>
        [order' # order \/ payment' # payment =>
            /\ \A o \in Order : [FulfillmentSees(o)]_<<OrderSeen(o), PaymentSeen(o)>>
            /\ [SweepSees]_waits]_vars
  BY FulfillmentSteps, FulfillmentStepIs, SweepSteps
<1>2. QED
  BY <1>1, InitHandover, StepHandover, InitHandsOver, PTL DEF Spec, HandsOver

=============================================================================
