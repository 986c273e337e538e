--------------------------- MODULE Checkout_proofs ---------------------------
(***************************************************************************)
(* Proofs about Checkout for every set of orders, attempts, variants and   *)
(* callbacks: its types, the conservation of reserved stock, and that it   *)
(* implements Reservation.                                                 *)
(***************************************************************************)
EXTENDS Checkout, FiniteSetTheorems, TLAPS

-----------------------------------------------------------------------------
(* Types                                                                   *)

LEMMA InitTyped == Init => TypeOK
BY CheckoutAssumption DEF Init, TypeOK, OrderStatus, PaymentStatus, AttemptStatus,
   RequestStep, CallbackStep, CallbackState, IdleCallback, NoStockRead

LEMMA StockReadTyped ==
    ASSUME TypeOK, NEW o \in Order
    PROVE  StockRead(o) \in [Variant -> Nat \X Nat]
BY CheckoutAssumption DEF TypeOK, StockRead

\* The four columns and sets that most steps leave alone.
LEMMA OrderStepsTyped ==
    ASSUME TypeOK, NEW o \in Order, OrderNext(o)
    PROVE  TypeOK'
<1> USE CheckoutAssumption DEF TypeOK, OrderStatus, PaymentStatus, db, stock, inFlight,
        gateway
<1>1. CASE CreateOrder(o)
  <2>1. reserved' \in [Variant -> 0..MaxStock]
    BY <1>1 DEF CreateOrder, Reserve, CanReserve
  <2>2. QED  BY <1>1, <2>1 DEF CreateOrder, Reserve
<1>2. CASE DeadlinePasses(o)
  BY <1>2 DEF DeadlinePasses
<1>3. ASSUME Release(o)
      PROVE  reserved' \in [Variant -> 0..MaxStock] /\ onHand' = onHand
  BY <1>3 DEF Release, CanRelease
<1>4. CASE CancelReads(o)
  BY <1>4 DEF CancelReads
<1>5. CASE CancelCommits(o)
  BY <1>3, <1>5 DEF CancelCommits
<1>6. CASE CancelAborts(o)
  BY <1>6 DEF CancelAborts
<1>7. CASE ExpireReads(o)
  BY <1>7 DEF ExpireReads, Expirable
<1>8. CASE ExpireCommits(o)
  BY <1>3, <1>8 DEF ExpireCommits, PaymentAtExpiry
<1>9. CASE ExpireAborts(o)
  BY <1>9 DEF ExpireAborts
<1>10. QED
  BY <1>1, <1>2, <1>4, <1>5, <1>6, <1>7, <1>8, <1>9 DEF OrderNext

LEMMA RequestStepsTyped ==
    ASSUME TypeOK, NEW a \in Attempt, RequestNext(a)
    PROVE  TypeOK'
<1> USE CheckoutAssumption DEF TypeOK, PaymentStatus, AttemptStatus, RequestStep, db,
        stock, inFlight, gateway
<1>1. CASE CheckPayable(a) \/ NotPayable(a) \/ RequestDies(a)
  BY <1>1 DEF CheckPayable, NotPayable, RequestDies
<1>2. CASE CreateAttempt(a)
  BY <1>2 DEF CreateAttempt
<1>3. CASE GatewayAccepts(a) \/ GatewayRejects(a)
  BY <1>3 DEF GatewayAccepts, GatewayRejects
<1>4. CASE StoreRedirect(a)
  BY <1>4 DEF StoreRedirect
<1>5. CASE StoreRejection(a)
  BY <1>5 DEF StoreRejection
<1>6. CASE RecoverRedirect(a)
  BY <1>6 DEF RecoverRedirect
<1>10. CASE RecoverAbandon(a)
  BY <1>10 DEF RecoverAbandon
<1>7. CASE CustomerPays(a)
  BY <1>7 DEF CustomerPays
<1>8. CASE ResolveExternalRefund(a)
  BY <1>8 DEF ResolveExternalRefund
<1>9. QED
  BY <1>1, <1>2, <1>3, <1>4, <1>5, <1>6, <1>7, <1>8, <1>10 DEF RequestNext

\* A sale keeps both stock columns within their limits.
LEMMA SaleTyped ==
    ASSUME TypeOK, NEW o \in Order, Sell(o)
    PROVE  /\ onHand' \in [Variant -> 0..MaxStock]
           /\ reserved' \in [Variant -> 0..MaxStock]
BY CheckoutAssumption DEF TypeOK, Sell, CanSell

LEMMA ReceiptStepsTyped ==
    ASSUME TypeOK, NEW k \in CardAttempt, ReceiptNext(k)
    PROVE  TypeOK'
<1> USE CheckoutAssumption DEF TypeOK, OrderStatus, PaymentStatus, AttemptStatus,
        RequestStep, db, stock, inFlight, gateway, Attempt
<1>1. CASE SubmitReceipt(k)
  BY <1>1 DEF SubmitReceipt
<1>2. CASE ConfirmReceipt(k)
  <2>1. Sell(OrderOf[k]) /\ OrderOf[k] \in Order
    BY <1>2 DEF ConfirmReceipt
  <2>2. QED  BY <1>2, <2>1, SaleTyped DEF ConfirmReceipt
<1>3. CASE RejectReceipt(k)
  BY <1>3 DEF RejectReceipt
<1>4. QED
  BY <1>1, <1>2, <1>3 DEF ReceiptNext

\* A callback that is at work is one of the records, and its next record is too.
LEMMA CallbackTyped ==
    ASSUME TypeOK, NEW c \in Callback, callback[c].step \in CallbackStep
    PROVE  /\ callback[c] \in [step: CallbackStep, on: GatewayAttempt,
                               attempt: AttemptStatus, payment: PaymentStatus,
                               stock: [Variant -> Nat \X Nat]]
           /\ callback[c].on \in GatewayAttempt
           /\ callback[c].on \in Attempt
           /\ OrderOf[callback[c].on] \in Order
BY CheckoutAssumption DEF TypeOK, CallbackState, IdleCallback, CallbackStep, Attempt

LEMMA MoveTyped ==
    ASSUME TypeOK, NEW c \in Callback, NEW state \in CallbackState, Moves(c, state)
    PROVE  /\ cancelling' \subseteq Order
           /\ expiring' \in [Order -> {"IDLE", "NONE", "PENDING", "CANCELLED"}]
           /\ request' \in [Attempt -> RequestStep]
           /\ callback' \in [Callback -> CallbackState]
BY DEF TypeOK, Moves

LEMMA IdleCallbackTyped == IdleCallback \in CallbackState
BY DEF CallbackState

LEMMA ArrivalTyped ==
    ASSUME TypeOK, NEW c \in Callback, NEW a \in GatewayAttempt, CallbackArrives(c, a)
    PROVE  TypeOK'
<1>1. [IdleCallback EXCEPT !.step = "VERIFY", !.on = a, !.attempt = attempt[a]]
        \in CallbackState
  BY DEF TypeOK, CallbackState, IdleCallback, CallbackStep, PaymentStatus, NoStockRead,
         Attempt
<1>2. QED
  BY <1>1, MoveTyped DEF CallbackArrives, TypeOK, db, stock, gateway

LEMMA HandlerStepsTyped ==
    ASSUME TypeOK, NEW c \in Callback, HandlerNext(c)
    PROVE  TypeOK'
<1> DEFINE a == callback[c].on
<1>1. callback[c].step \in CallbackStep
  BY DEF HandlerNext, GatewayConfirms, GatewayDenies, RecordFailure, CallbackStep,
         FinalizeFindsVerified, FinalizeFindsUnpayable, FinalizeReads, FinalizeCommits,
         FinalizeConflicts, ReconcileFindsRecorded, ReconcileReads, ReconcileCommits,
         ReconcileAborts
<1>2. /\ a \in GatewayAttempt /\ a \in Attempt /\ OrderOf[a] \in Order
      /\ callback[c] \in [step: CallbackStep, on: GatewayAttempt,
                          attempt: AttemptStatus, payment: PaymentStatus,
                          stock: [Variant -> Nat \X Nat]]
  BY <1>1, CallbackTyped
<1>3. ASSUME Moves(c, IdleCallback), db' = db, stock' = stock, bank' = bank,
             captured' = captured, interrupted' \subseteq GatewayAttempt
      PROVE  TypeOK'
  BY <1>3, MoveTyped, IdleCallbackTyped DEF TypeOK, db, stock
<1>4. CASE GatewayConfirms(c)
  <2>1. [callback[c] EXCEPT !.step = "FINALIZE", !.attempt = "NONE"] \in CallbackState
    BY <1>2 DEF CallbackState, CallbackStep, AttemptStatus
  <2>2. QED
    BY <1>2, <1>4, <2>1, MoveTyped DEF GatewayConfirms, TypeOK, db, stock
<1>5. CASE GatewayDenies(c)
  <2>1. [callback[c] EXCEPT !.step = "FAIL"] \in CallbackState
    BY <1>2 DEF CallbackState, CallbackStep
  <2>2. QED
    BY <1>5, <2>1, MoveTyped DEF GatewayDenies, TypeOK, db, stock, gateway
<1>6. CASE RecordFailure(c)
  <2>1. attempt' \in [Attempt -> AttemptStatus]
    BY <1>2, <1>6 DEF RecordFailure, AfterFailure, TypeOK, AttemptStatus
  <2>2. QED
    BY <1>6, <2>1, MoveTyped, IdleCallbackTyped DEF RecordFailure, TypeOK, stock, gateway
<1>7. CASE FinalizeFindsVerified(c) \/ ReconcileFindsRecorded(c)
  BY <1>3, <1>7 DEF FinalizeFindsVerified, ReconcileFindsRecorded, gateway, TypeOK
<1>8. CASE FinalizeFindsUnpayable(c)
  <2>1. [callback[c] EXCEPT !.step = "RECONCILE"] \in CallbackState
    BY <1>2 DEF CallbackState, CallbackStep
  <2>2. QED
    BY <1>8, <2>1, MoveTyped DEF FinalizeFindsUnpayable, TypeOK, db, stock, gateway
<1>9. CASE FinalizeReads(c)
  <2>1. [callback[c] EXCEPT !.step = "COMMIT", !.stock = StockRead(OrderOf[a])]
          \in CallbackState
    BY <1>2, StockReadTyped DEF CallbackState, CallbackStep
  <2>2. QED
    BY <1>9, <2>1, MoveTyped DEF FinalizeReads, TypeOK, db, stock, gateway
<1>10. CASE FinalizeCommits(c)
  <2>1. /\ order' \in [Order -> OrderStatus]
        /\ attempt' \in [Attempt -> AttemptStatus]
        /\ payment' \in [Order -> PaymentStatus]
    BY <1>2, <1>10 DEF FinalizeCommits, TypeOK, OrderStatus, AttemptStatus, PaymentStatus
  <2>2. /\ onHand' \in [Variant -> 0..MaxStock]
        /\ reserved' \in [Variant -> 0..MaxStock]
    BY <1>2, <1>10, SaleTyped DEF FinalizeCommits
  <2>3. QED
    BY <1>10, <2>1, <2>2, MoveTyped, IdleCallbackTyped DEF FinalizeCommits, TypeOK, gateway
<1>11. CASE FinalizeConflicts(c)
  <2>1. [callback[c] EXCEPT !.step = "RECONCILE", !.stock = NoStockRead] \in CallbackState
    BY <1>2 DEF CallbackState, CallbackStep, NoStockRead
  <2>2. QED
    BY <1>11, <2>1, MoveTyped DEF FinalizeConflicts, TypeOK, db, stock, gateway
<1>12. CASE ReconcileReads(c)
  <2>1. [callback[c] EXCEPT !.step = "RECORD", !.attempt = attempt[a],
                            !.payment = payment[OrderOf[a]]] \in CallbackState
    BY <1>2 DEF CallbackState, CallbackStep, TypeOK
  <2>2. QED
    BY <1>12, <2>1, MoveTyped DEF ReconcileReads, TypeOK, db, stock, gateway
<1>13. CASE ReconcileCommits(c)
  <2>1. /\ attempt' \in [Attempt -> AttemptStatus]
        /\ payment' \in [Order -> PaymentStatus]
    BY <1>2, <1>13 DEF ReconcileCommits, AfterReconciliation, TypeOK, AttemptStatus,
       PaymentStatus
  <2>2. QED
    BY <1>13, <2>1, MoveTyped, IdleCallbackTyped DEF ReconcileCommits, TypeOK, stock, gateway
<1>14. CASE ReconcileAborts(c)
  BY <1>2, <1>3, <1>14 DEF ReconcileAborts, TypeOK, gateway
<1>15. QED
  BY <1>4, <1>5, <1>6, <1>7, <1>8, <1>9, <1>10, <1>11, <1>12, <1>13, <1>14 DEF HandlerNext

LEMMA StepTyped == TypeOK /\ [Next]_vars => TypeOK'
<1> SUFFICES ASSUME TypeOK, [Next]_vars PROVE TypeOK'
  OBVIOUS
<1>1. CASE UNCHANGED vars
  BY <1>1 DEF TypeOK, vars
<1>2. ASSUME NEW v \in Variant, AdjustStock(v) PROVE TypeOK'
  BY <1>2, CheckoutAssumption DEF AdjustStock, StockLevels, TypeOK, db, inFlight, gateway
<1>3. ASSUME NEW c \in Callback, CallbackDies(c) PROVE TypeOK'
  <2>1. interrupted' \subseteq GatewayAttempt
    BY <1>3, CallbackTyped DEF CallbackDies, TypeOK, Succeeding, CallbackStep
  <2>2. QED
    BY <1>3, <2>1, MoveTyped, IdleCallbackTyped
    DEF CallbackDies, TypeOK, db, stock, gateway
<1>4. QED
  BY <1>1, <1>2, <1>3, OrderStepsTyped, RequestStepsTyped, ReceiptStepsTyped, ArrivalTyped,
     HandlerStepsTyped DEF Next, CallbackNext

\* Every reachable state is well typed; in particular neither stock column leaves
\* 0..MaxStock, whichever transactions commit.
THEOREM TypeCorrect == Spec => []TypeOK
<1>1. QED
  BY InitTyped, StepTyped, PTL DEF Spec

-----------------------------------------------------------------------------
(* Stock.  Whatever a step does besides, to orders and stock it does one of  *)
(* five things.                                                            *)

Placed(o) ==
    /\ order[o] = "NONE"
    /\ Reserve(o)
    /\ order' = [order EXCEPT ![o] = "PENDING_PAYMENT"]

GivenBack(o) ==
    /\ order[o] = "PENDING_PAYMENT"
    /\ Release(o)
    /\ \E status \in {"CANCELLED", "EXPIRED"} : order' = [order EXCEPT ![o] = status]

Sold(o) ==
    /\ order[o] = "PENDING_PAYMENT"
    /\ Sell(o)
    /\ order' = [order EXCEPT ![o] = "PAID"]

Corrected(v) ==
    /\ \E n \in StockLevels(v) : onHand' = [onHand EXCEPT ![v] = n]
    /\ UNCHANGED <<order, reserved>>

StockAlone == UNCHANGED <<order, onHand, reserved>>

LEMMA StockSteps ==
    ASSUME TypeOK, [Next]_vars
    PROVE  \/ StockAlone
           \/ \E v \in Variant : Corrected(v)
           \/ \E o \in Order : Placed(o) \/ GivenBack(o) \/ Sold(o)
<1>1. CASE UNCHANGED vars
  BY <1>1 DEF vars, StockAlone
<1>2. ASSUME NEW v \in Variant, AdjustStock(v) PROVE Corrected(v)
  BY <1>2 DEF AdjustStock, Corrected, db
<1>3. ASSUME NEW o \in Order, OrderNext(o)
      PROVE  StockAlone \/ Placed(o) \/ GivenBack(o)
  BY <1>3 DEF OrderNext, CreateOrder, DeadlinePasses, CancelReads, CancelCommits,
     CancelAborts, ExpireReads, ExpireCommits, ExpireAborts, CancelClaims, ExpireClaims,
     StockAlone, Placed, GivenBack, db, stock
<1>4. ASSUME NEW a \in Attempt, RequestNext(a) PROVE StockAlone
  BY <1>4 DEF RequestNext, CheckPayable, NotPayable, RequestDies, CreateAttempt,
     GatewayAccepts, GatewayRejects, StoreRedirect, StoreRejection, RecoverRedirect,
     RecoverAbandon, CustomerPays, ResolveExternalRefund, StockAlone, db, stock
<1>5. ASSUME NEW k \in CardAttempt, ReceiptNext(k)
      PROVE  StockAlone \/ Sold(OrderOf[k])
  BY <1>5 DEF ReceiptNext, SubmitReceipt, ConfirmReceipt, RejectReceipt, UnderReview,
     StockAlone, Sold, stock
<1>6. ASSUME NEW c \in Callback, CallbackNext(c), ~StockAlone
      PROVE  Sold(OrderOf[callback[c].on]) /\ OrderOf[callback[c].on] \in Order
  <2>1. FinalizeCommits(c)
    BY <1>6 DEF CallbackNext, CallbackArrives, CallbackDies, HandlerNext,
       GatewayConfirms, GatewayDenies, RecordFailure, FinalizeFindsVerified,
       FinalizeFindsUnpayable, FinalizeReads, FinalizeConflicts, ReconcileFindsRecorded,
       ReconcileReads, ReconcileCommits, ReconcileAborts, StockAlone, db, stock
  <2>2. QED
    BY <2>1, CallbackTyped
    DEF FinalizeCommits, FinalizeClaims, Finalizable, Sold, CallbackStep
<1>7. \A k \in CardAttempt : OrderOf[k] \in Order
  BY CheckoutAssumption DEF Attempt
<1>8. QED
  BY <1>1, <1>2, <1>3, <1>4, <1>5, <1>6, <1>7 DEF Next

-----------------------------------------------------------------------------
(* Conservation: Inventory.reserved counts the units of the orders awaiting  *)
(* payment.                                                                *)

\* HeldUnits with the orders' statuses as a parameter, for use before and after
\* a step.
HeldWith(status, v) ==
    {u \in Order \X (1..MaxStock) :
        status[u[1]] = "PENDING_PAYMENT" /\ u[2] <= Need[u[1]][v]}

Units(o, v) == {o} \X (1..Need[o][v])

LEMMA UnitsCounted ==
    ASSUME NEW o \in Order, NEW v \in Variant
    PROVE  /\ IsFiniteSet(Units(o, v))
           /\ Cardinality(Units(o, v)) = Need[o][v]
<1> DEFINE n == Need[o][v]
           C == Cardinality(1..n)
<1>1. n \in Nat
  BY CheckoutAssumption
<1> HIDE DEF n
<1>2. IsFiniteSet(1..n) /\ C = IF 1 > n THEN 0 ELSE n - 1 + 1
  <2>1. 1 \in Int /\ n \in Int
    BY <1>1
  <2>2. QED  BY <2>1, FS_Interval, Zenon
<1>3. C = n
  BY <1>1, <1>2
<1>4. IsFiniteSet({o}) /\ Cardinality({o}) = 1
  BY FS_Singleton
<1>5. /\ IsFiniteSet({o} \X (1..n))
      /\ Cardinality({o} \X (1..n)) = 1 * C
  BY <1>2, <1>4, FS_Product, Zenon
<1>6. Cardinality({o} \X (1..n)) = n
  BY <1>1, <1>3, <1>5
<1>7. QED
  BY <1>5, <1>6, Zenon DEF Units, n

LEMMA HeldFinite ==
    ASSUME NEW status, NEW v
    PROVE  IsFiniteSet(HeldWith(status, v)) /\ Cardinality(HeldWith(status, v)) \in Nat
<1>1. IsFiniteSet(1..MaxStock)
  BY CheckoutAssumption, FS_Interval
<1>2. IsFiniteSet(Order \X (1..MaxStock))
  BY <1>1, CheckoutAssumption, FS_Product
<1>3. HeldWith(status, v) \in SUBSET (Order \X (1..MaxStock))
  BY DEF HeldWith
<1>4. QED
  BY <1>2, <1>3, FS_Subset, FS_CardinalityType

\* An order that starts to wait adds its own units and no other's ...
LEMMA HeldGrows ==
    ASSUME NEW status \in [Order -> OrderStatus], NEW o \in Order, NEW v \in Variant,
           status[o] # "PENDING_PAYMENT", Need[o][v] <= MaxStock
    PROVE  Cardinality(HeldWith([status EXCEPT ![o] = "PENDING_PAYMENT"], v))
             = Cardinality(HeldWith(status, v)) + Need[o][v]
<1> DEFINE after == [status EXCEPT ![o] = "PENDING_PAYMENT"]
<1>1. HeldWith(after, v) = HeldWith(status, v) \cup Units(o, v)
  BY CheckoutAssumption DEF HeldWith, Units
<1>2. HeldWith(status, v) \cap Units(o, v) = {}
  BY DEF HeldWith, Units
<1>3. /\ IsFiniteSet(HeldWith(status, v)) /\ Cardinality(HeldWith(status, v)) \in Nat
      /\ IsFiniteSet(Units(o, v)) /\ Cardinality(Units(o, v)) = Need[o][v]
      /\ Need[o][v] \in Nat
  BY HeldFinite, UnitsCounted, CheckoutAssumption
<1>4. Cardinality(HeldWith(status, v) \cup Units(o, v))
        = Cardinality(HeldWith(status, v)) + Cardinality(Units(o, v))
          - Cardinality(HeldWith(status, v) \cap Units(o, v))
  BY <1>3, FS_Union, Zenon
<1>5. Cardinality(HeldWith(status, v) \cap Units(o, v)) = 0
  BY <1>2, FS_EmptySet, Zenon
<1>6. Cardinality(HeldWith(after, v)) = Cardinality(HeldWith(status, v) \cup Units(o, v))
  BY <1>1, Zenon
<1>7. QED
  BY <1>3, <1>4, <1>5, <1>6

\* ... and one that stops waiting takes exactly its own away.
LEMMA HeldShrinks ==
    ASSUME NEW status \in [Order -> OrderStatus], NEW o \in Order, NEW v \in Variant,
           status[o] = "PENDING_PAYMENT", Need[o][v] <= MaxStock,
           NEW next \in OrderStatus, next # "PENDING_PAYMENT"
    PROVE  Cardinality(HeldWith([status EXCEPT ![o] = next], v))
             = Cardinality(HeldWith(status, v)) - Need[o][v]
<1> DEFINE after == [status EXCEPT ![o] = next]
<1>1. HeldWith(after, v) = HeldWith(status, v) \ Units(o, v)
  BY CheckoutAssumption DEF HeldWith, Units
<1>2. HeldWith(status, v) \cap Units(o, v) = Units(o, v)
  BY CheckoutAssumption DEF HeldWith, Units
<1>3. IsFiniteSet(HeldWith(status, v)) /\ Cardinality(Units(o, v)) = Need[o][v]
  BY HeldFinite, UnitsCounted
<1>4. Cardinality(HeldWith(status, v) \ Units(o, v))
        = Cardinality(HeldWith(status, v))
          - Cardinality(HeldWith(status, v) \cap Units(o, v))
  BY <1>3, FS_Difference, Zenon
<1>5. Cardinality(HeldWith(status, v) \cap Units(o, v)) = Need[o][v]
  BY <1>2, <1>3, Zenon
<1>6. Cardinality(HeldWith(after, v)) = Cardinality(HeldWith(status, v) \ Units(o, v))
  BY <1>1, Zenon
<1>7. QED
  BY <1>4, <1>5, <1>6

\* Only orders whose units fit the stock columns can be waiting.
PendingFits ==
    \A o \in Order, v \in Variant :
        order[o] = "PENDING_PAYMENT" => Need[o][v] <= MaxStock

StockInv == TypeOK /\ ReservedMatchesPending /\ NoOversell /\ PendingFits

LEMMA HeldUnitsAre == \A v : HeldUnits(v) = HeldWith(order, v)
BY DEF HeldUnits, HeldWith

LEMMA InitStock == Init => StockInv
<1> SUFFICES ASSUME Init PROVE StockInv
  OBVIOUS
<1>1. TypeOK
  BY InitTyped
<1>2. ASSUME NEW v \in Variant PROVE HeldUnits(v) = {}
  BY DEF Init, HeldUnits
<1>3. ReservedMatchesPending
  BY <1>2, FS_EmptySet DEF ReservedMatchesPending, Init
<1>4. NoOversell /\ PendingFits
  BY CheckoutAssumption DEF NoOversell, PendingFits, Init
<1>5. QED
  BY <1>1, <1>3, <1>4 DEF StockInv

LEMMA StepStock == StockInv /\ [Next]_vars => StockInv'
<1> SUFFICES ASSUME StockInv, [Next]_vars PROVE StockInv'
  OBVIOUS
<1>1. TypeOK /\ TypeOK'
  BY StepTyped DEF StockInv
<1>2. ASSUME NEW v \in Variant
      PROVE  /\ onHand[v] \in 0..MaxStock /\ reserved[v] \in 0..MaxStock
             /\ reserved[v] <= onHand[v]
             /\ reserved[v] = Cardinality(HeldWith(order, v))
             /\ \A o \in Order : Need[o][v] \in Nat
  BY <1>1, HeldUnitsAre, CheckoutAssumption
  DEF StockInv, TypeOK, NoOversell, ReservedMatchesPending
<1>3. SUFFICES /\ \A v \in Variant : reserved'[v] = Cardinality(HeldWith(order', v))
               /\ NoOversell' /\ PendingFits'
  BY <1>1 DEF StockInv, ReservedMatchesPending, HeldUnits, HeldWith
<1>4. CASE StockAlone
  BY <1>2, <1>4 DEF StockAlone, StockInv, NoOversell, PendingFits
<1>5. ASSUME NEW w \in Variant, Corrected(w)
      PROVE  /\ \A v \in Variant : reserved'[v] = Cardinality(HeldWith(order', v))
             /\ NoOversell' /\ PendingFits'
  <2>1. \A v \in Variant : reserved'[v] = Cardinality(HeldWith(order', v))
    BY <1>2, <1>5 DEF Corrected
  <2>2. NoOversell'
    BY <1>1, <1>2, <1>5 DEF Corrected, StockLevels, NoOversell, TypeOK
  <2>3. PendingFits'
    BY <1>5 DEF Corrected, StockInv, PendingFits
  <2>4. QED  BY <2>1, <2>2, <2>3
<1>6. ASSUME NEW o \in Order, Placed(o)
      PROVE  /\ \A v \in Variant : reserved'[v] = Cardinality(HeldWith(order', v))
             /\ NoOversell' /\ PendingFits'
  <2>1. ASSUME NEW v \in Variant
        PROVE  Need[o][v] <= MaxStock /\ Need[o][v] <= onHand[v] - reserved[v]
    BY <1>2, <1>6, CheckoutAssumption DEF Placed, Reserve, CanReserve
  <2>2. ASSUME NEW v \in Variant
        PROVE  reserved'[v] = Cardinality(HeldWith(order', v))
    <3>1. order \in [Order -> OrderStatus] /\ order[o] # "PENDING_PAYMENT"
      BY <1>1, <1>6 DEF Placed, TypeOK
    <3>2. Cardinality(HeldWith([order EXCEPT ![o] = "PENDING_PAYMENT"], v))
            = Cardinality(HeldWith(order, v)) + Need[o][v]
      BY <2>1, <3>1, HeldGrows, Zenon
    <3>3. order' = [order EXCEPT ![o] = "PENDING_PAYMENT"]
          /\ reserved'[v] = reserved[v] + Need[o][v]
      BY <1>6 DEF Placed, Reserve
    <3>4. QED  BY <1>2, <3>2, <3>3
  <2>3. NoOversell'
    BY <1>2, <1>6, <2>1 DEF Placed, Reserve, NoOversell
  <2>4. PendingFits'
    BY <1>1, <1>6, <2>1 DEF Placed, StockInv, PendingFits, TypeOK
  <2>5. QED  BY <2>2, <2>3, <2>4
<1>7. ASSUME NEW o \in Order, GivenBack(o) \/ Sold(o)
      PROVE  /\ \A v \in Variant : reserved'[v] = Cardinality(HeldWith(order', v))
             /\ NoOversell' /\ PendingFits'
  <2>1. PICK status \in {"CANCELLED", "EXPIRED", "PAID"} :
          order' = [order EXCEPT ![o] = status]
    BY <1>7 DEF GivenBack, Sold
  <2>2. /\ order[o] = "PENDING_PAYMENT"
        /\ reserved' = [v \in Variant |-> reserved[v] - Need[o][v]]
        /\ \/ onHand' = onHand
           \/ onHand' = [v \in Variant |-> onHand[v] - Need[o][v]]
    BY <1>7 DEF GivenBack, Sold, Release, Sell
  <2>3. ASSUME NEW v \in Variant PROVE Need[o][v] <= MaxStock
    BY <2>2 DEF StockInv, PendingFits
  <2>4. status \in OrderStatus /\ status # "PENDING_PAYMENT"
    BY DEF OrderStatus
  <2>5. ASSUME NEW v \in Variant
        PROVE  Cardinality(HeldWith(order', v)) = Cardinality(HeldWith(order, v)) - Need[o][v]
    <3>1. order \in [Order -> OrderStatus]
      BY <1>1 DEF TypeOK
    <3>2. Cardinality(HeldWith([order EXCEPT ![o] = status], v))
            = Cardinality(HeldWith(order, v)) - Need[o][v]
      BY <2>2, <2>3, <2>4, <3>1, HeldShrinks, Zenon
    <3>3. QED  BY <2>1, <3>2
  <2>6. \A v \in Variant : reserved'[v] = Cardinality(HeldWith(order', v))
    BY <1>2, <2>2, <2>5
  <2>7. NoOversell'
    BY <1>2, <2>2 DEF NoOversell
  <2>8. PendingFits'
    BY <1>1, <2>1, <2>4 DEF StockInv, PendingFits, TypeOK
  <2>9. QED  BY <2>6, <2>7, <2>8
<1>8. QED
  BY <1>1, <1>4, <1>5, <1>6, <1>7, StockSteps

THEOREM StockInvariant == Spec => []StockInv
<1>1. QED
  BY InitStock, StepStock, PTL DEF Spec

\* Inventory.reserved is always the sum of the units of the orders awaiting
\* payment.
THEOREM ReservationConserved == Spec => []ReservedMatchesPending
<1>1. StockInv => ReservedMatchesPending
  BY DEF StockInv
<1>2. QED
  BY <1>1, StockInvariant, PTL

\* No variant is ever promised to more buyers than the warehouse can serve.
THEOREM NeverOversold == Spec => []NoOversell
<1>1. StockInv => NoOversell
  BY DEF StockInv
<1>2. QED
  BY <1>1, StockInvariant, PTL

\* The units of an order awaiting payment are there for whoever settles it.
THEOREM PendingOrdersSettleable == Spec => []PendingOrderSettleable
<1>1. StockInv => PendingOrderSettleable
  <2> SUFFICES ASSUME StockInv, NEW o \in Order, order[o] = "PENDING_PAYMENT",
                      NEW v \in Variant
               PROVE  reserved[v] >= Need[o][v] /\ onHand[v] >= Need[o][v]
    BY DEF PendingOrderSettleable, CanRelease, CanSell
  <2>1. /\ Need[o][v] \in Nat /\ Need[o][v] <= MaxStock
        /\ onHand[v] \in Nat /\ reserved[v] \in Nat /\ reserved[v] <= onHand[v]
    BY CheckoutAssumption DEF StockInv, PendingFits, TypeOK, NoOversell
  <2>2. Units(o, v) \in SUBSET HeldWith(order, v)
    BY <2>1, CheckoutAssumption DEF Units, HeldWith
  <2>3. Cardinality(Units(o, v)) <= Cardinality(HeldWith(order, v))
    BY <2>2, HeldFinite, FS_Subset
  <2>4. Need[o][v] <= reserved[v]
    BY <2>3, UnitsCounted, HeldUnitsAre DEF StockInv, ReservedMatchesPending
  <2>5. QED  BY <2>1, <2>4
<1>2. QED
  BY <1>1, StockInvariant, PTL

-----------------------------------------------------------------------------
(* Refinement of Reservation                                               *)

LEMMA InitPromise == Init => Promise!Init
BY CheckoutAssumption DEF Init, Promise!Init, claim, available

\* The claim of an order after its status has changed, and nobody else's.
LEMMA ClaimMoves ==
    ASSUME TypeOK, NEW o \in Order, NEW status \in OrderStatus,
           order' = [order EXCEPT ![o] = status]
    PROVE  claim' = [claim EXCEPT ![o] = CASE status = "NONE"            -> "none"
                                           [] status = "PENDING_PAYMENT" -> "held"
                                           [] status = "PAID"            -> "sold"
                                           [] OTHER                      -> "released"]
BY DEF TypeOK, claim

LEMMA StepPromise ==
    ASSUME TypeOK, TypeOK', [Next]_vars
    PROVE  [Promise!Next]_<<claim, available>>
<1>1. ASSUME NEW v \in Variant
      PROVE  /\ onHand[v] \in 0..MaxStock /\ reserved[v] \in 0..MaxStock
             /\ onHand'[v] \in 0..MaxStock /\ reserved'[v] \in 0..MaxStock
             /\ \A o \in Order : Need[o][v] \in Nat
  BY CheckoutAssumption DEF TypeOK
<1>2. CASE StockAlone
  BY <1>2 DEF StockAlone, claim, available
<1>3. ASSUME NEW w \in Variant, Corrected(w) PROVE Promise!Correct(w)
  <2>1. PICK n \in StockLevels(w) : onHand' = [onHand EXCEPT ![w] = n]
    BY <1>3 DEF Corrected
  <2>2. n - reserved[w] \in 0..MaxStock
    BY <1>1, <2>1, CheckoutAssumption DEF StockLevels
  <2>3. available' = [available EXCEPT ![w] = n - reserved[w]]
    BY <1>3, <2>1 DEF Corrected, available, TypeOK
  <2>4. claim' = claim
    BY <1>3 DEF Corrected, claim
  <2>5. QED  BY <2>2, <2>3, <2>4 DEF Promise!Correct
<1>4. ASSUME NEW o \in Order, Placed(o) PROVE Promise!Hold(o)
  <2>1. claim[o] = "none" /\ claim' = [claim EXCEPT ![o] = "held"]
    BY <1>4, ClaimMoves DEF Placed, claim, OrderStatus
  <2>2. \A v \in Variant : available[v] >= Need[o][v]
    BY <1>4 DEF Placed, Reserve, CanReserve, available
  <2>3. available' = [v \in Variant |-> available[v] - Need[o][v]]
    BY <1>1, <1>4 DEF Placed, Reserve, available
  <2>4. QED  BY <2>1, <2>2, <2>3 DEF Promise!Hold
<1>5. ASSUME NEW o \in Order, GivenBack(o) PROVE Promise!GiveBack(o)
  <2>1. claim[o] = "held" /\ claim' = [claim EXCEPT ![o] = "released"]
    BY <1>5, ClaimMoves DEF GivenBack, claim, OrderStatus
  <2>2. available' = [v \in Variant |-> available[v] + Need[o][v]]
    BY <1>1, <1>5 DEF GivenBack, Release, available
  <2>3. QED  BY <2>1, <2>2 DEF Promise!GiveBack
<1>6. ASSUME NEW o \in Order, Sold(o) PROVE Promise!Buy(o)
  <2>1. claim[o] = "held" /\ claim' = [claim EXCEPT ![o] = "sold"]
    BY <1>6, ClaimMoves DEF Sold, claim, OrderStatus
  <2>2. available' = available
    BY <1>1, <1>6 DEF Sold, Sell, available
  <2>3. QED  BY <2>1, <2>2 DEF Promise!Buy
<1>7. QED
  BY <1>2, <1>3, <1>4, <1>5, <1>6, StockSteps DEF Promise!Next

\* To buyers, checkout with all its transactions, stale reads, crashes and late
\* payments is a shop that takes units for an order once and sells them or gives
\* them back once.
THEOREM ImplementsReservation == Spec => KeepsPromise
<1>1. TypeOK /\ TypeOK' /\ [Next]_vars => [Promise!Next]_<<claim, available>>
  BY StepPromise
<1>2. QED
  BY <1>1, InitPromise, TypeCorrect, PTL DEF Spec, KeepsPromise, Promise!Spec

=============================================================================
