------------------------ MODULE PaymentRefunds_proofs ------------------------
(***************************************************************************)
(* Proofs about PaymentRefunds for every payment, every finite set of      *)
(* refunds and any number of requests: types, the agreement of the totals  *)
(* and the status of the payment with its refunds, and that refunds give   *)
(* out the payment as Allowance says.                                      *)
(***************************************************************************)
EXTENDS PaymentRefunds, FiniteSetTheorems, TLAPS

\* What confirm and cancel have checked of the payment they have read.
ReadsChecked ==
    \A q \in Request :
        LET seen == request[q].seen
            amount == AmountOf[request[q].refund] IN
        /\ request[q].step = "CONFIRM" =>
              /\ seen.refunded + amount <= seen.allocated
              /\ seen.refunded + amount <= Amount
        /\ request[q].step = "CANCEL" => seen.allocated - amount >= seen.refunded

RefundsInv ==
    /\ RefundsTypeOK
    /\ ReadsChecked
    /\ StatusFollowsRefunds
    /\ TotalsMatchRefunds

-----------------------------------------------------------------------------
(* What each step does to the rows                                         *)

Allocates(r) ==
    /\ refund[r] = "NONE" /\ refund' = [refund EXCEPT ![r] = "PENDING"]
    /\ payment.allocated + AmountOf[r] <= Amount
    /\ payment' = [payment EXCEPT !.allocated = @ + AmountOf[r]]

GivesBack(r) ==
    /\ refund[r] = "PENDING" /\ refund' = [refund EXCEPT ![r] = "CONFIRMED"]
    /\ payment.refunded + AmountOf[r] <= payment.allocated
    /\ payment' = [payment EXCEPT
           !.refunded = @ + AmountOf[r],
           !.status = IF payment.refunded + AmountOf[r] = Amount
                      THEN "REFUNDED" ELSE "PARTIALLY_REFUNDED"]

TakesBack(r) ==
    /\ refund[r] = "PENDING" /\ refund' = [refund EXCEPT ![r] = "CANCELLED"]
    /\ payment.allocated - AmountOf[r] >= payment.refunded
    /\ payment' = [payment EXCEPT !.allocated = @ - AmountOf[r]]

RowsAlone == UNCHANGED <<payment, refund>>

LEMMA RefundSteps ==
    ASSUME RefundsTypeOK, ReadsChecked, [RefundsNext]_refundVars
    PROVE  \/ RowsAlone
           \/ \E r \in Refund : Allocates(r) \/ GivesBack(r) \/ TakesBack(r)
<1> USE RefundsAssumption
<1>1. ASSUME NEW r \in Refund, CreateRefund(r) PROVE Allocates(r)
  <2>1. payment.allocated \in Nat /\ AmountOf[r] \in Nat /\ Amount \in Nat
    BY DEF RefundsTypeOK, PaymentRow
  <2>2. QED  BY <1>1, <2>1 DEF CreateRefund, HasRoom, Allocates
<1>2. ASSUME NEW q \in Request, RequestNext(q)
      PROVE  RowsAlone \/ \E r \in Refund : GivesBack(r) \/ TakesBack(r)
  <2>1. CASE \E r \in Refund : ConfirmReads(q, r) \/ CancelReads(q, r)
    BY <2>1 DEF ConfirmReads, CancelReads, Begins, RowsAlone
  <2>2. CASE Confirms(q)
    <3>1. request[q].refund \in Refund
      BY <2>2 DEF Confirms, Finishes, RefundsTypeOK
    <3>2. GivesBack(request[q].refund)
      BY <2>2 DEF Confirms, Finishes, Claims, ReadsChecked, GivesBack
    <3>3. QED  BY <3>1, <3>2
  <2>3. CASE Cancels(q)
    <3>1. request[q].refund \in Refund
      BY <2>3 DEF Cancels, Finishes, RefundsTypeOK
    <3>2. TakesBack(request[q].refund)
      BY <2>3 DEF Cancels, Finishes, Claims, ReadsChecked, TakesBack
    <3>3. QED  BY <3>1, <3>2
  <2>4. CASE RefundRequestEnds(q)
    BY <2>4 DEF RefundRequestEnds, RowsAlone
  <2>5. QED  BY <1>2, <2>1, <2>2, <2>3, <2>4 DEF RequestNext
<1>3. CASE UNCHANGED refundVars
  BY <1>3 DEF refundVars, RowsAlone
<1>4. QED  BY <1>1, <1>2, <1>3 DEF RefundsNext

-----------------------------------------------------------------------------
(* Types and checked reads                                                 *)

LEMMA InitRefundsTyped == RefundsInit => RefundsTypeOK /\ ReadsChecked
BY RefundsAssumption DEF RefundsInit, RefundsTypeOK, ReadsChecked, FreshPayment, PaymentRow,
   IdleRequest

LEMMA PaymentTyped ==
    ASSUME RefundsTypeOK, NEW r \in Refund, Allocates(r) \/ GivesBack(r) \/ TakesBack(r)
    PROVE  payment' \in PaymentRow
<1>1. /\ payment \in PaymentRow
      /\ payment.allocated \in 0..Amount /\ payment.refunded \in 0..Amount
      /\ AmountOf[r] \in 1..Amount /\ Amount \in Nat
  BY RefundsAssumption DEF RefundsTypeOK, PaymentRow
<1>2. CASE Allocates(r)
  BY <1>1, <1>2 DEF Allocates, PaymentRow
<1>3. CASE GivesBack(r)
  <2> DEFINE total == payment.refunded + AmountOf[r]
             status == IF total = Amount THEN "REFUNDED" ELSE "PARTIALLY_REFUNDED"
  <2>1. total \in 0..Amount
    BY <1>1, <1>3 DEF GivesBack
  <2>2. status \in {"PAID", "PARTIALLY_REFUNDED", "REFUNDED"}
    OBVIOUS
  <2>3. payment' = [payment EXCEPT !.refunded = total, !.status = status]
    BY <1>3 DEF GivesBack
  <2> HIDE DEF total, status
  <2>4. QED  BY <1>1, <2>1, <2>2, <2>3 DEF PaymentRow
<1>4. CASE TakesBack(r)
  BY <1>1, <1>4 DEF TakesBack, PaymentRow
<1>5. QED  BY <1>2, <1>3, <1>4

RequestRecord == [step: {"IDLE", "CONFIRM", "CANCEL"}, refund: Refund \cup {NoRefund},
                  seen: PaymentRow]

\* A request that reads or ends keeps its type and what it has checked.
LEMMA RequestMoves ==
    ASSUME RefundsTypeOK, ReadsChecked, [RefundsNext]_refundVars
    PROVE  /\ request' \in [Request -> RequestRecord]
           /\ \A q \in Request : request'[q].step # "IDLE" => request'[q].refund \in Refund
           /\ ReadsChecked'
<1> USE RefundsAssumption
<1> DEFINE Good == /\ request' \in [Request -> RequestRecord]
                   /\ \A q \in Request :
                         request'[q].step # "IDLE" => request'[q].refund \in Refund
                   /\ ReadsChecked'
<1>1. CASE request' = request
  BY <1>1 DEF RefundsTypeOK, ReadsChecked, RequestRecord
<1>2. ASSUME NEW q \in Request, request' = [request EXCEPT ![q] = IdleRequest] PROVE Good
  <2>1. IdleRequest \in RequestRecord
    BY DEF IdleRequest, RequestRecord, FreshPayment, PaymentRow
  <2>2. QED  BY <1>2, <2>1 DEF RefundsTypeOK, ReadsChecked, RequestRecord, IdleRequest
<1>3. ASSUME NEW q \in Request, NEW r \in Refund, ConfirmReads(q, r) PROVE Good
  <2>1. request' = [request EXCEPT ![q] = [step |-> "CONFIRM", refund |-> r, seen |-> payment]]
    BY <1>3 DEF ConfirmReads, Begins
  <2>2. [step |-> "CONFIRM", refund |-> r, seen |-> payment] \in RequestRecord
    BY DEF RequestRecord, RefundsTypeOK
  <2>3. ReadsChecked'
    BY <1>3, <2>1 DEF ReadsChecked, ConfirmReads, RefundsTypeOK
  <2>4. QED  BY <2>1, <2>2, <2>3 DEF RefundsTypeOK, RequestRecord
<1>4. ASSUME NEW q \in Request, NEW r \in Refund, CancelReads(q, r) PROVE Good
  <2>1. request' = [request EXCEPT ![q] = [step |-> "CANCEL", refund |-> r, seen |-> payment]]
    BY <1>4 DEF CancelReads, Begins
  <2>2. [step |-> "CANCEL", refund |-> r, seen |-> payment] \in RequestRecord
    BY DEF RequestRecord, RefundsTypeOK
  <2>3. ReadsChecked'
    BY <1>4, <2>1 DEF ReadsChecked, CancelReads, RefundsTypeOK
  <2>4. QED  BY <2>1, <2>2, <2>3 DEF RefundsTypeOK, RequestRecord
<1>5. QED
  BY <1>1, <1>2, <1>3, <1>4 DEF RefundsNext, RequestNext, CreateRefund, Confirms, Cancels,
     Finishes, RefundRequestEnds, refundVars

LEMMA StepRefundsTyped ==
    ASSUME RefundsTypeOK, ReadsChecked, [RefundsNext]_refundVars
    PROVE  RefundsTypeOK' /\ ReadsChecked'
<1>1. payment' \in PaymentRow
  BY RefundSteps, PaymentTyped DEF RowsAlone, RefundsTypeOK
<1>2. refund' \in [Refund -> {"NONE", "PENDING", "CONFIRMED", "CANCELLED"}]
  BY RefundSteps DEF RowsAlone, Allocates, GivesBack, TakesBack, RefundsTypeOK
<1>3. QED
  BY <1>1, <1>2, RequestMoves DEF RefundsTypeOK, RequestRecord

\* The types of payment, refunds and requests; the totals never leave what was paid.
THEOREM RefundsTypeCorrect == RefundsSpec => []RefundsTypeOK
<1>1. QED
  BY InitRefundsTyped, StepRefundsTyped, PTL DEF RefundsSpec

-----------------------------------------------------------------------------
(* The totals are those of the refunds                                     *)

LEMMA UnitsFinite ==
    ASSUME NEW S \in SUBSET Refund
    PROVE  IsFiniteSet(Units(S)) /\ Cardinality(Units(S)) \in Nat
<1>1. IsFiniteSet(S) /\ IsFiniteSet(1..Amount)
  BY RefundsAssumption, FS_Subset, FS_Interval
<1>2. IsFiniteSet(S \X (1..Amount))
  BY <1>1, FS_Product
<1>3. Units(S) \in SUBSET (S \X (1..Amount))
  BY DEF Units
<1>4. QED  BY <1>2, <1>3, FS_Subset, FS_CardinalityType

LEMMA UnitsOfOne ==
    ASSUME NEW r \in Refund
    PROVE  Cardinality(Units({r})) = AmountOf[r]
<1> DEFINE n == AmountOf[r]
           C == Cardinality(1..n)
<1>1. n \in Nat /\ n <= Amount /\ Amount \in Nat
  BY RefundsAssumption
<1>2. Units({r}) = {r} \X (1..n)
  BY <1>1 DEF Units
<1> HIDE DEF n
<1>3. IsFiniteSet(1..n) /\ C = IF 1 > n THEN 0 ELSE n - 1 + 1
  <2>1. 1 \in Int /\ n \in Int
    BY <1>1
  <2>2. QED  BY <2>1, FS_Interval, Zenon
<1>4. C = n
  BY <1>1, <1>3
<1>5. IsFiniteSet({r}) /\ Cardinality({r}) = 1
  BY FS_Singleton
<1>6. Cardinality({r} \X (1..n)) = 1 * C
  BY <1>3, <1>5, FS_Product, Zenon
<1>7. Cardinality({r} \X (1..n)) = n
  BY <1>1, <1>4, <1>6
<1>8. QED
  BY <1>2, <1>7, Zenon DEF n

\* A refund more adds its amount and no other's.
LEMMA UnitsGrow ==
    ASSUME NEW S \in SUBSET Refund, NEW r \in Refund, r \notin S
    PROVE  Cardinality(Units(S \cup {r})) = Cardinality(Units(S)) + AmountOf[r]
<1>1. /\ Units(S \cup {r}) = Units(S) \cup Units({r})
      /\ Units(S) \cap Units({r}) = {}
  BY DEF Units
<1>2. IsFiniteSet(Units(S)) /\ IsFiniteSet(Units({r}))
  BY UnitsFinite
<1>3. Cardinality(Units(S) \cup Units({r}))
        = Cardinality(Units(S)) + Cardinality(Units({r})) - Cardinality({})
  BY <1>1, <1>2, FS_Union
<1>4. /\ Cardinality(Units({r})) = AmountOf[r] /\ Cardinality({}) = 0
      /\ Cardinality(Units(S)) \in Nat /\ AmountOf[r] \in Nat
  BY UnitsOfOne, UnitsFinite, FS_EmptySet, RefundsAssumption
<1>5. Cardinality(Units(S) \cup Units({r})) = Cardinality(Units(S)) + AmountOf[r]
  BY <1>3, <1>4
<1>6. QED
  BY <1>1, <1>5, Zenon

Promised == InStatus("PENDING") \cup InStatus("CONFIRMED")

LEMMA InitTotals == RefundsInit => TotalsMatchRefunds /\ StatusFollowsRefunds
<1> SUFFICES ASSUME RefundsInit PROVE TotalsMatchRefunds /\ StatusFollowsRefunds
  OBVIOUS
<1>1. Promised = {} /\ InStatus("CONFIRMED") = {}
  BY DEF RefundsInit, Promised, InStatus
<1>2. Units({}) = {}
  BY DEF Units
<1>3. Cardinality({}) = 0
  BY FS_EmptySet
<1>4. TotalsMatchRefunds
  BY <1>1, <1>2, <1>3 DEF RefundsInit, FreshPayment, TotalsMatchRefunds, Promised
<1>5. StatusFollowsRefunds
  BY RefundsAssumption DEF RefundsInit, FreshPayment, StatusFollowsRefunds
<1>6. QED  BY <1>4, <1>5

LEMMA StepTotals ==
    ASSUME RefundsInv, [RefundsNext]_refundVars
    PROVE  TotalsMatchRefunds'
<1> DEFINE C == InStatus("CONFIRMED")
<1> DEFINE Totals == /\ payment'.allocated = Cardinality(Units(Promised'))
                     /\ payment'.refunded = Cardinality(Units(C'))
<1>1. /\ payment \in PaymentRow
      /\ payment.allocated = Cardinality(Units(Promised))
      /\ payment.refunded = Cardinality(Units(C))
      /\ refund \in [Refund -> {"NONE", "PENDING", "CONFIRMED", "CANCELLED"}]
  BY DEF RefundsInv, RefundsTypeOK, TotalsMatchRefunds, Promised
<1>2. Promised \in SUBSET Refund /\ C \in SUBSET Refund
  BY DEF Promised, InStatus
<1>3. ASSUME RowsAlone PROVE Totals
  <2>1. Promised' = Promised /\ C' = C
    BY <1>3 DEF RowsAlone, Promised, InStatus
  <2>2. QED  BY <1>1, <1>3, <2>1 DEF RowsAlone
<1>4. ASSUME NEW r \in Refund, Allocates(r) PROVE Totals
  <2>1. Promised' = Promised \cup {r} /\ r \notin Promised /\ C' = C
    BY <1>1, <1>4 DEF Allocates, Promised, InStatus
  <2>2. /\ payment'.allocated = payment.allocated + AmountOf[r]
        /\ payment'.refunded = payment.refunded
    BY <1>1, <1>4 DEF Allocates, PaymentRow
  <2>3. QED  BY <1>1, <1>2, <2>1, <2>2, UnitsGrow
<1>5. ASSUME NEW r \in Refund, GivesBack(r) PROVE Totals
  <2>1. Promised' = Promised /\ C' = C \cup {r} /\ r \notin C
    BY <1>1, <1>5 DEF GivesBack, Promised, InStatus
  <2>2. /\ payment'.allocated = payment.allocated
        /\ payment'.refunded = payment.refunded + AmountOf[r]
    BY <1>1, <1>5 DEF GivesBack, PaymentRow
  <2>3. QED  BY <1>1, <1>2, <2>1, <2>2, UnitsGrow
<1>6. ASSUME NEW r \in Refund, TakesBack(r) PROVE Totals
  <2>1. Promised = Promised' \cup {r} /\ r \notin Promised' /\ C' = C
    BY <1>1, <1>6 DEF TakesBack, Promised, InStatus
  <2>2. Promised' \in SUBSET Refund
    BY <1>2, <2>1
  <2>3. /\ payment'.allocated = payment.allocated - AmountOf[r]
        /\ payment'.refunded = payment.refunded
    BY <1>1, <1>6 DEF TakesBack, PaymentRow
  <2>4. Cardinality(Units(Promised)) = Cardinality(Units(Promised')) + AmountOf[r]
    BY <2>1, <2>2, UnitsGrow
  <2>5. Cardinality(Units(Promised')) \in Nat /\ AmountOf[r] \in Nat
    BY <2>2, UnitsFinite, RefundsAssumption
  <2>6. payment'.allocated = Cardinality(Units(Promised'))
    BY <1>1, <2>3, <2>4, <2>5
  <2>7. QED  BY <1>1, <2>1, <2>3, <2>6
<1> HIDE DEF Totals
<1>7. Totals
  BY <1>3, <1>4, <1>5, <1>6, RefundSteps DEF RefundsInv
<1>8. QED  BY <1>7 DEF Totals, TotalsMatchRefunds, Promised

-----------------------------------------------------------------------------
(* The status of the payment                                               *)

LEMMA StepStatus ==
    ASSUME RefundsInv, [RefundsNext]_refundVars
    PROVE  StatusFollowsRefunds'
<1>1. /\ payment \in PaymentRow /\ payment.refunded \in 0..Amount
      /\ Amount \in Nat \ {0}
  BY RefundsAssumption DEF RefundsInv, RefundsTypeOK, PaymentRow
<1>2. ASSUME payment'.status = payment.status, payment'.refunded = payment.refunded
      PROVE  StatusFollowsRefunds'
  BY <1>2 DEF RefundsInv, StatusFollowsRefunds
<1>3. CASE RowsAlone
  BY <1>2, <1>3 DEF RowsAlone
<1>4. ASSUME NEW r \in Refund, Allocates(r) \/ TakesBack(r)
      PROVE  StatusFollowsRefunds'
  BY <1>1, <1>2, <1>4 DEF Allocates, TakesBack, PaymentRow
<1>5. ASSUME NEW r \in Refund, GivesBack(r) PROVE StatusFollowsRefunds'
  <2> DEFINE total == payment.refunded + AmountOf[r]
             status == IF total = Amount THEN "REFUNDED" ELSE "PARTIALLY_REFUNDED"
  <2>1. total # 0
    BY <1>1, RefundsAssumption
  <2>2. payment'.refunded = total /\ payment'.status = status
    BY <1>1, <1>5 DEF GivesBack, PaymentRow
  <2>3. QED  BY <2>1, <2>2 DEF StatusFollowsRefunds
<1>6. QED  BY <1>3, <1>4, <1>5, RefundSteps DEF RefundsInv

LEMMA RefundsInvariant == RefundsSpec => []RefundsInv
<1>1. RefundsInit => RefundsInv
  BY InitRefundsTyped, InitTotals DEF RefundsInv
<1>2. RefundsInv /\ [RefundsNext]_refundVars => RefundsInv'
  BY StepRefundsTyped, StepTotals, StepStatus DEF RefundsInv
<1>3. QED
  BY <1>1, <1>2, PTL DEF RefundsSpec

\* What a payment says is allocated and refunded is the sum of its refunds, however
\* their creation, confirmation and cancellation overlap.
THEOREM RefundTotalsAgree == RefundsSpec => []TotalsMatchRefunds
<1>1. RefundsInv => TotalsMatchRefunds
  BY DEF RefundsInv
<1>2. QED
  BY <1>1, RefundsInvariant, PTL

\* A payment is REFUNDED exactly when all of it has gone back, and PARTIALLY_REFUNDED
\* exactly when some has.
THEOREM RefundStatusAgrees == RefundsSpec => []StatusFollowsRefunds
<1>1. RefundsInv => StatusFollowsRefunds
  BY DEF RefundsInv
<1>2. QED
  BY <1>1, RefundsInvariant, PTL

-----------------------------------------------------------------------------
(* Refinement of Allowance                                                 *)

LEMMA StepPurse ==
    ASSUME RefundsTypeOK, ReadsChecked, [RefundsNext]_refundVars
    PROVE  [Purse!Next]_<<payment.allocated, payment.refunded>>
<1>1. /\ payment \in PaymentRow
      /\ payment.allocated \in 0..Amount /\ payment.refunded \in 0..Amount
      /\ Amount \in Nat
  BY RefundsAssumption DEF RefundsTypeOK, PaymentRow
<1>2. ASSUME NEW r \in Refund, Allocates(r) PROVE Purse!Promise(AmountOf[r])
  BY <1>1, <1>2 DEF Allocates, Purse!Promise, PaymentRow
<1>3. ASSUME NEW r \in Refund, GivesBack(r) PROVE Purse!Redeem(AmountOf[r])
  BY <1>1, <1>3 DEF GivesBack, Purse!Redeem, PaymentRow
<1>4. ASSUME NEW r \in Refund, TakesBack(r) PROVE Purse!Withdraw(AmountOf[r])
  BY <1>1, <1>4, RefundsAssumption DEF TakesBack, Purse!Withdraw, PaymentRow
<1>5. \A r \in Refund : AmountOf[r] \in 1..Amount
  BY RefundsAssumption
<1>6. CASE RowsAlone
  BY <1>6 DEF RowsAlone
<1>7. QED
  BY <1>2, <1>3, <1>4, <1>5, <1>6, RefundSteps DEF Purse!Next

\* Refunds give out the payment as Allowance says: in pieces that are promised first,
\* never beyond what was paid, and each once.
THEOREM RefundsImplementAllowance == RefundsSpec => RefundsKeepAllowance
<1>1. RefundsInit => Purse!Init
  BY DEF RefundsInit, FreshPayment, Purse!Init
<1>2. RefundsInv /\ [RefundsNext]_refundVars =>
          [Purse!Next]_<<payment.allocated, payment.refunded>>
  BY StepPurse DEF RefundsInv
<1>3. QED
  BY <1>1, <1>2, RefundsInvariant, PTL DEF RefundsSpec, RefundsKeepAllowance, Purse!Spec

\* No more of a payment is ever confirmed as refunded than is allocated, and no more
\* allocated than was paid (create, confirm and cancel of payment-refunds.service.ts): this
\* follows from Allowance alone.
THEOREM RefundsWithinPayment == RefundsSpec => []Purse!WithinLimit
<1>1. Purse!Init => Purse!WithinLimit
  BY RefundsAssumption DEF Purse!Init, Purse!WithinLimit
<1>2. /\ Purse!WithinLimit
      /\ [Purse!Next]_<<payment.allocated, payment.refunded>>
      => Purse!WithinLimit'
  BY RefundsAssumption
  DEF Purse!WithinLimit, Purse!Next, Purse!Promise, Purse!Redeem, Purse!Withdraw
<1>3. QED
  BY <1>1, <1>2, RefundsImplementAllowance, PTL DEF RefundsKeepAllowance, Purse!Spec

=============================================================================
