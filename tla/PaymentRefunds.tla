--------------------------- MODULE PaymentRefunds ---------------------------
(***************************************************************************)
(* The refunds of one payment, from the moment Checkout has settled it.    *)
(* Staff record a refund (its amount is allocated), carry it out at the    *)
(* bank and confirm it, or cancel it.                                      *)
(*                                                                         *)
(* create() claims everything its answer depends on, so it is one action.  *)
(* confirm() and cancel() read the refund and the payment first; what they *)
(* write is computed from these reads, and the claims at the end decide    *)
(* whether the reads still hold.  A transaction whose claim fails, that    *)
(* finds its work done or that dies leaves no trace.                       *)
(***************************************************************************)
EXTENDS Integers, FiniteSets

CONSTANTS
    Amount,     \* amountToman of the payment
    Refund,     \* refunds, named by their idempotency keys
    AmountOf,   \* the amount asked for with each key
    Request,    \* concurrent requests of staff
    NoRefund

ASSUME RefundsAssumption ==
    /\ Amount \in Nat \ {0}
    /\ IsFiniteSet(Refund)
    /\ AmountOf \in [Refund -> 1..Amount]
    /\ NoRefund \notin Refund

VARIABLES
    payment,    \* status, refundAllocatedToman and refundedAmountToman
    refund,     \* PaymentRefund.status, NONE without a row
    request     \* what each request is doing and what it has read

refundVars == <<payment, refund, request>>

-----------------------------------------------------------------------------
(* Types                                                                   *)

PaymentRow == [status: {"PAID", "PARTIALLY_REFUNDED", "REFUNDED"},
               allocated: 0..Amount, refunded: 0..Amount]

FreshPayment == [status |-> "PAID", allocated |-> 0, refunded |-> 0]

IdleRequest == [step |-> "IDLE", refund |-> NoRefund, seen |-> FreshPayment]

RefundsTypeOK ==
    /\ payment \in PaymentRow
    /\ refund \in [Refund -> {"NONE", "PENDING", "CONFIRMED", "CANCELLED"}]
    /\ request \in [Request -> [step: {"IDLE", "CONFIRM", "CANCEL"},
                                refund: Refund \cup {NoRefund}, seen: PaymentRow]]
    /\ \A q \in Request : request[q].step # "IDLE" => request[q].refund \in Refund

RefundsInit ==
    /\ payment = FreshPayment
    /\ refund = [r \in Refund |-> "NONE"]
    /\ request = [q \in Request |-> IdleRequest]

-----------------------------------------------------------------------------
(* Actions                                                                 *)

Refundable(status) == status \in {"PAID", "PARTIALLY_REFUNDED"}

\* Mutant: the capacity is read and not claimed.
HasRoomLoosely(r) == Refundable(payment.status)

HasRoom(r) == Refundable(payment.status) /\ payment.allocated <= Amount - AmountOf[r]

\* create.  A key that is known already is answered with its refund.
CreateRefund(r) ==
    /\ refund[r] = "NONE"
    /\ HasRoom(r)
    /\ payment' = [payment EXCEPT !.allocated = @ + AmountOf[r]]
    /\ refund' = [refund EXCEPT ![r] = "PENDING"]
    /\ UNCHANGED request

Begins(q, step, r) ==
    /\ request[q].step = "IDLE"
    /\ refund[r] = "PENDING"
    /\ request' = [request EXCEPT ![q] = [step |-> step, refund |-> r, seen |-> payment]]
    /\ UNCHANGED <<payment, refund>>

\* confirm, up to its claims.
ConfirmReads(q, r) ==
    /\ Begins(q, "CONFIRM", r)
    /\ Refundable(payment.status)
    /\ payment.refunded + AmountOf[r] <= payment.allocated
    /\ payment.refunded + AmountOf[r] <= Amount

\* cancel, up to its claims.
CancelReads(q, r) ==
    /\ Begins(q, "CANCEL", r)
    /\ payment.allocated - AmountOf[r] >= payment.refunded
    /\ payment.allocated - AmountOf[r] <= Amount

\* Mutant: the claim on the payment leaves the totals out.
ClaimsStatusOnly(q) ==
    /\ refund[request[q].refund] = "PENDING"
    /\ payment.status = request[q].seen.status

\* Mutant: the refund itself is not claimed.
ClaimsPaymentOnly(q) == payment = request[q].seen

Claims(q) ==
    /\ refund[request[q].refund] = "PENDING"
    /\ payment = request[q].seen

Finishes(q, step, to) ==
    /\ request[q].step = step
    /\ refund' = [refund EXCEPT ![request[q].refund] = to]
    /\ request' = [request EXCEPT ![q] = IdleRequest]

Confirms(q) ==
    LET amount == AmountOf[request[q].refund] IN
    /\ Finishes(q, "CONFIRM", "CONFIRMED")
    /\ Claims(q)
    /\ payment' = [payment EXCEPT
           !.refunded = @ + amount,
           !.status = IF request[q].seen.refunded + amount = Amount
                      THEN "REFUNDED" ELSE "PARTIALLY_REFUNDED"]

Cancels(q) ==
    /\ Finishes(q, "CANCEL", "CANCELLED")
    /\ Claims(q)
    /\ payment' = [payment EXCEPT !.allocated = @ - AmountOf[request[q].refund]]

\* Any failure rolls the transaction back.
RefundRequestEnds(q) ==
    /\ request[q].step # "IDLE"
    /\ request' = [request EXCEPT ![q] = IdleRequest]
    /\ UNCHANGED <<payment, refund>>

RequestNext(q) ==
    \/ \E r \in Refund : ConfirmReads(q, r) \/ CancelReads(q, r)
    \/ Confirms(q) \/ Cancels(q) \/ RefundRequestEnds(q)

RefundsNext ==
    \/ \E r \in Refund : CreateRefund(r)
    \/ \E q \in Request : RequestNext(q)

RefundsSpec == RefundsInit /\ [][RefundsNext]_refundVars

-----------------------------------------------------------------------------
(* Properties                                                              *)

\* The amounts of a set of refunds, unit by unit.
Units(S) == {ru \in S \X (1..Amount) : ru[2] <= AmountOf[ru[1]]}

InStatus(status) == {r \in Refund : refund[r] = status}

\* The totals on the payment are those of its refunds: what is pending or confirmed is
\* allocated, what is confirmed is refunded, however requests on the same or on
\* different refunds overlap (create, confirm, cancel).
TotalsMatchRefunds ==
    /\ payment.allocated = Cardinality(Units(InStatus("PENDING") \cup InStatus("CONFIRMED")))
    /\ payment.refunded = Cardinality(Units(InStatus("CONFIRMED")))

\* The status of the payment tells how much of it has gone back, although confirm
\* computes it from an earlier read.
StatusFollowsRefunds ==
    /\ payment.status = "PAID" <=> payment.refunded = 0
    /\ payment.status = "REFUNDED" <=> payment.refunded = Amount

Purse == INSTANCE Allowance WITH
    Limit <- Amount, promised <- payment.allocated, redeemed <- payment.refunded

\* Refunds give out the payment as Allowance says: never more than was paid, nothing
\* that was not allocated first, and nothing twice.
RefundsKeepAllowance == Purse!Spec

=============================================================================
