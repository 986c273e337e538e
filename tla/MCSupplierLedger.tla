-------------------------- MODULE MCSupplierLedger --------------------------
(***************************************************************************)
(* A small instance of SupplierLedger, with the returns it extends, and    *)
(* one of PaymentRefunds.  The two share no state, so that a behaviour of  *)
(* one says nothing about the other: one side runs at a time, and TLC      *)
(* explores the sum and not the product of their states.  The stock of     *)
(* returned items has no part in the accounts and is moved by others in    *)
(* MCOrderReturns only.                                                    *)
(***************************************************************************)
EXTENDS SupplierLedger, PaymentRefunds, TLC

CONSTANTS i1, i2, r1, r2, p1, p2, s1, s2, a1, a2, b1, b2, k1,
          f1, f2, f3, f4, q1, q2

VARIABLE side

\* Two of item i1, which its supplier takes back, and one of i2, which has none: r1 is
\* about all of them, and r2, about one of i1, competes with it.
TwoAndOne == [i \in Item |-> IF i = i1 THEN 2 ELSE 1]
AllOrOne == [r \in Return |-> [i \in Item |->
                IF r = r1 THEN Sold[i] ELSE IF i = i1 THEN 1 ELSE 0]]
SoldOut == [i \in Item |-> 0]
Prices == [i \in Supplied |-> 1]
Payables == [p \in Payable |-> IF p = p1 THEN 1 ELSE 2]

\* Three small refunds and a larger one, of a payment that three small ones use up.
Refunds == [r \in Refund |-> IF r = f4 THEN 2 ELSE 1]

MCInit == LedgerInit /\ RefundsInit /\ side \in {"accounts", "money"}

MCNext ==
    /\ UNCHANGED side
    /\ \/ side = "accounts" /\ LedgerNext /\ UNCHANGED refundVars
       \/ side = "money" /\ RefundsNext /\ UNCHANGED ledgerAll

MCSpec == MCInit /\ [][MCNext]_<<ledgerAll, refundVars, side>>

Symmetry == Permutations({f1, f2, f3}) \cup Permutations(Request) \cup Permutations(Clerk)
            \cup Permutations(Keeper) \cup Permutations(Settlement)
            \cup Permutations(Application)
=============================================================================
