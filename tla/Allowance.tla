------------------------------ MODULE Allowance ------------------------------
(***************************************************************************)
(* What the shop promises whenever a bounded quantity is given out in      *)
(* pieces: money of a payment that is refunded, units of an order line     *)
(* that come back, the value of a supplier's credit.  A piece is promised  *)
(* first and redeemed or withdrawn later, once; promises never exceed the  *)
(* limit and nothing is redeemed that was not promised.                    *)
(***************************************************************************)
EXTENDS Integers

CONSTANT Limit

VARIABLES
    promised,   \* what has been promised and not been withdrawn
    redeemed    \* the part of it that has been given out for good

Init == promised = 0 /\ redeemed = 0

Promise(n) ==
    /\ promised + n <= Limit
    /\ promised' = promised + n
    /\ UNCHANGED redeemed

Redeem(n) ==
    /\ redeemed + n <= promised
    /\ redeemed' = redeemed + n
    /\ UNCHANGED promised

Withdraw(n) ==
    /\ redeemed <= promised - n
    /\ promised' = promised - n
    /\ UNCHANGED redeemed

Next == \E n \in 1..Limit : Promise(n) \/ Redeem(n) \/ Withdraw(n)

Spec == Init /\ [][Next]_<<promised, redeemed>>

\* What anyone may rely on who deals with an allowance.
WithinLimit == promised \in 0..Limit /\ redeemed \in 0..promised

=============================================================================
