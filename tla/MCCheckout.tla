----------------------------- MODULE MCCheckout -----------------------------
(***************************************************************************)
(* Small instances of Checkout for TLC.                                    *)
(***************************************************************************)
EXTENDS OrderHandover, TLC

CONSTANTS o1, o2, g1, g2, k1, v1, c1, c2

\* All attempts are for order o1, gateway attempts and receipts competing; another
\* order competes with it for the stock.
AllForFirst == [a \in Attempt |-> o1]

\* Order o1 is paid through the gateway, order o2 by receipt.
GatewayFirst == [a \in Attempt |-> IF a \in GatewayAttempt THEN o1 ELSE o2]

OneEach == [o \in Order |-> [v \in Variant |-> 1]]
Two == [v \in Variant |-> 2]
One == [v \in Variant |-> 1]

Symmetry == Permutations(Callback) \cup Permutations(GatewayAttempt)
=============================================================================
