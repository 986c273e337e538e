--------------------------- MODULE MCOrderReturns ---------------------------
(* An instance of OrderReturns in which two requests of staff receive at once. *)
EXTENDS OrderReturns, TLC

CONSTANTS i1, i2, r1, r2, r3, k1, k2

\* Two of item i1, which its supplier takes back, and one of i2, which has none: r1 is
\* about all of them; r2 and r3, about one of i1 each, compete with it and not with
\* each other.
TwoAndOne == [i \in Item |-> IF i = i1 THEN 2 ELSE 1]
AllOrOne == [r \in Return |-> [i \in Item |->
                IF r = r1 THEN Sold[i] ELSE IF i = i1 THEN 1 ELSE 0]]
SoldOut == [i \in Item |-> 0]

Symmetry == Permutations({r2, r3}) \cup Permutations(Clerk)

=============================================================================
