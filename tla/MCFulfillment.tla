---------------------------- MODULE MCFulfillment ----------------------------
(* Instances of Fulfillment for TLC. *)
EXTENDS Fulfillment, TLC

CONSTANTS c1, c2, e1, t1

\* Creation requests differ in name only.
Symmetry == Permutations(Creation)

=============================================================================
