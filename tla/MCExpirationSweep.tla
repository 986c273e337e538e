-------------------------- MODULE MCExpirationSweep --------------------------
(* A small instance of ExpirationSweep for TLC. *)
EXTENDS ExpirationSweep, TLC

CONSTANTS o1, o2, o3, o4

\* Two orders are due at the same moment.
Deadlines == (o1 :> 1) @@ (o2 :> 2) @@ (o3 :> 2) @@ (o4 :> 3)

=============================================================================
