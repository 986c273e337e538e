----------------------------- MODULE Reservation -----------------------------
(***************************************************************************)
(* What the shop promises about stock, without payments, deadlines or      *)
(* processes: an order takes its units from the available ones when it is  *)
(* placed, and they are either sold with it or made available again, once. *)
(***************************************************************************)
EXTENDS Integers

CONSTANTS Order, Variant, Need, InitialStock, MaxStock

VARIABLES
    claim,      \* what an order has done with its units
    available   \* units of a variant that nobody has a claim on

Init ==
    /\ claim = [o \in Order |-> "none"]
    /\ available = InitialStock

\* All the units of an order are taken at once, and never more than there are.
Hold(o) ==
    /\ claim[o] = "none"
    /\ \A v \in Variant : available[v] >= Need[o][v]
    /\ claim' = [claim EXCEPT ![o] = "held"]
    /\ available' = [v \in Variant |-> available[v] - Need[o][v]]

\* An order that is cancelled or expires gives back what it took.
GiveBack(o) ==
    /\ claim[o] = "held"
    /\ claim' = [claim EXCEPT ![o] = "released"]
    /\ available' = [v \in Variant |-> available[v] + Need[o][v]]

\* A paid order takes its own units out: nobody else notices.
Buy(o) ==
    /\ claim[o] = "held"
    /\ claim' = [claim EXCEPT ![o] = "sold"]
    /\ UNCHANGED available

\* Staff correct the units that nobody has a claim on, and only those.
Correct(v) ==
    /\ \E n \in 0..MaxStock : available' = [available EXCEPT ![v] = n]
    /\ UNCHANGED claim

Next ==
    \/ \E o \in Order : Hold(o) \/ GiveBack(o) \/ Buy(o)
    \/ \E v \in Variant : Correct(v)

Spec == Init /\ [][Next]_<<claim, available>>

=============================================================================
