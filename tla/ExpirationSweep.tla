--------------------------- MODULE ExpirationSweep ---------------------------
(***************************************************************************)
(* The minute scheduler that expires due orders, batch by batch.  Checkout *)
(* says what the expiry of one order does and lets any due order be next;  *)
(* this module says which orders a sweep gets to.                          *)
(***************************************************************************)
EXTENDS Integers, FiniteSets

CONSTANTS
    Order,
    Deadline,   \* reservationExpiresAt of each order
    Take        \* size of a batch

ASSUME SweepAssumption ==
    /\ IsFiniteSet(Order)
    /\ Deadline \in [Order -> Nat]
    /\ Take \in Nat \ {0}

VARIABLES
    status,     \* of the order and its payment, see below
    due,        \* orders whose deadline has passed
    isRunning,  \* the scheduler's guard against overlapping sweeps
    batch       \* orders the running sweep has yet to get to

vars == <<status, due, isRunning, batch>>

-----------------------------------------------------------------------------

\* OPEN: PENDING_PAYMENT and expirable.  PROTECTED: PENDING_PAYMENT with a payment that
\* is reviewed or reconciled, which expireOrder skips.  LEFT: any other order status.
OrderState == {"OPEN", "PROTECTED", "LEFT"}

\* What a sweep looks for: it cannot tell OPEN from PROTECTED.
DueOrders == {o \in due : status[o] # "LEFT"}

Init ==
    /\ status = [o \in Order |-> "OPEN"]
    /\ due = {}
    /\ isRunning = FALSE
    /\ batch = {}

DeadlinePasses(o) ==
    /\ o \notin due
    /\ \A p \in Order \ due : Deadline[o] <= Deadline[p]
    /\ due' = due \cup {o}
    /\ UNCHANGED <<status, isRunning, batch>>

\* Receipts, their reviews, reconciliations, payments and cancellations.
OrderMoves(o, from, to) ==
    /\ <<from, to>> \in {<<"OPEN", "PROTECTED">>, <<"PROTECTED", "OPEN">>,
                         <<"OPEN", "LEFT">>, <<"PROTECTED", "LEFT">>}
    /\ status[o] = from
    /\ status' = [status EXCEPT ![o] = to]
    /\ UNCHANGED <<due, isRunning, batch>>

\* findMany: the oldest due orders, up to Take of them.
OldestDue(b) ==
    /\ b \subseteq DueOrders
    /\ Cardinality(b) <= Take
    /\ Cardinality(b) < Take => b = DueOrders
    /\ \A o \in b, p \in DueOrders \ b : Deadline[o] <= Deadline[p]

TickBegins ==
    /\ ~isRunning
    /\ \E b \in SUBSET DueOrders : OldestDue(b) /\ batch' = b
    /\ isRunning' = TRUE
    /\ UNCHANGED <<status, due>>

IsNext(o) == o \in batch /\ \A p \in batch : Deadline[o] <= Deadline[p]

\* expireOrder
Expire(o) ==
    /\ isRunning /\ IsNext(o)
    /\ status[o] = "OPEN"
    /\ status' = [status EXCEPT ![o] = "LEFT"]
    /\ batch' = batch \ {o}
    /\ UNCHANGED <<due, isRunning>>

\* Mutant: an order that cannot expire ends the sweep.
SkipEndsSweep(o) ==
    /\ isRunning /\ IsNext(o)
    /\ status[o] # "OPEN"
    /\ batch' = {}
    /\ UNCHANGED <<status, due, isRunning>>

Skip(o) ==
    /\ isRunning /\ IsNext(o)
    /\ status[o] # "OPEN"
    /\ batch' = batch \ {o}
    /\ UNCHANGED <<status, due, isRunning>>

\* An exception, say of a stock row that another transaction has changed, ends the
\* whole sweep; so does a restart of the process.
SweepFails ==
    /\ isRunning /\ batch # {}
    /\ batch' = {}
    /\ isRunning' = FALSE
    /\ UNCHANGED <<status, due>>

SweepEnds ==
    /\ isRunning /\ batch = {}
    /\ isRunning' = FALSE
    /\ UNCHANGED <<status, due, batch>>

Next ==
    \/ TickBegins \/ SweepFails \/ SweepEnds
    \/ \E o \in Order :
          \/ DeadlinePasses(o) \/ Expire(o) \/ Skip(o)
          \/ \E from, to \in OrderState : OrderMoves(o, from, to)

\* The scheduler ticks and a sweep goes on.  Exceptions and restarts may end it now and
\* then, but not each time before the same order is dealt with; and receipts do not keep
\* coming and going in step with the sweep.
Fairness ==
    /\ WF_vars(TickBegins) /\ WF_vars(SweepEnds)
    /\ \A o \in Order : SF_vars(Expire(o)) /\ SF_vars(Expire(o) \/ Skip(o))

Spec == Init /\ [][Next]_vars /\ Fairness

-----------------------------------------------------------------------------

Waiting(o) == o \in due /\ status[o] = "OPEN"

Protected == {o \in due : status[o] = "PROTECTED"}

\* No due order waits for ever, whatever orders are older, under review or fail to
\* expire, as long as the protected ones do not fill a whole batch again and again
\* (expireDueOrders, handleExpirationTick).  When they do, no younger order expires:
\* nothing takes them out of the way but a decision of staff.
SweepReachesDueOrders ==
    \A o \in Order : <>[]Waiting(o) => []<>(Cardinality(Protected) >= Take)

=============================================================================
