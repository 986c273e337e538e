----------------------------- MODULE Fulfillment -----------------------------
(***************************************************************************)
(* What happens to an order between the choice of a shipping rate and its  *)
(* delivery: plating, the parcel at the shipping provider, the status of   *)
(* the shipment and of the order, and the synchronization of both with     *)
(* what the provider reports.  Orders do not share anything here, so the   *)
(* module is about one order and its shipment.                             *)
(*                                                                         *)
(* As in Checkout a transaction is one committing action whose guard is    *)
(* the set of its claims on current rows; what it has read before and does *)
(* not claim again is taken by an action of its own and may be stale.      *)
(***************************************************************************)
EXTENDS Integers, FiniteSets

CONSTANTS
    Creation,   \* requests that create the parcel at the provider
    Editor,     \* requests of staff that set the shipment's status
    Tracker,    \* processes that synchronize the tracking
    Manual,     \* the parcel id of a shipment staff carry out by themselves
    Panel,      \* the id of a parcel staff registered on the provider's site
    None        \* no parcel, no tracker

ASSUME FulfillmentAssumption ==
    /\ Manual \notin Creation /\ Panel \notin Creation
    /\ None \notin Creation \cup {Manual, Panel} \cup Tracker
    /\ Manual # Panel

VARIABLES
    order,         \* Order.status; CLOSED stands for CANCELLED and EXPIRED
    payment,       \* Payment.status; REFUNDED also stands for partially refunded
    plating,       \* OrderPlatingFulfillment.status, PENDING without a row
    shipment,      \* status, providerCreationState and providerShipmentId
    creationStale, \* whether creationAttemptedAt is 15 minutes old
    lease,         \* the tracker whose token is in trackingSyncToken
    leaseStale,    \* whether trackingSyncStartedAt is 15 minutes old
    creation,      \* progress of each creation request
    registered,    \* creation requests the provider has made a parcel for
    tracker,       \* progress and reads of each tracker
    editor,        \* reads of each status request
    excused        \* creation requests that a decision of staff has overtaken

rows == <<order, payment, plating, shipment, creationStale, lease, leaseStale>>
vars == <<order, payment, plating, shipment, creationStale, lease, leaseStale,
          creation, registered, tracker, editor, excused>>

-----------------------------------------------------------------------------
(* Types                                                                   *)

OrderStatus ==
    {"PENDING_PAYMENT", "PAID", "PROCESSING", "SHIPPED", "DELIVERED", "CLOSED"}

PaymentStatus == {"NONE", "PENDING", "PAID", "REFUNDED"}

PlatingStatus == {"NOT_REQUIRED", "PENDING", "IN_PROGRESS", "COMPLETED", "CANCELLED"}

\* NONE: the order has no shipment row.
ShipmentStatus ==
    {"NONE", "PENDING", "READY", "HANDED_OVER", "IN_TRANSIT", "DELIVERED", "FAILED",
     "CANCELLED"}

CreationState == {"NOT_STARTED", "IN_PROGRESS", "UNKNOWN", "CREATED"}

Parcel == Creation \cup {Manual, Panel, None}

Report == {"HANDED_OVER", "IN_TRANSIT", "DELIVERED", "FAILED"}

\* Statuses of a shipment that is under way or has arrived.
Moving == {"HANDED_OVER", "IN_TRANSIT", "DELIVERED"}

IdleTracker == [step |-> "IDLE", parcel |-> None, answer |-> "NONE"]

IdleEditor == [step |-> "IDLE", from |-> "NONE", to |-> "NONE", id |-> None,
               state |-> "NOT_STARTED", order |-> "PENDING_PAYMENT"]

FulfillmentTypeOK ==
    /\ order \in OrderStatus
    /\ payment \in PaymentStatus
    /\ plating \in PlatingStatus
    /\ shipment \in [status: ShipmentStatus, state: CreationState, parcel: Parcel]
    /\ creationStale \in BOOLEAN
    /\ lease \in Tracker \cup {None}
    /\ leaseStale \in BOOLEAN
    /\ creation \in [Creation -> {"IDLE", "CALLING", "ANSWERED", "FAILED", "DONE"}]
    /\ registered \subseteq Creation
    /\ tracker \in [Tracker -> [step: {"IDLE", "ASKING", "FINALIZE"}, parcel: Parcel,
                                answer: Report \cup {"NONE"}]]
    /\ editor \in [Editor -> [step: {"IDLE", "EDITING"}, from: ShipmentStatus,
                              to: ShipmentStatus, id: Parcel, state: CreationState,
                              order: OrderStatus]]
    /\ excused \subseteq Creation

FulfillmentInit ==
    /\ order = "PENDING_PAYMENT"
    /\ payment = "NONE"
    /\ plating \in {"NOT_REQUIRED", "PENDING"}
    /\ shipment = [status |-> "NONE", state |-> "NOT_STARTED", parcel |-> None]
    /\ creationStale = FALSE
    /\ lease = None
    /\ leaseStale = FALSE
    /\ creation = [c \in Creation |-> "IDLE"]
    /\ registered = {}
    /\ tracker = [t \in Tracker |-> IdleTracker]
    /\ editor = [e \in Editor |-> IdleEditor]
    /\ excused = {}

-----------------------------------------------------------------------------
(* Choosing the rate, and what the rest of the system does to the order     *)

\* Before a payment is begun the customer may choose, and choose again, a rate;
\* the order row is locked and everything the quote was based on checked again.
SelectRate ==
    /\ order = "PENDING_PAYMENT"
    /\ payment = "NONE"
    /\ shipment.status \in {"NONE", "PENDING"}
    /\ shipment' = [shipment EXCEPT !.status = "PENDING"]
    /\ UNCHANGED <<order, payment, plating, creationStale, lease, leaseStale, creation,
                   registered, tracker, editor, excused>>

\* Payment, cancellation and expiry are those of Checkout ...
PaymentStarts ==
    /\ order = "PENDING_PAYMENT"
    /\ payment = "NONE"
    /\ payment' = "PENDING"
    /\ UNCHANGED <<order, plating, shipment, creationStale, lease, leaseStale, creation,
                   registered, tracker, editor, excused>>

PaymentSettles ==
    /\ order = "PENDING_PAYMENT"
    /\ payment = "PENDING"
    /\ order' = "PAID"
    /\ payment' = "PAID"
    /\ UNCHANGED <<plating, shipment, creationStale, lease, leaseStale, creation,
                   registered, tracker, editor, excused>>

OrderCloses ==
    /\ order = "PENDING_PAYMENT"
    /\ order' = "CLOSED"
    /\ UNCHANGED <<payment, plating, shipment, creationStale, lease, leaseStale, creation,
                   registered, tracker, editor, excused>>

\* ... and refunds those of PaymentRefunds; they do not look at the order.
PaymentRefunded ==
    /\ payment = "PAID"
    /\ payment' = "REFUNDED"
    /\ UNCHANGED <<order, plating, shipment, creationStale, lease, leaseStale, creation,
                   registered, tracker, editor, excused>>

-----------------------------------------------------------------------------
(* Plating                                                                 *)

\* A row is made by the start and by nothing else, so that none is ever PENDING.
Plates(from, to) ==
    /\ plating = from
    /\ plating' = to
    /\ UNCHANGED <<order, payment, shipment, creationStale, lease, leaseStale, creation,
                   registered, tracker, editor, excused>>

StartPlating == order \in {"PAID", "PROCESSING"} /\ Plates("PENDING", "IN_PROGRESS")

CompletePlating == Plates("IN_PROGRESS", "COMPLETED")

CancelPlating == Plates("IN_PROGRESS", "CANCELLED")

PlatingReady == plating \in {"NOT_REQUIRED", "COMPLETED"}

-----------------------------------------------------------------------------
(* Creating the parcel                                                     *)

\* createManualShipment, under the lock of the order row.
CreateManualShipment ==
    /\ shipment.status = "NONE"
    /\ order \in {"PAID", "PROCESSING"}
    /\ payment = "PAID"
    /\ PlatingReady
    /\ shipment' = [status |-> "READY", state |-> "CREATED", parcel |-> Manual]
    /\ UNCHANGED <<order, payment, plating, creationStale, lease, leaseStale, creation,
                   registered, tracker, editor, excused>>

\* buildFulfillmentReadiness without a blocker of the creation.
ReadyForShipmentCreation ==
    /\ order \in {"PAID", "PROCESSING"}
    /\ payment = "PAID"
    /\ PlatingReady
    /\ shipment.status = "PENDING"
    /\ shipment.state = "NOT_STARTED"
    /\ shipment.parcel = None

Begun == {c \in Creation : creation[c] # "IDLE"}

\* Mutant: the creation state is not part of the claim.
BeginCreationAgain(c) ==
    /\ creation[c] = "IDLE"
    /\ order \in {"PAID", "PROCESSING"} /\ payment = "PAID" /\ PlatingReady
    /\ shipment.status = "PENDING" /\ shipment.parcel = None
    /\ shipment' = [shipment EXCEPT !.state = "IN_PROGRESS"]
    /\ creationStale' = FALSE
    /\ creation' = [creation EXCEPT ![c] = "CALLING"]
    /\ UNCHANGED <<order, payment, plating, lease, leaseStale, registered, tracker, editor,
                   excused>>

\* The claim repeats what can have changed since the readiness was computed.
BeginCreation(c) ==
    /\ creation[c] = "IDLE"
    /\ ReadyForShipmentCreation
    /\ shipment' = [shipment EXCEPT !.state = "IN_PROGRESS"]
    /\ creationStale' = FALSE
    /\ creation' = [creation EXCEPT ![c] = "CALLING"]
    /\ UNCHANGED <<order, payment, plating, lease, leaseStale, registered, tracker, editor,
                   excused>>

\* The provider may work on a call after the API has given it up.
ProviderRegisters(c) ==
    /\ c \in Begun \ registered
    /\ registered' = registered \cup {c}
    /\ UNCHANGED <<rows, creation, tracker, editor, excused>>

Calls(c, from, to) ==
    /\ creation[c] = from
    /\ creation' = [creation EXCEPT ![c] = to]
    /\ UNCHANGED <<registered, tracker, editor, excused>>

ProviderAnswers(c) ==
    /\ c \in registered
    /\ Calls(c, "CALLING", "ANSWERED")
    /\ UNCHANGED rows

\* A refusal, a timeout, or an answer that does not validate.
CallFails(c) == Calls(c, "CALLING", "FAILED") /\ UNCHANGED rows

ResultFits == shipment.status = "PENDING" /\ shipment.state = "IN_PROGRESS"
                                          /\ shipment.parcel = None

\* The result is recorded if the shipment still waits for a result, whichever
\* request's it is.
RecordParcel(c) ==
    /\ ResultFits
    /\ Calls(c, "ANSWERED", "DONE")
    /\ shipment' = [status |-> "READY", state |-> "CREATED", parcel |-> c]
    /\ UNCHANGED <<order, payment, plating, creationStale, lease, leaseStale>>

\* The promise of this transaction is returned without an await: its failure, of
\* a claim or of the database, does not reach the catch block.
RecordEscapes(c) == Calls(c, "ANSWERED", "DONE") /\ UNCHANGED rows

\* Mutant: the failure of a call is not recorded.
FailureForgotten(c) ==
    /\ Calls(c, "FAILED", "DONE")
    /\ shipment' = [shipment EXCEPT !.state = IF @ = "IN_PROGRESS" THEN "NOT_STARTED" ELSE @]
    /\ UNCHANGED <<order, payment, plating, creationStale, lease, leaseStale>>

\* The catch block marks whatever creation is in progress as UNKNOWN.
RecordFailure(c) ==
    /\ Calls(c, "FAILED", "DONE")
    /\ shipment' = [shipment EXCEPT !.state =
           IF @ = "IN_PROGRESS" /\ shipment.parcel = None THEN "UNKNOWN" ELSE @]
    /\ UNCHANGED <<order, payment, plating, creationStale, lease, leaseStale>>

CreationDies(c) ==
    /\ creation[c] \in {"CALLING", "ANSWERED", "FAILED"}
    /\ Calls(c, creation[c], "DONE")
    /\ UNCHANGED rows

CreationGrowsStale ==
    /\ shipment.state = "IN_PROGRESS"
    /\ ~creationStale
    /\ creationStale' = TRUE
    /\ UNCHANGED <<order, payment, plating, shipment, lease, leaseStale, creation,
                   registered, tracker, editor, excused>>

Resettable ==
    /\ shipment.parcel = None
    /\ \/ shipment.state = "UNKNOWN"
       \/ shipment.state = "IN_PROGRESS" /\ creationStale

\* Mutant: the reset clears the creation state.
ResetToNothing ==
    /\ Resettable /\ registered = {}
    /\ shipment' = [shipment EXCEPT !.state = None]
    /\ creationStale' = FALSE /\ excused' = excused \cup Begun
    /\ UNCHANGED <<order, payment, plating, lease, leaseStale, creation, registered,
                   tracker, editor>>

\* confirmNoProviderShipment: staff have looked for a parcel and found none.  A
\* request they overtake may still reach the provider.
ResetProviderCreation ==
    /\ Resettable
    /\ registered = {}
    /\ shipment' = [shipment EXCEPT !.state = "NOT_STARTED"]
    /\ creationStale' = FALSE
    /\ excused' = excused \cup Begun
    /\ UNCHANGED <<order, payment, plating, lease, leaseStale, creation, registered,
                   tracker, editor>>

-----------------------------------------------------------------------------
(* The order follows its shipment (syncOrderStatusForShipment)             *)

Rank == [s \in OrderStatus |-> CASE s = "PENDING_PAYMENT" -> 0
                                 [] s = "PAID"            -> 1
                                 [] s = "PROCESSING"      -> 2
                                 [] s = "SHIPPED"         -> 3
                                 [] s = "DELIVERED"       -> 4
                                 [] s = "CLOSED"          -> -1]

OrderTarget(to) == IF to = "DELIVERED" THEN "DELIVERED" ELSE "SHIPPED"

\* Whether an order read in that status is to be advanced ...
Advances(read, to) == to \in Moving /\ Rank[read] < Rank[OrderTarget(to)]

\* ... which it must be payable for and, step by step, still be in.
OrderClaim(read, to) ==
    to \in Moving => Rank[read] >= 1 /\ (Advances(read, to) => order = read)

OrderLeftBehind(read, to) == order \* mutant

OrderAfter(read, to) == IF Advances(read, to) THEN OrderTarget(to) ELSE order

\* updateStatus of orders.service.ts.  The statuses of payment and order are
\* claimed; the shipment is only read, and never goes back.
NextOrderStatus ==
    [s \in {"PAID", "PROCESSING", "SHIPPED"} |->
        CASE s = "PAID" -> "PROCESSING" [] s = "PROCESSING" -> "SHIPPED"
          [] s = "SHIPPED" -> "DELIVERED"]

ShipmentAllows(next) ==
    /\ next = "PROCESSING" => payment = "PAID"
    /\ next = "SHIPPED" => shipment.status \in Moving
    /\ next = "DELIVERED" => shipment.status = "DELIVERED"

UpdateOrderStatus ==
    /\ order \in DOMAIN NextOrderStatus
    /\ ShipmentAllows(NextOrderStatus[order])
    /\ order' = NextOrderStatus[order]
    /\ UNCHANGED <<payment, plating, shipment, creationStale, lease, leaseStale, creation,
                   registered, tracker, editor, excused>>

-----------------------------------------------------------------------------
(* Staff set the status of the shipment (updateStatus)                     *)

AllowedTransition(from, to) ==
    \/ from = "PENDING"     /\ to \in {"READY", "CANCELLED", "FAILED"}
    \/ from = "READY"       /\ to \in {"HANDED_OVER", "CANCELLED", "FAILED"}
    \/ from = "HANDED_OVER" /\ to \in {"IN_TRANSIT", "DELIVERED", "FAILED"}
    \/ from = "IN_TRANSIT"  /\ to \in {"DELIVERED", "FAILED"}

ReadyForHandoff ==
    /\ order \notin {"PENDING_PAYMENT", "CLOSED"}
    /\ order \in {"PAID", "PROCESSING"} => payment = "PAID"
    /\ PlatingReady
    /\ shipment.parcel # None

\* The ids staff give: where no parcel is stored and the shipment is to become READY,
\* none or that of a parcel they know of.  (Repeating the stored id changes nothing.)
GivenIds(to) ==
    {None} \cup IF shipment.parcel = None /\ to = "READY" THEN {Panel} \cup registered
                                                        ELSE {}

EditReads(e) ==
    /\ editor[e].step = "IDLE"
    /\ \E to \in ShipmentStatus : \E id \in GivenIds(to) :
          /\ AllowedTransition(shipment.status, to)
          /\ to \in Moving => ReadyForHandoff
          /\ editor' = [editor EXCEPT ![e] =
                [step |-> "EDITING", from |-> shipment.status, to |-> to, id |-> id,
                 state |-> IF id = None THEN shipment.state ELSE "NOT_STARTED",
                 order |-> IF to \in Moving THEN order ELSE "PENDING_PAYMENT"]]
    /\ UNCHANGED <<rows, creation, registered, tracker, excused>>

\* Mutant: the status of the shipment is not claimed.
EditClaimsOrderOnly(e) == OrderClaim(editor[e].order, editor[e].to)

EditClaims(e) ==
    /\ shipment.status = editor[e].from
    /\ editor[e].to = "HANDED_OVER" => payment = "PAID"
    /\ OrderClaim(editor[e].order, editor[e].to)

\* Without an id the creation state is written as it was read.
EditCommits(e) ==
    LET edit == editor[e] IN
    /\ edit.step = "EDITING"
    /\ EditClaims(e)
    /\ shipment' = [status |-> edit.to,
                    state  |-> IF edit.id # None THEN "CREATED" ELSE edit.state,
                    parcel |-> IF edit.id # None THEN edit.id ELSE shipment.parcel]
    /\ order' = OrderAfter(edit.order, edit.to)
    /\ excused' = excused \cup
          IF edit.id # None THEN Begun \ {edit.id}
          ELSE IF edit.state # shipment.state THEN Begun ELSE {}
    /\ editor' = [editor EXCEPT ![e] = IdleEditor]
    /\ UNCHANGED <<payment, plating, creationStale, lease, leaseStale, creation,
                   registered, tracker>>

EditAborts(e) ==
    /\ editor[e].step = "EDITING"
    /\ ~EditClaims(e)
    /\ editor' = [editor EXCEPT ![e] = IdleEditor]
    /\ UNCHANGED <<rows, creation, registered, tracker, excused>>

-----------------------------------------------------------------------------
(* Tracking                                                                *)

LeaseGrowsStale ==
    /\ lease # None
    /\ ~leaseStale
    /\ leaseStale' = TRUE
    /\ UNCHANGED <<order, payment, plating, shipment, creationStale, lease, creation,
                   registered, tracker, editor, excused>>

\* syncTracking takes the lease when it is free or stale.
BeginTracking(t) ==
    /\ tracker[t].step = "IDLE"
    /\ shipment.parcel \notin {None, Manual}
    /\ lease = None \/ leaseStale
    /\ lease' = t
    /\ leaseStale' = FALSE
    /\ tracker' = [tracker EXCEPT ![t] = [step |-> "ASKING", parcel |-> shipment.parcel,
                                          answer |-> "NONE"]]
    /\ UNCHANGED <<order, payment, plating, shipment, creationStale, creation, registered,
                   editor, excused>>

\* The answer may be old when it arrives, or say nothing the code knows.
ProviderReports(t) ==
    /\ tracker[t].step = "ASKING"
    /\ \E answer \in Report \cup {"NONE"} :
          tracker' = [tracker EXCEPT ![t] =
                         [tracker[t] EXCEPT !.step = "FINALIZE", !.answer = answer]]
    /\ UNCHANGED <<rows, creation, registered, editor, excused>>

SyncRank == [s \in {"READY"} \cup Moving |->
                CASE s = "READY" -> 1 [] s = "HANDED_OVER" -> 2
                  [] s = "IN_TRANSIT" -> 3 [] s = "DELIVERED" -> 4]

\* Mutant: a late report is believed.
SyncFollowsAnyReport(from, to) == from \notin {"DELIVERED", "FAILED", "CANCELLED"}

\* isAllowedProviderSyncTransition
SyncAllowed(from, to) ==
    IF to = "FAILED"
    THEN from \notin {"DELIVERED", "CANCELLED", "FAILED"}
    ELSE /\ from \in DOMAIN SyncRank /\ to \in DOMAIN SyncRank
         /\ SyncRank[to] > SyncRank[from]

AfterReport(from, answer) ==
    IF answer # "NONE" /\ SyncAllowed(from, answer) THEN answer ELSE from

OwnsLease(t) == lease = t /\ shipment.parcel = tracker[t].parcel

FinalizeTracking(t) ==
    LET next == AfterReport(shipment.status, tracker[t].answer) IN
    /\ tracker[t].step = "FINALIZE"
    /\ OwnsLease(t)
    /\ next # shipment.status => OrderClaim(order, next)
    /\ shipment' = [shipment EXCEPT !.status = next]
    /\ order' = IF next # shipment.status THEN OrderAfter(order, next) ELSE order
    /\ lease' = None
    /\ leaseStale' = FALSE
    /\ tracker' = [tracker EXCEPT ![t] = IdleTracker]
    /\ UNCHANGED <<payment, plating, creationStale, creation, registered, editor, excused>>

\* An error of the provider or of the transaction; the tracker gives its own
\* lease back.
TrackingFails(t) ==
    /\ tracker[t].step # "IDLE"
    /\ lease' = IF lease = t THEN None ELSE lease
    /\ leaseStale' = IF lease = t THEN FALSE ELSE leaseStale
    /\ tracker' = [tracker EXCEPT ![t] = IdleTracker]
    /\ UNCHANGED <<order, payment, plating, shipment, creationStale, creation, registered,
                   editor, excused>>

TrackerDies(t) ==
    /\ tracker[t].step # "IDLE"
    /\ tracker' = [tracker EXCEPT ![t] = IdleTracker]
    /\ UNCHANGED <<rows, creation, registered, editor, excused>>

-----------------------------------------------------------------------------
(* Specification                                                           *)

CreationNext(c) ==
    \/ BeginCreation(c) \/ ProviderRegisters(c) \/ ProviderAnswers(c) \/ CallFails(c)
    \/ RecordParcel(c) \/ RecordEscapes(c) \/ RecordFailure(c) \/ CreationDies(c)

EditorNext(e) == EditReads(e) \/ EditCommits(e) \/ EditAborts(e)

TrackerNext(t) ==
    \/ BeginTracking(t) \/ ProviderReports(t) \/ FinalizeTracking(t)
    \/ TrackingFails(t) \/ TrackerDies(t)

OrderNext ==
    \/ SelectRate \/ PaymentStarts \/ PaymentSettles \/ OrderCloses \/ PaymentRefunded
    \/ UpdateOrderStatus
    \/ StartPlating \/ CompletePlating \/ CancelPlating
    \/ CreateManualShipment \/ CreationGrowsStale \/ ResetProviderCreation
    \/ LeaseGrowsStale

FulfillmentNext ==
    \/ OrderNext
    \/ \E c \in Creation : CreationNext(c)
    \/ \E e \in Editor : EditorNext(e)
    \/ \E t \in Tracker : TrackerNext(t)

FulfillmentSpec == FulfillmentInit /\ [][FulfillmentNext]_vars

-----------------------------------------------------------------------------
(* Properties                                                              *)

\* Order and shipment never tell different stories: an order is SHIPPED exactly
\* while its parcel is under way (or was lost on the way), DELIVERED exactly when
\* the shipment is, and no parcel of an unpaid or closed order ever moves, although
\* staff, trackers and the order's own status requests race (updateStatus of both
\* services, syncTracking, syncOrderStatusForShipment).
OrderFollowsShipment ==
    /\ order = "SHIPPED" => shipment.status \in {"HANDED_OVER", "IN_TRANSIT", "FAILED"}
    /\ shipment.status \in {"HANDED_OVER", "IN_TRANSIT"} => order = "SHIPPED"
    /\ order = "DELIVERED" <=> shipment.status = "DELIVERED"

\* A shipment says CREATED exactly when it has a parcel, although status requests
\* write back the creation state they have read (updateStatus, createProviderShipment).
ParcelAndStateAgree == shipment.parcel # None <=> shipment.state = "CREATED"

\* The provider is asked for a second parcel only if a decision of staff has overtaken
\* the first request: a reset while it might still arrive, or a status request that
\* undid its claim (createProviderShipment, resetProviderCreation).
OneParcel ==
    \A c, d \in registered : c = d \/ c \in excused \/ d \in excused

\* A parcel the provider has made is recorded, or the shipment still asks for it to be
\* looked up (IN_PROGRESS, UNKNOWN), whatever failed or died on the way, unless staff
\* have overtaken its request or that of the parcel that is recorded instead.
ParcelTraced ==
    \A c \in registered :
        \/ shipment.parcel = c
        \/ shipment.state \in {"IN_PROGRESS", "UNKNOWN"}
        \/ c \in excused
        \/ shipment.parcel \in excused

\* The id of a parcel is never replaced once it is stored ("Provider shipment ID cannot
\* be replaced once stored."), although that is checked on what was read.
ParcelNeverReplaced ==
    [][shipment.parcel # None => shipment'.parcel = shipment.parcel]_vars

Stage == [s \in ShipmentStatus |->
    CASE s = "NONE" -> 0 [] s = "PENDING" -> 1 [] s = "READY" -> 2
      [] s = "HANDED_OVER" -> 3 [] s = "IN_TRANSIT" -> 4
      [] s \in {"DELIVERED", "FAILED", "CANCELLED"} -> 5]

\* Reports that arrive late and status requests on old reads never take shipment or
\* order back, and an end is an end.
MovesForward ==
    [][/\ shipment'.status # shipment.status =>
             Stage[shipment'.status] > Stage[shipment.status]
       /\ order' # order => Rank[order'] > Rank[order] \/ order' = "CLOSED"
       /\ order \in {"DELIVERED", "CLOSED"} => order' = order]_vars

=============================================================================
