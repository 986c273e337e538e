-------------------------- MODULE Fulfillment_proofs --------------------------
(***************************************************************************)
(* Proofs about Fulfillment for any sets of creation requests, status      *)
(* requests and trackers: types, that order and shipment agree, that       *)
(* neither goes back, and that no parcel is lost, replaced or asked for    *)
(* twice unless staff have overtaken a request.                            *)
(***************************************************************************)
EXTENDS Fulfillment, TLAPS

ShipmentRow == [status: ShipmentStatus, state: CreationState, parcel: Parcel]

TrackerRow == [step: {"IDLE", "ASKING", "FINALIZE"}, parcel: Parcel,
               answer: Report \cup {"NONE"}]

EditorRow == [step: {"IDLE", "EDITING"}, from: ShipmentStatus, to: ShipmentStatus,
              id: Parcel, state: CreationState, order: OrderStatus]

-----------------------------------------------------------------------------
(* Types                                                                   *)

LEMMA IdleTyped == IdleTracker \in TrackerRow /\ IdleEditor \in EditorRow
BY DEF IdleTracker, TrackerRow, IdleEditor, EditorRow, ShipmentStatus, Parcel, CreationState,
   OrderStatus

LEMMA InitTyped == FulfillmentInit => FulfillmentTypeOK
<1> SUFFICES ASSUME FulfillmentInit PROVE FulfillmentTypeOK
  OBVIOUS
<1>1. order \in OrderStatus /\ payment \in PaymentStatus /\ plating \in PlatingStatus
  BY DEF FulfillmentInit, OrderStatus, PaymentStatus, PlatingStatus
<1>2. shipment \in ShipmentRow
  BY DEF FulfillmentInit, ShipmentRow, ShipmentStatus, CreationState, Parcel
<1>3. editor \in [Editor -> EditorRow] /\ tracker \in [Tracker -> TrackerRow]
  BY IdleTyped DEF FulfillmentInit
<1>4. /\ creation \in [Creation -> {"IDLE", "CALLING", "ANSWERED", "FAILED", "DONE"}]
      /\ creationStale \in BOOLEAN /\ leaseStale \in BOOLEAN
      /\ lease \in Tracker \cup {None}
      /\ registered \subseteq Creation /\ excused \subseteq Creation
  BY DEF FulfillmentInit
<1>5. QED
  BY <1>1, <1>2, <1>3, <1>4 DEF FulfillmentTypeOK, ShipmentRow, TrackerRow, EditorRow

LEMMA OrderStepsTyped ==
    ASSUME FulfillmentTypeOK, OrderNext
    PROVE  FulfillmentTypeOK'
<1> USE DEF FulfillmentTypeOK
<1>1. CASE SelectRate
  BY <1>1 DEF SelectRate, ShipmentStatus
<1>2. CASE PaymentStarts \/ PaymentSettles \/ OrderCloses \/ PaymentRefunded
  BY <1>2 DEF PaymentStarts, PaymentSettles, OrderCloses, PaymentRefunded, OrderStatus,
     PaymentStatus
<1>3. CASE UpdateOrderStatus
  <2>1. order' \in OrderStatus
    BY <1>3 DEF UpdateOrderStatus, NextOrderStatus, OrderStatus
  <2>2. QED  BY <1>3, <2>1 DEF UpdateOrderStatus
<1>4. CASE StartPlating \/ CompletePlating \/ CancelPlating
  BY <1>4 DEF StartPlating, CompletePlating, CancelPlating, Plates, PlatingStatus
<1>5. CASE CreateManualShipment
  BY <1>5 DEF CreateManualShipment, ShipmentStatus, CreationState, Parcel
<1>6. CASE CreationGrowsStale \/ LeaseGrowsStale
  BY <1>6 DEF CreationGrowsStale, LeaseGrowsStale
<1>7. CASE ResetProviderCreation
  BY <1>7 DEF ResetProviderCreation, CreationState, Begun
<1>8. QED
  BY <1>1, <1>2, <1>3, <1>4, <1>5, <1>6, <1>7 DEF OrderNext

\* The state of a creation after a failure was recorded.
FailedState == IF shipment.state = "IN_PROGRESS" /\ shipment.parcel = None
               THEN "UNKNOWN" ELSE shipment.state

LEMMA FailureRecorded ==
    ASSUME NEW c \in Creation, RecordFailure(c)
    PROVE  shipment' = [shipment EXCEPT !.state = FailedState]
BY DEF RecordFailure, FailedState

LEMMA CreationStepsTyped ==
    ASSUME FulfillmentTypeOK, NEW c \in Creation, CreationNext(c)
    PROVE  FulfillmentTypeOK'
<1> USE DEF FulfillmentTypeOK
<1>1. CASE BeginCreation(c)
  BY <1>1 DEF BeginCreation, CreationState
<1>2. CASE ProviderRegisters(c)
  BY <1>2 DEF ProviderRegisters, Begun, rows
<1>3. CASE ProviderAnswers(c) \/ CallFails(c) \/ RecordEscapes(c) \/ CreationDies(c)
  BY <1>3 DEF ProviderAnswers, CallFails, RecordEscapes, CreationDies, Calls, rows
<1>4. CASE RecordParcel(c)
  BY <1>4 DEF RecordParcel, Calls, ShipmentStatus, CreationState, Parcel
<1>5. CASE RecordFailure(c)
  <2>1. FailedState \in CreationState
    BY DEF FailedState, CreationState
  <2>2. shipment' \in ShipmentRow
    BY <1>5, <2>1, FailureRecorded DEF ShipmentRow
  <2>3. QED  BY <1>5, <2>2 DEF RecordFailure, Calls, ShipmentRow
<1>6. QED
  BY <1>1, <1>2, <1>3, <1>4, <1>5 DEF CreationNext

LEMMA OrderAfterTyped ==
    ASSUME FulfillmentTypeOK, NEW read, NEW to
    PROVE  OrderAfter(read, to) \in OrderStatus
BY DEF OrderAfter, OrderTarget, FulfillmentTypeOK, OrderStatus

LEMMA EditorStepsTyped ==
    ASSUME FulfillmentTypeOK, NEW e \in Editor, EditorNext(e)
    PROVE  FulfillmentTypeOK'
<1> DEFINE edit == editor[e]
<1>1. IdleEditor \in EditorRow
  BY IdleTyped
<1>2. CASE EditReads(e)
  <2> DEFINE state(id) == IF id = None THEN shipment.state ELSE "NOT_STARTED"
             read(to) == IF to \in Moving THEN order ELSE "PENDING_PAYMENT"
             row(to, id) == [step |-> "EDITING", from |-> shipment.status, to |-> to,
                             id |-> id, state |-> state(id), order |-> read(to)]
  <2>1. PICK to \in ShipmentStatus : \E id \in GivenIds(to) :
          editor' = [editor EXCEPT ![e] = row(to, id)]
    BY <1>2 DEF EditReads
  <2>2. PICK id \in GivenIds(to) : editor' = [editor EXCEPT ![e] = row(to, id)]
    BY <2>1
  <2>3. state(id) \in CreationState /\ read(to) \in OrderStatus /\ id \in Parcel
    BY DEF FulfillmentTypeOK, CreationState, OrderStatus, GivenIds, Parcel
  <2> HIDE DEF state, read
  <2>4. row(to, id) \in EditorRow
    BY <2>3 DEF EditorRow, FulfillmentTypeOK
  <2> HIDE DEF row
  <2>5. editor' \in [Editor -> EditorRow]
    BY <2>2, <2>4 DEF FulfillmentTypeOK, EditorRow
  <2>6. QED  BY <1>2, <2>5 DEF EditReads, rows, FulfillmentTypeOK, EditorRow
<1>3. CASE EditCommits(e)
  <2>1. edit \in EditorRow
    BY DEF FulfillmentTypeOK, EditorRow
  <2> DEFINE state == IF edit.id # None THEN "CREATED" ELSE edit.state
             parcel == IF edit.id # None THEN edit.id ELSE shipment.parcel
  <2>2. state \in CreationState /\ parcel \in Parcel /\ edit.to \in ShipmentStatus
    BY <2>1 DEF EditorRow, FulfillmentTypeOK, CreationState
  <2>3. shipment' = [status |-> edit.to, state |-> state, parcel |-> parcel]
    BY <1>3 DEF EditCommits
  <2> HIDE DEF state, parcel
  <2>4. shipment' \in ShipmentRow
    BY <2>2, <2>3 DEF ShipmentRow
  <2>5. editor' \in [Editor -> EditorRow]
    BY <1>1, <1>3 DEF EditCommits, FulfillmentTypeOK, EditorRow
  <2>6. order' \in OrderStatus
    BY <1>3, OrderAfterTyped DEF EditCommits
  <2>7. excused' \subseteq Creation
    BY <1>3 DEF EditCommits, FulfillmentTypeOK, Begun
  <2>8. QED
    BY <1>3, <2>4, <2>5, <2>6, <2>7 DEF EditCommits, FulfillmentTypeOK, ShipmentRow, EditorRow
<1>4. CASE EditAborts(e)
  <2>1. editor' \in [Editor -> EditorRow]
    BY <1>1, <1>4 DEF EditAborts, FulfillmentTypeOK, EditorRow
  <2>2. QED  BY <1>4, <2>1 DEF EditAborts, rows, FulfillmentTypeOK, EditorRow
<1>5. QED
  BY <1>2, <1>3, <1>4 DEF EditorNext

LEMMA AfterReportTyped ==
    ASSUME FulfillmentTypeOK, NEW t \in Tracker
    PROVE  AfterReport(shipment.status, tracker[t].answer) \in ShipmentStatus
BY DEF AfterReport, FulfillmentTypeOK, Report, ShipmentStatus

LEMMA TrackerStepsTyped ==
    ASSUME FulfillmentTypeOK, NEW t \in Tracker, TrackerNext(t)
    PROVE  FulfillmentTypeOK'
<1>1. IdleTracker \in TrackerRow
  BY IdleTyped
<1>2. CASE BeginTracking(t)
  BY <1>2 DEF BeginTracking, FulfillmentTypeOK
<1>3. CASE ProviderReports(t)
  <2>1. PICK answer \in Report \cup {"NONE"} :
          tracker' = [tracker EXCEPT ![t] =
                         [tracker[t] EXCEPT !.step = "FINALIZE", !.answer = answer]]
    BY <1>3 DEF ProviderReports
  <2>2. tracker' \in [Tracker -> TrackerRow]
    BY <2>1 DEF FulfillmentTypeOK, TrackerRow
  <2>3. QED  BY <1>3, <2>2 DEF ProviderReports, FulfillmentTypeOK, TrackerRow, rows
<1>4. CASE FinalizeTracking(t)
  <2> DEFINE next == AfterReport(shipment.status, tracker[t].answer)
  <2>1. next \in ShipmentStatus
    BY AfterReportTyped
  <2>2. order' \in OrderStatus
    BY <1>4, OrderAfterTyped DEF FinalizeTracking, FulfillmentTypeOK
  <2>3. shipment' = [shipment EXCEPT !.status = next]
    BY <1>4 DEF FinalizeTracking
  <2> HIDE DEF next
  <2>4. shipment' \in ShipmentRow
    BY <2>1, <2>3 DEF FulfillmentTypeOK, ShipmentRow
  <2>5. tracker' \in [Tracker -> TrackerRow]
    BY <1>1, <1>4 DEF FinalizeTracking, FulfillmentTypeOK, TrackerRow
  <2>6. QED
    BY <1>4, <2>2, <2>4, <2>5 DEF FinalizeTracking, FulfillmentTypeOK, ShipmentRow, TrackerRow
<1>5. CASE TrackingFails(t) \/ TrackerDies(t)
  <2>1. tracker' \in [Tracker -> TrackerRow]
    BY <1>1, <1>5 DEF TrackingFails, TrackerDies, FulfillmentTypeOK, TrackerRow
  <2>2. QED
    BY <1>5, <2>1 DEF TrackingFails, TrackerDies, rows, FulfillmentTypeOK, TrackerRow
<1>6. QED
  BY <1>2, <1>3, <1>4, <1>5 DEF TrackerNext

LEMMA StepTyped == FulfillmentTypeOK /\ [FulfillmentNext]_vars => FulfillmentTypeOK'
<1> SUFFICES ASSUME FulfillmentTypeOK, [FulfillmentNext]_vars PROVE FulfillmentTypeOK'
  OBVIOUS
<1>1. CASE UNCHANGED vars
  BY <1>1 DEF vars, FulfillmentTypeOK
<1>2. QED
  BY <1>1, OrderStepsTyped, CreationStepsTyped, EditorStepsTyped, TrackerStepsTyped
     DEF FulfillmentNext

\* The rows and what requests have read keep their types.
THEOREM FulfillmentTypeCorrect == FulfillmentSpec => []FulfillmentTypeOK
<1>1. QED
  BY InitTyped, StepTyped, PTL DEF FulfillmentSpec

-----------------------------------------------------------------------------
(* The inductive invariant                                                 *)

\* A parcel is stored no earlier than the step that makes the shipment READY.
NoParcelBeforeReady == shipment.parcel # None => shipment.status \notin {"NONE", "PENDING"}

\* An order and a shipment that tell the same story.
Agree(o, s) ==
    /\ o = "SHIPPED" => s \in {"HANDED_OVER", "IN_TRANSIT", "FAILED"}
    /\ s \in {"HANDED_OVER", "IN_TRANSIT"} => o = "SHIPPED"
    /\ o = "DELIVERED" <=> s = "DELIVERED"

\* What a status request has read was true together, and is still true of the parcel as
\* long as the status is the one it has read.
EditFits(e) ==
    LET edit == editor[e] IN
    /\ AllowedTransition(edit.from, edit.to)
    /\ Stage[edit.from] <= Stage[shipment.status]
    /\ edit.id # None => edit.to = "READY"
    /\ edit.id = None /\ shipment.status = edit.from =>
          (edit.state = "CREATED" <=> shipment.parcel # None)
    /\ edit.to \in Moving => Agree(edit.order, edit.from)

EditsFit == \A e \in Editor : editor[e].step = "EDITING" => EditFits(e)

\* Creation requests: the provider is asked again only when staff have overtaken whoever
\* asked before, and a request is on record until its parcel is.
OnlyOneAsks ==
    /\ registered \subseteq Begun
    /\ shipment.status = "NONE" => Begun = {}
    /\ shipment.state = "NOT_STARTED" => Begun \subseteq excused
    /\ \A c, d \in Begun : c = d \/ c \in excused \/ d \in excused

NoneIsLost ==
    \A c \in Begun :
        \/ shipment.parcel = c
        \/ shipment.state \in {"IN_PROGRESS", "UNKNOWN"}
        \/ c \in excused
        \/ shipment.parcel \in excused

FulfillmentInv ==
    /\ FulfillmentTypeOK
    /\ ParcelAndStateAgree
    /\ NoParcelBeforeReady
    /\ Agree(order, shipment.status)
    /\ EditsFit
    /\ OnlyOneAsks
    /\ NoneIsLost

LEMMA InitInv == FulfillmentInit => FulfillmentInv
<1> SUFFICES ASSUME FulfillmentInit PROVE FulfillmentInv
  OBVIOUS
<1>1. FulfillmentTypeOK
  BY InitTyped
<1>2. ParcelAndStateAgree /\ NoParcelBeforeReady /\ Agree(order, shipment.status)
  BY DEF FulfillmentInit, ParcelAndStateAgree, NoParcelBeforeReady, Agree
<1>3. EditsFit
  BY DEF FulfillmentInit, EditsFit, IdleEditor
<1>4. Begun = {} /\ registered = {}
  BY DEF FulfillmentInit, Begun
<1>5. QED
  BY <1>1, <1>2, <1>3, <1>4 DEF FulfillmentInv, OnlyOneAsks, NoneIsLost

-----------------------------------------------------------------------------
(* What a step does to order and shipment                                  *)

LEMMA StepKinds ==
    ASSUME [FulfillmentNext]_vars
    PROVE  \/ UNCHANGED <<order, shipment>>
           \/ SelectRate \/ PaymentSettles \/ OrderCloses \/ UpdateOrderStatus
           \/ CreateManualShipment \/ ResetProviderCreation
           \/ \E c \in Creation : BeginCreation(c) \/ RecordParcel(c) \/ RecordFailure(c)
           \/ \E e \in Editor : EditCommits(e)
           \/ \E t \in Tracker : FinalizeTracking(t)
<1>1. CASE OrderNext
  BY <1>1 DEF OrderNext, PaymentStarts, PaymentRefunded, StartPlating, CompletePlating,
     CancelPlating, Plates, CreationGrowsStale, LeaseGrowsStale
<1>2. ASSUME NEW c \in Creation, CreationNext(c)
      PROVE  \/ UNCHANGED <<order, shipment>>
             \/ BeginCreation(c) \/ RecordParcel(c) \/ RecordFailure(c)
  BY <1>2 DEF CreationNext, ProviderRegisters, ProviderAnswers, CallFails, RecordEscapes,
     CreationDies, rows
<1>3. ASSUME NEW e \in Editor, EditorNext(e)
      PROVE  UNCHANGED <<order, shipment>> \/ EditCommits(e)
  BY <1>3 DEF EditorNext, EditReads, EditAborts, rows
<1>4. ASSUME NEW t \in Tracker, TrackerNext(t)
      PROVE  UNCHANGED <<order, shipment>> \/ FinalizeTracking(t)
  BY <1>4 DEF TrackerNext, BeginTracking, ProviderReports, TrackingFails, TrackerDies, rows
<1>5. CASE UNCHANGED vars
  BY <1>5 DEF vars
<1>6. QED  BY <1>1, <1>2, <1>3, <1>4, <1>5 DEF FulfillmentNext

\* A status request that commits meets the shipment as it has read it.
LEMMA CommitMeetsRead ==
    ASSUME FulfillmentInv, NEW e \in Editor, EditCommits(e)
    PROVE  /\ editor[e] \in EditorRow
           /\ EditFits(e)
           /\ shipment.status = editor[e].from
           /\ OrderClaim(editor[e].order, editor[e].to)
           /\ shipment'.status = editor[e].to
           /\ editor[e].id = None =>
                 shipment'.state = editor[e].state /\ shipment'.parcel = shipment.parcel
           /\ editor[e].id # None =>
                 shipment'.state = "CREATED" /\ shipment'.parcel = editor[e].id
           /\ order' = OrderAfter(editor[e].order, editor[e].to)
BY DEF FulfillmentInv, FulfillmentTypeOK, EditsFit, EditCommits, EditClaims, EditorRow

\* Parcel and creation state change together, and only on the way to READY.
LEMMA StepParcel ==
    ASSUME FulfillmentInv, [FulfillmentNext]_vars
    PROVE  /\ ParcelAndStateAgree'
           /\ NoParcelBeforeReady'
           /\ shipment.parcel # None => shipment'.parcel = shipment.parcel
<1> DEFINE Goal == /\ ParcelAndStateAgree'
                   /\ NoParcelBeforeReady'
                   /\ shipment.parcel # None => shipment'.parcel = shipment.parcel
<1>1. /\ shipment \in ShipmentRow
      /\ ParcelAndStateAgree
      /\ NoParcelBeforeReady
  BY DEF FulfillmentInv, FulfillmentTypeOK, ShipmentRow
<1> USE FulfillmentAssumption DEF ParcelAndStateAgree, NoParcelBeforeReady
<1>2. CASE UNCHANGED <<order, shipment>>
  BY <1>1, <1>2
<1>3. CASE PaymentSettles \/ OrderCloses \/ UpdateOrderStatus
  BY <1>1, <1>3 DEF PaymentSettles, OrderCloses, UpdateOrderStatus
<1>4. CASE SelectRate
  BY <1>1, <1>4 DEF SelectRate, ShipmentRow
<1>5. CASE CreateManualShipment
  BY <1>1, <1>5 DEF CreateManualShipment
<1>6. CASE ResetProviderCreation
  BY <1>1, <1>6 DEF ResetProviderCreation, Resettable, ShipmentRow
<1>7. ASSUME NEW c \in Creation, BeginCreation(c) PROVE Goal
  BY <1>1, <1>7 DEF BeginCreation, ReadyForShipmentCreation, ShipmentRow
<1>8. ASSUME NEW c \in Creation, RecordParcel(c) PROVE Goal
  BY <1>1, <1>8 DEF RecordParcel, ResultFits
<1>9. ASSUME NEW c \in Creation, RecordFailure(c) PROVE Goal
  <2>1. FailedState = "CREATED" <=> shipment.state = "CREATED"
    BY DEF FailedState
  <2>2. QED  BY <1>1, <1>9, <2>1, FailureRecorded DEF ShipmentRow
<1>10. ASSUME NEW e \in Editor, EditCommits(e) PROVE Goal
  <2>1. AllowedTransition(editor[e].from, editor[e].to)
    BY <1>10, CommitMeetsRead DEF EditFits
  <2>2. editor[e].to \notin {"NONE", "PENDING"}
    BY <2>1 DEF AllowedTransition
  <2>3. CASE editor[e].id = None
    BY <1>1, <1>10, <2>2, <2>3, CommitMeetsRead DEF EditFits
  <2>4. CASE editor[e].id # None
    <3>1. editor[e].to = "READY"
      BY <1>10, <2>4, CommitMeetsRead DEF EditFits
    <3>2. editor[e].from = "PENDING"
      BY <2>1, <3>1 DEF AllowedTransition
    <3>3. shipment.parcel = None
      BY <1>1, <1>10, <3>2, CommitMeetsRead
    <3>4. QED  BY <1>1, <1>10, <2>2, <2>4, <3>3, CommitMeetsRead
  <2>5. QED  BY <2>3, <2>4
<1>11. ASSUME NEW t \in Tracker, FinalizeTracking(t) PROVE Goal
  <2> DEFINE next == AfterReport(shipment.status, tracker[t].answer)
  <2>1. next = shipment.status \/ next \in Report
    <3>1. tracker[t].answer \in Report \cup {"NONE"}
      BY DEF FulfillmentInv, FulfillmentTypeOK
    <3>2. QED  BY <3>1 DEF AfterReport
  <2>2. shipment' = [shipment EXCEPT !.status = next]
    BY <1>11 DEF FinalizeTracking
  <2> HIDE DEF next
  <2>3. QED  BY <1>1, <2>1, <2>2 DEF ShipmentRow, Report
<1>12. QED
  BY <1>2, <1>3, <1>4, <1>5, <1>6, <1>7, <1>8, <1>9, <1>10, <1>11, StepKinds

\* No parcel is stored without a change of the shipment's status.
LEMMA StepParcelStays ==
    ASSUME FulfillmentInv, [FulfillmentNext]_vars, shipment'.status = shipment.status
    PROVE  shipment'.parcel # None <=> shipment.parcel # None
<1> DEFINE Goal == shipment'.parcel # None <=> shipment.parcel # None
<1>1. shipment \in ShipmentRow
  BY DEF FulfillmentInv, FulfillmentTypeOK, ShipmentRow
<1>2. CASE UNCHANGED <<order, shipment>>
  BY <1>2
<1>3. CASE PaymentSettles \/ OrderCloses \/ UpdateOrderStatus
  BY <1>3 DEF PaymentSettles, OrderCloses, UpdateOrderStatus
<1>4. CASE SelectRate \/ ResetProviderCreation
  BY <1>1, <1>4 DEF SelectRate, ResetProviderCreation, ShipmentRow
<1>5. CASE CreateManualShipment
  BY <1>5 DEF CreateManualShipment
<1>6. ASSUME NEW c \in Creation, BeginCreation(c) \/ RecordParcel(c) \/ RecordFailure(c)
      PROVE  Goal
  <2>1. CASE BeginCreation(c)
    BY <1>1, <2>1 DEF BeginCreation, ShipmentRow
  <2>2. CASE RecordParcel(c)
    BY <2>2 DEF RecordParcel, ResultFits
  <2>3. CASE RecordFailure(c)
    BY <1>1, <2>3, FailureRecorded DEF ShipmentRow
  <2>4. QED  BY <1>6, <2>1, <2>2, <2>3
<1>7. ASSUME NEW e \in Editor, EditCommits(e) PROVE Goal
  <2>1. editor[e].to # editor[e].from
    BY <1>7, CommitMeetsRead DEF EditFits, AllowedTransition
  <2>2. QED  BY <1>7, <2>1, CommitMeetsRead
<1>8. ASSUME NEW t \in Tracker, FinalizeTracking(t) PROVE Goal
  BY <1>1, <1>8 DEF FinalizeTracking, ShipmentRow
<1>9. QED
  BY <1>2, <1>3, <1>4, <1>5, <1>6, <1>7, <1>8, StepKinds

-----------------------------------------------------------------------------
(* Order and shipment agree, and neither goes back                         *)

Forward ==
    /\ shipment'.status # shipment.status =>
          Stage[shipment'.status] > Stage[shipment.status]
    /\ order' # order => Rank[order'] > Rank[order] \/ order' = "CLOSED"
    /\ order \in {"DELIVERED", "CLOSED"} => order' = order

\* Whatever moves the shipment to a status that its order's claim admits, with a
\* status of the order that agreed with the shipment when it was read.
LEMMA FollowAgrees ==
    ASSUME NEW from \in ShipmentStatus, NEW to \in ShipmentStatus,
           NEW read \in OrderStatus, order \in OrderStatus,
           Agree(order, from), to \in Moving => Agree(read, from),
           OrderClaim(read, to), order' = OrderAfter(read, to),
           Stage[to] > Stage[from], to = "CANCELLED" => from \in {"PENDING", "READY"}
    PROVE  /\ Agree(order', to)
           /\ order' # order => Rank[order'] > Rank[order]
           /\ order \in {"DELIVERED", "CLOSED"} => order' = order
<1>1. CASE to \notin Moving
  <2>1. order' = order
    BY <1>1 DEF OrderAfter, Advances
  <2>2. QED
    BY <1>1, <2>1 DEF Agree, Moving, Stage, ShipmentStatus, OrderStatus
<1>2. CASE to \in Moving
  <2>1. CASE Advances(read, to)
    <3>1. order = read /\ order' = OrderTarget(to) /\ Rank[order] < Rank[OrderTarget(to)]
      BY <1>2, <2>1 DEF OrderClaim, OrderAfter, Advances
    <3>2. order \notin {"DELIVERED", "CLOSED"}
      BY <1>2, <3>1 DEF OrderTarget, Rank, OrderStatus, OrderClaim
    <3>3. QED  BY <1>2, <3>1, <3>2 DEF OrderTarget, Agree, Moving
  <2>2. CASE ~Advances(read, to)
    <3>1. order' = order /\ Rank[read] >= Rank[OrderTarget(to)]
      BY <1>2, <2>2 DEF OrderAfter, Advances, Rank, OrderStatus, OrderTarget
    <3>2. read \in {"SHIPPED", "DELIVERED"} /\ (to = "DELIVERED" => read = "DELIVERED")
      BY <3>1 DEF Rank, OrderStatus, OrderTarget
    <3>3. from = "HANDED_OVER" /\ to = "IN_TRANSIT"
      BY <1>2, <3>2 DEF Agree, Moving, Stage, ShipmentStatus
    <3>4. QED  BY <3>1, <3>3 DEF Agree
  <2>3. QED  BY <2>1, <2>2
<1>3. QED  BY <1>1, <1>2

LEMMA TransitionClimbs ==
    ASSUME NEW from \in ShipmentStatus, NEW to \in ShipmentStatus,
           AllowedTransition(from, to)
    PROVE  Stage[to] > Stage[from]
BY DEF AllowedTransition, Stage, ShipmentStatus

LEMMA ReportClimbs ==
    ASSUME NEW from \in ShipmentStatus, NEW answer \in Report \cup {"NONE"},
           AfterReport(from, answer) # from
    PROVE  /\ AfterReport(from, answer) \in ShipmentStatus
           /\ Stage[AfterReport(from, answer)] > Stage[from]
<1>1. AfterReport(from, answer) = answer /\ answer # "NONE" /\ SyncAllowed(from, answer)
  BY DEF AfterReport
<1>2. answer \in ShipmentStatus
  BY <1>1 DEF Report, ShipmentStatus
<1>3. CASE answer = "FAILED"
  BY <1>1, <1>3 DEF SyncAllowed, Stage, ShipmentStatus
<1>4. CASE answer # "FAILED"
  <2>1. /\ from \in {"READY", "HANDED_OVER", "IN_TRANSIT", "DELIVERED"}
        /\ answer \in {"HANDED_OVER", "IN_TRANSIT", "DELIVERED"}
        /\ SyncRank[answer] > SyncRank[from]
    BY <1>1, <1>4 DEF SyncAllowed, SyncRank, Moving, Report
  <2>2. QED  BY <1>1, <1>2, <2>1 DEF SyncRank, Stage, Moving, ShipmentStatus
<1>5. QED  BY <1>3, <1>4

LEMMA StepOrder ==
    ASSUME FulfillmentInv, [FulfillmentNext]_vars
    PROVE  Agree(order, shipment.status)' /\ Forward
<1> DEFINE Goal == Agree(order, shipment.status)' /\ Forward
<1>1. /\ shipment \in ShipmentRow /\ shipment.status \in ShipmentStatus
      /\ order \in OrderStatus
      /\ Agree(order, shipment.status)
  BY DEF FulfillmentInv, FulfillmentTypeOK, ShipmentRow
<1>2. CASE UNCHANGED <<order, shipment>>
  BY <1>1, <1>2 DEF Forward
<1>3. CASE PaymentSettles \/ OrderCloses
  BY <1>1, <1>3 DEF PaymentSettles, OrderCloses, Agree, Forward, Rank, OrderStatus
<1>4. CASE UpdateOrderStatus
  <2>1. order \in {"PAID", "PROCESSING", "SHIPPED"} /\ shipment' = shipment
    BY <1>4 DEF UpdateOrderStatus, NextOrderStatus
  <2>2. order = "PAID" /\ order' = "PROCESSING"
    BY <1>1, <1>4, <2>1 DEF UpdateOrderStatus, NextOrderStatus, ShipmentAllows, Agree, Moving
  <2>3. QED  BY <1>1, <2>1, <2>2 DEF Agree, Forward, Rank, OrderStatus
<1>5. CASE SelectRate
  BY <1>1, <1>5 DEF SelectRate, ShipmentRow, Agree, Forward, Stage, ShipmentStatus
<1>6. CASE CreateManualShipment
  BY <1>1, <1>6 DEF CreateManualShipment, Agree, Forward, Stage, ShipmentStatus
<1>7. CASE ResetProviderCreation
  BY <1>1, <1>7 DEF ResetProviderCreation, ShipmentRow, Forward
<1>8. ASSUME NEW c \in Creation, BeginCreation(c) PROVE Goal
  BY <1>1, <1>8 DEF BeginCreation, ShipmentRow, Forward
<1>9. ASSUME NEW c \in Creation, RecordParcel(c) PROVE Goal
  BY <1>1, <1>9 DEF RecordParcel, ResultFits, Agree, Forward, Stage, ShipmentStatus
<1>10. ASSUME NEW c \in Creation, RecordFailure(c) PROVE Goal
  <2>1. shipment'.status = shipment.status /\ order' = order
    BY <1>1, <1>10, FailureRecorded DEF ShipmentRow, RecordFailure
  <2>2. QED  BY <1>1, <2>1 DEF Forward
<1>11. ASSUME NEW e \in Editor, EditCommits(e) PROVE Goal
  <2> DEFINE edit == editor[e]
  <2>1. /\ edit.from \in ShipmentStatus /\ edit.to \in ShipmentStatus
        /\ edit.order \in OrderStatus
    BY <1>11, CommitMeetsRead DEF EditorRow
  <2>2. /\ AllowedTransition(edit.from, edit.to)
        /\ edit.to \in Moving => Agree(edit.order, edit.from)
        /\ shipment.status = edit.from /\ shipment'.status = edit.to
        /\ OrderClaim(edit.order, edit.to)
        /\ order' = OrderAfter(edit.order, edit.to)
    BY <1>11, CommitMeetsRead DEF EditFits
  <2>3. /\ Stage[edit.to] > Stage[edit.from]
        /\ edit.to = "CANCELLED" => edit.from \in {"PENDING", "READY"}
    BY <2>1, <2>2, TransitionClimbs DEF AllowedTransition
  <2>4. /\ Agree(order', edit.to)
        /\ order' # order => Rank[order'] > Rank[order]
        /\ order \in {"DELIVERED", "CLOSED"} => order' = order
    BY <1>1, <2>1, <2>2, <2>3, FollowAgrees
  <2>5. QED  BY <2>2, <2>3, <2>4 DEF Forward
<1>12. ASSUME NEW t \in Tracker, FinalizeTracking(t) PROVE Goal
  <2> DEFINE next == AfterReport(shipment.status, tracker[t].answer)
  <2>1. tracker[t].answer \in Report \cup {"NONE"}
    BY DEF FulfillmentInv, FulfillmentTypeOK
  <2>2. /\ shipment' = [shipment EXCEPT !.status = next]
        /\ next # shipment.status =>
              OrderClaim(order, next) /\ order' = OrderAfter(order, next)
        /\ next = shipment.status => order' = order
    BY <1>12 DEF FinalizeTracking
  <2>3. next # shipment.status =>
          /\ next \in ShipmentStatus /\ next # "CANCELLED"
          /\ Stage[next] > Stage[shipment.status]
    BY <1>1, <2>1, ReportClimbs DEF AfterReport, Report
  <2> HIDE DEF next
  <2>4. shipment'.status = next
    BY <1>1, <2>2 DEF ShipmentRow
  <2>5. CASE next = shipment.status
    BY <1>1, <2>2, <2>4, <2>5 DEF Forward
  <2>6. CASE next # shipment.status
    <3>1. /\ Agree(order', next)
          /\ order' # order => Rank[order'] > Rank[order]
          /\ order \in {"DELIVERED", "CLOSED"} => order' = order
      BY <1>1, <2>2, <2>3, <2>6, FollowAgrees
    <3>2. QED  BY <2>3, <2>4, <2>6, <3>1 DEF Forward
  <2>7. QED  BY <2>5, <2>6
<1>13. QED
  BY <1>2, <1>3, <1>4, <1>5, <1>6, <1>7, <1>8, <1>9, <1>10, <1>11, <1>12, StepKinds

-----------------------------------------------------------------------------
(* What status requests have read                                          *)

LEMMA EditorKinds ==
    ASSUME [FulfillmentNext]_vars
    PROVE  \/ editor' = editor
           \/ \E e \in Editor : EditReads(e) \/ editor' = [editor EXCEPT ![e] = IdleEditor]
<1>1. CASE OrderNext
  BY <1>1 DEF OrderNext, SelectRate, PaymentStarts, PaymentSettles, OrderCloses,
     PaymentRefunded, UpdateOrderStatus, StartPlating, CompletePlating, CancelPlating,
     Plates, CreateManualShipment, CreationGrowsStale, ResetProviderCreation, LeaseGrowsStale
<1>2. ASSUME NEW c \in Creation, CreationNext(c) PROVE editor' = editor
  BY <1>2 DEF CreationNext, BeginCreation, ProviderRegisters, ProviderAnswers, CallFails,
     RecordParcel, RecordEscapes, RecordFailure, CreationDies, Calls
<1>3. ASSUME NEW e \in Editor, EditorNext(e)
      PROVE  EditReads(e) \/ editor' = [editor EXCEPT ![e] = IdleEditor]
  BY <1>3 DEF EditorNext, EditCommits, EditAborts
<1>4. ASSUME NEW t \in Tracker, TrackerNext(t) PROVE editor' = editor
  BY <1>4 DEF TrackerNext, BeginTracking, ProviderReports, FinalizeTracking, TrackingFails,
     TrackerDies
<1>5. CASE UNCHANGED vars
  BY <1>5 DEF vars
<1>6. QED  BY <1>1, <1>2, <1>3, <1>4, <1>5 DEF FulfillmentNext

LEMMA StepEdits ==
    ASSUME FulfillmentInv, FulfillmentTypeOK', [FulfillmentNext]_vars
    PROVE  EditsFit'
<1>1. /\ Forward
      /\ Agree(order, shipment.status)
      /\ shipment \in ShipmentRow /\ shipment' \in ShipmentRow
      /\ editor \in [Editor -> EditorRow]
  BY StepOrder DEF FulfillmentInv, FulfillmentTypeOK, ShipmentRow, EditorRow
\* A request at work: as long as the status does not move, neither does the parcel.
<1>2. ASSUME NEW e \in Editor, editor[e].step = "EDITING", editor'[e] = editor[e]
      PROVE  EditFits(e)'
  <2>1. EditFits(e) /\ editor[e] \in EditorRow
    BY <1>1, <1>2 DEF FulfillmentInv, EditsFit
  <2>2. /\ editor[e].from \in ShipmentStatus
        /\ shipment.status \in ShipmentStatus /\ shipment'.status \in ShipmentStatus
    BY <1>1, <2>1 DEF EditorRow, ShipmentRow
  <2>3. /\ Stage[editor[e].from] \in Int
        /\ Stage[shipment.status] \in Int /\ Stage[shipment'.status] \in Int
    BY <2>2 DEF Stage, ShipmentStatus
  <2>4. Stage[editor[e].from] <= Stage[shipment'.status]
    BY <1>1, <2>1, <2>3 DEF EditFits, Forward
  <2>5. shipment'.status = editor[e].from => shipment.status = editor[e].from
    BY <1>1, <2>1, <2>3 DEF EditFits, Forward
  <2>6. shipment'.status = shipment.status =>
          (shipment'.parcel # None <=> shipment.parcel # None)
    BY StepParcelStays
  <2>7. QED
    BY <1>2, <2>1, <2>4, <2>5, <2>6 DEF EditFits
<1>3. ASSUME NEW e \in Editor, EditReads(e) PROVE EditFits(e)'
  <2>1. PICK to \in ShipmentStatus : \E id \in GivenIds(to) :
          /\ AllowedTransition(shipment.status, to)
          /\ editor' = [editor EXCEPT ![e] =
                [step |-> "EDITING", from |-> shipment.status, to |-> to, id |-> id,
                 state |-> IF id = None THEN shipment.state ELSE "NOT_STARTED",
                 order |-> IF to \in Moving THEN order ELSE "PENDING_PAYMENT"]]
    BY <1>3 DEF EditReads
  <2>2. PICK id \in GivenIds(to) :
          /\ AllowedTransition(shipment.status, to)
          /\ editor' = [editor EXCEPT ![e] =
                [step |-> "EDITING", from |-> shipment.status, to |-> to, id |-> id,
                 state |-> IF id = None THEN shipment.state ELSE "NOT_STARTED",
                 order |-> IF to \in Moving THEN order ELSE "PENDING_PAYMENT"]]
    BY <2>1
  <2>3. /\ editor'[e].from = shipment.status /\ editor'[e].to = to /\ editor'[e].id = id
        /\ id = None => editor'[e].state = shipment.state
        /\ to \in Moving => editor'[e].order = order
    BY <1>1, <2>2
  <2>4. id # None => to = "READY"
    BY DEF GivenIds
  <2>5. UNCHANGED <<order, shipment>>
    BY <1>3 DEF EditReads, rows
  <2>6. Stage[shipment.status] <= Stage[shipment.status]
    BY <1>1 DEF Stage, ShipmentRow, ShipmentStatus
  <2>7. ParcelAndStateAgree
    BY DEF FulfillmentInv
  <2>8. QED
    BY <1>1, <2>2, <2>3, <2>4, <2>5, <2>6, <2>7 DEF EditFits, ParcelAndStateAgree
<1>4. ASSUME NEW e \in Editor, editor'[e] # editor[e]
      PROVE  EditReads(e) \/ editor'[e].step = "IDLE"
  <2>1. ASSUME NEW d \in Editor, EditReads(d), d # e PROVE editor'[e] = editor[e]
    BY <1>1, <2>1 DEF EditReads
  <2>2. ASSUME NEW d \in Editor, editor' = [editor EXCEPT ![d] = IdleEditor]
        PROVE  editor'[e] = editor[e] \/ editor'[e].step = "IDLE"
    BY <1>1, <2>2 DEF IdleEditor
  <2>3. QED  BY <1>4, <2>1, <2>2, EditorKinds
<1>5. ASSUME NEW e \in Editor, editor'[e].step = "EDITING" PROVE EditFits(e)'
  BY <1>2, <1>3, <1>4, <1>5
<1>6. QED  BY <1>5 DEF EditsFit

-----------------------------------------------------------------------------
(* Creation requests                                                       *)

\* Steps that the requests of creation take no part in ...
RequestsAlone == UNCHANGED <<Begun, registered, excused>>

\* ... and the others, with what they change of the requests.
LEMMA RequestKinds ==
    ASSUME FulfillmentTypeOK, [FulfillmentNext]_vars
    PROVE  \/ RequestsAlone
           \/ \E c \in Creation : BeginCreation(c)
           \/ \E c \in Creation : ProviderRegisters(c)
           \/ ResetProviderCreation
           \/ \E e \in Editor : EditCommits(e)
<1> USE DEF RequestsAlone
<1>1. CASE OrderNext
  BY <1>1 DEF OrderNext, SelectRate, PaymentStarts, PaymentSettles, OrderCloses,
     PaymentRefunded, UpdateOrderStatus, StartPlating, CompletePlating, CancelPlating,
     Plates, CreateManualShipment, CreationGrowsStale, LeaseGrowsStale, Begun
<1>2. ASSUME NEW c \in Creation, CreationNext(c)
      PROVE  RequestsAlone \/ BeginCreation(c) \/ ProviderRegisters(c)
  <2>1. ASSUME NEW from \in {"CALLING", "ANSWERED", "FAILED"},
               NEW to \in {"ANSWERED", "FAILED", "DONE"}, Calls(c, from, to)
        PROVE  RequestsAlone
    BY <2>1 DEF Calls, Begun, FulfillmentTypeOK
  <2>2. QED
    BY <1>2, <2>1 DEF CreationNext, ProviderAnswers, CallFails, RecordParcel, RecordEscapes,
       RecordFailure, CreationDies
<1>3. ASSUME NEW e \in Editor, EditorNext(e) PROVE RequestsAlone \/ EditCommits(e)
  BY <1>3 DEF EditorNext, EditReads, EditAborts, Begun
<1>4. ASSUME NEW t \in Tracker, TrackerNext(t) PROVE RequestsAlone
  BY <1>4 DEF TrackerNext, BeginTracking, ProviderReports, FinalizeTracking, TrackingFails,
     TrackerDies, Begun
<1>5. CASE UNCHANGED vars
  BY <1>5 DEF vars, Begun
<1>6. QED  BY <1>1, <1>2, <1>3, <1>4, <1>5 DEF FulfillmentNext

LEMMA CallsAlone ==
    ASSUME FulfillmentTypeOK, NEW c \in Creation, Calls(c, "ANSWERED", "DONE") \/
           Calls(c, "FAILED", "DONE")
    PROVE  RequestsAlone /\ c \in Begun
BY DEF Calls, Begun, FulfillmentTypeOK, RequestsAlone

\* Whatever leaves the requests, the parcel and the creation state alone.
LEMMA AloneKeepsRequests ==
    ASSUME OnlyOneAsks, NoneIsLost, RequestsAlone,
           shipment'.state = shipment.state, shipment'.parcel = shipment.parcel,
           shipment'.status = "NONE" => shipment.status = "NONE"
    PROVE  OnlyOneAsks' /\ NoneIsLost'
BY DEF OnlyOneAsks, NoneIsLost, RequestsAlone

LEMMA BeginKeepsRequests ==
    ASSUME FulfillmentInv, NEW c \in Creation, BeginCreation(c)
    PROVE  OnlyOneAsks' /\ NoneIsLost'
<1>1. Begun' = Begun \cup {c} /\ UNCHANGED <<registered, excused>>
  BY DEF BeginCreation, Begun, FulfillmentInv, FulfillmentTypeOK
<1>2. Begun \subseteq excused /\ registered \subseteq Begun
  BY DEF BeginCreation, ReadyForShipmentCreation, FulfillmentInv, OnlyOneAsks
<1>3. shipment'.state = "IN_PROGRESS" /\ shipment'.status = "PENDING"
  BY DEF BeginCreation, ReadyForShipmentCreation, FulfillmentInv, FulfillmentTypeOK
<1>4. QED  BY <1>1, <1>2, <1>3 DEF OnlyOneAsks, NoneIsLost

LEMMA RecordKeepsRequests ==
    ASSUME FulfillmentInv, NEW c \in Creation, RecordParcel(c) \/ RecordFailure(c)
    PROVE  OnlyOneAsks' /\ NoneIsLost'
<1>1. /\ OnlyOneAsks /\ NoneIsLost /\ FulfillmentTypeOK
      /\ shipment \in ShipmentRow
  BY DEF FulfillmentInv, FulfillmentTypeOK, ShipmentRow
<1>2. RequestsAlone /\ c \in Begun
  BY <1>1, CallsAlone DEF RecordParcel, RecordFailure
<1>3. CASE RecordParcel(c)
  <2>1. shipment' = [status |-> "READY", state |-> "CREATED", parcel |-> c]
    BY <1>3 DEF RecordParcel
  <2>2. OnlyOneAsks'
    BY <1>1, <1>2, <2>1 DEF OnlyOneAsks, RequestsAlone
  <2>3. NoneIsLost'
    BY <1>1, <1>2, <2>1 DEF OnlyOneAsks, NoneIsLost, RequestsAlone
  <2>4. QED  BY <2>2, <2>3
<1>4. CASE RecordFailure(c)
  <2>1. /\ shipment'.state = FailedState
        /\ shipment'.parcel = shipment.parcel /\ shipment'.status = shipment.status
    BY <1>1, <1>4, FailureRecorded DEF ShipmentRow
  <2>2. CASE FailedState = shipment.state
    BY <1>1, <1>2, <2>1, <2>2, AloneKeepsRequests
  <2>3. CASE FailedState = "UNKNOWN"
    BY <1>1, <1>2, <2>1, <2>3 DEF OnlyOneAsks, NoneIsLost, RequestsAlone
  <2>4. QED  BY <2>2, <2>3 DEF FailedState
<1>5. QED  BY <1>3, <1>4

LEMMA EditKeepsRequests ==
    ASSUME FulfillmentInv, NEW e \in Editor, EditCommits(e)
    PROVE  OnlyOneAsks' /\ NoneIsLost'
<1> DEFINE edit == editor[e]
<1>1. OnlyOneAsks /\ NoneIsLost
  BY DEF FulfillmentInv
<1>2. /\ Begun' = Begun /\ registered' = registered
      /\ edit.id # None => excused' = excused \cup (Begun \ {edit.id})
      /\ edit.id = None /\ edit.state # shipment.state => excused' = excused \cup Begun
      /\ excused \subseteq excused'
  BY DEF EditCommits, Begun
<1>3. /\ shipment'.status # "NONE"
      /\ edit.id = None =>
            shipment'.state = edit.state /\ shipment'.parcel = shipment.parcel
      /\ edit.id # None => shipment'.state = "CREATED" /\ shipment'.parcel = edit.id
  BY CommitMeetsRead DEF EditFits, AllowedTransition
<1> HIDE DEF edit
<1>4. CASE edit.id # None
  BY <1>1, <1>2, <1>3, <1>4 DEF OnlyOneAsks, NoneIsLost
<1>5. CASE edit.id = None /\ edit.state # shipment.state
  BY <1>1, <1>2, <1>3, <1>5 DEF OnlyOneAsks, NoneIsLost
<1>6. CASE edit.id = None /\ edit.state = shipment.state
  BY <1>1, <1>2, <1>3, <1>6 DEF OnlyOneAsks, NoneIsLost
<1>7. QED  BY <1>4, <1>5, <1>6

LEMMA StepRequests ==
    ASSUME FulfillmentInv, [FulfillmentNext]_vars
    PROVE  OnlyOneAsks' /\ NoneIsLost'
<1> DEFINE Goal == OnlyOneAsks' /\ NoneIsLost'
<1>1. /\ OnlyOneAsks /\ NoneIsLost /\ FulfillmentTypeOK
      /\ shipment \in ShipmentRow
  BY DEF FulfillmentInv, FulfillmentTypeOK, ShipmentRow
<1>2. CASE \E c \in Creation : BeginCreation(c) \/ RecordParcel(c) \/ RecordFailure(c)
  BY <1>2, BeginKeepsRequests, RecordKeepsRequests
<1>3. CASE \E e \in Editor : EditCommits(e)
  BY <1>3, EditKeepsRequests
<1>4. CASE ResetProviderCreation
  <2>1. /\ Begun' = Begun /\ registered' = registered /\ excused' = excused \cup Begun
        /\ shipment'.status = shipment.status
    BY <1>1, <1>4 DEF ResetProviderCreation, Begun, ShipmentRow
  <2>2. QED  BY <1>1, <2>1 DEF OnlyOneAsks, NoneIsLost
<1>5. ASSUME NEW c \in Creation, ProviderRegisters(c) PROVE Goal
  <2>1. /\ c \in Begun /\ registered' = registered \cup {c}
        /\ shipment' = shipment /\ Begun' = Begun /\ excused' = excused
    BY <1>5 DEF ProviderRegisters, rows, Begun
  <2>2. QED  BY <1>1, <2>1 DEF OnlyOneAsks, NoneIsLost
<1>6. CASE UNCHANGED <<order, shipment>>
  <2>1. CASE RequestsAlone
    BY <1>1, <1>6, <2>1, AloneKeepsRequests
  <2>2. CASE \E c \in Creation : BeginCreation(c)
    BY <1>2, <2>2
  <2>3. CASE \E c \in Creation : ProviderRegisters(c)
    BY <1>5, <2>3
  <2>4. QED  BY <1>1, <1>3, <1>4, <2>1, <2>2, <2>3, RequestKinds
<1>7. CASE SelectRate
  <2>1. /\ RequestsAlone
        /\ shipment'.status = "PENDING"
        /\ shipment'.state = shipment.state /\ shipment'.parcel = shipment.parcel
    BY <1>1, <1>7 DEF SelectRate, RequestsAlone, Begun, ShipmentRow
  <2>2. QED  BY <1>1, <2>1, AloneKeepsRequests
<1>8. CASE PaymentSettles \/ OrderCloses \/ UpdateOrderStatus
  <2>1. RequestsAlone /\ shipment' = shipment
    BY <1>8 DEF PaymentSettles, OrderCloses, UpdateOrderStatus, RequestsAlone, Begun
  <2>2. QED  BY <1>1, <2>1, AloneKeepsRequests
<1>9. CASE CreateManualShipment
  <2>1. /\ RequestsAlone /\ Begun = {}
        /\ shipment'.status = "READY" /\ shipment'.state = "CREATED"
    BY <1>1, <1>9 DEF CreateManualShipment, RequestsAlone, Begun, OnlyOneAsks
  <2>2. QED  BY <1>1, <2>1 DEF OnlyOneAsks, NoneIsLost, RequestsAlone
<1>10. ASSUME NEW t \in Tracker, FinalizeTracking(t) PROVE Goal
  <2>1. /\ RequestsAlone
        /\ shipment'.state = shipment.state /\ shipment'.parcel = shipment.parcel
    BY <1>1, <1>10 DEF FinalizeTracking, RequestsAlone, Begun, ShipmentRow
  <2> DEFINE next == AfterReport(shipment.status, tracker[t].answer)
  <2>2. shipment'.status = next
    BY <1>1, <1>10 DEF FinalizeTracking, ShipmentRow
  <2>3. next = shipment.status \/ next \in Report
    BY <1>1 DEF AfterReport, FulfillmentTypeOK
  <2>4. shipment'.status = "NONE" => shipment.status = "NONE"
    BY <2>2, <2>3 DEF Report
  <2>5. QED  BY <1>1, <2>1, <2>4, AloneKeepsRequests
<1>11. QED
  BY <1>2, <1>3, <1>4, <1>6, <1>7, <1>8, <1>9, <1>10, StepKinds

-----------------------------------------------------------------------------
(* Theorems                                                                *)

LEMMA StepInv == FulfillmentInv /\ [FulfillmentNext]_vars => FulfillmentInv'
<1> SUFFICES ASSUME FulfillmentInv, [FulfillmentNext]_vars PROVE FulfillmentInv'
  OBVIOUS
<1>1. FulfillmentTypeOK'
  BY StepTyped DEF FulfillmentInv
<1>2. QED
  BY <1>1, StepParcel, StepOrder, StepEdits, StepRequests DEF FulfillmentInv

LEMMA FulfillmentInvariant == FulfillmentSpec => []FulfillmentInv
BY InitInv, StepInv, PTL DEF FulfillmentSpec

\* Order and shipment never tell different stories, however staff, trackers and the
\* order's own status requests race.
THEOREM OrderAndShipmentAgree == FulfillmentSpec => []OrderFollowsShipment
<1>1. FulfillmentInv => OrderFollowsShipment
  BY DEF FulfillmentInv, Agree, OrderFollowsShipment
<1>2. QED  BY <1>1, FulfillmentInvariant, PTL

\* A shipment says CREATED exactly when it has a parcel, although status requests write
\* back the creation state they have read.
THEOREM ParcelStateAgrees == FulfillmentSpec => []ParcelAndStateAgree
<1>1. FulfillmentInv => ParcelAndStateAgree
  BY DEF FulfillmentInv
<1>2. QED  BY <1>1, FulfillmentInvariant, PTL

\* Any number of creation requests ask the provider for one parcel, unless staff have
\* overtaken one of them.
THEOREM OneParcelMade == FulfillmentSpec => []OneParcel
<1>1. FulfillmentInv => OneParcel
  BY DEF FulfillmentInv, OnlyOneAsks, OneParcel
<1>2. QED  BY <1>1, FulfillmentInvariant, PTL

\* A parcel the provider has made is recorded or still looked for, unless staff have
\* overtaken the request.
THEOREM ParcelsTraced == FulfillmentSpec => []ParcelTraced
<1>1. FulfillmentInv => ParcelTraced
  BY DEF FulfillmentInv, OnlyOneAsks, NoneIsLost, ParcelTraced
<1>2. QED  BY <1>1, FulfillmentInvariant, PTL

\* The id of a parcel is never replaced once it is stored.
THEOREM ParcelsStay == FulfillmentSpec => ParcelNeverReplaced
<1>1. FulfillmentInv /\ [FulfillmentNext]_vars =>
         [shipment.parcel # None => shipment'.parcel = shipment.parcel]_vars
  BY StepParcel
<1>2. QED
  BY <1>1, FulfillmentInvariant, PTL DEF FulfillmentSpec, ParcelNeverReplaced

\* No late report and no status request on an old read takes shipment or order back.
THEOREM OnlyForward == FulfillmentSpec => MovesForward
<1>1. FulfillmentInv /\ [FulfillmentNext]_vars =>
         [/\ shipment'.status # shipment.status =>
                Stage[shipment'.status] > Stage[shipment.status]
          /\ order' # order => Rank[order'] > Rank[order] \/ order' = "CLOSED"
          /\ order \in {"DELIVERED", "CLOSED"} => order' = order]_vars
  BY StepOrder DEF Forward
<1>2. QED
  BY <1>1, FulfillmentInvariant, PTL DEF FulfillmentSpec, MovesForward

=============================================================================
