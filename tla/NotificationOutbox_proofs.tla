---------------------- MODULE NotificationOutbox_proofs ----------------------
(***************************************************************************)
(* Proofs about NotificationOutbox for every set of events and workers and *)
(* every retry limit: its types, the bound on retries, that a live lease   *)
(* is respected, when a message may go out twice, and what becomes of a    *)
(* subscription.                                                           *)
(***************************************************************************)
EXTENDS NotificationOutbox, FiniteSetTheorems, TLAPS

\* An event that waits for a worker has an attempt left, and a new event has made
\* none: what a claim needs in order to stay below the bound.
PendingHasAttempt ==
    \A e \in Event : status[e] = "PENDING" => attempts[e] < MaxAttempts + approvals[e]

NewIsUntried == \A e \in Event : status[e] = "NONE" => attempts[e] = 0

IInv == TypeOK /\ RetriesBounded /\ PendingHasAttempt /\ NewIsUntried

LEMMA InitIInv == Init => IInv
BY OutboxAssumption DEF Init, IInv, TypeOK, RetriesBounded, PendingHasAttempt,
   NewIsUntried, Status, ClaimNumber, IdleWorker

\* A worker that is at work knows an event and a lease.
LEMMA WorkerTyped ==
    ASSUME TypeOK, NEW w \in Worker, worker[w].step # "IDLE"
    PROVE  /\ worker[w] \in [step: WorkerStep, event: Event, claim: ClaimNumber]
           /\ worker[w].event \in Event
           /\ worker[w].claim \in ClaimNumber
BY DEF TypeOK, IdleWorker

\* Settling an event changes neither the attempts nor who waits.
LEMMA SettleKeeps ==
    ASSUME IInv, NEW w \in Worker, worker[w].step # "IDLE",
           NEW from \in Leased, NEW to \in {"SENT", "FAILED", "UNKNOWN"},
           Settle(w, from, to), approvals' = approvals
    PROVE  /\ status' \in [Event -> Status]
           /\ due' \subseteq Event /\ stale' \subseteq Event
           /\ attempts' = attempts
           /\ PendingHasAttempt' /\ NewIsUntried' /\ RetriesBounded'
<1>1. worker[w].event \in Event
  BY WorkerTyped DEF IInv
<1> USE DEF IInv, TypeOK, PendingHasAttempt, NewIsUntried, RetriesBounded, rows
<1>2. CASE Owns(w, from)
  BY <1>1, <1>2 DEF Settle, Status, Leased
<1>3. CASE ~Owns(w, from)
  BY <1>3 DEF Settle
<1>4. QED
  BY <1>2, <1>3

\* The next state of a worker is idle or has a new step.
LEMMA WorkerMoves ==
    ASSUME TypeOK, NEW w \in Worker, worker[w].step # "IDLE",
           Rests(w) \/ \E step \in WorkerStep : Goes(w, step)
    PROVE  worker' \in [Worker -> {IdleWorker} \cup
                                  [step: WorkerStep, event: Event, claim: ClaimNumber]]
<1>1. CASE Rests(w)
  BY <1>1 DEF Rests, TypeOK
<1>2. ASSUME NEW step \in WorkerStep, Goes(w, step)
      PROVE  worker' \in [Worker -> {IdleWorker} \cup
                                    [step: WorkerStep, event: Event, claim: ClaimNumber]]
  <2>1. [worker[w] EXCEPT !.step = step]
          \in [step: WorkerStep, event: Event, claim: ClaimNumber]
    BY WorkerTyped
  <2>2. QED  BY <1>2, <2>1 DEF Goes, TypeOK
<1>3. QED
  BY <1>1, <1>2

LEMMA EventStep ==
    ASSUME IInv, NEW e \in Event, EventNext(e)
    PROVE  IInv'
<1> USE OutboxAssumption DEF IInv, TypeOK, RetriesBounded, PendingHasAttempt,
        NewIsUntried, Status, ClaimNumber, rows, history
<1>1. CASE Enqueue(e)
  BY <1>1 DEF Enqueue
<1>2. CASE QueueStockAvailable(e)
  BY <1>2 DEF QueueStockAvailable
<1>3. CASE BackoffEnds(e) \/ LeaseEnds(e)
  BY <1>3 DEF BackoffEnds, LeaseEnds
<1>4. CASE ApproveRetry(e)
  BY <1>4 DEF ApproveRetry
<1>5. CASE ConfirmSent(e)
  BY <1>5 DEF ConfirmSent
<1>6. QED
  BY <1>1, <1>2, <1>3, <1>4, <1>5 DEF EventNext

\* The steps that end in an update under the lease.
LEMMA SettlingStep ==
    ASSUME IInv, NEW w \in Worker,
           \/ ReleaseExhausted(w) \/ QuarantineStale(w) \/ BuildFails(w)
           \/ NothingToSend(w) \/ RecordSent(w) \/ SettleDispatchFailure(w)
    PROVE  IInv'
<1>1. worker[w].step # "IDLE"
  BY DEF ReleaseExhausted, QuarantineStale, BuildFails, NothingToSend, RecordSent,
         SettleDispatchFailure
<1>2. PICK from \in Leased, to \in {"SENT", "FAILED", "UNKNOWN"} : Settle(w, from, to)
  BY DEF ReleaseExhausted, QuarantineStale, BuildFails, NothingToSend, RecordSent,
         SettleDispatchFailure, AfterFailedSend, Leased
<1>3. UNCHANGED <<subscription, history>>
  BY DEF ReleaseExhausted, QuarantineStale, BuildFails, NothingToSend, RecordSent,
         SettleDispatchFailure
<1>4. Rests(w) \/ \E step \in WorkerStep : Goes(w, step)
  BY DEF ReleaseExhausted, QuarantineStale, BuildFails, NothingToSend, RecordSent,
         SettleDispatchFailure, WorkerStep
<1>5. worker' \in [Worker -> {IdleWorker} \cup
                             [step: WorkerStep, event: Event, claim: ClaimNumber]]
  BY <1>1, <1>4, WorkerMoves DEF IInv
<1>6. approvals' = approvals
  BY <1>3 DEF history
<1>7. /\ status' \in [Event -> Status]
      /\ due' \subseteq Event /\ stale' \subseteq Event
      /\ attempts' = attempts
      /\ PendingHasAttempt' /\ NewIsUntried' /\ RetriesBounded'
  BY <1>1, <1>2, <1>6, SettleKeeps
<1>8. QED
  BY <1>3, <1>5, <1>7 DEF IInv, TypeOK, history

\* A claim starts below the bound of the automatic claims or, from PENDING, below
\* the bound that staff have set.
LEMMA ClaimStep ==
    ASSUME IInv, NEW w \in Worker, ClaimWins(w)
    PROVE  IInv'
<1> DEFINE e == worker[w].event
<1>1. worker[w].step # "IDLE" /\ e \in Event
  BY WorkerTyped DEF ClaimWins, IInv
<1>2. attempts[e] < MaxAttempts + approvals[e]
  BY <1>1, OutboxAssumption DEF ClaimWins, Claimable, IInv, PendingHasAttempt, TypeOK,
     ClaimNumber
<1>3. attempts[e] + 1 \in ClaimNumber
  BY <1>1, <1>2, OutboxAssumption DEF IInv, TypeOK, ClaimNumber
<1>4. [step |-> "BUILD", event |-> e, claim |-> attempts[e] + 1]
        \in [step: WorkerStep, event: Event, claim: ClaimNumber]
  BY <1>1, <1>3 DEF WorkerStep
<1>5. worker' \in [Worker -> {IdleWorker} \cup
                             [step: WorkerStep, event: Event, claim: ClaimNumber]]
  BY <1>4 DEF ClaimWins, IInv, TypeOK
<1>6. /\ attempts' \in [Event -> ClaimNumber]
      /\ status' \in [Event -> Status]
      /\ stale' \subseteq Event
  BY <1>1, <1>3 DEF ClaimWins, IInv, TypeOK, Status
<1>7. TypeOK'
  BY <1>5, <1>6 DEF ClaimWins, IInv, TypeOK, history
<1>8. RetriesBounded' /\ PendingHasAttempt' /\ NewIsUntried'
  BY <1>1, <1>2, OutboxAssumption DEF ClaimWins, IInv, TypeOK, RetriesBounded,
     PendingHasAttempt, NewIsUntried, history, ClaimNumber
<1>9. QED
  BY <1>7, <1>8 DEF IInv

\* The steps that write no row of the outbox, or only move it to DISPATCHING.
LEMMA OtherStep ==
    ASSUME IInv, NEW w \in Worker,
           \/ ClaimLoses(w) \/ BeginDispatch(w) \/ LeaseLost(w) \/ ProviderAccepts(w)
           \/ ProviderRefuses(w) \/ AnswerUnclear(w) \/ RecordSentFails(w)
           \/ Notify(w) \/ WorkerDies(w)
    PROVE  IInv'
<1>1. /\ worker[w].step # "IDLE"
      /\ Rests(w) \/ \E step \in WorkerStep : Goes(w, step)
  BY DEF ClaimLoses, BeginDispatch, LeaseLost, ProviderAccepts, ProviderRefuses,
         AnswerUnclear, RecordSentFails, Notify, WorkerDies, WorkerStep
<1>2. /\ worker[w].event \in Event
      /\ ThisClaim(w) \in Event \X ClaimNumber
  BY <1>1, WorkerTyped DEF IInv, ThisClaim
<1>3. worker' \in [Worker -> {IdleWorker} \cup
                             [step: WorkerStep, event: Event, claim: ClaimNumber]]
  BY <1>1, WorkerMoves DEF IInv
<1>4. /\ attempts' = attempts /\ approvals' = approvals
      /\ due' = due /\ stale' = stale /\ confirmed' = confirmed
      /\ \/ status' = status
         \/ status' = [status EXCEPT ![worker[w].event] = "DISPATCHING"]
  BY DEF ClaimLoses, BeginDispatch, LeaseLost, ProviderAccepts, ProviderRefuses,
         AnswerUnclear, RecordSentFails, Notify, WorkerDies, rows, history
<1>5. subscription' \in [Subscription -> {"ACTIVE", "QUEUED", "NOTIFIED"}]
  BY DEF ClaimLoses, BeginDispatch, LeaseLost, ProviderAccepts, ProviderRefuses,
         AnswerUnclear, RecordSentFails, Notify, WorkerDies, rows, history, IInv, TypeOK
<1>6. /\ accepted' \subseteq Event \X ClaimNumber
      /\ unrecorded' \subseteq Event \X ClaimNumber
      /\ forgotten' \subseteq Event
  BY <1>2 DEF ClaimLoses, BeginDispatch, LeaseLost, ProviderAccepts, ProviderRefuses,
         AnswerUnclear, RecordSentFails, Notify, WorkerDies, history, IInv, TypeOK
<1>7. status' \in [Event -> Status]
  BY <1>2, <1>4 DEF IInv, TypeOK, Status
<1>8. TypeOK'
  BY <1>3, <1>4, <1>5, <1>6, <1>7 DEF IInv, TypeOK
<1>9. RetriesBounded' /\ PendingHasAttempt' /\ NewIsUntried'
  BY <1>2, <1>4 DEF IInv, TypeOK, RetriesBounded, PendingHasAttempt, NewIsUntried
<1>10. QED
  BY <1>8, <1>9 DEF IInv

LEMMA PickStep ==
    ASSUME IInv, NEW w \in Worker, NEW e \in Event, Pick(w, e)
    PROVE  IInv'
<1>1. PICK step \in {"CLAIM", "RELEASE", "QUARANTINE"} :
         worker' = [worker EXCEPT ![w] =
                       [step |-> step, event |-> e, claim |-> attempts[e]]]
  BY DEF Pick
<1>2. [step |-> step, event |-> e, claim |-> attempts[e]]
        \in [step: WorkerStep, event: Event, claim: ClaimNumber]
  BY DEF WorkerStep, IInv, TypeOK
<1>3. UNCHANGED <<rows, subscription, history>>
  BY DEF Pick
<1>4. QED
  BY <1>1, <1>2, <1>3 DEF IInv, TypeOK, RetriesBounded, PendingHasAttempt, NewIsUntried,
     rows, history

LEMMA NextIInv == IInv /\ [Next]_vars => IInv'
<1> SUFFICES ASSUME IInv, [Next]_vars
             PROVE  IInv'
  OBVIOUS
<1>1. ASSUME NEW e \in Event, EventNext(e)
      PROVE  IInv'
  BY <1>1, EventStep
<1>2. ASSUME NEW w \in Worker, WorkerNext(w)
      PROVE  IInv'
  <2>1. CASE Proceeds(w)
    BY <2>1, SettlingStep, ClaimStep, OtherStep DEF Proceeds
  <2>2. CASE WorkerDies(w)
    BY <2>2, OtherStep
  <2>3. CASE \E e \in Event : Pick(w, e)
    BY <2>3, PickStep
  <2>4. QED
    BY <1>2, <2>1, <2>2, <2>3 DEF WorkerNext
<1>3. CASE UNCHANGED vars
  BY <1>3 DEF vars, IInv, TypeOK, RetriesBounded, PendingHasAttempt, NewIsUntried
<1>4. QED
  BY <1>1, <1>2, <1>3 DEF Next

LEMMA Invariant == Spec => []IInv
BY InitIInv, NextIInv, PTL DEF Spec

\* Every row, every worker record and every history has the type it is given.
THEOREM OutboxTypeCorrect == Spec => []TypeOK
<1>1. IInv => TypeOK
  BY DEF IInv
<1>2. QED
  BY <1>1, Invariant, PTL

\* The automatic retries of dispatchPending stop at MAX_ATTEMPTS however workers
\* race, crash or lose their leases; only staff add to them.
THEOREM RetriesStayBounded == Spec => []RetriesBounded
<1>1. IInv => RetriesBounded
  BY DEF IInv
<1>2. QED
  BY <1>1, Invariant, PTL

-----------------------------------------------------------------------------
(* Leases                                                                  *)

LeaseRespected(e) ==
    (/\ status[e] \in Leased
     /\ e \notin stale
     /\ <<status'[e], attempts'[e]>> # <<status[e], attempts[e]>>)
    => \E w \in Worker : /\ worker[w].event = e
                         /\ worker[w].claim = attempts[e]
                         /\ worker'[w] # worker[w]

\* A worker that settles an event owns it, and moves.
LEMMA SettlingRespectsLease ==
    ASSUME TypeOK, NEW w \in Worker, worker[w].step # "IDLE", worker'[w] # worker[w],
           NEW from, NEW to, Settle(w, from, to), NEW e \in Event
    PROVE  LeaseRespected(e)
<1>1. CASE Owns(w, from)
  <2>1. CASE worker[w].event = e
    BY <1>1, <2>1 DEF LeaseRespected, Owns
  <2>2. CASE worker[w].event # e
    BY <1>1, <2>2 DEF LeaseRespected, Settle, TypeOK
  <2>3. QED
    BY <2>1, <2>2
<1>2. CASE ~Owns(w, from)
  BY <1>2 DEF LeaseRespected, Settle, rows
<1>3. QED
  BY <1>1, <1>2

LEMMA StepRespectsLease ==
    ASSUME TypeOK, [Next]_vars, NEW e \in Event
    PROVE  LeaseRespected(e)
<1>1. ASSUME NEW f \in Event, EventNext(f)
      PROVE  LeaseRespected(e)
  BY <1>1 DEF EventNext, Enqueue, QueueStockAvailable, BackoffEnds, LeaseEnds,
     ApproveRetry, ConfirmSent, LeaseRespected, Leased, TypeOK
<1>2. ASSUME NEW w \in Worker, WorkerNext(w)
      PROVE  LeaseRespected(e)
  <2>1. ASSUME worker[w].step # "IDLE", Rests(w) \/ Goes(w, "NOTIFY"),
               worker[w].step # "NOTIFY"
        PROVE  worker'[w] # worker[w]
    BY <2>1 DEF Rests, Goes, TypeOK, IdleWorker
  <2>2. CASE \/ ReleaseExhausted(w) \/ QuarantineStale(w) \/ BuildFails(w)
             \/ NothingToSend(w) \/ RecordSent(w) \/ SettleDispatchFailure(w)
    <3>1. worker'[w] # worker[w] /\ worker[w].step # "IDLE"
      BY <2>1, <2>2 DEF ReleaseExhausted, QuarantineStale, BuildFails, NothingToSend,
         RecordSent, SettleDispatchFailure
    <3>2. PICK from \in Leased, to \in {"SENT", "FAILED", "UNKNOWN"} :
             Settle(w, from, to)
      BY <2>2 DEF ReleaseExhausted, QuarantineStale, BuildFails, NothingToSend,
         RecordSent, SettleDispatchFailure, AfterFailedSend, Leased
    <3>3. QED
      BY <3>1, <3>2, SettlingRespectsLease
  <2>3. CASE ClaimWins(w)
    BY <2>3 DEF ClaimWins, Claimable, LeaseRespected, Leased, TypeOK
  <2>4. CASE BeginDispatch(w)
    <3>1. worker[w].event \in Event
      BY <2>4, WorkerTyped DEF BeginDispatch
    <3>2. worker'[w] # worker[w]
      <4>1. worker[w].step = "BUILD" /\ worker'[w].step = "SEND"
        BY <2>4, WorkerTyped DEF BeginDispatch, Goes, TypeOK
      <4>2. QED  BY <4>1
    <3>3. QED
      BY <2>4, <3>1, <3>2 DEF BeginDispatch, Owns, LeaseRespected, TypeOK
  <2>5. CASE \/ ClaimLoses(w) \/ LeaseLost(w) \/ ProviderAccepts(w)
             \/ ProviderRefuses(w) \/ AnswerUnclear(w) \/ RecordSentFails(w)
             \/ Notify(w) \/ WorkerDies(w) \/ \E f \in Event : Pick(w, f)
    <3>1. UNCHANGED rows
      BY <2>5 DEF ClaimLoses, LeaseLost, ProviderAccepts, ProviderRefuses,
         AnswerUnclear, RecordSentFails, Notify, WorkerDies, Pick
    <3>2. QED
      BY <3>1 DEF rows, LeaseRespected
  <2>6. QED
    BY <1>2, <2>2, <2>3, <2>4, <2>5 DEF WorkerNext, Proceeds
<1>3. CASE UNCHANGED vars
  BY <1>3 DEF vars, LeaseRespected
<1>4. QED
  BY <1>1, <1>2, <1>3 DEF Next

\* claimedAt works as a lease: no other process touches a claimed row before the
\* lease is stale.
THEOREM LeasesAreRespected == Spec => LiveLeaseIsRespected
<1>1. ASSUME TypeOK, [Next]_vars
      PROVE  \A e \in Event : LeaseRespected(e)
  BY <1>1, StepRespectsLease
<1>2. TypeOK /\ [Next]_vars =>
        [\A e \in Event : LeaseRespected(e)]_vars
  BY <1>1
<1>3. QED
  BY <1>2, OutboxTypeCorrect, PTL DEF Spec, LiveLeaseIsRespected, LeaseRespected

-----------------------------------------------------------------------------
(* What a step does to the rows and to a worker                            *)

\* An event is SENT for good.
LEMMA SettlesOwn ==
    ASSUME TypeOK, NEW w \in Worker, worker[w].step # "IDLE", NEW from, NEW to,
           Settle(w, from, to)
    PROVE  \/ UNCHANGED <<status, attempts>> /\ ~Owns(w, from)
           \/ /\ Owns(w, from) /\ UNCHANGED attempts
              /\ status' = [status EXCEPT ![worker[w].event] = to]
BY DEF Settle, rows

\* Steps of the environment and of staff: no worker moves and no message is sent.
LEMMA EventRows ==
    ASSUME NEW e \in Event, EventNext(e)
    PROVE  /\ UNCHANGED <<attempts, worker, accepted, unrecorded, forgotten>>
           /\ \/ UNCHANGED <<status, approvals, confirmed, subscription>>
              \/ /\ status[e] = "NONE" /\ status' = [status EXCEPT ![e] = "PENDING"]
                 /\ UNCHANGED <<approvals, confirmed>>
                 /\ \/ UNCHANGED subscription
                    \/ subscription' = [subscription EXCEPT ![e] = "QUEUED"]
              \/ /\ status[e] \in {"UNKNOWN", "FAILED"}
                 /\ status' = [status EXCEPT ![e] = "PENDING"]
                 /\ approvals' = [approvals EXCEPT ![e] = @ + 1]
                 /\ UNCHANGED <<confirmed, subscription>>
              \/ /\ status[e] = "UNKNOWN" /\ status' = [status EXCEPT ![e] = "SENT"]
                 /\ confirmed' = confirmed \cup {e}
                 /\ UNCHANGED <<approvals, subscription>>
BY DEF EventNext, Enqueue, QueueStockAvailable, BackoffEnds, LeaseEnds, ApproveRetry,
   ConfirmSent, rows, history

-----------------------------------------------------------------------------
(* Subscriptions                                                           *)

\* A worker that is about to tell a subscription has had its message recorded.
MessageIsOut ==
    \A w \in Worker :
        /\ worker[w].step = "ACCEPTED" => ThisClaim(w) \in accepted
        /\ worker[w].step = "NOTIFY" =>
              ThisClaim(w) \in accepted /\ status[worker[w].event] = "SENT"

SubscriptionInv == TypeOK /\ MessageIsOut /\ SubscriptionFollowsMessage

LEMMA InitSubscription == Init => SubscriptionInv
<1>1. Init => TypeOK
  BY InitIInv DEF IInv
<1>2. Init => MessageIsOut /\ SubscriptionFollowsMessage
  BY DEF Init, MessageIsOut, SubscriptionFollowsMessage, IdleWorker
<1>3. QED  BY <1>1, <1>2 DEF SubscriptionInv

\* Facts about one subscription that a step leaves in place.
LEMMA StillFollows ==
    ASSUME TypeOK, SubscriptionFollowsMessage, NEW s \in Subscription,
           subscription'[s] = subscription[s],
           status[s] = "SENT" => status'[s] = "SENT",
           status'[s] = "SENT" => status[s] = "SENT" \/ Notifying(s)' \/ s \in confirmed',
           Notifying(s) => Notifying(s)' \/ s \in forgotten',
           accepted \subseteq accepted', forgotten \subseteq forgotten',
           confirmed \subseteq confirmed'
    PROVE  /\ subscription'[s] = "NOTIFIED" =>
                 status'[s] = "SENT" /\ AcceptedClaims(s)' # {}
           /\ subscription'[s] = "QUEUED" /\ status'[s] = "SENT" =>
                 Notifying(s)' \/ s \in forgotten' \cup confirmed'
<1>1. AcceptedClaims(s) \subseteq AcceptedClaims(s)'
  BY DEF AcceptedClaims
<1>2. QED  BY <1>1 DEF SubscriptionFollowsMessage

\* Steps of a worker that neither begin nor end in telling a subscription.
LEMMA OthersFollow ==
    ASSUME SubscriptionInv, NEW w \in Worker, worker[w].step # "NOTIFY",
           worker'[w].step # "NOTIFY",
           \A v \in Worker : v # w => worker'[v] = worker[v],
           worker'[w].step = "ACCEPTED" =>
               <<worker'[w].event, worker'[w].claim>> \in accepted',
           \A e \in Event : status[e] = "SENT" => status'[e] = "SENT",
           \A s \in Subscription : status'[s] = "SENT" => status[s] = "SENT",
           UNCHANGED <<subscription, confirmed, forgotten>>, accepted \subseteq accepted'
    PROVE  MessageIsOut' /\ SubscriptionFollowsMessage'
<1>1. TypeOK /\ MessageIsOut /\ SubscriptionFollowsMessage
  BY DEF SubscriptionInv
<1>2. MessageIsOut'
  <2>1. ASSUME NEW v \in Worker
        PROVE  /\ worker'[v].step = "ACCEPTED" =>
                     <<worker'[v].event, worker'[v].claim>> \in accepted'
               /\ worker'[v].step = "NOTIFY" =>
                     /\ <<worker'[v].event, worker'[v].claim>> \in accepted'
                     /\ status'[worker'[v].event] = "SENT"
    <3>1. CASE v = w
      BY <3>1
    <3>2. CASE v # w
      <4>1. worker[v].step = "NOTIFY" => worker[v].event \in Event
        BY <1>1, WorkerTyped
      <4>2. QED  BY <1>1, <3>2, <4>1 DEF MessageIsOut, ThisClaim
    <3>3. QED  BY <3>1, <3>2
  <2>2. QED  BY <2>1 DEF MessageIsOut, ThisClaim
<1>3. \A s \in Subscription : Notifying(s) => Notifying(s)'
  BY DEF Notifying
<1>4. SubscriptionFollowsMessage'
  <2>1. ASSUME NEW s \in Subscription
        PROVE  /\ subscription'[s] = "NOTIFIED" =>
                     status'[s] = "SENT" /\ AcceptedClaims(s)' # {}
               /\ subscription'[s] = "QUEUED" /\ status'[s] = "SENT" =>
                     Notifying(s)' \/ s \in forgotten' \cup confirmed'
    <3>1. status[s] = "SENT" => status'[s] = "SENT"
      BY OutboxAssumption
    <3>2. QED  BY <1>1, <1>3, <3>1, StillFollows
  <2>2. QED  BY <2>1 DEF SubscriptionFollowsMessage
<1>5. QED  BY <1>2, <1>4

LEMMA EventSubscription ==
    ASSUME SubscriptionInv, NEW e \in Event, EventNext(e)
    PROVE  MessageIsOut' /\ SubscriptionFollowsMessage'
<1>1. TypeOK /\ MessageIsOut /\ SubscriptionFollowsMessage
  BY DEF SubscriptionInv
<1>2. UNCHANGED <<worker, accepted, forgotten>>
  BY EventRows
<1>3. /\ \A f \in Event : status[f] = "SENT" => status'[f] = "SENT"
      /\ \A f \in Event : status'[f] = "SENT" => status[f] = "SENT" \/ f \in confirmed'
      /\ confirmed \subseteq confirmed'
  BY <1>1, EventRows DEF TypeOK
<1>4. MessageIsOut'
  <2>1. \A v \in Worker : worker[v].step = "NOTIFY" => worker[v].event \in Event
    BY <1>1, WorkerTyped
  <2>2. QED  BY <1>1, <1>2, <1>3, <2>1 DEF MessageIsOut, ThisClaim
<1>5. ASSUME NEW s \in Subscription
      PROVE  /\ subscription'[s] = "NOTIFIED" =>
                   status'[s] = "SENT" /\ AcceptedClaims(s)' # {}
             /\ subscription'[s] = "QUEUED" /\ status'[s] = "SENT" =>
                   Notifying(s)' \/ s \in forgotten' \cup confirmed'
  <2>1. Notifying(s) => Notifying(s)'
    BY <1>2 DEF Notifying
  <2>2. s \in Event
    BY OutboxAssumption
  <2>3. CASE subscription'[s] = subscription[s]
    BY <1>1, <1>2, <1>3, <2>1, <2>2, <2>3, StillFollows
  <2>4. CASE subscription'[s] # subscription[s]
    <3>1. status'[s] = "PENDING" /\ subscription'[s] = "QUEUED"
      BY <1>1, <2>2, <2>4, EventRows DEF TypeOK
    <3>2. QED  BY <3>1
  <2>5. QED  BY <2>3, <2>4
<1>6. SubscriptionFollowsMessage'
  BY <1>5 DEF SubscriptionFollowsMessage
<1>7. QED  BY <1>4, <1>6

\* The steps of a worker that say nothing to a subscription, by what they do.
LEMMA QuietSteps ==
    ASSUME SubscriptionInv, NEW w \in Worker,
           \/ ReleaseExhausted(w) \/ QuarantineStale(w) \/ BuildFails(w)
           \/ NothingToSend(w) \/ SettleDispatchFailure(w)
           \/ ClaimWins(w) \/ ClaimLoses(w) \/ BeginDispatch(w) \/ LeaseLost(w)
           \/ ProviderAccepts(w) \/ ProviderRefuses(w) \/ AnswerUnclear(w)
           \/ RecordSentFails(w) \/ \E e \in Event : Pick(w, e)
    PROVE  MessageIsOut' /\ SubscriptionFollowsMessage'
<1>1. TypeOK
  BY DEF SubscriptionInv
<1> DEFINE w1 == worker'[w]
           Moves == /\ worker[w].step # "NOTIFY" /\ w1.step # "NOTIFY"
                    /\ \A v \in Worker : v # w => worker'[v] = worker[v]
                    /\ w1.step = "ACCEPTED" => <<w1.event, w1.claim>> \in accepted'
           Rows == /\ \A e \in Event : status[e] = "SENT" => status'[e] = "SENT"
                   /\ \A s \in Subscription : status'[s] = "SENT" => status[s] = "SENT"
                   /\ UNCHANGED <<subscription, confirmed, forgotten>>
                   /\ accepted \subseteq accepted'
<1>2. ASSUME Rests(w), worker[w].step # "NOTIFY" PROVE Moves
  BY <1>1, <1>2 DEF Rests, TypeOK, IdleWorker
<1>3. ASSUME NEW step \in WorkerStep \ {"NOTIFY", "ACCEPTED"}, Goes(w, step),
             worker[w].step # "NOTIFY", worker[w].step # "IDLE"
      PROVE  Moves
  BY <1>1, <1>3, WorkerTyped DEF Goes, TypeOK
<1>4. ASSUME UNCHANGED <<status, subscription, confirmed, forgotten>>,
             accepted \subseteq accepted'
      PROVE  Rows
  BY <1>4
<1>5. ASSUME \/ ReleaseExhausted(w) \/ QuarantineStale(w) \/ BuildFails(w)
             \/ NothingToSend(w) \/ SettleDispatchFailure(w)
      PROVE  Moves /\ Rows
  <2>1. /\ Rests(w) /\ UNCHANGED <<subscription, history>>
        /\ worker[w].step \notin {"NOTIFY", "IDLE"}
    BY <1>5 DEF ReleaseExhausted, QuarantineStale, BuildFails, NothingToSend,
       SettleDispatchFailure
  <2>2. PICK from \in Leased, to \in {"SENT", "FAILED", "UNKNOWN"} :
           /\ Settle(w, from, to)
           /\ to = "SENT" => worker[w].event \in Quiet
    BY <1>5 DEF ReleaseExhausted, QuarantineStale, BuildFails, NothingToSend,
       SettleDispatchFailure, AfterFailedSend, Leased
  <2>3. worker[w].event \in Event
    BY <1>1, <2>1, WorkerTyped
  <2>4. CASE UNCHANGED <<status, attempts>>
    BY <1>2, <1>4, <2>1, <2>4 DEF history
  <2>5. CASE Owns(w, from) /\ status' = [status EXCEPT ![worker[w].event] = to]
    <3>1. status[worker[w].event] # "SENT"
      BY <2>5 DEF Owns, Leased
    <3>2. /\ \A e \in Event : status[e] = "SENT" => status'[e] = "SENT"
          /\ \A s \in Subscription : status'[s] = "SENT" => status[s] = "SENT"
      BY <1>1, <2>2, <2>3, <2>5, <3>1, OutboxAssumption DEF TypeOK
    <3>3. QED  BY <1>2, <2>1, <3>2 DEF history
  <2>6. QED  BY <1>1, <2>1, <2>2, <2>4, <2>5, SettlesOwn
<1>6. ASSUME ClaimWins(w) PROVE Moves /\ Rows
  <2>1. worker[w].event \in Event
    BY <1>1, <1>6, WorkerTyped DEF ClaimWins
  <2>2. status[worker[w].event] # "SENT"
    BY <1>6 DEF ClaimWins, Claimable
  <2>3. Moves
    BY <1>1, <1>6 DEF ClaimWins, TypeOK
  <2>4. Rows
    BY <1>1, <1>6, <2>1, <2>2, OutboxAssumption DEF ClaimWins, TypeOK, history
  <2>5. QED  BY <2>3, <2>4
<1>7. ASSUME BeginDispatch(w) PROVE Moves /\ Rows
  <2>1. worker[w].event \in Event
    BY <1>1, <1>7, WorkerTyped DEF BeginDispatch
  <2>2. Moves
    BY <1>3, <1>7 DEF BeginDispatch, WorkerStep
  <2>3. Rows
    BY <1>1, <1>7, <2>1, OutboxAssumption DEF BeginDispatch, Owns, TypeOK, history
  <2>4. QED  BY <2>2, <2>3
<1>8. ASSUME ClaimLoses(w) \/ LeaseLost(w) PROVE Moves /\ Rows
  BY <1>2, <1>4, <1>8 DEF ClaimLoses, LeaseLost, rows, history
<1>9. ASSUME ProviderRefuses(w) \/ AnswerUnclear(w) \/ RecordSentFails(w)
      PROVE  Moves /\ Rows
  <2>1. Moves
    BY <1>3, <1>9 DEF ProviderRefuses, AnswerUnclear, RecordSentFails, WorkerStep
  <2>2. Rows
    BY <1>4, <1>9 DEF ProviderRefuses, AnswerUnclear, RecordSentFails, rows, history
  <2>3. QED  BY <2>1, <2>2
<1>10. ASSUME ProviderAccepts(w) PROVE Moves /\ Rows
  <2>1. Moves
    BY <1>1, <1>10, WorkerTyped DEF ProviderAccepts, Goes, ThisClaim, TypeOK
  <2>2. Rows
    BY <1>4, <1>10 DEF ProviderAccepts, rows
  <2>3. QED  BY <2>1, <2>2
<1>11. ASSUME NEW e \in Event, Pick(w, e) PROVE Moves /\ Rows
  <2>1. Moves
    BY <1>1, <1>11 DEF Pick, TypeOK
  <2>2. Rows
    BY <1>4, <1>11 DEF Pick, rows, history
  <2>3. QED  BY <2>1, <2>2
<1>12. Moves /\ Rows
  <2> HIDE DEF Moves, Rows
  <2>1. QED  BY <1>5, <1>6, <1>7, <1>8, <1>9, <1>10, <1>11
<1>13. QED  BY <1>12, OthersFollow

\* A message that has been recorded is what a subscription is told.
LEMMA RecordSentStep ==
    ASSUME SubscriptionInv, NEW w \in Worker, RecordSent(w)
    PROVE  MessageIsOut' /\ SubscriptionFollowsMessage'
<1> DEFINE e == worker[w].event
<1>1. TypeOK /\ MessageIsOut /\ SubscriptionFollowsMessage
  BY DEF SubscriptionInv
<1>2. /\ worker[w].step = "ACCEPTED" /\ e \in Event /\ Settle(w, "DISPATCHING", "SENT")
      /\ ThisClaim(w) \in accepted
      /\ UNCHANGED <<subscription, accepted, confirmed, forgotten>>
  BY <1>1, WorkerTyped DEF RecordSent, MessageIsOut, history
<1>3. \A v \in Worker : v # w => worker'[v] = worker[v]
  BY <1>1 DEF RecordSent, Goes, Rests, TypeOK
<1>4. CASE Owns(w, "DISPATCHING") /\ e \in Subscription
  <2>1. /\ worker'[w].step = "NOTIFY" /\ worker'[w].event = e
        /\ worker'[w].claim = worker[w].claim
    BY <1>1, <1>2, <1>4, WorkerTyped DEF RecordSent, Goes, TypeOK
  <2>2. status' = [status EXCEPT ![e] = "SENT"]
    BY <1>2, <1>4 DEF Settle
  <2>3. MessageIsOut'
    <3>1. ASSUME NEW v \in Worker, v # w, worker[v].step = "NOTIFY"
          PROVE  status'[worker[v].event] = "SENT"
      <4>1. worker[v].event \in Event
        BY <1>1, <3>1, WorkerTyped
      <4>2. QED  BY <1>1, <2>2, <3>1, <4>1 DEF MessageIsOut, TypeOK
    <3>2. status'[e] = "SENT"
      BY <1>1, <1>2, <2>2 DEF TypeOK
    <3>3. QED
      BY <1>1, <1>2, <1>3, <2>1, <3>1, <3>2 DEF MessageIsOut, ThisClaim
  <2>4. ASSUME NEW s \in Subscription
        PROVE  /\ subscription'[s] = "NOTIFIED" =>
                     status'[s] = "SENT" /\ AcceptedClaims(s)' # {}
               /\ subscription'[s] = "QUEUED" /\ status'[s] = "SENT" =>
                     Notifying(s)' \/ s \in forgotten' \cup confirmed'
    <3>1. s \in Event
      BY OutboxAssumption
    <3>2. /\ status[s] = "SENT" => status'[s] = "SENT"
          /\ status'[s] = "SENT" => status[s] = "SENT" \/ s = e
      BY <1>1, <2>2, <3>1 DEF TypeOK
    <3>3. /\ Notifying(s) => Notifying(s)'
          /\ s = e => Notifying(s)'
      BY <1>2, <1>3, <2>1 DEF Notifying
    <3>4. QED  BY <1>1, <1>2, <3>2, <3>3, StillFollows
  <2>5. QED  BY <2>3, <2>4 DEF SubscriptionFollowsMessage
<1>5. CASE ~(Owns(w, "DISPATCHING") /\ e \in Subscription)
  <2>1. worker'[w].step = "IDLE"
    BY <1>1, <1>5 DEF RecordSent, Rests, TypeOK, IdleWorker
  <2>2. /\ \A f \in Event : status[f] = "SENT" => status'[f] = "SENT"
        /\ \A s \in Subscription : status'[s] = "SENT" => status[s] = "SENT"
    BY <1>1, <1>2, <1>5, OutboxAssumption DEF Settle, TypeOK, rows
  <2>3. QED  BY <1>2, <1>3, <2>1, <2>2, OthersFollow
<1>6. QED  BY <1>4, <1>5

\* A worker that ends at NOTIFY, in one way or the other.
LEMMA NotifyEnds ==
    ASSUME SubscriptionInv, NEW w \in Worker, Notify(w) \/ WorkerDies(w)
    PROVE  MessageIsOut' /\ SubscriptionFollowsMessage'
<1> DEFINE e == worker[w].event
<1>1. TypeOK /\ MessageIsOut /\ SubscriptionFollowsMessage
  BY DEF SubscriptionInv
<1>2. /\ worker[w].step # "IDLE" /\ e \in Event
      /\ UNCHANGED <<status, accepted, confirmed>>
      /\ worker'[w].step = "IDLE"
      /\ \A v \in Worker : v # w => worker'[v] = worker[v]
  BY <1>1, WorkerTyped DEF Notify, WorkerDies, Rests, TypeOK, IdleWorker, rows, history
<1>3. MessageIsOut'
  BY <1>1, <1>2 DEF MessageIsOut, ThisClaim
<1>4. CASE Notify(w)
  <2>1. /\ subscription' = [subscription EXCEPT ![e] = IF @ = "QUEUED" THEN "NOTIFIED" ELSE @]
        /\ ThisClaim(w) \in accepted /\ status[e] = "SENT" /\ UNCHANGED forgotten
    BY <1>1, <1>4 DEF Notify, MessageIsOut, history
  <2>2. ASSUME NEW s \in Subscription
        PROVE  /\ subscription'[s] = "NOTIFIED" =>
                     status'[s] = "SENT" /\ AcceptedClaims(s)' # {}
               /\ subscription'[s] = "QUEUED" /\ status'[s] = "SENT" =>
                     Notifying(s)' \/ s \in forgotten' \cup confirmed'
    <3>1. CASE s = e
      <4>1. subscription'[s] # "QUEUED"
        BY <1>1, <2>1, <3>1 DEF TypeOK
      <4>2. AcceptedClaims(s)' # {}
        <5>1. worker[w].claim \in ClaimNumber
          BY <1>1, <1>2, WorkerTyped
        <5>2. <<s, worker[w].claim>> \in accepted'
          BY <1>2, <2>1, <3>1 DEF ThisClaim
        <5>3. QED  BY <5>1, <5>2 DEF AcceptedClaims
      <4>3. status'[s] = "SENT"
        BY <1>2, <2>1, <3>1
      <4>4. QED  BY <4>1, <4>2, <4>3
    <3>2. CASE s # e
      <4>1. subscription'[s] = subscription[s]
        BY <1>1, <2>1, <3>2 DEF TypeOK
      <4>2. Notifying(s) => Notifying(s)'
        BY <1>2, <3>2 DEF Notifying
      <4>3. QED  BY <1>1, <1>2, <2>1, <4>1, <4>2, StillFollows
    <3>3. QED  BY <3>1, <3>2
  <2>3. QED  BY <1>3, <2>2 DEF SubscriptionFollowsMessage
<1>5. CASE WorkerDies(w)
  <2>1. /\ UNCHANGED subscription /\ forgotten \subseteq forgotten'
        /\ worker[w].step = "NOTIFY" => e \in forgotten'
    BY <1>5 DEF WorkerDies
  <2>2. ASSUME NEW s \in Subscription
        PROVE  /\ subscription'[s] = "NOTIFIED" =>
                     status'[s] = "SENT" /\ AcceptedClaims(s)' # {}
               /\ subscription'[s] = "QUEUED" /\ status'[s] = "SENT" =>
                     Notifying(s)' \/ s \in forgotten' \cup confirmed'
    <3>1. Notifying(s) => Notifying(s)' \/ s \in forgotten'
      BY <1>2, <2>1 DEF Notifying
    <3>2. QED  BY <1>1, <1>2, <2>1, <3>1, StillFollows
  <2>3. QED  BY <1>3, <2>2 DEF SubscriptionFollowsMessage
<1>6. QED  BY <1>4, <1>5

LEMMA StepSubscription == IInv /\ SubscriptionInv /\ [Next]_vars => SubscriptionInv'
<1> SUFFICES ASSUME IInv, SubscriptionInv, [Next]_vars PROVE SubscriptionInv'
  OBVIOUS
<1>1. TypeOK'
  BY NextIInv DEF IInv
<1>2. ASSUME NEW w \in Worker, WorkerNext(w)
      PROVE  MessageIsOut' /\ SubscriptionFollowsMessage'
  BY <1>2, QuietSteps, RecordSentStep, NotifyEnds DEF WorkerNext, Proceeds
<1>3. ASSUME UNCHANGED vars PROVE MessageIsOut' /\ SubscriptionFollowsMessage'
  BY <1>3 DEF vars, SubscriptionInv, MessageIsOut, SubscriptionFollowsMessage, ThisClaim,
     AcceptedClaims, Notifying
<1>4. QED
  BY <1>1, <1>2, <1>3, EventSubscription DEF Next, SubscriptionInv

\* A subscription is NOTIFIED only after its message, and left QUEUED after it only where
\* a worker stopped in between or staff declared the message sent.
THEOREM SubscriptionsFollow == Spec => []SubscriptionFollowsMessage
<1>1. SubscriptionInv => SubscriptionFollowsMessage
  BY DEF SubscriptionInv
<1>2. QED
  BY <1>1, InitSubscription, StepSubscription, Invariant, PTL DEF Spec

-----------------------------------------------------------------------------
(* Duplicates                                                              *)

Late == {"BUILD", "SEND", "ACCEPTED", "REFUSED", "UNCLEAR", "NOTIFY"}

Holds(w) == worker[w].step \in Late

\* A claim has one worker, and what the provider has accepted was claimed.
ClaimsApart ==
    /\ \A w \in Worker : Holds(w) => worker[w].claim <= attempts[worker[w].event]
    /\ \A v, w \in Worker : Holds(v) /\ Holds(w) /\ ThisClaim(v) = ThisClaim(w) => v = w
    /\ \A e \in Event, n \in ClaimNumber : <<e, n>> \in accepted => n <= attempts[e]

\* What a worker that has not sent yet, or was refused, knows of its message.
SendsOnce ==
    /\ unrecorded \subseteq accepted
    /\ \A w \in Worker :
          /\ worker[w].step \in {"BUILD", "SEND"} => ThisClaim(w) \notin accepted
          /\ worker[w].step = "ACCEPTED" => ThisClaim(w) \in accepted
          /\ worker[w].step = "REFUSED" => ThisClaim(w) \notin accepted \ unrecorded

\* Claims of an event whose message is out, or may yet go out, unless the database has
\* failed to record it.
Out(e) == {n \in ClaimNumber :
              \/ <<e, n>> \in accepted \ unrecorded
              \/ \E w \in Worker : worker[w].step = "SEND" /\ ThisClaim(w) = <<e, n>>}

\* One message may be out for each approval, and one more once one is being sent: that of
\* the last claim while the event is DISPATCHING.
RoomFor(e) ==
    CASE status[e] \in {"SENT", "UNKNOWN"} -> Cardinality(Out(e)) <= 1 + approvals[e]
      [] status[e] = "DISPATCHING" ->
            Cardinality(Out(e) \ {attempts[e]}) <= approvals[e]
      [] OTHER -> Cardinality(Out(e)) <= approvals[e]

DuplicatesInv ==
    /\ TypeOK
    /\ ClaimsApart
    /\ SendsOnce
    /\ \A e \in Event : RoomFor(e)

LEMMA OutFinite ==
    /\ \A e : Out(e) \subseteq ClaimNumber
    /\ IsFiniteSet(ClaimNumber)
    /\ \A S \in SUBSET ClaimNumber : IsFiniteSet(S) /\ Cardinality(S) \in Nat
<1>1. 0 \in Int /\ MaxAttempts + MaxApprovals \in Int
  BY OutboxAssumption
<1>2. IsFiniteSet(ClaimNumber)
  BY <1>1, FS_Interval DEF ClaimNumber
<1>3. QED
  BY <1>2, FS_Subset, FS_CardinalityType DEF Out

\* A part of a set of claims is no larger.
LEMMA FewerClaims ==
    ASSUME NEW T \in SUBSET ClaimNumber, NEW S \in SUBSET T
    PROVE  Cardinality(S) <= Cardinality(T) /\ Cardinality(S) \in Nat /\ Cardinality(T) \in Nat
BY OutFinite, FS_Subset

LEMMA InitDuplicates == Init => DuplicatesInv
<1> SUFFICES ASSUME Init PROVE DuplicatesInv
  OBVIOUS
<1>1. TypeOK
  BY InitIInv DEF IInv
<1>2. ClaimsApart /\ SendsOnce
  BY DEF Init, ClaimsApart, SendsOnce, Holds, Late, IdleWorker
<1>3. \A e \in Event : Out(e) = {}
  BY DEF Init, Out, IdleWorker
<1>4. \A e \in Event : RoomFor(e)
  BY <1>3, FS_EmptySet DEF Init, RoomFor
<1>5. QED  BY <1>1, <1>2, <1>4 DEF DuplicatesInv

\* The room of an event of which no more messages are out, depending on its status.
LEMMA RoomStays ==
    ASSUME TypeOK, TypeOK', NEW e \in Event, RoomFor(e), Out(e)' \subseteq Out(e),
           \/ /\ status'[e] = status[e] /\ approvals'[e] = approvals[e]
              /\ status[e] = "DISPATCHING" => attempts'[e] = attempts[e]
           \/ /\ status[e] \in {"UNKNOWN", "FAILED"} /\ status'[e] = "PENDING"
              /\ approvals'[e] = approvals[e] + 1
           \/ /\ status[e] \in {"NONE", "PENDING", "FAILED", "PROCESSING"}
              /\ status'[e] \in {"PENDING", "PROCESSING", "FAILED", "SENT"}
              /\ approvals'[e] = approvals[e]
           \/ /\ status[e] \in {"DISPATCHING", "UNKNOWN"}
              /\ status'[e] \in {"SENT", "UNKNOWN"} /\ approvals'[e] = approvals[e]
           \/ /\ status[e] = "DISPATCHING" /\ status'[e] = "FAILED"
              /\ approvals'[e] = approvals[e] /\ attempts[e] \notin Out(e)
    PROVE  RoomFor(e)'
<1> DEFINE S == Out(e)
           T == Out(e)'
           rest == S \ {attempts[e]}
<1>1. /\ S \in SUBSET ClaimNumber /\ T \in SUBSET S /\ rest \in SUBSET ClaimNumber
      /\ attempts[e] \in ClaimNumber
      /\ approvals[e] \in Nat /\ approvals'[e] \in Nat
  BY OutFinite DEF TypeOK
<1>2. /\ Cardinality(T) <= Cardinality(S) /\ Cardinality(T) \in Nat /\ Cardinality(S) \in Nat
      /\ Cardinality(rest) \in Nat
  BY <1>1, FewerClaims
<1>3. Cardinality(S) <= 1 + Cardinality(rest)
  <2>1. CASE attempts[e] \in S
    <3>1. IsFiniteSet(S)
      BY <1>1, OutFinite
    <3>2. Cardinality(S \ {attempts[e]}) = Cardinality(S) - 1
      BY <2>1, <3>1, FS_RemoveElement
    <3>3. QED  BY <1>2, <3>2
  <2>2. CASE attempts[e] \notin S
    <3>1. rest = S
      BY <2>2
    <3>2. QED  BY <1>2, <3>1
  <2>3. QED  BY <2>1, <2>2
<1>4. Cardinality(T \ {attempts[e]}) <= Cardinality(rest)
      /\ Cardinality(T \ {attempts[e]}) \in Nat
  <2>1. T \ {attempts[e]} \in SUBSET rest
    BY <1>1
  <2>2. QED  BY <1>1, <2>1, FewerClaims
<1>5. attempts[e] \notin S => rest = S
  OBVIOUS
<1> HIDE DEF S, T, rest
<1> DEFINE out == Cardinality(S)
           others == Cardinality(rest)
           outNext == Cardinality(T)
           othersNext == Cardinality(T \ {attempts[e]})
<1>6. /\ out \in Nat /\ others \in Nat /\ outNext \in Nat /\ othersNext \in Nat
      /\ outNext <= out /\ othersNext <= others /\ out <= 1 + others
      /\ attempts[e] \notin S => others = out
  BY <1>2, <1>3, <1>4, <1>5
<1>7. /\ status[e] \in {"SENT", "UNKNOWN"} => out <= 1 + approvals[e]
      /\ status[e] = "DISPATCHING" => others <= approvals[e]
      /\ status[e] \notin {"SENT", "UNKNOWN", "DISPATCHING"} => out <= approvals[e]
  BY DEF RoomFor, S, rest
<1>8. SUFFICES
         /\ status'[e] \in {"SENT", "UNKNOWN"} => outNext <= 1 + approvals'[e]
         /\ status'[e] = "DISPATCHING" =>
               Cardinality(T \ {attempts'[e]}) <= approvals'[e]
         /\ status'[e] \notin {"SENT", "UNKNOWN", "DISPATCHING"} => outNext <= approvals'[e]
  BY DEF RoomFor, T
<1>9. attempts'[e] = attempts[e] => Cardinality(T \ {attempts'[e]}) = othersNext
  OBVIOUS
<1> HIDE DEF out, others, outNext, othersNext
<1>10. CASE /\ status'[e] = status[e] /\ approvals'[e] = approvals[e]
            /\ status[e] = "DISPATCHING" => attempts'[e] = attempts[e]
  BY <1>1, <1>6, <1>7, <1>9, <1>10
<1>11. CASE /\ status[e] \in {"UNKNOWN", "FAILED"} /\ status'[e] = "PENDING"
            /\ approvals'[e] = approvals[e] + 1
  BY <1>1, <1>6, <1>7, <1>11
<1>12. CASE /\ status[e] \in {"NONE", "PENDING", "FAILED", "PROCESSING"}
            /\ status'[e] \in {"PENDING", "PROCESSING", "FAILED", "SENT"}
            /\ approvals'[e] = approvals[e]
  BY <1>1, <1>6, <1>7, <1>12
<1>13. CASE /\ status[e] \in {"DISPATCHING", "UNKNOWN"}
            /\ status'[e] \in {"SENT", "UNKNOWN"} /\ approvals'[e] = approvals[e]
  BY <1>1, <1>6, <1>7, <1>13
<1>14. CASE /\ status[e] = "DISPATCHING" /\ status'[e] = "FAILED"
            /\ approvals'[e] = approvals[e] /\ attempts[e] \notin Out(e)
  <2>1. others = out
    BY <1>6, <1>14 DEF S
  <2>2. QED  BY <1>1, <1>6, <1>7, <1>14, <2>1
<1>15. QED
  BY <1>10, <1>11, <1>12, <1>13, <1>14

\* Staff and time move no worker, so every message stays where it is.
LEMMA EventDuplicates ==
    ASSUME DuplicatesInv, TypeOK', NEW e \in Event, EventNext(e)
    PROVE  DuplicatesInv'
<1>1. UNCHANGED <<attempts, worker, accepted, unrecorded>> /\ TypeOK
  BY EventRows DEF DuplicatesInv
<1>2. ClaimsApart' /\ SendsOnce'
  BY <1>1 DEF DuplicatesInv, ClaimsApart, SendsOnce, Holds, ThisClaim
<1>3. \A f \in Event : Out(f)' \subseteq Out(f)
  BY <1>1 DEF Out, ThisClaim
<1>4. ASSUME NEW f \in Event PROVE RoomFor(f)'
  <2>1. RoomFor(f) /\ attempts'[f] = attempts[f] /\ Out(f)' \subseteq Out(f)
    BY <1>1, <1>3 DEF DuplicatesInv
  <2>2. \/ status'[f] = status[f] /\ approvals'[f] = approvals[f]
        \/ /\ status[f] = "NONE" /\ status'[f] = "PENDING"
           /\ approvals'[f] = approvals[f]
        \/ /\ status[f] \in {"UNKNOWN", "FAILED"} /\ status'[f] = "PENDING"
           /\ approvals'[f] = approvals[f] + 1
        \/ /\ status[f] = "UNKNOWN" /\ status'[f] = "SENT"
           /\ approvals'[f] = approvals[f]
    BY <1>1, EventRows DEF TypeOK
  <2>3. QED  BY <1>1, <2>1, <2>2, RoomStays
<1>5. QED  BY <1>2, <1>4 DEF DuplicatesInv

\* How a worker that keeps its claim, or gives it up, may move.
Moves(w) ==
    LET from == worker[w].step
        to == worker'[w].step IN
    /\ attempts' = attempts
    /\ \A v \in Worker : v # w => worker'[v] = worker[v]
    /\ \/ to \notin Late /\ UNCHANGED <<accepted, unrecorded>>
       \/ /\ worker'[w].event = worker[w].event /\ worker'[w].claim = worker[w].claim
          /\ \/ from = "BUILD" /\ to = "SEND" /\ UNCHANGED <<accepted, unrecorded>>
             \/ /\ from = "SEND" /\ to = "ACCEPTED"
                /\ accepted' = accepted \cup {ThisClaim(w)} /\ UNCHANGED unrecorded
             \/ from = "SEND" /\ to = "REFUSED" /\ UNCHANGED <<accepted, unrecorded>>
             \/ /\ from = "SEND" /\ to = "UNCLEAR" /\ UNCHANGED unrecorded
                /\ accepted' \in {accepted, accepted \cup {ThisClaim(w)}}
             \/ /\ from = "ACCEPTED" /\ to = "REFUSED" /\ UNCHANGED accepted
                /\ unrecorded' = unrecorded \cup {ThisClaim(w)}
             \/ from = "ACCEPTED" /\ to = "NOTIFY" /\ UNCHANGED <<accepted, unrecorded>>

LEMMA MovesApart ==
    ASSUME DuplicatesInv, NEW w \in Worker, Moves(w)
    PROVE  ClaimsApart'
<1>1. ClaimsApart /\ TypeOK
  BY DEF DuplicatesInv
<1>2. worker'[w].step \in Late =>
         /\ Holds(w) /\ worker'[w].event = worker[w].event
         /\ worker'[w].claim = worker[w].claim
  BY DEF Moves, Late, Holds
<1>3. attempts' = attempts /\ \A v \in Worker : v # w => worker'[v] = worker[v]
  BY DEF Moves
<1>4. \A v \in Worker : Holds(v)' => Holds(v) /\ ThisClaim(v)' = ThisClaim(v)
                                     /\ worker'[v].event = worker[v].event
                                     /\ worker'[v].claim = worker[v].claim
  BY <1>2, <1>3 DEF Holds, ThisClaim
<1>5. \/ accepted' = accepted
      \/ Holds(w) /\ accepted' = accepted \cup {ThisClaim(w)}
  BY DEF Moves, Holds, Late
<1>6. \A e \in Event, n \in ClaimNumber : <<e, n>> \in accepted' => n <= attempts[e]
  <2>1. CASE accepted' = accepted
    BY <1>1, <2>1 DEF ClaimsApart
  <2>2. CASE Holds(w) /\ accepted' = accepted \cup {ThisClaim(w)}
    <3>1. worker[w].claim <= attempts[worker[w].event]
      BY <1>1, <2>2 DEF ClaimsApart
    <3>2. QED  BY <1>1, <2>2, <3>1 DEF ClaimsApart, ThisClaim
  <2>3. QED  BY <1>5, <2>1, <2>2
<1>7. QED
  BY <1>1, <1>3, <1>4, <1>6 DEF ClaimsApart

LEMMA MovesOnce ==
    ASSUME DuplicatesInv, NEW w \in Worker, Moves(w)
    PROVE  SendsOnce'
<1>1. ClaimsApart /\ SendsOnce
  BY DEF DuplicatesInv
<1>2. ASSUME NEW v \in Worker, v # w
      PROVE  /\ worker'[v].step \in {"BUILD", "SEND"} => ThisClaim(v)' \notin accepted'
             /\ worker'[v].step = "ACCEPTED" => ThisClaim(v)' \in accepted'
             /\ worker'[v].step = "REFUSED" =>
                   ThisClaim(v)' \notin accepted' \ unrecorded'
  <2>1. worker'[v] = worker[v] /\ ThisClaim(v)' = ThisClaim(v)
    BY <1>2 DEF Moves, ThisClaim
  <2>2. /\ worker[v].step \in {"BUILD", "SEND"} => ThisClaim(v) \notin accepted
        /\ worker[v].step = "ACCEPTED" => ThisClaim(v) \in accepted
        /\ worker[v].step = "REFUSED" => ThisClaim(v) \notin accepted \ unrecorded
    BY <1>1 DEF SendsOnce
  <2>3. CASE UNCHANGED <<accepted, unrecorded>>
    BY <2>1, <2>2, <2>3
  <2>4. CASE ~UNCHANGED <<accepted, unrecorded>>
    <3>1. /\ Holds(w) /\ accepted \subseteq accepted'
          /\ accepted' \subseteq accepted \cup {ThisClaim(w)}
          /\ unrecorded \subseteq unrecorded'
      BY <2>4 DEF Moves, Holds, Late
    <3>2. Holds(v) => ThisClaim(v) # ThisClaim(w)
      BY <1>1, <1>2, <3>1 DEF ClaimsApart
    <3>3. worker[v].step \in {"BUILD", "SEND", "REFUSED"} => Holds(v)
      BY DEF Holds, Late
    <3>4. QED  BY <2>1, <2>2, <3>1, <3>2, <3>3
  <2>5. QED  BY <2>3, <2>4
<1>3. /\ worker'[w].step \in {"BUILD", "SEND"} => ThisClaim(w)' \notin accepted'
      /\ worker'[w].step = "ACCEPTED" => ThisClaim(w)' \in accepted'
      /\ worker'[w].step = "REFUSED" => ThisClaim(w)' \notin accepted' \ unrecorded'
      /\ unrecorded' \subseteq accepted'
  <2>1. /\ unrecorded \subseteq accepted
        /\ worker[w].step \in {"BUILD", "SEND"} => ThisClaim(w) \notin accepted
        /\ worker[w].step = "ACCEPTED" => ThisClaim(w) \in accepted
    BY <1>1 DEF SendsOnce
  <2>2. CASE worker'[w].step \notin Late
    BY <2>1, <2>2 DEF Moves, Late
  <2>3. CASE worker'[w].step \in Late
    <3>1. ThisClaim(w)' = ThisClaim(w)
      BY <2>3 DEF Moves, ThisClaim
    <3>2. QED  BY <2>1, <2>3, <3>1 DEF Moves
  <2>4. QED  BY <2>2, <2>3
<1>4. \A v \in Worker :
         /\ worker'[v].step \in {"BUILD", "SEND"} => ThisClaim(v)' \notin accepted'
         /\ worker'[v].step = "ACCEPTED" => ThisClaim(v)' \in accepted'
         /\ worker'[v].step = "REFUSED" => ThisClaim(v)' \notin accepted' \ unrecorded'
  BY <1>2, <1>3
<1>5. QED
  BY <1>3, <1>4 DEF SendsOnce

\* Only the step into the call of the provider puts a message out.
LEMMA MovesOut ==
    ASSUME NEW w \in Worker, Moves(w), NEW e \in Event
    PROVE  IF worker'[w].step = "SEND" /\ worker[w].event = e
           THEN Out(e)' \subseteq Out(e) \cup {worker[w].claim}
           ELSE Out(e)' \subseteq Out(e)
<1>1. \A v \in Worker : worker'[v].step = "SEND" /\ v # w =>
         worker[v].step = "SEND" /\ ThisClaim(v)' = ThisClaim(v)
  BY DEF Moves, ThisClaim
<1>2. \/ accepted' \ unrecorded' \subseteq accepted \ unrecorded
      \/ /\ worker[w].step = "SEND" /\ worker'[w].step # "SEND"
         /\ accepted' \ unrecorded' \subseteq (accepted \ unrecorded) \cup {ThisClaim(w)}
  BY DEF Moves
<1>3. worker'[w].step = "SEND" => ThisClaim(w)' = ThisClaim(w)
  BY DEF Moves, Late, ThisClaim
<1>4. CASE worker'[w].step = "SEND"
  <2>1. accepted' \ unrecorded' \subseteq accepted \ unrecorded
    BY <1>2, <1>4
  <2>2. ASSUME NEW n \in Out(e)'
        PROVE  n \in Out(e) \/ (worker[w].event = e /\ n = worker[w].claim)
    <3>1. CASE <<e, n>> \in accepted' \ unrecorded'
      BY <2>1, <2>2, <3>1 DEF Out
    <3>2. CASE \E v \in Worker : worker'[v].step = "SEND" /\ ThisClaim(v)' = <<e, n>>
      <4>1. PICK v \in Worker : worker'[v].step = "SEND" /\ ThisClaim(v)' = <<e, n>>
        BY <3>2
      <4>2. CASE v = w
        BY <1>3, <4>1, <4>2 DEF ThisClaim
      <4>3. CASE v # w
        BY <1>1, <2>2, <4>1, <4>3 DEF Out
      <4>4. QED  BY <4>2, <4>3
    <3>3. QED  BY <2>2, <3>1, <3>2 DEF Out
  <2>3. QED  BY <1>4, <2>2
<1>5. CASE worker'[w].step # "SEND"
  <2>1. ASSUME NEW n \in Out(e)'
        PROVE  n \in Out(e)
    <3>1. CASE <<e, n>> \in accepted' \ unrecorded'
      BY <1>2, <2>1, <3>1 DEF Out
    <3>2. CASE \E v \in Worker : worker'[v].step = "SEND" /\ ThisClaim(v)' = <<e, n>>
      BY <1>1, <1>5, <2>1, <3>2 DEF Out
    <3>3. QED  BY <2>1, <3>1, <3>2 DEF Out
  <2>2. QED  BY <1>5, <2>1
<1>6. QED  BY <1>4, <1>5

\* A worker that moves without putting a message out, and rows that change as RoomStays
\* allows.
LEMMA MovesDuplicates ==
    ASSUME DuplicatesInv, TypeOK', NEW w \in Worker, Moves(w), worker'[w].step # "SEND",
           approvals' = approvals,
           \A e \in Event :
              \/ status'[e] = status[e]
              \/ /\ status[e] = "PROCESSING" /\ status'[e] \in {"FAILED", "SENT"}
              \/ /\ status[e] = "DISPATCHING" /\ status'[e] \in {"SENT", "UNKNOWN"}
              \/ /\ status[e] = "DISPATCHING" /\ status'[e] = "FAILED"
                 /\ attempts[e] \notin Out(e)
    PROVE  DuplicatesInv'
<1>1. TypeOK /\ attempts' = attempts
  BY DEF DuplicatesInv, Moves
<1>2. ASSUME NEW e \in Event PROVE RoomFor(e)'
  <2>1. Out(e)' \subseteq Out(e)
    BY MovesOut
  <2>2. RoomFor(e) /\ attempts'[e] = attempts[e] /\ approvals'[e] = approvals[e]
    BY <1>1 DEF DuplicatesInv
  <2>3. QED  BY <1>1, <2>1, <2>2, RoomStays
<1>3. QED  BY <1>2, MovesApart, MovesOnce DEF DuplicatesInv

\* A worker that was refused knows that no message of its claim is out.
LEMMA RefusedIsNotOut ==
    ASSUME DuplicatesInv, NEW w \in Worker, worker[w].step = "REFUSED",
           Owns(w, "DISPATCHING")
    PROVE  attempts[worker[w].event] \notin Out(worker[w].event)
<1>1. ThisClaim(w) = <<worker[w].event, attempts[worker[w].event]>>
  BY DEF Owns, ThisClaim
<1>2. ThisClaim(w) \notin accepted \ unrecorded
  BY DEF DuplicatesInv, SendsOnce
<1>3. \A v \in Worker : worker[v].step = "SEND" => ThisClaim(v) # ThisClaim(w)
  <2>1. SUFFICES ASSUME NEW v \in Worker, worker[v].step = "SEND",
                        ThisClaim(v) = ThisClaim(w)
                 PROVE  FALSE
    OBVIOUS
  <2>2. Holds(v) /\ Holds(w)
    BY <2>1 DEF Holds, Late
  <2>3. v = w
    BY <2>1, <2>2 DEF DuplicatesInv, ClaimsApart
  <2>4. QED  BY <2>1, <2>3
<1>4. QED  BY <1>1, <1>2, <1>3 DEF Out

LEMMA SettlingDuplicates ==
    ASSUME DuplicatesInv, TypeOK', NEW w \in Worker,
           \/ ReleaseExhausted(w) \/ QuarantineStale(w) \/ BuildFails(w)
           \/ NothingToSend(w) \/ RecordSent(w) \/ SettleDispatchFailure(w)
    PROVE  DuplicatesInv'
<1>1. TypeOK
  BY DEF DuplicatesInv
<1>2. PICK from \in Leased, to \in {"SENT", "FAILED", "UNKNOWN"} :
         /\ Settle(w, from, to)
         /\ from = "PROCESSING" => to \in {"FAILED", "SENT"}
         /\ from = "DISPATCHING" /\ to = "FAILED" => worker[w].step = "REFUSED"
  <2>1. CASE ReleaseExhausted(w) \/ BuildFails(w)
    BY <2>1 DEF ReleaseExhausted, BuildFails, Leased
  <2>2. CASE NothingToSend(w)
    BY <2>2 DEF NothingToSend, Leased
  <2>3. CASE QuarantineStale(w)
    BY <2>3 DEF QuarantineStale, Leased
  <2>4. CASE RecordSent(w)
    BY <2>4 DEF RecordSent, Leased
  <2>5. CASE SettleDispatchFailure(w)
    BY <2>5 DEF SettleDispatchFailure, AfterFailedSend, Leased
  <2>6. QED  BY <2>1, <2>2, <2>3, <2>4, <2>5
<1>3. /\ worker[w].step # "IDLE" /\ UNCHANGED <<subscription, history>>
      /\ \/ Rests(w)
         \/ worker[w].step = "ACCEPTED" /\ Goes(w, "NOTIFY")
  BY DEF ReleaseExhausted, QuarantineStale, BuildFails, NothingToSend, RecordSent,
         SettleDispatchFailure
<1>4. worker[w].event \in Event /\ UNCHANGED <<attempts, approvals, accepted, unrecorded>>
  BY <1>1, <1>2, <1>3, WorkerTyped, SettlesOwn DEF history
<1>5. Moves(w) /\ worker'[w].step # "SEND"
  <2>1. CASE Rests(w)
    BY <1>1, <1>4, <2>1 DEF Rests, IdleWorker, Moves, Late, TypeOK
  <2>2. CASE worker[w].step = "ACCEPTED" /\ Goes(w, "NOTIFY")
    <3>1. /\ worker'[w] = [worker[w] EXCEPT !.step = "NOTIFY"]
          /\ \A v \in Worker : v # w => worker'[v] = worker[v]
      BY <1>1, <2>2 DEF Goes, TypeOK
    <3>2. worker[w] \in [step: WorkerStep, event: Event, claim: ClaimNumber]
      BY <1>1, <1>3, WorkerTyped
    <3>3. /\ worker'[w].step = "NOTIFY" /\ worker'[w].event = worker[w].event
          /\ worker'[w].claim = worker[w].claim
      BY <3>1, <3>2
    <3>4. QED  BY <1>4, <2>2, <3>1, <3>3 DEF Moves
  <2>3. QED  BY <1>3, <2>1, <2>2
<1>6. ASSUME NEW e \in Event
      PROVE  \/ status'[e] = status[e]
             \/ status[e] = "PROCESSING" /\ status'[e] \in {"FAILED", "SENT"}
             \/ status[e] = "DISPATCHING" /\ status'[e] \in {"SENT", "UNKNOWN"}
             \/ /\ status[e] = "DISPATCHING" /\ status'[e] = "FAILED"
                /\ attempts[e] \notin Out(e)
  <2>1. CASE e # worker[w].event \/ UNCHANGED status
    BY <1>1, <1>2, <1>3, <1>4, <2>1, SettlesOwn DEF TypeOK
  <2>2. CASE /\ e = worker[w].event /\ Owns(w, from)
             /\ status' = [status EXCEPT ![worker[w].event] = to]
    <3>1. status[e] = from /\ status'[e] = to
      BY <1>1, <2>2 DEF Owns, TypeOK
    <3>2. from = "DISPATCHING" /\ to = "FAILED" => attempts[e] \notin Out(e)
      BY <1>2, <2>2, RefusedIsNotOut
    <3>3. QED  BY <1>2, <3>1, <3>2 DEF Leased
  <2>3. QED  BY <1>1, <1>2, <1>3, <2>1, <2>2, SettlesOwn
<1>7. QED
  BY <1>4, <1>5, <1>6, MovesDuplicates

\* Steps that leave the rows alone and put no message out.
LEMMA QuietDuplicates ==
    ASSUME DuplicatesInv, TypeOK', NEW w \in Worker,
           \/ ClaimLoses(w) \/ LeaseLost(w) \/ ProviderAccepts(w) \/ ProviderRefuses(w)
           \/ AnswerUnclear(w) \/ RecordSentFails(w) \/ Notify(w) \/ WorkerDies(w)
           \/ \E e \in Event : Pick(w, e)
    PROVE  DuplicatesInv'
<1>1. TypeOK
  BY DEF DuplicatesInv
<1>2. UNCHANGED <<status, attempts, approvals>>
  BY DEF ClaimLoses, LeaseLost, ProviderAccepts, ProviderRefuses, AnswerUnclear,
         RecordSentFails, Notify, WorkerDies, Pick, rows, history
<1>3. CASE ClaimLoses(w) \/ LeaseLost(w) \/ Notify(w) \/ WorkerDies(w)
  <2>1. Rests(w) /\ UNCHANGED <<accepted, unrecorded>>
    BY <1>3 DEF ClaimLoses, LeaseLost, Notify, WorkerDies, history
  <2>2. Moves(w) /\ worker'[w].step # "SEND"
    BY <1>1, <1>2, <2>1 DEF Rests, IdleWorker, Moves, Late, TypeOK
  <2>3. QED  BY <1>2, <2>2, MovesDuplicates
<1>4. CASE ProviderAccepts(w) \/ ProviderRefuses(w) \/ AnswerUnclear(w)
           \/ RecordSentFails(w)
  <2>1. PICK step \in {"ACCEPTED", "REFUSED", "UNCLEAR"} :
           /\ Goes(w, step)
           /\ \/ worker[w].step = "SEND" /\ step = "ACCEPTED" /\ UNCHANGED unrecorded
                 /\ accepted' = accepted \cup {ThisClaim(w)}
              \/ worker[w].step = "SEND" /\ step = "REFUSED"
                 /\ UNCHANGED <<accepted, unrecorded>>
              \/ worker[w].step = "SEND" /\ step = "UNCLEAR" /\ UNCHANGED unrecorded
                 /\ accepted' \in {accepted, accepted \cup {ThisClaim(w)}}
              \/ worker[w].step = "ACCEPTED" /\ step = "REFUSED" /\ UNCHANGED accepted
                 /\ unrecorded' = unrecorded \cup {ThisClaim(w)}
    BY <1>4 DEF ProviderAccepts, ProviderRefuses, AnswerUnclear, RecordSentFails, history
  <2>2. worker[w] \in [step: WorkerStep, event: Event, claim: ClaimNumber]
    BY <1>1, <2>1, WorkerTyped
  <2>3. /\ worker'[w] = [worker[w] EXCEPT !.step = step]
        /\ \A v \in Worker : v # w => worker'[v] = worker[v]
    BY <1>1, <2>1 DEF Goes, TypeOK
  <2>4. /\ worker'[w].step = step /\ worker'[w].event = worker[w].event
        /\ worker'[w].claim = worker[w].claim
    BY <2>2, <2>3
  <2>5. Moves(w)
    BY <1>2, <2>1, <2>3, <2>4 DEF Moves
  <2>6. QED  BY <1>2, <2>4, <2>5, MovesDuplicates
<1>5. CASE \E e \in Event : Pick(w, e)
  <2>1. PICK e \in Event, step \in {"CLAIM", "RELEASE", "QUARANTINE"} :
           worker' = [worker EXCEPT ![w] =
                         [step |-> step, event |-> e, claim |-> attempts[e]]]
    BY <1>5 DEF Pick
  <2>2. UNCHANGED <<accepted, unrecorded>>
    BY <1>5 DEF Pick, history
  <2>3. /\ worker'[w].step = step
        /\ \A v \in Worker : v # w => worker'[v] = worker[v]
    BY <1>1, <2>1 DEF TypeOK
  <2>4. Moves(w) /\ worker'[w].step # "SEND"
    BY <1>2, <2>2, <2>3 DEF Moves, Late
  <2>5. QED  BY <1>2, <2>4, MovesDuplicates
<1>6. QED  BY <1>3, <1>4, <1>5

\* A claim is a new one: no worker holds it, and no message of it is accepted.
LEMMA ClaimDuplicates ==
    ASSUME DuplicatesInv, TypeOK', NEW w \in Worker, ClaimWins(w)
    PROVE  DuplicatesInv'
<1> DEFINE e == worker[w].event
           n == attempts[e] + 1
<1>1. TypeOK /\ ClaimsApart /\ SendsOnce
  BY DEF DuplicatesInv
<1>2. /\ worker[w].step = "CLAIM" /\ status[e] \in {"PENDING", "FAILED", "PROCESSING"}
      /\ status' = [status EXCEPT ![e] = "PROCESSING"]
      /\ attempts' = [attempts EXCEPT ![e] = n]
      /\ worker' = [worker EXCEPT ![w] = [step |-> "BUILD", event |-> e, claim |-> n]]
      /\ UNCHANGED <<approvals, accepted, unrecorded>>
  BY DEF ClaimWins, Claimable, history
<1>3. e \in Event /\ attempts[e] \in Nat
  BY <1>1, <1>2, WorkerTyped DEF TypeOK, ClaimNumber
<1> HIDE DEF e, n
<1>4. /\ status'[e] = "PROCESSING" /\ attempts'[e] = n
      /\ \A f \in Event : f # e => status'[f] = status[f] /\ attempts'[f] = attempts[f]
  BY <1>1, <1>2, <1>3 DEF TypeOK
<1>5. /\ worker'[w].step = "BUILD" /\ worker'[w].event = e /\ worker'[w].claim = n
      /\ \A v \in Worker : v # w => worker'[v] = worker[v]
  BY <1>1, <1>2 DEF TypeOK
<1>6. \A f \in Event : attempts[f] \in Int /\ attempts'[f] \in Int
                       /\ attempts[f] <= attempts'[f]
  BY <1>1, <1>2, <1>3 DEF TypeOK, ClaimNumber, n
<1>7. \A v \in Worker : v # w /\ Holds(v) => ThisClaim(v) # <<e, n>>
  <2>1. SUFFICES ASSUME NEW v \in Worker, v # w, Holds(v), ThisClaim(v) = <<e, n>>
                 PROVE  FALSE
    OBVIOUS
  <2>2. worker[v].claim <= attempts[worker[v].event]
    BY <1>1, <2>1 DEF ClaimsApart
  <2>3. worker[v].event = e /\ worker[v].claim = n
    BY <2>1 DEF ThisClaim
  <2>4. QED  BY <1>3, <2>2, <2>3 DEF n
<1>8. n \in ClaimNumber /\ <<e, n>> \notin accepted
  <2>1. n \in ClaimNumber
    BY <1>3, <1>4 DEF TypeOK
  <2>2. QED  BY <1>1, <1>3, <2>1 DEF ClaimsApart, n
<1>9. ClaimsApart'
  <2>1. ASSUME NEW v \in Worker, Holds(v)'
        PROVE  worker'[v].claim <= attempts'[worker'[v].event]
    <3>1. CASE v = w
      BY <1>3, <1>4, <1>5, <3>1 DEF n
    <3>2. CASE v # w
      <4>1. Holds(v) /\ worker'[v] = worker[v]
        BY <1>5, <2>1, <3>2 DEF Holds
      <4>2. worker[v].claim <= attempts[worker[v].event]
        BY <1>1, <4>1 DEF ClaimsApart
      <4>3. worker[v].event \in Event /\ worker[v].claim \in Int
        BY <1>1, <4>1, WorkerTyped DEF Holds, Late, ClaimNumber
      <4>4. QED  BY <1>6, <4>1, <4>2, <4>3
    <3>3. QED  BY <3>1, <3>2
  <2>2. ASSUME NEW u \in Worker, NEW v \in Worker, Holds(u)', Holds(v)',
               ThisClaim(u)' = ThisClaim(v)'
        PROVE  u = v
    <3>1. ThisClaim(w)' = <<e, n>>
      BY <1>5 DEF ThisClaim
    <3>2. \A x \in Worker : x # w => ThisClaim(x)' = ThisClaim(x) /\ (Holds(x)' => Holds(x))
      BY <1>5 DEF ThisClaim, Holds
    <3>3. QED  BY <1>1, <1>7, <2>2, <3>1, <3>2 DEF ClaimsApart
  <2>3. \A f \in Event, m \in ClaimNumber : <<f, m>> \in accepted' => m <= attempts'[f]
    <3>1. SUFFICES ASSUME NEW f \in Event, NEW m \in ClaimNumber, <<f, m>> \in accepted
                   PROVE  m <= attempts'[f]
      BY <1>2
    <3>2. m <= attempts[f]
      BY <1>1, <3>1 DEF ClaimsApart
    <3>3. QED  BY <1>6, <3>2 DEF ClaimNumber
  <2>4. QED  BY <2>1, <2>2, <2>3 DEF ClaimsApart
<1>10. SendsOnce'
  <2>1. ThisClaim(w)' \notin accepted'
    BY <1>2, <1>5, <1>8 DEF ThisClaim
  <2>2. \A v \in Worker : v # w => ThisClaim(v)' = ThisClaim(v)
    BY <1>5 DEF ThisClaim
  <2>3. QED  BY <1>1, <1>2, <1>5, <2>1, <2>2 DEF SendsOnce
<1>11. ASSUME NEW f \in Event PROVE RoomFor(f)'
  <2>1. Out(f)' \subseteq Out(f)
    BY <1>2, <1>5 DEF Out, ThisClaim
  <2>2. RoomFor(f) /\ approvals'[f] = approvals[f]
    BY <1>2 DEF DuplicatesInv
  <2>3. CASE f = e
    BY <1>1, <1>2, <1>4, <2>1, <2>2, <2>3, RoomStays
  <2>4. CASE f # e
    BY <1>1, <1>4, <2>1, <2>2, <2>4, RoomStays
  <2>5. QED  BY <2>3, <2>4
<1>12. QED
  BY <1>9, <1>10, <1>11 DEF DuplicatesInv

\* The one step that may put a message out leaves room for that of the claim it is of.
LEMMA BeginDuplicates ==
    ASSUME DuplicatesInv, TypeOK', NEW w \in Worker, BeginDispatch(w)
    PROVE  DuplicatesInv'
<1> DEFINE e == worker[w].event
<1>1. TypeOK
  BY DEF DuplicatesInv
<1>2. /\ worker[w].step = "BUILD" /\ status[e] = "PROCESSING"
      /\ attempts[e] = worker[w].claim /\ status' = [status EXCEPT ![e] = "DISPATCHING"]
      /\ Goes(w, "SEND") /\ UNCHANGED <<attempts, approvals, accepted, unrecorded>>
  BY DEF BeginDispatch, Owns, history
<1>3. e \in Event /\ worker[w] \in [step: WorkerStep, event: Event, claim: ClaimNumber]
  BY <1>1, <1>2, WorkerTyped
<1>4. /\ worker'[w] = [worker[w] EXCEPT !.step = "SEND"]
      /\ \A v \in Worker : v # w => worker'[v] = worker[v]
  BY <1>1, <1>2 DEF Goes, TypeOK
<1>5. /\ worker'[w].step = "SEND" /\ worker'[w].event = worker[w].event
      /\ worker'[w].claim = worker[w].claim
  BY <1>3, <1>4
<1>6. Moves(w)
  BY <1>2, <1>4, <1>5 DEF Moves
<1>7. ASSUME NEW f \in Event PROVE RoomFor(f)'
  <2>1. CASE f = e
    <3>1. Out(f)' \subseteq Out(f) \cup {attempts[f]}
      BY <1>2, <1>5, <1>6, <2>1, MovesOut
    <3>2. Cardinality(Out(f)) <= approvals[f]
      <4>1. RoomFor(f)
        BY DEF DuplicatesInv
      <4>2. QED  BY <1>2, <2>1, <4>1 DEF RoomFor
    <3>3. Out(f) \in SUBSET ClaimNumber /\ Out(f)' \ {attempts[f]} \in SUBSET Out(f)
      BY <3>1, OutFinite
    <3>4. /\ Cardinality(Out(f)' \ {attempts[f]}) <= Cardinality(Out(f))
          /\ Cardinality(Out(f)' \ {attempts[f]}) \in Nat /\ Cardinality(Out(f)) \in Nat
      BY <3>3, FewerClaims
    <3>5. approvals[f] \in Nat
      BY <1>1 DEF TypeOK
    <3>6. Cardinality(Out(f)' \ {attempts[f]}) <= approvals[f]
      BY <3>2, <3>4, <3>5
    <3>7. status'[f] = "DISPATCHING" /\ attempts'[f] = attempts[f]
          /\ approvals'[f] = approvals[f]
      BY <1>1, <1>2, <2>1 DEF TypeOK
    <3>8. QED
      BY <3>6, <3>7 DEF RoomFor
  <2>2. CASE f # e
    <3>1. Out(f)' \subseteq Out(f)
      BY <1>6, <2>2, MovesOut
    <3>2. /\ RoomFor(f) /\ status'[f] = status[f] /\ attempts'[f] = attempts[f]
          /\ approvals'[f] = approvals[f]
      BY <1>1, <1>2, <2>2 DEF DuplicatesInv, TypeOK
    <3>3. QED  BY <1>1, <3>1, <3>2, RoomStays
  <2>3. QED  BY <2>1, <2>2
<1>8. QED  BY <1>6, <1>7, MovesApart, MovesOnce DEF DuplicatesInv

LEMMA StepDuplicates == DuplicatesInv /\ TypeOK' /\ [Next]_vars => DuplicatesInv'
<1> SUFFICES ASSUME DuplicatesInv, TypeOK', [Next]_vars
             PROVE  DuplicatesInv'
  OBVIOUS
<1>1. ASSUME NEW e \in Event, EventNext(e)
      PROVE  DuplicatesInv'
  BY <1>1, EventDuplicates
<1>2. ASSUME NEW w \in Worker, WorkerNext(w)
      PROVE  DuplicatesInv'
  <2>1. CASE Proceeds(w)
    BY <2>1, SettlingDuplicates, ClaimDuplicates, BeginDuplicates, QuietDuplicates
       DEF Proceeds
  <2>2. CASE WorkerDies(w) \/ \E e \in Event : Pick(w, e)
    BY <2>2, QuietDuplicates
  <2>3. QED  BY <1>2, <2>1, <2>2 DEF WorkerNext
<1>3. ASSUME UNCHANGED vars
      PROVE  DuplicatesInv'
  <2>1. \A e \in Event : Out(e)' = Out(e)
    BY <1>3 DEF vars, Out, ThisClaim
  <2>2. \A e \in Event : RoomFor(e)'
    BY <1>3, <2>1 DEF vars, DuplicatesInv, RoomFor
  <2>3. ClaimsApart' /\ SendsOnce'
    BY <1>3 DEF vars, DuplicatesInv, ClaimsApart, SendsOnce, Holds, ThisClaim
  <2>4. QED  BY <2>2, <2>3 DEF DuplicatesInv
<1>4. QED  BY <1>1, <1>2, <1>3 DEF Next

LEMMA DuplicatesInvariant == Spec => []DuplicatesInv
BY InitDuplicates, StepDuplicates, OutboxTypeCorrect, PTL DEF Spec

\* Whatever the status of an event, at most one message more than approvals is out.
LEMMA OutBounded ==
    ASSUME DuplicatesInv, NEW e \in Event
    PROVE  /\ Cardinality(Out(e)) <= 1 + approvals[e]
           /\ Cardinality(Out(e)) \in Nat /\ approvals[e] \in Nat
<1> DEFINE S == Out(e)
           rest == S \ {attempts[e]}
<1>1. /\ S \in SUBSET ClaimNumber /\ rest \in SUBSET ClaimNumber
      /\ approvals[e] \in Nat /\ RoomFor(e)
  BY OutFinite DEF DuplicatesInv, TypeOK
<1>2. IsFiniteSet(S) /\ Cardinality(S) \in Nat /\ Cardinality(rest) \in Nat
  BY <1>1, OutFinite
<1>3. Cardinality(S) <= 1 + Cardinality(rest)
  <2>1. CASE attempts[e] \in S
    <3>1. Cardinality(rest) = Cardinality(S) - 1
      BY <1>2, <2>1, FS_RemoveElement
    <3>2. QED  BY <1>2, <3>1
  <2>2. CASE attempts[e] \notin S
    <3>1. rest = S
      BY <2>2
    <3>2. QED  BY <1>2, <3>1
  <2>3. QED  BY <2>1, <2>2
<1> HIDE DEF S, rest
<1>4. \/ Cardinality(S) <= 1 + approvals[e]
      \/ Cardinality(rest) <= approvals[e]
      \/ Cardinality(S) <= approvals[e]
  BY <1>1 DEF RoomFor, S, rest
<1>5. Cardinality(S) <= 1 + approvals[e]
  BY <1>1, <1>2, <1>3, <1>4
<1>6. QED  BY <1>1, <1>2, <1>5 DEF S

\* A customer has at most one message more than staff have approved and the database
\* has failed to record.
THEOREM DuplicatesAreExplained == Spec => []DuplicatesExplained
<1>1. ASSUME DuplicatesInv PROVE DuplicatesExplained
  <2>1. SUFFICES ASSUME NEW e \in Event
                 PROVE  Cardinality(AcceptedClaims(e))
                           <= 1 + approvals[e] + Cardinality(UnrecordedClaims(e))
    BY DEF DuplicatesExplained
  <2> DEFINE A == AcceptedClaims(e)
             U == UnrecordedClaims(e)
             both == Out(e) \cup U
  <2>2. A \subseteq both
    BY DEF AcceptedClaims, UnrecordedClaims, Out
  <2>3. /\ Out(e) \in SUBSET ClaimNumber /\ U \in SUBSET ClaimNumber
        /\ both \in SUBSET ClaimNumber /\ A \in SUBSET both
        /\ Out(e) \cap U \in SUBSET ClaimNumber
    BY <2>2, OutFinite DEF UnrecordedClaims
  <2>4. /\ IsFiniteSet(Out(e)) /\ IsFiniteSet(U)
        /\ Cardinality(Out(e) \cap U) \in Nat /\ Cardinality(U) \in Nat
    BY <2>3, OutFinite
  <2>5. /\ Cardinality(A) <= Cardinality(both) /\ Cardinality(A) \in Nat
        /\ Cardinality(both) \in Nat
    BY <2>3, FewerClaims
  <2>6. Cardinality(both)
           = Cardinality(Out(e)) + Cardinality(U) - Cardinality(Out(e) \cap U)
    BY <2>4, FS_Union
  <2>7. /\ Cardinality(Out(e)) <= 1 + approvals[e]
        /\ Cardinality(Out(e)) \in Nat /\ approvals[e] \in Nat
    BY <1>1, OutBounded
  <2> HIDE DEF A, U, both
  <2>8. Cardinality(A) <= 1 + approvals[e] + Cardinality(U)
    BY <2>4, <2>5, <2>6, <2>7
  <2>9. QED  BY <2>8 DEF A, U
<1>2. QED  BY <1>1, DuplicatesInvariant, PTL

\* The provider is called for one event by one worker at a time, and by one more for
\* each retry that staff have approved meanwhile.
THEOREM SendersAreFew == Spec => []NoConcurrentSends
<1>1. ASSUME DuplicatesInv PROVE NoConcurrentSends
  <2>1. SUFFICES ASSUME NEW e \in Event
                 PROVE  Cardinality(Senders(e)) <= 1 + approvals[e]
    BY DEF NoConcurrentSends
  <2> DEFINE f == [w \in Senders(e) |-> worker[w].claim]
  <2>2. \A w \in Senders(e) : worker[w].claim \in Out(e)
    <3>1. SUFFICES ASSUME NEW w \in Senders(e) PROVE worker[w].claim \in Out(e)
      OBVIOUS
    <3>2. w \in Worker /\ worker[w].step = "SEND" /\ worker[w].event = e
      BY DEF Senders
    <3>3. worker[w].claim \in ClaimNumber
      BY <1>1, <3>2, WorkerTyped DEF DuplicatesInv
    <3>4. QED  BY <3>2, <3>3 DEF Out, ThisClaim
  <2>3. \A v, w \in Senders(e) : worker[v].claim = worker[w].claim => v = w
    BY <1>1 DEF DuplicatesInv, ClaimsApart, Senders, Holds, Late, ThisClaim
  <2>4. f \in Injection(Senders(e), Out(e))
    BY <2>2, <2>3 DEF Injection, IsInjective
  <2>5. IsFiniteSet(Out(e))
    BY OutFinite
  <2>6. IsFiniteSet(Senders(e)) /\ Cardinality(Senders(e)) <= Cardinality(Out(e))
    BY <2>4, <2>5, FS_Injection
  <2>7. Cardinality(Senders(e)) \in Nat
    BY <2>6, FS_CardinalityType
  <2>8. QED  BY <1>1, <2>6, <2>7, OutBounded
<1>2. QED  BY <1>1, DuplicatesInvariant, PTL

=============================================================================
