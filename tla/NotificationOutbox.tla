------------------------- MODULE NotificationOutbox -------------------------
(***************************************************************************)
(* The outbox of customer text messages: events written by the business    *)
(* transactions (or by the stock trigger of the database), workers that    *)
(* lease, send and settle them, and the staff who decide about messages    *)
(* whose fate is unknown.                                                  *)
(*                                                                         *)
(* Every replica of the API runs one worker, once a minute, over a batch;  *)
(* the events of a batch are handled one after the other.  A lease is the  *)
(* value of claimedAt; since every claim also increments attempts, a lease *)
(* is named here by the value of attempts it was taken with.               *)
(***************************************************************************)
EXTENDS Integers, FiniteSets

CONSTANTS
    Event,         \* outbox rows, named by their deduplicationKey
    Quiet,         \* events nobody is sent a message for (reconciliations)
    Subscription,  \* STOCK_AVAILABLE events, one for each stock subscription
    Worker,        \* processes that run the dispatch job
    MaxAttempts,   \* MAX_ATTEMPTS: automatic claims of an event
    MaxApprovals,  \* bound on the retries staff approve for an event
    NoEvent        \* the event of an idle worker

ASSUME OutboxAssumption ==
    /\ Quiet \subseteq Event
    /\ Subscription \subseteq Event \ Quiet
    /\ NoEvent \notin Event
    /\ MaxAttempts \in Nat \ {0}
    /\ MaxApprovals \in Nat

VARIABLES
    status,        \* NotificationOutboxEvent.status, "NONE" before it is written
    attempts,      \* NotificationOutboxEvent.attempts
    due,           \* whether nextAttemptAt has passed
    stale,         \* whether claimedAt is older than the lease
    subscription,  \* StockNotificationSubscription.status
    worker,        \* the step of each worker, its event and the lease it knows
    approvals,     \* retries staff have approved
    confirmed,     \* events staff have declared sent
    accepted,      \* claims whose message the SMS provider has accepted
    unrecorded,    \* accepted claims whose worker could not record them as SENT
    forgotten      \* sent events whose worker stopped before it told the subscription

rows == <<status, attempts, due, stale>>
history == <<approvals, confirmed, accepted, unrecorded, forgotten>>
vars == <<status, attempts, due, stale, subscription, worker, approvals,
          confirmed, accepted, unrecorded, forgotten>>

-----------------------------------------------------------------------------
(* Types                                                                   *)

Status ==
    {"NONE", "PENDING", "PROCESSING", "DISPATCHING", "SENT", "FAILED", "UNKNOWN"}

Leased == {"PROCESSING", "DISPATCHING"}

ClaimNumber == 0..(MaxAttempts + MaxApprovals)

IdleWorker == [step |-> "IDLE", event |-> NoEvent, claim |-> 0]

WorkerStep ==
    {"CLAIM", "RELEASE", "QUARANTINE", "BUILD", "SEND", "ACCEPTED", "REFUSED",
     "UNCLEAR", "NOTIFY"}

TypeOK ==
    /\ status \in [Event -> Status]
    /\ attempts \in [Event -> ClaimNumber]
    /\ due \subseteq Event
    /\ stale \subseteq Event
    /\ subscription \in [Subscription -> {"ACTIVE", "QUEUED", "NOTIFIED"}]
    /\ worker \in [Worker -> {IdleWorker} \cup
                             [step: WorkerStep, event: Event, claim: ClaimNumber]]
    /\ approvals \in [Event -> 0..MaxApprovals]
    /\ confirmed \subseteq Event
    /\ accepted \subseteq Event \X ClaimNumber
    /\ unrecorded \subseteq Event \X ClaimNumber
    /\ forgotten \subseteq Event

Init ==
    /\ status = [e \in Event |-> "NONE"]
    /\ attempts = [e \in Event |-> 0]
    /\ due = {}
    /\ stale = {}
    /\ subscription = [s \in Subscription |-> "ACTIVE"]
    /\ worker = [w \in Worker |-> IdleWorker]
    /\ approvals = [e \in Event |-> 0]
    /\ confirmed = {}
    /\ accepted = {}
    /\ unrecorded = {}
    /\ forgotten = {}

-----------------------------------------------------------------------------
(* Events are written, and time passes                                     *)

\* A business transaction writes an event; its key makes that happen once.
Enqueue(e) ==
    /\ e \notin Subscription
    /\ status[e] = "NONE"
    /\ status' = [status EXCEPT ![e] = "PENDING"]
    /\ due' = due \cup {e}
    /\ UNCHANGED <<attempts, stale, subscription, worker, history>>

\* The trigger on the inventory queues the active subscriptions of a variant
\* that becomes available.
QueueStockAvailable(e) ==
    /\ e \in Subscription
    /\ subscription[e] = "ACTIVE"
    /\ status[e] = "NONE"
    /\ subscription' = [subscription EXCEPT ![e] = "QUEUED"]
    /\ status' = [status EXCEPT ![e] = "PENDING"]
    /\ due' = due \cup {e}
    /\ UNCHANGED <<attempts, stale, worker, history>>

BackoffEnds(e) ==
    /\ status[e] = "FAILED"
    /\ e \notin due
    /\ due' = due \cup {e}
    /\ UNCHANGED <<status, attempts, stale, subscription, worker, history>>

LeaseEnds(e) ==
    /\ status[e] \in Leased
    /\ e \notin stale
    /\ stale' = stale \cup {e}
    /\ UNCHANGED <<status, attempts, due, subscription, worker, history>>

-----------------------------------------------------------------------------
(* Workers: dispatchPending                                                *)

Goes(w, step) == worker' = [worker EXCEPT ![w].step = step]
Rests(w) == worker' = [worker EXCEPT ![w] = IdleWorker]

\* Mutants: a limit or a guard of the claim is forgotten.
ClaimableForever(e) ==
    \/ status[e] \in {"PENDING", "FAILED"} /\ e \in due
    \/ status[e] = "PROCESSING" /\ e \in stale /\ attempts[e] < MaxAttempts
ClaimableStaleForever(e) ==
    \/ status[e] = "PENDING" /\ e \in due
    \/ status[e] = "FAILED" /\ e \in due /\ attempts[e] < MaxAttempts
    \/ status[e] = "PROCESSING" /\ e \in stale
ClaimableWhileDispatching(e) ==
    \/ status[e] = "PENDING" /\ e \in due
    \/ status[e] = "FAILED" /\ e \in due /\ attempts[e] < MaxAttempts
    \/ status[e] \in Leased /\ e \in stale /\ attempts[e] < MaxAttempts

Claimable(e) ==
    \/ status[e] = "PENDING" /\ e \in due
    \/ status[e] = "FAILED" /\ e \in due /\ attempts[e] < MaxAttempts
    \/ status[e] = "PROCESSING" /\ e \in stale /\ attempts[e] < MaxAttempts

\* The batch is read in one query and handled later.
Pick(w, e) ==
    /\ worker[w].step = "IDLE"
    /\ \E step \in {"CLAIM", "RELEASE", "QUARANTINE"} :
          /\ CASE step = "CLAIM"      -> Claimable(e)
               [] step = "RELEASE"    -> /\ status[e] = "PROCESSING" /\ e \in stale
                                         /\ attempts[e] >= MaxAttempts
               [] step = "QUARANTINE" -> status[e] = "DISPATCHING" /\ e \in stale
          /\ worker' = [worker EXCEPT ![w] =
                           [step |-> step, event |-> e, claim |-> attempts[e]]]
    /\ UNCHANGED <<rows, subscription, history>>

\* The claim looks at the row again, not at what the batch has read.
ClaimWins(w) ==
    LET e == worker[w].event IN
    /\ worker[w].step = "CLAIM"
    /\ Claimable(e)
    /\ status' = [status EXCEPT ![e] = "PROCESSING"]
    /\ attempts' = [attempts EXCEPT ![e] = @ + 1]
    /\ stale' = stale \ {e}
    /\ worker' = [worker EXCEPT ![w] =
                     [step |-> "BUILD", event |-> e, claim |-> attempts[e] + 1]]
    /\ UNCHANGED <<due, subscription, history>>

ClaimLoses(w) ==
    /\ worker[w].step = "CLAIM"
    /\ ~Claimable(worker[w].event)
    /\ Rests(w)
    /\ UNCHANGED <<rows, subscription, history>>

OwnsStatusOnly(w, s) == status[worker[w].event] = s \* mutant: lease not compared

\* Every later update is conditional on the status and the lease.
Owns(w, s) ==
    /\ status[worker[w].event] = s
    /\ attempts[worker[w].event] = worker[w].claim

\* The update a worker makes if it still owns the row, and nothing otherwise.
Settle(w, from, to) ==
    LET e == worker[w].event IN
    IF Owns(w, from)
    THEN /\ status' = [status EXCEPT ![e] = to]
         /\ stale' = stale \ {e}
         /\ due' = IF to = "FAILED" THEN due \ {e} ELSE due
         /\ UNCHANGED attempts
    ELSE UNCHANGED rows

\* Mutant: the limit of the update is not the limit of the query.
ReleaseExhaustedPastLimit(w) ==
    /\ worker[w].step = "RELEASE"
    /\ IF attempts[worker[w].event] > MaxAttempts
       THEN Settle(w, "PROCESSING", "FAILED") ELSE UNCHANGED rows
    /\ Rests(w)
    /\ UNCHANGED <<subscription, history>>

\* releaseExhaustedProcessing leaves nextAttemptAt alone; nothing looks at it
\* again before staff have set it.
ReleaseExhausted(w) ==
    /\ worker[w].step = "RELEASE"
    /\ Settle(w, "PROCESSING", "FAILED")
    /\ Rests(w)
    /\ UNCHANGED <<subscription, history>>

QuarantineStale(w) ==
    /\ worker[w].step = "QUARANTINE"
    /\ Settle(w, "DISPATCHING", "UNKNOWN")
    /\ Rests(w)
    /\ UNCHANGED <<subscription, history>>

\* buildMessage throws (a template that is not configured, a tracking code that
\* is not there yet), or the sender does not support the message.
BuildFails(w) ==
    /\ worker[w].step = "BUILD"
    /\ worker[w].event \notin Quiet
    /\ Settle(w, "PROCESSING", "FAILED")
    /\ Rests(w)
    /\ UNCHANGED <<subscription, history>>

NothingToSend(w) ==
    /\ worker[w].step = "BUILD"
    /\ worker[w].event \in Quiet
    /\ Settle(w, "PROCESSING", "SENT")
    /\ Rests(w)
    /\ UNCHANGED <<subscription, history>>

\* The step into DISPATCHING keeps claimedAt: the lease is not prolonged.
BeginDispatch(w) ==
    LET e == worker[w].event IN
    /\ worker[w].step = "BUILD"
    /\ e \notin Quiet
    /\ e \in Subscription => subscription[e] = "QUEUED"
    /\ Owns(w, "PROCESSING")
    /\ status' = [status EXCEPT ![e] = "DISPATCHING"]
    /\ Goes(w, "SEND")
    /\ UNCHANGED <<attempts, due, stale, subscription, history>>

LeaseLost(w) ==
    /\ worker[w].step = "BUILD"
    /\ worker[w].event \notin Quiet
    /\ ~Owns(w, "PROCESSING")
    /\ Rests(w)
    /\ UNCHANGED <<rows, subscription, history>>

ThisClaim(w) == <<worker[w].event, worker[w].claim>>

ProviderAccepts(w) ==
    /\ worker[w].step = "SEND"
    /\ accepted' = accepted \cup {ThisClaim(w)}
    /\ Goes(w, "ACCEPTED")
    /\ UNCHANGED <<rows, subscription, approvals, confirmed, unrecorded, forgotten>>

ProviderRefuses(w) ==
    /\ worker[w].step = "SEND"
    /\ Goes(w, "REFUSED")
    /\ UNCHANGED <<rows, subscription, history>>

\* SmsDeliveryUnknownError: the message may have gone out.
AnswerUnclear(w) ==
    /\ worker[w].step = "SEND"
    /\ accepted' \in {accepted, accepted \cup {ThisClaim(w)}}
    /\ Goes(w, "UNCLEAR")
    /\ UNCHANGED <<rows, subscription, approvals, confirmed, unrecorded, forgotten>>

\* Mutant: the subscription is told even if the event was not recorded as SENT.
RecordSentUnchecked(w) ==
    /\ worker[w].step = "ACCEPTED"
    /\ Settle(w, "DISPATCHING", "SENT")
    /\ IF worker[w].event \in Subscription THEN Goes(w, "NOTIFY") ELSE Rests(w)
    /\ UNCHANGED <<subscription, history>>

RecordSent(w) ==
    /\ worker[w].step = "ACCEPTED"
    /\ Settle(w, "DISPATCHING", "SENT")
    /\ IF Owns(w, "DISPATCHING") /\ worker[w].event \in Subscription
       THEN Goes(w, "NOTIFY") ELSE Rests(w)
    /\ UNCHANGED <<subscription, history>>

\* The update to SENT fails (the database is gone for a moment).  It stands in
\* the same try block as the call of the provider, so its error is taken for an
\* error of the call, and for a definite one.
RecordSentFails(w) ==
    /\ worker[w].step = "ACCEPTED"
    /\ unrecorded' = unrecorded \cup {ThisClaim(w)}
    /\ Goes(w, "REFUSED")
    /\ UNCHANGED <<rows, subscription, approvals, confirmed, accepted, forgotten>>

Notify(w) ==
    LET e == worker[w].event IN
    /\ worker[w].step = "NOTIFY"
    /\ subscription' = [subscription EXCEPT ![e] = IF @ = "QUEUED" THEN "NOTIFIED" ELSE @]
    /\ Rests(w)
    /\ UNCHANGED <<rows, history>>

FailureAlwaysRetried(answer) == "FAILED" \* mutant: unclear answers are retried

\* settleDispatchFailure: what becomes of a message that was not accepted.
AfterFailedSend(answer) == IF answer = "UNCLEAR" THEN "UNKNOWN" ELSE "FAILED"

SettleDispatchFailure(w) ==
    /\ worker[w].step \in {"REFUSED", "UNCLEAR"}
    /\ Settle(w, "DISPATCHING", AfterFailedSend(worker[w].step))
    /\ Rests(w)
    /\ UNCHANGED <<subscription, history>>

\* The process dies, or a query fails: outside the try block of the send that ends
\* the batch; inside it, once the event is SENT, settling changes nothing.
WorkerDies(w) ==
    /\ worker[w].step # "IDLE"
    /\ forgotten' = IF worker[w].step = "NOTIFY"
                    THEN forgotten \cup {worker[w].event} ELSE forgotten
    /\ Rests(w)
    /\ UNCHANGED <<rows, subscription, approvals, confirmed, accepted, unrecorded>>

-----------------------------------------------------------------------------
(* Staff: resolveCustomer and retryFailed                                  *)

\* attempts is not reset.
ApproveRetry(e) ==
    /\ status[e] \in {"UNKNOWN", "FAILED"}
    /\ approvals[e] < MaxApprovals
    /\ status' = [status EXCEPT ![e] = "PENDING"]
    /\ due' = due \cup {e}
    /\ approvals' = [approvals EXCEPT ![e] = @ + 1]
    /\ UNCHANGED <<attempts, stale, subscription, worker, confirmed, accepted,
                   unrecorded, forgotten>>

\* A message declared sent leaves its subscription as it is.
ConfirmSent(e) ==
    /\ status[e] = "UNKNOWN"
    /\ status' = [status EXCEPT ![e] = "SENT"]
    /\ confirmed' = confirmed \cup {e}
    /\ UNCHANGED <<attempts, due, stale, subscription, worker, approvals, accepted,
                   unrecorded, forgotten>>

-----------------------------------------------------------------------------
(* Specification                                                           *)

EventNext(e) ==
    \/ Enqueue(e) \/ QueueStockAvailable(e)
    \/ BackoffEnds(e) \/ LeaseEnds(e)
    \/ ApproveRetry(e) \/ ConfirmSent(e)

\* What a worker does with the event it has picked.
Proceeds(w) ==
    \/ ClaimWins(w) \/ ClaimLoses(w) \/ ReleaseExhausted(w) \/ QuarantineStale(w)
    \/ BuildFails(w) \/ NothingToSend(w) \/ BeginDispatch(w) \/ LeaseLost(w)
    \/ ProviderAccepts(w) \/ ProviderRefuses(w) \/ AnswerUnclear(w)
    \/ RecordSent(w) \/ RecordSentFails(w) \/ Notify(w)
    \/ SettleDispatchFailure(w)

WorkerNext(w) == Proceeds(w) \/ WorkerDies(w) \/ \E e \in Event : Pick(w, e)

Next ==
    \/ \E e \in Event : EventNext(e)
    \/ \E w \in Worker : WorkerNext(w)

Spec == Init /\ [][Next]_vars

\* Time passes; the job runs every minute, oldest events first; the call of the
\* provider has a timeout; and a worker that is started again after every crash
\* gets on with an event sooner or later.
FairSpec ==
    /\ Spec
    /\ \A e \in Event : /\ WF_vars(BackoffEnds(e))
                       /\ WF_vars(LeaseEnds(e))
                       /\ SF_vars(\E w \in Worker : Pick(w, e))
    /\ \A w \in Worker : SF_vars(Proceeds(w))

-----------------------------------------------------------------------------
(* Properties                                                              *)

\* MAX_ATTEMPTS limits the automatic attempts of a message in spite of racing
\* workers, lost leases and crashes; each approval of staff allows one more.
RetriesBounded == \A e \in Event : attempts[e] <= MaxAttempts + approvals[e]

AcceptedClaims(e) == {n \in ClaimNumber : <<e, n>> \in accepted}
UnrecordedClaims(e) == {n \in ClaimNumber : <<e, n>> \in unrecorded}

\* A customer is sent a message twice only if staff have approved it, or if the
\* database failed between the provider's answer and the record of it.
DuplicatesExplained ==
    \A e \in Event : Cardinality(AcceptedClaims(e))
                        <= 1 + approvals[e] + Cardinality(UnrecordedClaims(e))

Senders(e) == {w \in Worker : worker[w].event = e /\ worker[w].step = "SEND"}

\* Two workers are in the call of the provider for one event only if staff have
\* approved a retry while the first still hung in its call.
NoConcurrentSends == \A e \in Event : Cardinality(Senders(e)) <= 1 + approvals[e]

\* While a lease is not stale nobody but its holder changes the row: neither a
\* second worker with an old batch nor one that comes back late.
LiveLeaseIsRespected ==
    [][\A e \in Event :
          /\ status[e] \in Leased
          /\ e \notin stale
          /\ <<status'[e], attempts'[e]>> # <<status[e], attempts[e]>>
          => \E w \in Worker : /\ worker[w].event = e
                               /\ worker[w].claim = attempts[e]
                               /\ worker'[w] # worker[w]]_vars

Notifying(e) == \E w \in Worker : worker[w].event = e /\ worker[w].step = "NOTIFY"

\* A subscription is NOTIFIED only when its message was accepted and recorded, and
\* one whose message was sent stays QUEUED only on its way to NOTIFIED, or for good
\* if the worker stopped in between or staff declared the message sent.
SubscriptionFollowsMessage ==
    \A s \in Subscription :
        /\ subscription[s] = "NOTIFIED" => status[s] = "SENT" /\ AcceptedClaims(s) # {}
        /\ subscription[s] = "QUEUED" /\ status[s] = "SENT" =>
              Notifying(s) \/ s \in forgotten \cup confirmed

\* Every message that was written is sent, given to staff, or out of attempts.
EventsSettle ==
    \A e \in Event :
        status[e] = "PENDING" ~>
            \/ status[e] \in {"SENT", "UNKNOWN"}
            \/ status[e] = "FAILED" /\ attempts[e] >= MaxAttempts

\* "FAILED: the request was rejected before sending or with a definite answer of
\* Kavenegar, and is retried" (docs/kavenegar-order-templates.fa.md): the claim
\* that left the event FAILED was not accepted.
FailedMeansRefused ==
    \A e \in Event : status[e] = "FAILED" => <<e, attempts[e]>> \notin accepted

=============================================================================
