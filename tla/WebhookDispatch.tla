---------------------------- MODULE WebhookDispatch ----------------------------
(***************************************************************************)
(* Webhooks sent to an endpoint that a developer has registered.           *)
(*                                                                         *)
(* A delivery is enqueued when the endpoint is enabled, and attempted by   *)
(* sweeps that claim nothing: an attempt reads the delivery, posts it, and *)
(* records the answer.  Every attempt counts, also one that succeeds, and  *)
(* the attempt with number MaxHookAttempts or above exhausts the delivery  *)
(* when it fails, until an operator retries it.  Removing the endpoint     *)
(* removes its deliveries, under the attempts that are going on.           *)
(*                                                                         *)
(* An endpoint is created with a secret and a rotation replaces it in one  *)
(* transaction, so that an attempt always finds one to sign with.          *)
(***************************************************************************)
EXTENDS Naturals, Sequences, FiniteSets

CONSTANTS
    NumDeliveries,      \* deliveries are numbered as they are enqueued
    HookWorkers,        \* sweeps that may run at the same time
    HookOperators,      \* people who retry exhausted deliveries
    MaxHookAttempts,    \* MAX_ATTEMPTS
    HookBatchSize,      \* SWEEP_BATCH_SIZE
    MaxHookRetries,     \* bound on the retries by hand
    MaxHookLost         \* bound on the attempts cut short: failures are not for ever

ASSUME HookAssumption ==
    /\ NumDeliveries \in Nat
    /\ HookWorkers \cap HookOperators = {}
    /\ MaxHookAttempts \in Nat \ {0} /\ HookBatchSize \in Nat \ {0}
    /\ MaxHookRetries \in Nat /\ MaxHookLost \in Nat

VARIABLES
    endpoint,       \* status of the endpoint, removed when its row is gone
    hookRows,       \* hookRows[d]: the WebhookDelivery row of d
    received,       \* deliveries that the developer's server has received
    hookPc,         \* hookPc[a]: what sweep or operator a does next
    hookBatch,      \* hookBatch[a]: the deliveries it has still to attempt
    hookNumber,     \* hookNumber[a]: number of its attempt at the first of them
    hookRetries,    \* history: how many retries were asked for
    hookLost        \* history: how many attempts were cut short

hookActors == <<hookPc, hookBatch, hookNumber>>
hookHistory == <<hookRetries, hookLost>>
hookVars == <<endpoint, hookRows, received, hookActors, hookHistory>>

Deliveries == 1..NumDeliveries
HookActors == HookWorkers \cup HookOperators

HookSteps == {"idle", "rearming", "reading", "posting", "answered", "failed"}
HookStatuses == {"none", "checked", "PENDING", "RETRYING", "SUCCESS", "EXHAUSTED", "removed"}
HookStored == {"PENDING", "RETRYING", "SUCCESS", "EXHAUSTED"}

-----------------------------------------------------------------------------
\* recorded: numbers of the WebhookRetry rows, kept as history after a removal.
NoDelivery == [ status |-> "none", count |-> 0, ready |-> TRUE, recorded |-> {} ]

\* Variant: a delivery that has failed is not due any more.
HookIsDueOnce(d) == hookRows[d].status = "PENDING" /\ hookRows[d].ready

\* ready: nextAttemptAt is null or has passed.
HookIsDue(d) == hookRows[d].status \in {"PENDING", "RETRYING"} /\ hookRows[d].ready

\* What a sweep takes: the oldest of the deliveries that are due, in their order.
HookBatches == UNION { [1..n -> Deliveries] : n \in 1..HookBatchSize }

HookDueBatch(b) ==
    /\ \A i \in DOMAIN b : HookIsDue(b[i])
    /\ \A i, j \in DOMAIN b : i < j => b[i] < b[j]
    /\ \A d \in Deliveries : HookIsDue(d) =>
           (\E i \in DOMAIN b : b[i] = d) \/ (Len(b) = HookBatchSize /\ b[Len(b)] < d)

HookCurrent(a) == Head(hookBatch[a])

HookGoto(a, step) == hookPc' = [hookPc EXCEPT ![a] = step]

\* Actor a has still to attempt these deliveries.
HookGoOn(a, rest) ==
    /\ hookBatch' = [hookBatch EXCEPT ![a] = rest]
    /\ HookGoto(a, IF rest = <<>> THEN "idle" ELSE "reading")
    /\ hookNumber' = [hookNumber EXCEPT ![a] = 0]

\* Variant: the failure before the last one is final.
HookFailedStatusEarly(n) == IF n >= MaxHookAttempts - 1 THEN "EXHAUSTED" ELSE "RETRYING"

\* Variant: a delivery that is given up is FAILED.
HookFailedStatusFailed(n) == IF n >= MaxHookAttempts THEN "FAILED" ELSE "RETRYING"

\* The status of a delivery whose n-th attempt has failed.
HookFailedStatus(n) == IF n >= MaxHookAttempts THEN "EXHAUSTED" ELSE "RETRYING"

\* Delivery d after the n-th attempt at it was recorded with this status.
HookRecorded(d, n, status) ==
    [hookRows[d] EXCEPT !.status = status, !.count = n, !.recorded = @ \cup {n},
                        !.ready = status # "RETRYING"]

-----------------------------------------------------------------------------
HookInit ==
    /\ endpoint = "ENABLED"
    /\ hookRows = [d \in Deliveries |-> NoDelivery]
    /\ received = {}
    /\ hookPc = [a \in HookActors |-> "idle"]
    /\ hookBatch = [a \in HookActors |-> <<>>]
    /\ hookNumber = [a \in HookActors |-> 0]
    /\ hookRetries = 0 /\ hookLost = 0

\* enqueue reads the endpoint; and then creates the delivery if the endpoint still exists.
CheckEndpoint(d) ==
    /\ endpoint = "ENABLED"
    /\ hookRows[d].status = "none"
    /\ \A c \in 1..d - 1 : hookRows[c].status # "none"
    /\ hookRows' = [hookRows EXCEPT ![d].status = "checked"]
    /\ UNCHANGED <<endpoint, received, hookActors, hookHistory>>

EnqueueDelivery(d) ==
    /\ endpoint # "removed"
    /\ hookRows[d].status = "checked"
    /\ hookRows' = [hookRows EXCEPT ![d].status = "PENDING"]
    /\ UNCHANGED <<endpoint, received, hookActors, hookHistory>>

\* enable and disable: deliveries that are already enqueued are sent all the same.
SetEndpointStatus ==
    /\ endpoint # "removed"
    /\ endpoint' \in {"ENABLED", "DISABLED"}
    /\ UNCHANGED <<hookRows, received, hookActors, hookHistory>>

\* remove: the deliveries are deleted with the endpoint they refer to.
RemoveEndpoint ==
    /\ endpoint # "removed"
    /\ endpoint' = "removed"
    /\ hookRows' = [d \in Deliveries |->
           IF hookRows[d].status \in HookStored
           THEN [hookRows[d] EXCEPT !.status = "removed"] ELSE hookRows[d]]
    /\ UNCHANGED <<received, hookActors, hookHistory>>

\* The time a delivery waits for comes.
HookRipen(d) ==
    /\ ~ hookRows[d].ready
    /\ hookRows' = [hookRows EXCEPT ![d].ready = TRUE]
    /\ UNCHANGED <<endpoint, received, hookActors, hookHistory>>

\* processPending: a sweep takes its batch, and claims none of it.
HookSweep(w) ==
    /\ hookPc[w] = "idle"
    /\ \E b \in HookBatches : HookDueBatch(b) /\ HookGoOn(w, b)
    /\ UNCHANGED <<endpoint, hookRows, received, hookHistory>>

\* attemptDelivery reads the delivery, whatever its status is by now, if it still exists.
ReadDelivery(a) ==
    /\ hookPc[a] = "reading"
    /\ hookRows[HookCurrent(a)].status \in HookStored
    /\ hookNumber' = [hookNumber EXCEPT ![a] = hookRows[HookCurrent(a)].count + 1]
    /\ HookGoto(a, "posting")
    /\ UNCHANGED <<endpoint, hookRows, received, hookBatch, hookHistory>>

\* The post may arrive without its answer arriving.
PostDelivery(a) ==
    /\ hookPc[a] = "posting"
    /\ \/ received' = received \cup {HookCurrent(a)} /\ HookGoto(a, "answered")
       \/ received' = received \cup {HookCurrent(a)} /\ HookGoto(a, "failed")
       \/ HookGoto(a, "failed") /\ UNCHANGED received
    /\ UNCHANGED <<endpoint, hookRows, hookBatch, hookNumber, hookHistory>>

\* The row and its WebhookRetry in one transaction.
SaveDelivery(a) ==
    LET d == HookCurrent(a)
        n == hookNumber[a]
    IN  /\ hookPc[a] \in {"answered", "failed"}
        /\ hookRows[d].status \in HookStored
        /\ hookRows' = [hookRows EXCEPT ![d] =
               HookRecorded(d, n, IF hookPc[a] = "answered" THEN "SUCCESS"
                                  ELSE HookFailedStatus(n))]
        /\ HookGoOn(a, Tail(hookBatch[a]))
        /\ UNCHANGED <<endpoint, received, hookHistory>>

\* The delivery is gone: there is nothing to attempt, or nowhere to record the attempt.
SkipRemoved(a) ==
    /\ hookPc[a] \in {"reading", "answered", "failed", "rearming"}
    /\ hookRows[HookCurrent(a)].status = "removed"
    /\ HookGoOn(a, Tail(hookBatch[a]))
    /\ UNCHANGED <<endpoint, hookRows, received, hookHistory>>

\* An attempt is cut short: its sweep goes on after an error, and ends with its process.
LoseDelivery(a) ==
    /\ hookPc[a] # "idle"
    /\ hookLost < MaxHookLost
    /\ hookLost' = hookLost + 1
    /\ \E rest \in {Tail(hookBatch[a]), <<>>} : HookGoOn(a, rest)
    /\ UNCHANGED <<endpoint, hookRows, received, hookRetries>>

\* retry: the check.
AskHookRetry(o, d) ==
    /\ hookPc[o] = "idle"
    /\ hookRows[d].status = "EXHAUSTED"
    /\ hookRetries < MaxHookRetries
    /\ hookRetries' = hookRetries + 1
    /\ hookBatch' = [hookBatch EXCEPT ![o] = <<d>>]
    /\ HookGoto(o, "rearming")
    /\ UNCHANGED <<endpoint, hookRows, received, hookNumber, hookLost>>

\* retry: the update, which does not look at the status again, and an attempt at once.
RearmDelivery(o) ==
    /\ hookPc[o] = "rearming"
    /\ hookRows[HookCurrent(o)].status \in HookStored
    /\ hookRows' = [hookRows EXCEPT ![HookCurrent(o)] =
                        [@ EXCEPT !.status = "RETRYING", !.ready = TRUE]]
    /\ HookGoOn(o, hookBatch[o])
    /\ UNCHANGED <<endpoint, received, hookHistory>>

HookAttempt(a) == ReadDelivery(a) \/ PostDelivery(a) \/ SaveDelivery(a) \/ SkipRemoved(a)

HookNext ==
    \/ \E d \in Deliveries : CheckEndpoint(d) \/ EnqueueDelivery(d) \/ HookRipen(d)
    \/ SetEndpointStatus \/ RemoveEndpoint
    \/ \E w \in HookWorkers : HookSweep(w)
    \/ \E a \in HookActors : HookAttempt(a) \/ LoseDelivery(a)
    \/ \E o \in HookOperators : RearmDelivery(o) \/ \E d \in Deliveries : AskHookRetry(o, d)

\* Time passes, sweeps are started for ever, and what a process has begun it goes on with.
HookFairness ==
    /\ \A d \in Deliveries : WF_hookVars(HookRipen(d))
    /\ \A w \in HookWorkers : WF_hookVars(HookSweep(w))
    /\ \A a \in HookActors : WF_hookVars(HookAttempt(a))
    /\ \A o \in HookOperators : WF_hookVars(RearmDelivery(o))

HookSpec == HookInit /\ [][HookNext]_hookVars /\ HookFairness

-----------------------------------------------------------------------------
HookTypeOK ==
    /\ endpoint \in {"ENABLED", "DISABLED", "removed"}
    /\ hookRows \in [Deliveries ->
           [ status : HookStatuses, count : Nat, ready : BOOLEAN, recorded : SUBSET (Nat \ {0}) ]]
    /\ received \subseteq Deliveries
    /\ hookPc \in [HookActors -> HookSteps]
    /\ hookBatch \in [HookActors -> Seq(Deliveries)]
    /\ \A a \in HookActors : hookPc[a] = "idle" <=> hookBatch[a] = <<>>
    /\ hookNumber \in [HookActors -> Nat]
    /\ hookRetries \in 0..MaxHookRetries /\ hookLost \in 0..MaxHookLost

HookOutcome ==
    [d \in Deliveries |->
        CASE hookRows[d].status \in {"none", "checked"} -> "none"
          [] hookRows[d].status = "SUCCESS" -> "done"
          [] hookRows[d].status = "EXHAUSTED" -> "dead"
          [] hookRows[d].status = "removed" -> "withdrawn"
          [] OTHER -> "open"]

HookRetriesOf == [d \in Deliveries |-> hookRows[d].recorded]

HookOutbox == INSTANCE Outbox WITH
    Items <- Deliveries, MaxAttempts <- MaxHookAttempts,
    outcome <- HookOutcome, effects <- received, recorded <- HookRetriesOf

\* A delivery is an outbox item: it is a success only if the developer's server has
\* received it, exhausted only with every attempt on record, reopened only after that,
\* and not touched any more once its endpoint is removed.
HookImplementsOutbox == HookOutbox!OutboxSpec

\* Every delivery ends up received, exhausted or removed, and stays so: none is forgotten
\* or retried for ever, whichever sweeps, retries and removals overlap.
EveryDeliverySettles ==
    \A d \in Deliveries : <>[](hookRows[d].status \notin {"PENDING", "RETRYING"})
===============================================================================
