------------------------------ MODULE SyncEngine ------------------------------
(***************************************************************************)
(* The engine that books financial events in the organization's ERP.       *)
(*                                                                         *)
(* A financial event gets a FinancialSync row in the transaction that      *)
(* records it.  Sweeps, started every thirty seconds in every replica and  *)
(* claiming nothing, attempt the rows that are due; an attempt reads the   *)
(* row, drives the invoice, the receipt and the payment through the ERP,   *)
(* and records its outcome.  A row that has failed MaxAttempts times is a  *)
(* dead letter until an operator retries it.                               *)
(*                                                                         *)
(* The ERP is external: it is modelled by what the engine relies on, that  *)
(* it creates one entity for an idempotency key, however often it is asked *)
(* and whether or not its answers arrive.                                  *)
(***************************************************************************)
EXTENDS Naturals, Sequences, FiniteSets

CONSTANTS
    NumEvents,          \* financial events are numbered as they are created
    SyncWorkers,        \* sweeps that may run at the same time
    SyncOperators,      \* people who retry dead letters
    MaxSyncAttempts,    \* MAX_ATTEMPTS
    SyncBatchSize,      \* SWEEP_BATCH_SIZE
    MaxSyncRetries,     \* bound on the retries by hand
    MaxSyncLost         \* bound on the attempts cut short: failures are not for ever

ASSUME SyncAssumption ==
    /\ NumEvents \in Nat
    /\ SyncWorkers \cap SyncOperators = {}
    /\ MaxSyncAttempts \in Nat \ {0} /\ SyncBatchSize \in Nat \ {0}
    /\ MaxSyncRetries \in Nat /\ MaxSyncLost \in Nat

VARIABLES
    syncRows,       \* syncRows[e]: the FinancialSync row of event e and its SyncError
    connected,      \* whether ERPConnection.status is CONNECTED
    erp,            \* the entities in the ERP
    syncPc,         \* syncPc[a]: what sweep or operator a does next
    syncBatch,      \* syncBatch[a]: the events it has still to attempt
    syncNumber,     \* syncNumber[a]: number of its attempt at the first of them
    syncRetries,    \* history: how many retries were asked for
    syncLost        \* history: how many attempts were cut short

syncActors == <<syncPc, syncBatch, syncNumber>>
syncHistory == <<syncRetries, syncLost>>
syncVars == <<syncRows, connected, erp, syncActors, syncHistory>>

FinancialEvents == 1..NumEvents
SyncActors == SyncWorkers \cup SyncOperators

CallSteps == {"invoice", "receipt", "payment"}
SyncSteps == {"idle", "rearming", "reading", "resolving", "succeeded", "failed"} \cup CallSteps
SyncStatuses == {"none", "PENDING", "RETRYING", "SUCCESS", "DEAD_LETTER"}
Providers == {"INTERNAL", "LEDGIX_ERP"}

-----------------------------------------------------------------------------
\* charge: whether the event stands for a real charge.
NoRow == [ status |-> "none", provider |-> "INTERNAL", charge |-> FALSE, count |-> 0,
           ready |-> TRUE, error |-> "none", recorded |-> {} ]

\* Variant: a sync that has failed is not due any more.
SyncIsDueOnce(e) == syncRows[e].status = "PENDING" /\ syncRows[e].ready

\* ready: nextAttemptAt is null or has passed.
SyncIsDue(e) == syncRows[e].status \in {"PENDING", "RETRYING"} /\ syncRows[e].ready

\* What a sweep takes: the oldest of the events that are due, in their order.
SyncBatches == UNION { [1..n -> FinancialEvents] : n \in 1..SyncBatchSize }

SyncDueBatch(b) ==
    /\ \A i \in DOMAIN b : SyncIsDue(b[i])
    /\ \A i, j \in DOMAIN b : i < j => b[i] < b[j]
    /\ \A e \in FinancialEvents : SyncIsDue(e) =>
           (\E i \in DOMAIN b : b[i] = e) \/ (Len(b) = SyncBatchSize /\ b[Len(b)] < e)

\* Variant: every attempt has a key of its own.
SyncKeyPerAttempt(e, kind, n) == <<e, kind, n>>

\* The idempotency key of a call: the sync and the resource, whichever the attempt.
SyncKey(e, kind, n) == <<e, kind>>

\* External: asked under a key it knows, the ERP creates nothing.
ErpAfter(e, kind, n) == erp \cup { [event |-> e, kind |-> kind, key |-> SyncKey(e, kind, n)] }

\* The event is booked: one that is no charge, or is internal, asks for nothing.
Booked(e) ==
    \/ ~ syncRows[e].charge
    \/ syncRows[e].provider = "INTERNAL"
    \/ \A kind \in CallSteps : \E x \in erp : x.event = e /\ x.kind = kind

SyncCurrent(a) == Head(syncBatch[a])

SyncGoto(a, step) == syncPc' = [syncPc EXCEPT ![a] = step]

\* Actor a has still to attempt these events.
SyncGoOn(a, rest) ==
    /\ syncBatch' = [syncBatch EXCEPT ![a] = rest]
    /\ SyncGoto(a, IF rest = <<>> THEN "idle" ELSE "reading")
    /\ syncNumber' = [syncNumber EXCEPT ![a] = 0]

\* Variant: the failure before the last one is final.
SyncFailedStatusEarly(n) == IF n >= MaxSyncAttempts - 1 THEN "DEAD_LETTER" ELSE "RETRYING"

\* The status of a sync whose n-th attempt has failed.
SyncFailedStatus(n) == IF n >= MaxSyncAttempts THEN "DEAD_LETTER" ELSE "RETRYING"

SucceededRow(row, n) ==
    [row EXCEPT !.status = "SUCCESS", !.recorded = row.recorded \cup {n}]

\* A dead letter has no nextAttemptAt, and its SyncError is opened again.
FailedRow(row, n) ==
    LET status == SyncFailedStatus(n)
        dead == status = "DEAD_LETTER"
    IN  [row EXCEPT !.status = status, !.count = n, !.recorded = row.recorded \cup {n},
                    !.ready = dead, !.error = IF dead THEN "open" ELSE row.error]

-----------------------------------------------------------------------------
SyncInit ==
    /\ syncRows = [e \in FinancialEvents |-> NoRow]
    /\ connected = FALSE
    /\ erp = {}
    /\ syncPc = [a \in SyncActors |-> "idle"]
    /\ syncBatch = [a \in SyncActors |-> <<>>]
    /\ syncNumber = [a \in SyncActors |-> 0]
    /\ syncRetries = 0 /\ syncLost = 0

\* record: the event, its queue entry and its sync row in one transaction.
RecordEvent(e) ==
    /\ syncRows[e].status = "none"
    /\ \A f \in 1..e - 1 : syncRows[f].status # "none"
    /\ \E p \in Providers, c \in BOOLEAN :
           syncRows' = [syncRows EXCEPT ![e] =
               [@ EXCEPT !.status = "PENDING", !.provider = p, !.charge = c]]
    /\ UNCHANGED <<connected, erp, syncActors, syncHistory>>

\* The connection is tested; or it is disconnected, or given a new key.
TestConnection ==
    /\ connected' \in BOOLEAN
    /\ UNCHANGED <<syncRows, erp, syncActors, syncHistory>>

DropConnection ==
    /\ connected' = FALSE
    /\ UNCHANGED <<syncRows, erp, syncActors, syncHistory>>

\* The time a sync waits for comes.
SyncRipen(e) ==
    /\ ~ syncRows[e].ready
    /\ syncRows' = [syncRows EXCEPT ![e].ready = TRUE]
    /\ UNCHANGED <<connected, erp, syncActors, syncHistory>>

\* processDue: a sweep takes its batch, and claims none of it.
SyncSweep(w) ==
    /\ syncPc[w] = "idle"
    /\ \E b \in SyncBatches : SyncDueBatch(b) /\ SyncGoOn(w, b)
    /\ UNCHANGED <<syncRows, connected, erp, syncHistory>>

\* attemptSync reads the row, whatever its status is by now.
ReadSync(a) ==
    /\ syncPc[a] = "reading"
    /\ syncNumber' = [syncNumber EXCEPT ![a] = syncRows[SyncCurrent(a)].count + 1]
    /\ SyncGoto(a, "resolving")
    /\ UNCHANGED <<syncRows, connected, erp, syncBatch, syncHistory>>

\* The provider decides; the ERP must be connected even for an event that is no charge.
ResolveSync(a) ==
    /\ syncPc[a] = "resolving"
    /\ LET e == SyncCurrent(a)
       IN  SyncGoto(a, IF syncRows[e].provider = "INTERNAL" THEN "succeeded"
                       ELSE IF ~ connected THEN "failed"
                       ELSE IF syncRows[e].charge THEN "invoice"
                       ELSE "succeeded")
    /\ UNCHANGED <<syncRows, connected, erp, syncBatch, syncNumber, syncHistory>>

AfterCall(kind) ==
    CASE kind = "invoice" -> "receipt" [] kind = "receipt" -> "payment" [] OTHER -> "succeeded"

\* A call, its three tries included: it may take effect, and no answer arrive.
CallErp(a) ==
    /\ syncPc[a] \in CallSteps
    /\ \/ /\ erp' = ErpAfter(SyncCurrent(a), syncPc[a], syncNumber[a])
          /\ SyncGoto(a, AfterCall(syncPc[a]))
       \/ /\ erp' = ErpAfter(SyncCurrent(a), syncPc[a], syncNumber[a])
          /\ SyncGoto(a, "failed")
       \/ /\ SyncGoto(a, "failed")
          /\ UNCHANGED erp
    /\ UNCHANGED <<syncRows, connected, syncBatch, syncNumber, syncHistory>>

\* The row and its history in one transaction; a success leaves attemptCount alone.
SaveSuccess(a) ==
    /\ syncPc[a] = "succeeded"
    /\ syncRows' = [syncRows EXCEPT ![SyncCurrent(a)] = SucceededRow(@, syncNumber[a])]
    /\ SyncGoOn(a, Tail(syncBatch[a]))
    /\ UNCHANGED <<connected, erp, syncHistory>>

SaveFailure(a) ==
    /\ syncPc[a] = "failed"
    /\ syncRows' = [syncRows EXCEPT ![SyncCurrent(a)] = FailedRow(@, syncNumber[a])]
    /\ SyncGoOn(a, Tail(syncBatch[a]))
    /\ UNCHANGED <<connected, erp, syncHistory>>

\* An attempt is cut short: its sweep goes on after an error, and ends with its process.
LoseAttempt(a) ==
    /\ syncPc[a] # "idle"
    /\ syncLost < MaxSyncLost
    /\ syncLost' = syncLost + 1
    /\ \E rest \in {Tail(syncBatch[a]), <<>>} : SyncGoOn(a, rest)
    /\ UNCHANGED <<syncRows, connected, erp, syncRetries>>

\* retry: the check.
AskSyncRetry(o, e) ==
    /\ syncPc[o] = "idle"
    /\ syncRows[e].status = "DEAD_LETTER"
    /\ syncRetries < MaxSyncRetries
    /\ syncRetries' = syncRetries + 1
    /\ syncBatch' = [syncBatch EXCEPT ![o] = <<e>>]
    /\ SyncGoto(o, "rearming")
    /\ UNCHANGED <<syncRows, connected, erp, syncNumber, syncLost>>

\* retry: the update, which does not look at the status again.  A member of the
\* organization starts an attempt at once; a platform administrator leaves it to a sweep.
RearmSync(o) ==
    /\ syncPc[o] = "rearming"
    /\ syncRows' = [syncRows EXCEPT ![SyncCurrent(o)] =
           [@ EXCEPT !.status = "PENDING", !.ready = TRUE, !.error = "resolved"]]
    /\ \E rest \in {syncBatch[o], <<>>} : SyncGoOn(o, rest)
    /\ UNCHANGED <<connected, erp, syncHistory>>

SyncAttempt(a) ==
    ReadSync(a) \/ ResolveSync(a) \/ CallErp(a) \/ SaveSuccess(a) \/ SaveFailure(a)

SyncNext ==
    \/ \E e \in FinancialEvents : RecordEvent(e) \/ SyncRipen(e)
    \/ TestConnection \/ DropConnection
    \/ \E w \in SyncWorkers : SyncSweep(w)
    \/ \E a \in SyncActors : SyncAttempt(a) \/ LoseAttempt(a)
    \/ \E o \in SyncOperators : RearmSync(o) \/ \E e \in FinancialEvents : AskSyncRetry(o, e)

\* Time passes, sweeps are started for ever, and what a process has begun it goes on with.
SyncFairness ==
    /\ \A e \in FinancialEvents : WF_syncVars(SyncRipen(e))
    /\ \A w \in SyncWorkers : WF_syncVars(SyncSweep(w))
    /\ \A a \in SyncActors : WF_syncVars(SyncAttempt(a))
    /\ \A o \in SyncOperators : WF_syncVars(RearmSync(o))

SyncSpec == SyncInit /\ [][SyncNext]_syncVars /\ SyncFairness

-----------------------------------------------------------------------------
SyncTypeOK ==
    /\ syncRows \in [FinancialEvents ->
           [ status : SyncStatuses, provider : Providers, charge : BOOLEAN, count : Nat,
             ready : BOOLEAN, error : {"none", "open", "resolved"}, recorded : SUBSET (Nat \ {0}) ]]
    /\ connected \in BOOLEAN
    /\ \A x \in erp : x.event \in FinancialEvents /\ x.kind \in CallSteps
    /\ syncPc \in [SyncActors -> SyncSteps]
    /\ syncBatch \in [SyncActors -> Seq(FinancialEvents)]
    /\ \A a \in SyncActors : syncPc[a] = "idle" <=> syncBatch[a] = <<>>
    /\ syncNumber \in [SyncActors -> Nat]
    /\ syncRetries \in 0..MaxSyncRetries /\ syncLost \in 0..MaxSyncLost

\* A financial event is never booked twice in the ERP, whatever sweeps and retries
\* overlap and whichever answers are lost: at most one invoice, receipt and payment.
OneEntityPerSync ==
    \A x, y \in erp : x.event = y.event /\ x.kind = y.kind => x = y

SyncOutcome ==
    [e \in FinancialEvents |->
        CASE syncRows[e].status = "none" -> "none"
          [] syncRows[e].status = "SUCCESS" -> "done"
          [] syncRows[e].status = "DEAD_LETTER" -> "dead"
          [] OTHER -> "open"]

SyncEffects == { e \in FinancialEvents : syncRows[e].status # "none" /\ Booked(e) }

SyncRecorded == [e \in FinancialEvents |-> syncRows[e].recorded]

SyncOutbox == INSTANCE Outbox WITH
    Items <- FinancialEvents, MaxAttempts <- MaxSyncAttempts,
    outcome <- SyncOutcome, effects <- SyncEffects, recorded <- SyncRecorded

\* A sync is an outbox item: it is a success only if its event is booked, a dead
\* letter only with every attempt on record, and reopened only after that.
SyncImplementsOutbox == SyncOutbox!OutboxSpec

\* Every financial event ends up booked or on the list of dead letters, and stays there:
\* no row is forgotten, retried for ever, or bounced between overlapping sweeps.
EverySyncSettles ==
    \A e \in FinancialEvents :
        <>[](syncRows[e].status \in {"none", "SUCCESS", "DEAD_LETTER"})
===============================================================================
