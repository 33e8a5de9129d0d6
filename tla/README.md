# Paywall: a TLA+ verification project

This directory specifies the back end of the paywall (`src/apps/api`, a NestJS
service over PostgreSQL through Prisma) in TLA+, checks the specifications with
TLC on small instances, and proves theorems about them with TLAPS. File names
below are relative to `src/apps/api/src`.

The system has no message broker and no locks of its own: replicas of one API
process read and write one database. A handler is a sequence of round trips,
and between any two of them another handler may run, or the process may die. The
database runs at its default isolation, READ COMMITTED: inside `$transaction` a
statement reads what is committed when it runs, all writes become visible at the
commit, and a violated unique index rolls them back. Almost every hazard in this
code is a value read in one round trip and used in a later one.

## 1. Inventory

| Component | State it keeps | Operations | Talks to |
|---|---|---|---|
| Subscription lifecycle (`subscriptions/`, `admin-subscriptions/`) | Subscription, SubscriptionItem, Trial, SubscriptionChange, SubscriptionEvent | create, activate, renew, applyChange, scheduleChange, cancelScheduledChange, cancel (now, at period end), resume, pause, markPastDue, enterGracePeriod, expire, suspend, reactivate, extendTrial; complimentary grant, override of the renewal date | publishes platform events and books prorations after its commits; called by the API, by administrators and by the payment dispatcher |
| Payment pipeline (`webhooks-incoming`, `payments/`, `financial-events/`) | PaymentWebhook, PaymentTransaction, PaymentRefund, PaymentDispute, FinancialEvent | webhook intake, dispatch of ten kinds of event, manual transactions, refunds, ledger `record` | subscription service, event bus, ERP sync rows |
| Background jobs (`background-jobs/`, `scheduler/`, `platform-events/`) | BackgroundJob, JobHistoryEntry, QueueControl, PlatformEvent | sweep and attempt, recurrence, enqueue when a replica boots, publish, cancel, retry, pause, resume | automation rules and maintenance tasks as processors |
| ERP sync (`financial-events/sync-engine.service.ts`, `erp-connector/`) | FinancialSync, SyncError, ERPConnection | sweep every 30 s, attempt, retry by hand, dead letter, test of the connection | the ERP over HTTP, with idempotency keys |
| Outgoing webhooks (`webhooks/`) | WebhookDelivery, its attempts, WebhookEndpoint | enqueue, sweep, deliver, retry by hand, remove the endpoint | subscribers' endpoints |
| Seats, licenses and devices (`seats/`, `licenses/`, `devices/`) | LicenseSeat, SeatAssignment, LicenseKey, DeviceRegistration | create, assign, remove and transfer seats; generate, activate, revoke and move keys; register, block, remove devices | entitlements |
| Entitlements and usage (`entitlements/`, `usage-limits/`) | EntitlementGrant, FeatureAccess, UsageLimit, UsageCounter | grant, revoke, materialize from a plan, recompute; authorise, record, give back, reset | reads subscriptions |
| Coupons (`coupons/`) | Coupon, PromotionCode, SubscriptionCoupon | resolve, apply, remove, archive, deactivate | reads subscriptions |
| Members and invitations (`organizations/`, `applications/`, `invitations/`) | OrganizationMember, ApplicationMember, DeveloperInvitation | change a role, leave, transfer the ownership; invite, resend, revoke, accept | |
| Authentication and API keys, automation rules, notifications | one or two tables each | sessions and secrets; rules; deliveries of mail | rules and mail run as background jobs |
| Catalogue, reports, web front end, SDK | none that the others rely on | create/read/update/delete, queries, rendering | |

The web front end (`src/apps/web`), the analytics and the catalogue are most of
the repository's 68,000 lines. The services above are the part whose correctness
depends on the order of steps, and the specifications are about them.

What makes them hard, and what would make them correct:

* **Subscriptions.** The row is read, checked against the allow-list and updated
  by id alone, without a lock and without the version in the WHERE clause.
  Correct: row, trial, item and event log agree; an idempotency key takes effect
  once; every change moves the version; a scheduled change is applied once; a
  cancellation at period end is honoured; what is published is what was
  committed. Hard: overlapping requests, retries, a crash between the commit and
  the publication, long sequences of schedule, resume and renew.
* **Payments.** Nothing in the pipeline is a transaction: intake, row, status,
  subscription, ledger and announcement are separate writes, and providers
  deliver events twice, late and out of order. Correct: a PROCESSED event has
  all its effects, nothing is booked twice under one key, the ledger never runs
  ahead of the transactions it books.
* **Background jobs.** Sweeps overlap (the interval does not wait, and every
  replica has one) and claim nothing. Correct: outcome and history agree,
  retries end, no job is left behind, a recurring task has one chain.
* **ERP sync and webhooks.** The same sweep shape against an outside party: a
  row sent twice, a manual retry racing with a sweep, a lost answer, an endpoint
  that is removed under an attempt. Correct: done only when the effect has
  happened, given up only with every attempt on record, no entity created twice,
  every item settles in the end.
* **Limits.** Seats and keys count by compare-and-swap, devices in a
  serializable transaction, seats in bulk, coupons and usage by a read and a
  later write. Correct: the limit holds, or is passed by no more than the race
  allows; what is counted is what was done.
* **Owners, invitations, access.** A row is read, judged, and written later by
  its id. Correct: an organization keeps an owner, an invitation is used once,
  the access row the runtime reads is what the grants say. Where the code lets a
  race break this, the property says that nothing but that race does.

`PROJECT.json` lists the components with their sources and, under `hazards`,
every place found so far that is hard to test, with the properties that watch it.

## 2. Modules

| Module | Models |
|---|---|
| `SubscriptionStatus` | the statuses and the allow-list of `subscription-state-machine.ts` |
| `SubscriptionLifecycle` | abstract: a subscription moves along the allow-list, a key is spent once |
| `Subscriptions` | the subscription service, step by step |
| `SubscriptionsProofs` | its theorems |
| `PaymentPipeline` | webhook intake, dispatcher, manual transactions, refunds, ledger |
| `JobWorker` | worker, scheduler, event bus, administrators of queues |
| `PaymentPipelineProofs`, `JobWorkerProofs` | their theorems |
| `Outbox` | abstract: an item is accepted, attempted, done, given up, reopened |
| `SyncEngine`, `WebhookDispatch` | the two engines that deliver to the outside; each implements `Outbox` |
| `SyncEngineProofs`, `WebhookDispatchProofs` | their theorems |
| `Seats`, `LicenseKeys`, `Devices` | what a license limits |
| `Coupons` | redemptions of a coupon and its codes |
| `Memberships`, `Invitations` | who is in, and who owns |
| `Entitlements`, `UsageCounters` | what the runtime is allowed, and how often |
| `LimitsProofs` | theorems about `Seats`, `LicenseKeys` and `Coupons` |
| `AccessProofs` | theorems about `Memberships`, `Invitations`, `UsageCounters`, `Devices` and `Entitlements` |
| `MCSubscriptions`, `MCPaymentPipeline`, `MCJobWorker` | instances for TLC: symmetry sets, the provider's events |
| `MCServices` | the ten service modules side by side, for TLC; theorems in `MCServicesProofs` |

A module holds its component's state, `Init`, one action per step of an
operation, `Next`, `Spec`, the type invariant, and its properties. Operators
whose comment begins with "Variant" are plausible mistakes in the code; `Spec`
does not use them. `PROJECT.json` pairs each with the property that would notice.

### Subscriptions

`sub`, `item`, `trial`, `changes` and `events` are the tables. A worker `r` in
`Requests` serves one call at a time: `call[r]` is the request, `snap[r]` the row
as read, `pc[r]` the step to come. A transition is `BeginTransition` (or
`BeginRenew` and `FindDueChange`), which reads and decides, and
`CommitTransition`, which writes. cancel at period end, schedule, unschedule and
extendTrial use no transaction around all of their writes and have one action
per write. `Fail` is an error, a deadlock, a time-out or a crash at any point;
the follow-up of a committed event (`Tell`) is lost with its request.

Merged or left out: the reads of row, key and version at the start of a
transaction are one step; renew's two look-ups for changes are separate steps, the
second without a filter on the type, as in the code; the clock is read at the
commit. Plan, price and quantity are one value, since callers name them
together. gracePeriodEnd, canceledAt, proration amounts, coupons and audit rows are
left out. The update goes by id only, and row locks make a commit atomic. activate and
extendTrial lock trial and subscription in opposite orders: PostgreSQL kills one
of them, which is `Fail`. A canceled or suspended trial subscription leaves its
Trial ACTIVE, as the code does. The two publications of a creation with a trial
are one follow-up.

### PaymentPipeline

`webhook`, `txn`, `sub`, `refunds`, `disputes`, `ledger` and `published` are the
tables; there is one subscription. A worker takes one event at a time and carries
in `todo[w]` the steps the event still calls for (`Program`), so that each of the
code's round trips is one action. `Error`, `FailWebhook` and `Die` are the catch
blocks, the mark FAILED and a crash. `MoveElsewhere` is any other request of the
subscription API: as `Subscriptions` shows that overlapping requests leave the
allow-list, it moves the row to any status in `Elsewhere`.

The subscription service and `FinancialEventsService.record` (look-up, insert,
unique index) are one step each. Amounts are reduced to full or partial.
SUBSCRIPTION_CREATED, PAYMENT_PENDING and REFUND_CREATED do what modelled types
do, or nothing. A webhook request carries one event; the look-up of the
transaction and the read of the subscription it is linked to are one step; the
organization has a customer; sync rows of the ledger belong to the sync engine.

### JobWorker

`jobs` and `history` are the tables, oldest first (nobody sets a priority, so age
is the order). A worker `w` is one sweep: `Sweep` takes its batch, and `Read`,
`Claim`, `Succeed`, `Tell`, `Recur`, `FailAttempt` and `GiveUp` are the round trips of
`attempt()`. `Abandon` is a database error that `processDue()` catches and `Die` is
a crash. A boot is `FindMissing` and `EnqueueFirst` for a task; a publication is
`Publish`, `MatchRules` and one `EnqueueRule` per rule. Administrators check
(`AskCancel`, `AskRetry`) and write later (`Cancel`, `Retry`). `Ripen` is the
passing of the time a job waits for, so backoff and schedule are "some time
later". What a processor does is left out: it returns or throws. The read of the
paused queues and the query for due jobs are one step. The clean-up that deletes finished jobs
after 90 days is left out.

### SyncEngine, WebhookDispatch and Outbox

`syncRows` and `hookRows` are the tables, `erp` and `received` what the outside has.
An actor is a sweep or an operator who retries by hand; `syncBatch[a]` is what it
has still to attempt, and each of the code's round trips is a step: read the row,
resolve the provider, one call per entity, save. A sweep claims nothing, so
two of them, or a sweep and an operator, may attempt one row at a time. `LoseAttempt`
and `LoseDelivery` are a process that dies or an unexpected error at any point, also after the call
and before the save. `SyncRipen` and `HookRipen` are the passing of a backoff.

The ERP is external: it creates one entity for an idempotency key and may lose
the answer. An event of the INTERNAL provider has nothing to book and has its effect at
once. The endpoint of a webhook is created, disabled or removed under way, with
its deliveries. Left out: lastSyncedAt, payloads, the filter on event types,
secrets (`webhook-endpoints.service.ts` creates one with the endpoint and rotates it in one
transaction, so an attempt always finds one; two rotations at a time may leave two active).

`Outbox` is what both promise. An item is `none`, `open`, `done`, `dead` or
`withdrawn` (its endpoint is gone). It is done only with its effect, dead only
with all attempts on record under numbers without gaps, reopened only if it was
given up at some time. Done is not promised to be final: an attempt that overlaps
with the successful one is recorded after it, and the row may then say RETRYING or
DEAD_LETTER of something that was delivered. That is what the code does.

### Seats, LicenseKeys, Devices

`Seats` is one license: every statement of bulk creation, assignment (compare-and-swap of
the seat, then the row), removal and transfer is a step, and a request may end
after any of them (`CutSeatRequest`). `clashed` remembers the seats of which an
assignment was ended twice: removal and transfer read the assignment and write
it by id alone, and this is the only way two people get to share a seat.

`LicenseKeys` has the compare-and-swap on `activationCount` with its retries, and
keys that expire, are revoked and move meanwhile. `granted` and `outlived` count
what was answered. In `Devices` a registration is one step, since its
transaction is serializable; the check and the write of a block are two. The
update of a known device does not count, so a device may bring itself to a
license that is full: `moved` are those. A limit of null is unlimited and left
out of all three; keys and devices are handled per row, the life cycle of a
license and the assignment of individual licenses are left out.

### Coupons, Memberships, Invitations

A redemption is resolved, with all of its checks, and applied in a transaction later. `Coupons` has one coupon;
the product and plan it applies to do not change and are part of the request.
Removing a redemption gives nothing back. `Memberships` reduces the six roles to
OWNER and MEMBER, which is what the checks tell apart; `ReadMembership`,
`CheckMembership` and `WriteMembership` are the round trips; who has left does not
come back. `raced` says that an ownership was taken away by a request since whose read the owners had changed. `Invitations`
is one address and one application: a link stands for the invitation whose token
it carries, adding or removing the member directly is one step each, and
`crossed` are the invitations a request wrote after another one had.

### Entitlements and UsageCounters

`Entitlements` is one entitlement of one organization. Granting, revoking and
materializing end with a recomputation, in two steps: `PickWinner` reads the valid
grants, `CacheAccess` writes the row. `overtaken` are the recomputations that read
before another change, and `drifted` says that the row may lag: a grant lapsed, a
request ended early, or an overtaken recomputation wrote last.

In `UsageCounters` an increment reads limit and counter and writes the sum; a
decrement is one statement that subtracts and one that lifts a negative counter
to zero. `owed` is what was recorded, and `tangled` says that an increment was
written over a value it had not read, or over one below zero. periodEnd is never
set anywhere, so the lazy reset is dead code and left out. The other reads of the
runtime change nothing.

### MCServices

The ten services share no table that any of them writes: a behaviour of the
platform is, for each of them, a behaviour of that service. So one run checks
them all: `focus` is the service that steps in a behaviour, and the state space is
the sum of theirs, not the product. Fairness is the two engines'.

## 3. Runs

| Run | Instance | Shows |
|---|---|---|
| `subscriptions_concurrent` | 2 workers, 2 subscriptions, 1 key, 7 operations | key applied once, log and row agree, TRIALING has its open trial, one trial, one follow-up, versions |
| `subscriptions_serial` | 1 worker, 1 subscription, 2 plans, 1 key, 16 operations | implements `SubscriptionLifecycle`; chain of events, plan and item, scheduled switches, cancellations, expectedVersion |
| `subscriptions_overlap` | 2 workers | **violated** `StatusFollowsAllowList` |
| `subscriptions_retry` | 1 worker, 1 key | **violated** `SpentKeyHasNoEffect` |
| `subscriptions_resume` | 1 worker | **violated** `RenewCancelsOnlyFlagged` |
| `payments_pipeline` | 2 workers, 7 events, 2 transactions | processed is booked, paid is activated, statuses explained, ledger backed |
| `payments_refund` | 1 worker, a refund event | **violated** `RefundBookedOnce` |
| `payments_renewal` | 1 worker, the two events of a renewal | **violated** `ChargeBookedOnce` |
| `jobs_sweeps` | 2 sweeps, 1 replica, 1 task, 1 event with up to 1 rule | outcome and history agree, dead letters, PROCESSING is held, chains live, event outcomes, every job settles |
| `jobs_chain` | 1 sweep, 1 replica | **violated** `OneChainPerTask` |
| `services` | ten services, see below | both engines implement `Outbox` and settle; one entity per key in the ERP; seats are exclusive and bounded; activations, devices, redemptions within their limits; the last owner; invitations; access and usage are what the rows say |
| `licensing_seats` | 2 requests, 2 seats | **violated** `NeverOverAllocated` |

A violated run checks what a comment of the repository says of the code; the
entry under `findings` quotes it and tells what happens instead.

**Bounds.** Every interference in this code is between two parties over one row
or one index, so two workers show it; a third adds a different loser, not a
different race. Two subscriptions are needed for what is unique across
subscriptions, two plans for a switch, one key because keys only matter when they
are equal (each request may also have none). ``MaxVersion` ends the life of a
subscription after a few writes (renew, schedule and renew again fit),
`MaxChanges` and `MaxTime` end schedules, `MaxRequests` limits the distinct
events and administrators' requests of a payment behaviour while each may be
delivered again at any time, `MaxRows` limits refund and dispute rows. In
`JobWorker`, `MaxJobs` limits what is enqueued apart from next occurrences,
`MaxRuns` is the occurrence that never gets due, and `MaxLost` limits crashes.
With `MaxJobs = 1` a behaviour has a recurring chain or an event, not both;
they share no row but the batch. Larger instances take longer than a few minutes.

In `services`, two sweeps and an operator work on one item with two attempts,
one retry by hand and one lost attempt: overlap, exhaustion and reopening all
happen, and more items only lengthen the batches (the proofs hold for any number).
Seats: 2 requests, 1 seat per bulk, limit 1, 2 tries, 3 assignments, so that a
bulk passes the limit and a compare-and-swap loses. Keys: 3 requests, 1 key of
limit 1 or 2, 2 licenses, 2 tries. Devices: 3 devices, 2 licenses of limit 1, so that
one can move. Coupons: 2 requests, 1 code, limits 2 and 1. Members: 2 people, 2
requests. Grants: 2 requests, one hand source (MANUAL) against a plan of value 1 or 2, 2 grants.
Invitations: 2 requests, 2 invitations. Usage: 2 requests, limit 1 or none, amounts
and usage up to 2. `MaxSyncRetries`, `MaxHookRetries`, `MaxSyncLost`, `MaxHookLost`,
`MaxAssignments`, `MaxGrants`, `MaxInvitations`, `MaxAmount` and `MaxUsage` are
bounds of the specifications; the other numbers are values of the code's own limits.

All specifications stop at their bounds, so the configurations switch deadlock checking off.
Workers, subscriptions and plans are symmetric; no symmetry is used with liveness.

**Fairness.** `Subscriptions` and `PaymentPipeline` assume none: clients and
providers owe nothing, and nothing in the code retries on its own.
`JobWorker` assumes weak fairness of `Ripen` (time passes) and, per worker, of
`Work` (setInterval starts a sweep every ten seconds in every replica; processors
return). Nothing is assumed of administrators, boots, publishers or crashes.
Under it `EveryJobSettles`: a job ends in SUCCESS, DEAD_LETTER or CANCELLED,
unless its queue is paused or a crash took its attempt. The exceptions are real:
PROCESSING is not a status a sweep looks for, so a job whose attempt dies stays
there for ever, and the chain of a task then ends until the next boot.

`SyncEngine` and `WebhookDispatch` assume weak fairness of ripening, of the sweeps
(every 30 s in every replica), of the steps of an attempt (calls return or time out)
and of an operator's request once begun. Nothing is assumed of those who
create events and deliveries, test connections, ask for retries or switch endpoints, and
attempts are lost finitely often. Then `EverySyncSettles` and
`EveryDeliverySettles` hold without exceptions: a row keeps a status that the
sweeps look for while it is attempted, so here a crash only costs time. The other
services owe nothing to anyone and assume no fairness.

## 4. Proofs

Each theorem holds for every value of the constants and uses no assumption but
the module's named `ASSUME`s, which ask for natural limits, finite sets, null
values outside of the sets they complete, and of payments that events are what a
provider sends (the types of `EventsAssumption`) and that no other request puts a
subscription back into INCOMPLETE or TRIALING, to which no operation but a creation
leads (`Target` in `Subscriptions`; `TrialingIsOpen` rests on it).

| Module | Theorems |
|---|---|
| `SubscriptionsProofs`, any interleaving | `TypeCorrect`, `KeyIsAppliedOnce`, `LogAlwaysMatchesRow`, `OneTrialOnly`, `VersionsMoveWithRows`, `TrialingIsOpen`, `FollowedUpOnce` |
| `SubscriptionsProofs`, isolated | `EventsChain`, `RenewalsHonourCancel`, `ExpectedVersionsHold`, `PlansMatchItems`, `SwitchesApplyOnce`, `ServiceImplementsLifecycle`; `OneWorkerIsIsolated` |
| `PaymentPipelineProofs` | `TypeCorrect`, `NoEffectLost`, `PaymentsActivate`, `ReturnsExplained`, `LedgerIsBacked` |
| `JobWorkerProofs` | `TypeCorrect`, `OutcomesAreRecorded`, `DeadLettersAreExhausted`, `ProcessingHeld`, `ChainsStayAlive`, `EventOutcomesEarned` |
| `SyncEngineProofs` | `SyncTypeCorrect`, `EntityOncePerSync`, `SyncRefinesOutbox` |
| `WebhookDispatchProofs` | `HookTypeCorrect`, `HookRefinesOutbox` |
| `LimitsProofs` | `SeatTypeCorrect`, `SeatsExclusive`, `SeatOverrun`, `ActivationsWithinLimit`, `CouponCountsExact`, `CouponOverrun` |
| `AccessProofs` | `OwnersRemain`, `InvitationsSpentOnce`, `UsageIsCounted`, `DevicesLimited`, `AccessIsWinner` |
| `MCServicesProofs` | `TypeCorrect`, `LimitsHold`, `RightsHold`, `EnginesAreOutboxes` |

**Subscriptions, any interleaving.** `TypeOK` is not inductive: a commit writes what the worker decided earlier, so the
types of the rows depend on what `pc[r]` implies about `call[r]`, `snap[r]` and
`ref[r]`. The inductive invariant `Base` adds that (`WorkerFits`, one conjunct
per step) and that a subscription without a row has no item, changes or events
(`AbsentEmpty`). Each action is shown to preserve it, and a few lemmas summarise what any step
does (`StepKinds`): it leaves log and rows alone, appends one event whose key passed the unique
index and whose status is the row's new status, or updates a row outside of a transition. The other theorems follow
from these lemmas: `KeyIsAppliedOnce` from the index at the moment of the append,
`LogAlwaysMatchesRow` from the common value, `OneTrialOnly` with the additional
fact that a TRIAL_STARTED event implies that the trial row is there,
`TrialingIsOpen` because no update writes TRIALING. `FollowedUpOnce` needs to
know who owes a publication: `FollowUps` says that an event that calls for one
is told, dropped, or in the hands of a worker, and that no two workers hold one.

**Subscriptions, isolated.** With overlapping requests six properties are false
(`subscriptions_overlap` shows one). `Isolated` is the hypothesis that makes them true for any number of
workers: no step changes the row or the changes of a subscription that another worker has read
and is yet to write, which is what a row lock taken at the read would give.
`OneWorkerIsIsolated` shows that one worker satisfies it, the case that
`subscriptions_serial` checks; many workers satisfy it as long as their
transitions of one subscription do not cross. The invariant is `Serial(r)`: what `r` read still stands.
From it every event is computed from the row it is recorded of (`SerialEvents`),
so that events chain, renewals see the flag, and versions are those expected;
`Switches` relates each APPLIED switch to the one event that applied it.
`ServiceImplementsLifecycle` is the refinement of `SubscriptionLifecycle` under
the mapping of the row's status and the keys spent: a step appends an event,
which moves one status along the allow-list and spends one free key, or
is not seen.

**Payments.** `PipeInv` says that a step that is not in `todo[w]` any more has had
its effect (`WorkFits`): once "mark" is gone the transaction is settled, once "book" is gone the
ledger has the entry, once "publish" is gone the event is announced. Effects are
never undone (`Grows`), so what holds of a worker is not disturbed by others, and the
webhook, which only a worker with nothing left marks PROCESSED, inherits it. The program of an event is in
a fixed order (`InOrder`), which is why a row precedes the status that
it explains and the ledger comes after both. Failures and crashes only shorten a
worker's life; the webhook is then not PROCESSED.

**Jobs.** `JobInv` has, per job, that its outcome and number are in the history, that status and
attempts agree, and that a job PROCESSING is in the hands of a worker or dropped;
per worker, that what it tells has been recorded; per event, what its status
took (`Reached`); per task, that a chain has an occurrence or a worker about to
enqueue it, unless it was ended. Rows are not removed and histories only grow, so
each action disturbs only its own worker and row; `Cancel` and `Retry` write over whatever
has happened since they looked, and the status they write keeps these relations.

**The engines.** That an engine implements `Outbox` needs to know, at the step
that saves, that the effect has happened, or that the number to be recorded is
the next or an earlier one. `SyncInv` and `HookInv` say so: a row's attempts on
record are 1..n without gaps and its count is one of them, or none; a dead letter has
them all; an actor past its calls has left the entities in the ERP. The ERP's part is that
every entity carries the key made from event and kind alone (`EntityOncePerSync`). With these,
each action is one step of `Outbox` or a stutter, one lemma per action.

**Limits.** `SeatInv` counts as holders of a seat the active assignments and the
requests between two statements, and keeps them apart; for the bulk bound, of the
requests that are creating, the one that counted last found room for its own, and each of the others adds
`MaxBulk` at most. `KeyInv`: a request about to swap has read a count below the limit and
not ahead of the row's, and behind it once an activation outlived the revocation, so no
second can. `CouponInv`: the counts are the redemptions,
and redeemed and in flight together are at most the limit plus the other requests. `DevicesWithinLimit` is inductive with the types.

**Members, invitations, rights.** `MemberInv`: a request that is not stale knows
whether its user is an owner, and after its check that another is left.
`InviteInv`: what a request holds it has
seen PENDING, so that finding it otherwise at the write means that another request was there first.
`UsageInv`: without a row there is no usage. `GrantInv`: a recomputation that was not
overtaken has picked what the grants say; that there is a winner to pick is the
existence of a greatest element, from the well-foundedness of < on the naturals (`WFMin`).

**Side by side.** A step of `MCServices` is, for each service, a step of its own or
none (`EachServiceSteps`), so the conjunction of their invariants is inductive, and every
theorem above about a service carries over to the platform, the two refinements included.

**Only model-checked.** Of what passing runs check, liveness under fairness
(`EveryJobSettles`, `EverySyncSettles`, `EveryDeliverySettles`), which is out of the prover's reach, as are
ENABLED and induction over data. The properties of the violated runs are
refuted by TLC. No module declares a RECURSIVE operator.

## 5. Not modelled, and what is left

* Authentication and sessions: mostly library calls and cryptography.
* Automation rules and notifications: they run as jobs, which `JobWorker` attempts; a
  rule job that fails half-way and is retried sends again what it had sent
  (`JobWorker` leaves processors out, so no run shows it).
* Individual license assignments (`licenses/licenses.service.ts`): the protocol
  of `Seats`' transfer on another table; two transfers may leave two active assignments.
* Catalogue and administration: rows without an order of steps between them. One exception:
  `application-versions.service.ts:25-32`, where two publications may leave two
  versions marked latest.
* Pure calculations: proration, billing intervals.
* Analytics, reports, the web front end and the SDK: they keep no state whose
  correctness depends on an order of steps.

What could be proved next: that a lock, or the version in the WHERE clause, gives
`Isolated`; that under it every renewal extends the period from where the
row says it ends, which overlapping renewals break; what may happen
to a job after its success.

Things seen in the code that no run claims:

* `schema.prisma:1264` says a replayed webhook is never processed twice, while one
  that arrives before the first is PROCESSED is processed again.
* A webhook that failed is answered with 200 and so never sent again.
* A PlatformEvent is DISPATCHED when the first of its rule jobs succeeds,
  whatever becomes of the others (`schema.prisma:636`).
* A refund asked for by an administrator is in no ledger entry.
* Two overlapping renewals yield one period.
* `automation-action-executor.service.ts:36-38` says entitlements are resolved live
  "with no cache to invalidate", while the runtime reads the FeatureAccess row, which
  lags behind the grants when `drifted` is true; and a former plan's grants are never
  revoked (`entitlement-grants.service.ts:130`).
* Overlapping increments of a usage counter lose one of them
  (`runtime-authorization.service.ts:143`), and the counter stays negative when the
  second statement of a decrement is not reached, though
  `packages/sdk/src/entitlements.ts:38` says "Floors at zero".
