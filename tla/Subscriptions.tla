---------------------------- MODULE Subscriptions ----------------------------
(***************************************************************************)
(* The subscription service: the rows it keeps, and the requests that read *)
(* and write them concurrently.                                            *)
(*                                                                         *)
(* A request runs in steps, one per database round trip that another       *)
(* request can come between.  PostgreSQL runs at READ COMMITTED: a         *)
(* transaction reads what is committed when the statement runs, its writes *)
(* become visible together when it commits, and a violated unique index    *)
(* rolls all of them back.  So a transition is a step that reads the row   *)
(* and decides (BeginTransition, BeginRenew, FindDueChange) and, later, a  *)
(* step that writes (CommitTransition); an operation that uses no          *)
(* transaction has one step per write.  A request refused before it wrote  *)
(* anything changes nothing, and is the absence of a step.                 *)
(***************************************************************************)
EXTENDS Naturals, Sequences, FiniteSets, SubscriptionStatus

CONSTANTS
    Subs,       \* ids of the subscriptions of one customer to one product
    Keys,       \* idempotency keys the callers use
    Plans,      \* (plan, price) pairs: callers name the two together
    Requests,   \* API workers: each serves one request at a time
    Ops,        \* the operations callers ask for
    None,       \* SQL NULL, and an optional field that is not sent
    MaxVersion, \* bound: no write to a subscription begins at this version
    MaxChanges, \* bound on the scheduled changes of a subscription
    MaxTime,    \* bound on the clock, in billing intervals
    MaxLost     \* bound on the follow-ups lost with their request

ASSUME ConstantsAssumption ==
    /\ None \notin Subs \cup Keys \cup Plans \cup Statuses
    /\ MaxVersion \in Nat /\ MaxChanges \in Nat /\ MaxTime \in Nat /\ MaxLost \in Nat

VARIABLES
    now,        \* the clock, in billing intervals
    sub,        \* sub[s]: the Subscription row of s
    item,       \* item[s]: the plan its SubscriptionItem is priced at
    trial,      \* the Trial row of this customer and product
    changes,    \* changes[s]: its SubscriptionChange rows, oldest first
    events,     \* events[s]: its SubscriptionEvent rows, oldest first
    told,       \* events whose follow-up (publish, book) has been done
    dropped,    \* history: events whose follow-up died with its request
    pc,         \* pc[r]: what worker r does next
    call,       \* call[r]: the request r is serving
    snap,       \* snap[r]: the Subscription row as r read it
    ref         \* ref[r]: the change or the event r is working on, 0 for none

rows == <<sub, item, trial, changes, events>>
followUps == <<told, dropped>>
workers == <<pc, call, snap, ref>>
vars == <<now, rows, followUps, workers>>

-----------------------------------------------------------------------------
(* Rows and requests. *)

\* The absent row.  A periodEnd of 0 is a currentPeriodEnd that is NULL.
NoSub ==
    [ status |-> "ABSENT", version |-> 0, periodEnd |-> 0, plan |-> None,
      cancelAtPeriodEnd |-> FALSE, trialEnd |-> "none" ]

NoTrial == [sub |-> None, status |-> "none", endsAt |-> "none"]

NoCall == [op |-> "none", sub |-> None, key |-> None, version |-> 0, plan |-> None]

\* The status each transition asks for.  renewCancel is a renewal that finds
\* the subscription due for cancellation; changeNow is applyChange(immediate).
Target ==
    [ activate |-> "ACTIVE", renew |-> "ACTIVE", renewCancel |-> "CANCELED",
      changeNow |-> "ACTIVE", cancelNow |-> "CANCELED", resume |-> "ACTIVE",
      pause |-> "PAUSED", markPastDue |-> "PAST_DUE",
      enterGracePeriod |-> "GRACE_PERIOD", expire |-> "EXPIRED",
      suspend |-> "SUSPENDED", reactivate |-> "ACTIVE" ]

TransitionOps == DOMAIN Target

\* The SubscriptionEvent type each transition records as a rule ...
UsualEvent ==
    [ activate |-> "ACTIVATED", renew |-> "RENEWED", renewCancel |-> "CANCELED",
      changeNow |-> "UPGRADED", cancelNow |-> "CANCELED", resume |-> "RESUMED",
      pause |-> "PAUSED", markPastDue |-> "PAYMENT_FAILED",
      enterGracePeriod |-> "GRACE_PERIOD_STARTED", expire |-> "EXPIRED",
      suspend |-> "SUSPENDED", reactivate |-> "REACTIVATED" ]

\* ... and the one it does, from status `from` and with the scheduled change c
\* it applies (0 for none).
EventType(op, from, c) ==
    CASE op = "activate" /\ from = "TRIALING" -> "TRIAL_CONVERTED"
      [] op = "expire" /\ from = "TRIALING"   -> "TRIAL_EXPIRED"
      [] op = "renew" /\ c # 0               -> "SCHEDULED_CHANGE_APPLIED"
      [] OTHER                               -> UsualEvent[op]

\* Once the transaction is committed, these are published as a platform event;
\* an immediate change books its proration as a financial event.
NeedsFollowUp(type) ==
    type \in { "CREATED", "TRIAL_STARTED", "ACTIVATED", "RENEWED", "CANCELED",
               "EXPIRED", "TRIAL_CONVERTED", "TRIAL_EXPIRED", "UPGRADED" }

Exists(s) == sub[s].status # "ABSENT"

\* SubscriptionEvent.idempotencyKey is unique over all subscriptions; NULLs
\* do not collide.
KeyFree(k) ==
    k = None \/ \A s \in Subs : \A i \in 1..Len(events[s]) : events[s][i].key # k

\* Variant: the key column has no unique index.
IndexAdmitsAny(k) == TRUE

\* The unique index lets an event with key k be inserted.
IndexAdmits(k) == KeyFree(k)

\* Variant: trials are not unique.
TrialIndexAdmitsAny == TRUE

\* The unique index on (customer, product) lets a trial be inserted.
TrialIndexAdmits == trial.sub = None

\* Variant: a change is due again after it was applied or canceled.
DueWhateverStatus(s) ==
    { c \in 1..Len(changes[s]) : changes[s][c].effectiveAt <= now }

\* The PENDING changes of s that are due.
Due(s) ==
    { c \in 1..Len(changes[s]) :
        changes[s][c].status = "PENDING" /\ changes[s][c].effectiveAt <= now }

DueCancels(s) == { c \in Due(s) : changes[s][c].type = "CANCEL_AT_PERIOD_END" }

\* Variant: a renewal looks at the scheduled changes only, not at the flag.
CancelWantedIfScheduled(s) == DueCancels(s) # {}

\* A renewal cancels: a cancellation is due, or the row is flagged.
CancelWanted(s) == DueCancels(s) # {} \/ sub[s].cancelAtPeriodEnd

\* periodStart ?? new Date(), where the start is the end of the last period.
OrNow(time) == IF time = 0 THEN now ELSE time

Idle(r) ==
    /\ pc' = [pc EXCEPT ![r] = "idle"]
    /\ call' = [call EXCEPT ![r] = NoCall]
    /\ snap' = [snap EXCEPT ![r] = NoSub]
    /\ ref' = [ref EXCEPT ![r] = 0]

\* Worker r takes the request c, having read the row of its subscription.
Take(r, c, step) ==
    /\ pc[r] = "idle"
    /\ pc' = [pc EXCEPT ![r] = step]
    /\ call' = [call EXCEPT ![r] = c]
    /\ snap' = [snap EXCEPT ![r] = IF c.sub = None THEN NoSub ELSE sub[c.sub]]

\* Variant: nothing is done after the commit.
CommittedSilently(r, s, type, n) == Idle(r)

\* The worker is done with the transaction that recorded the n-th event of s:
\* it goes on to the follow-up the event type calls for, if any.
Committed(r, s, type, n) ==
    IF NeedsFollowUp(type)
    THEN /\ pc' = [pc EXCEPT ![r] = "telling"]
         /\ call' = [call EXCEPT ![r].sub = s]
         /\ ref' = [ref EXCEPT ![r] = n]
         /\ UNCHANGED snap
    ELSE Idle(r)

-----------------------------------------------------------------------------
Init ==
    /\ now = 1
    /\ sub = [s \in Subs |-> NoSub]
    /\ item = [s \in Subs |-> None]
    /\ trial = NoTrial
    /\ changes = [s \in Subs |-> <<>>]
    /\ events = [s \in Subs |-> <<>>]
    /\ told = {}
    /\ dropped = {}
    /\ pc = [r \in Requests |-> "idle"]
    /\ call = [r \in Requests |-> NoCall]
    /\ snap = [r \in Requests |-> NoSub]
    /\ ref = [r \in Requests |-> 0]

\* Time passes: a billing interval elapses.
Tick ==
    /\ now < MaxTime
    /\ now' = now + 1
    /\ UNCHANGED <<rows, followUps, workers>>

-----------------------------------------------------------------------------
(* Creation: create(), and grantComplimentary() which calls it and then     *)
(* overrides the end of the period it set.                                  *)

\* The look-up of the key happens before the transaction.
BeginCreate(r, op, k, p) ==
    /\ op \in Ops
    /\ KeyFree(k)
    /\ Take(r, [NoCall EXCEPT !.op = op, !.key = k, !.plan = p], "creating")
    /\ UNCHANGED <<now, rows, followUps, ref>>

\* The unique indexes: the key of the event, (customer, product) of the trial.
CommitCreate(r) ==
    LET c == call[r]
        onTrial == c.op = "createTrial"
        type == IF onTrial THEN "TRIAL_STARTED" ELSE "CREATED"
        status == IF onTrial THEN "TRIALING" ELSE "ACTIVE"
    IN  /\ pc[r] = "creating"
        /\ IndexAdmits(c.key)
        /\ onTrial => TrialIndexAdmits
        /\ \E s \in Subs :
              /\ ~Exists(s)
              /\ sub' = [sub EXCEPT ![s] =
                    [ status |-> status, version |-> 1, plan |-> c.plan,
                      cancelAtPeriodEnd |-> FALSE,
                      periodEnd |-> IF onTrial THEN 0 ELSE now + 1,
                      trialEnd |-> IF onTrial THEN "planned" ELSE "none" ]]
              /\ item' = [item EXCEPT ![s] = c.plan]
              /\ trial' = IF onTrial
                          THEN [sub |-> s, status |-> "ACTIVE", endsAt |-> "planned"]
                          ELSE trial
              /\ events' = [events EXCEPT ![s] =
                    <<[type |-> type, from |-> None, to |-> status,
                       key |-> c.key, change |-> 0]>>]
              /\ Committed(r, s, type, 1)
        /\ UNCHANGED <<now, changes, followUps>>

\* A complimentary grant with durationDays: one raw update after create().
OverridePeriod(r) ==
    /\ pc[r] = "granted"
    /\ \E days \in 1..2 :
          sub' = [sub EXCEPT ![call[r].sub].periodEnd = now + days,
                             ![call[r].sub].version = @ + 1]
    /\ Idle(r)
    /\ UNCHANGED <<now, item, trial, changes, events, followUps>>

-----------------------------------------------------------------------------
(* Lifecycle transitions: runTransition() and the computations given to it. *)

\* Variant: expectedVersion is not compared.
AdmissibleAtAnyVersion(s, k, v) ==
    /\ Exists(s)
    /\ sub[s].version < MaxVersion
    /\ KeyFree(k)

\* The checks runTransition makes on the row it read: the key has not been
\* used, and expectedVersion, if sent (v # 0), is the version of the row.
Admissible(s, k, v) ==
    /\ Exists(s)
    /\ sub[s].version < MaxVersion
    /\ KeyFree(k)
    /\ v # 0 => v = sub[s].version

\* Every transition but renew decides from the row alone.
BeginTransition(r, s, op, k, v, p) ==
    /\ op \in (Ops \cap TransitionOps) \ {"renew", "renewCancel"}
    /\ Admissible(s, k, v)
    /\ IsTransitionAllowed(sub[s].status, Target[op])
    /\ p # None <=> op = "changeNow"
    /\ Take(r, [op |-> op, sub |-> s, key |-> k, version |-> v, plan |-> p], "staged")
    /\ UNCHANGED <<now, rows, followUps, ref>>

\* renew first looks for a due cancellation, which wins over the renewal, as
\* does the flag of the row.
BeginRenew(r, s, k, v) ==
    LET c == [op |-> "renew", sub |-> s, key |-> k, version |-> v, plan |-> None]
        cancels == DueCancels(s)
    IN  /\ "renew" \in Ops
        /\ Admissible(s, k, v)
        /\ \/ /\ CancelWanted(s)
              /\ IsTransitionAllowed(sub[s].status, Target["renewCancel"])
              /\ \E d \in IF cancels = {} THEN {0} ELSE cancels :
                    ref' = [ref EXCEPT ![r] = d]
              /\ Take(r, [c EXCEPT !.op = "renewCancel"], "staged")
           \/ /\ ~CancelWanted(s)
              /\ IsTransitionAllowed(sub[s].status, Target["renew"])
              /\ Take(r, c, "renewing")
              /\ UNCHANGED ref
        /\ UNCHANGED <<now, rows, followUps>>

\* Then it looks for a due change to apply.  This query has no order and does
\* not ask for a type.
FindDueChange(r) ==
    LET due == Due(call[r].sub)
    IN  /\ pc[r] = "renewing"
        /\ \E d \in IF due = {} THEN {0} ELSE due : ref' = [ref EXCEPT ![r] = d]
        /\ pc' = [pc EXCEPT ![r] = "staged"]
        /\ UNCHANGED <<now, rows, followUps, call, snap>>

\* The plan a staged renewal or immediate change switches to, None for none.
NewPlan(r) ==
    LET c == call[r] IN
    CASE c.op = "changeNow" -> c.plan
      [] c.op = "renew" /\ ref[r] # 0 -> changes[c.sub][ref[r]].plan
      [] OTHER -> None

\* Variant: a renewal never switches the plan of the row.
RowPlanUnswitched(r) ==
    IF call[r].op = "changeNow" THEN call[r].plan ELSE snap[r].plan

\* The plan the update writes to the row: renew writes back the one it read
\* when nothing replaces it.
RowPlan(r) ==
    IF NewPlan(r) # None THEN NewPlan(r)
    ELSE IF call[r].op = "renew" THEN snap[r].plan ELSE sub[call[r].sub].plan

\* Variant: a cancellation ends the subscription for good.
StatusWrittenFinal(r) ==
    IF Target[call[r].op] = "CANCELED" THEN "EXPIRED" ELSE Target[call[r].op]

\* Variant: the update keeps the status of a row that has moved.
StatusWrittenIfUnmoved(r) ==
    IF sub[call[r].sub].version = snap[r].version
    THEN Target[call[r].op] ELSE sub[call[r].sub].status

\* The status the update writes is the one asked for, whatever the row's is now.
StatusWritten(r) == Target[call[r].op]

\* The period starts where the row that was read says the last one ended.
NewPeriodEnd(r) ==
    CASE call[r].op = "activate" -> now + 1
      [] call[r].op = "renew"    -> OrNow(snap[r].periodEnd) + 1
      [] OTHER                   -> sub[call[r].sub].periodEnd

NewTrialEnd(r) ==
    IF call[r].op = "activate" /\ snap[r].status = "TRIALING" THEN "closed"
    ELSE sub[call[r].sub].trialEnd

\* The row as the update leaves it.  The update names the row by id only, so
\* it applies to the row as it is now; what renew computed (plan and period)
\* comes from the row as it was read.
NewRow(r) ==
    LET row == sub[call[r].sub]
    IN  [ status |-> StatusWritten(r),
          version |-> row.version + 1,
          periodEnd |-> NewPeriodEnd(r),
          plan |-> RowPlan(r),
          cancelAtPeriodEnd |-> IF call[r].op = "resume" THEN FALSE ELSE row.cancelAtPeriodEnd,
          trialEnd |-> NewTrialEnd(r) ]

\* activate and expire also close the trial the row they read was in.
NewTrial(r) ==
    IF snap[r].status = "TRIALING" /\ trial.sub = call[r].sub
    THEN CASE call[r].op = "activate" -> [trial EXCEPT !.status = "CONVERTED"]
           [] call[r].op = "expire"   -> [trial EXCEPT !.status = "EXPIRED"]
           [] OTHER -> trial
    ELSE trial

\* Row, item, trial, change and event become visible together.
CommitTransition(r) ==
    LET c == call[r]
        type == EventType(c.op, snap[r].status, ref[r])
    IN  /\ pc[r] = "staged"
        /\ IndexAdmits(c.key)
        /\ sub' = [sub EXCEPT ![c.sub] = NewRow(r)]
        /\ item' = [item EXCEPT ![c.sub] = IF NewPlan(r) = None THEN @ ELSE NewPlan(r)]
        /\ trial' = NewTrial(r)
        /\ changes' = IF ref[r] = 0 THEN changes
                      ELSE [changes EXCEPT ![c.sub][ref[r]].status = "APPLIED"]
        /\ events' = [events EXCEPT ![c.sub] =
              Append(@, [type |-> type, from |-> snap[r].status, to |-> Target[c.op],
                         key |-> c.key,
                         change |-> IF c.op = "renew" THEN ref[r] ELSE 0])]
        /\ Committed(r, c.sub, type, Len(events[c.sub]) + 1)
        /\ UNCHANGED <<now, followUps>>

\* After the commit: publish the platform event, or book the proration.
FollowUp(r) ==
    /\ pc[r] = "telling"
    /\ told' = told \cup {<<call[r].sub, ref[r]>>}
    /\ IF call[r].op = "grant"
       THEN /\ pc' = [pc EXCEPT ![r] = "granted"]
            /\ UNCHANGED <<call, snap, ref>>
       ELSE Idle(r)
    /\ UNCHANGED <<now, rows, dropped>>

-----------------------------------------------------------------------------
(* Operations that write outside a transaction. *)

\* cancel(atPeriodEnd) and applyChange(not immediate) read the row for the end
\* of its period.  Neither looks at the status, the key or the version.
BeginSchedule(r, s, op, k, p) ==
    /\ op \in Ops
    /\ Exists(s)
    /\ sub[s].version < MaxVersion
    /\ Len(changes[s]) < MaxChanges
    /\ \/ op = "cancelLater" /\ p = None
          /\ Take(r, [NoCall EXCEPT !.op = op, !.sub = s, !.key = k], "flagging")
       \/ op = "changeLater" /\ p # None
          /\ Take(r, [NoCall EXCEPT !.op = op, !.sub = s, !.key = k, !.plan = p], "scheduling")
    /\ UNCHANGED <<now, rows, followUps, ref>>

\* Variant: cancelling at the end of the period cancels the row at once.
FlagCancelAtOnce(r) ==
    /\ pc[r] = "flagging"
    /\ sub' = [sub EXCEPT ![call[r].sub].cancelAtPeriodEnd = TRUE,
                          ![call[r].sub].status = "CANCELED",
                          ![call[r].sub].version = @ + 1]
    /\ pc' = [pc EXCEPT ![r] = "scheduling"]
    /\ UNCHANGED <<now, item, trial, changes, events, followUps, call, snap, ref>>

\* cancel(atPeriodEnd) raises the flag first ...
FlagCancel(r) ==
    /\ pc[r] = "flagging"
    /\ sub' = [sub EXCEPT ![call[r].sub].cancelAtPeriodEnd = TRUE,
                          ![call[r].sub].version = @ + 1]
    /\ pc' = [pc EXCEPT ![r] = "scheduling"]
    /\ UNCHANGED <<now, item, trial, changes, events, followUps, call, snap, ref>>

\* ... then both create the change row ...
CreateChange(r) ==
    LET c == call[r]
        change == [ type |-> IF c.op = "cancelLater" THEN "CANCEL_AT_PERIOD_END"
                             ELSE "SWITCH",
                    status |-> "PENDING",
                    plan |-> c.plan,
                    effectiveAt |-> OrNow(snap[r].periodEnd) ]
    IN  /\ pc[r] = "scheduling"
        /\ changes' = [changes EXCEPT ![c.sub] = Append(@, change)]
        /\ ref' = [ref EXCEPT ![r] = Len(changes[c.sub]) + 1]
        /\ pc' = [pc EXCEPT ![r] = "noting"]
        /\ UNCHANGED <<now, sub, item, trial, events, followUps, call, snap>>

\* cancelScheduledChange: the change is read PENDING ...
BeginUnschedule(r, s, c) ==
    /\ "unschedule" \in Ops
    /\ Exists(s)
    /\ c \in 1..Len(changes[s])
    /\ changes[s][c].status = "PENDING"
    /\ Take(r, [NoCall EXCEPT !.op = "unschedule", !.sub = s], "unscheduling")
    /\ ref' = [ref EXCEPT ![r] = c]
    /\ UNCHANGED <<now, rows, followUps>>

\* ... and updated whatever it is by then.
CancelChange(r) ==
    /\ pc[r] = "unscheduling"
    /\ changes' = [changes EXCEPT ![call[r].sub][ref[r]].status = "CANCELED"]
    /\ pc' = [pc EXCEPT ![r] = "noting"]
    /\ UNCHANGED <<now, sub, item, trial, events, followUps, call, snap, ref>>

\* The last write of all three is the event, which carries the caller's key.
NoteChange(r) ==
    LET c == call[r]
        type == [ cancelLater |-> "CANCEL_SCHEDULED",
                  changeLater |-> "SCHEDULED_CHANGE_CREATED",
                  unschedule  |-> "SCHEDULED_CHANGE_CANCELED" ][c.op]
    IN  /\ pc[r] = "noting"
        /\ IndexAdmits(c.key)
        /\ events' = [events EXCEPT ![c.sub] =
              Append(@, [type |-> type, from |-> None, to |-> None, key |-> c.key,
                         change |-> ref[r]])]
        /\ Idle(r)
        /\ UNCHANGED <<now, sub, item, trial, changes, followUps>>

\* extendTrial: the row is read TRIALING ...
BeginExtendTrial(r, s) ==
    /\ "extendTrial" \in Ops
    /\ sub[s].status = "TRIALING"
    /\ sub[s].version < MaxVersion
    /\ Take(r, [NoCall EXCEPT !.op = "extendTrial", !.sub = s], "extending")
    /\ UNCHANGED <<now, rows, followUps, ref>>

\* Variant: only the row learns of the extension.
ExtendTrialOfRow(r) ==
    /\ pc[r] = "extending"
    /\ sub' = [sub EXCEPT ![call[r].sub].trialEnd = "extended",
                          ![call[r].sub].version = @ + 1]
    /\ Idle(r)
    /\ UNCHANGED <<now, item, trial, changes, events, followUps>>

\* Variant: the extension leaves the version alone.
ExtendTrialUnversioned(r) ==
    LET s == call[r].sub
    IN  /\ pc[r] = "extending"
        /\ sub' = [sub EXCEPT ![s].trialEnd = "extended"]
        /\ trial' = IF trial.sub = s THEN [trial EXCEPT !.endsAt = "extended"] ELSE trial
        /\ Idle(r)
        /\ UNCHANGED <<now, item, changes, events, followUps>>

\* ... and row and trial are updated in one transaction, unconditionally.
ExtendTrial(r) ==
    LET s == call[r].sub
    IN  /\ pc[r] = "extending"
        /\ sub' = [sub EXCEPT ![s].trialEnd = "extended", ![s].version = @ + 1]
        /\ trial' = IF trial.sub = s THEN [trial EXCEPT !.endsAt = "extended"] ELSE trial
        /\ Idle(r)
        /\ UNCHANGED <<now, item, changes, events, followUps>>

\* Variant: the date is stored without having been parsed.
AdjustRenewalDateUnparsed(r, s, time) ==
    /\ "adjustRenewalDate" \in Ops
    /\ pc[r] = "idle"
    /\ Exists(s)
    /\ sub[s].version < MaxVersion
    /\ sub' = [sub EXCEPT ![s].periodEnd = None, ![s].version = @ + 1]
    /\ UNCHANGED <<now, item, trial, changes, events, followUps, workers>>

\* adjustRenewalDate: an administrator sets the end of the period.
AdjustRenewalDate(r, s, time) ==
    /\ "adjustRenewalDate" \in Ops
    /\ pc[r] = "idle"
    /\ Exists(s)
    /\ sub[s].version < MaxVersion
    /\ sub' = [sub EXCEPT ![s].periodEnd = time, ![s].version = @ + 1]
    /\ UNCHANGED <<now, item, trial, changes, events, followUps, workers>>

\* A request ends where it stands: its transaction is rolled back by a unique
\* index, a deadlock or a timeout, or the process dies.  What it committed
\* stays; what it had still to do is lost.
Fail(r) ==
    /\ pc[r] # "idle"
    /\ pc[r] = "telling" => Cardinality(dropped) < MaxLost
    /\ dropped' = IF pc[r] = "telling" THEN dropped \cup {<<call[r].sub, ref[r]>>}
                  ELSE dropped
    /\ Idle(r)
    /\ UNCHANGED <<now, rows, told>>

-----------------------------------------------------------------------------
CreateRequest(r) ==
    \/ \E k \in Keys \cup {None}, p \in Plans :
          BeginCreate(r, "create", k, p) \/ BeginCreate(r, "createTrial", k, p)
    \/ \E p \in Plans : BeginCreate(r, "grant", None, p)
    \/ CommitCreate(r)
    \/ OverridePeriod(r)

TransitionRequest(r) ==
    \/ \E s \in Subs, k \in Keys \cup {None}, v \in 0..MaxVersion :
          \/ \E op \in TransitionOps, p \in Plans \cup {None} :
                BeginTransition(r, s, op, k, v, p)
          \/ BeginRenew(r, s, k, v)
    \/ FindDueChange(r)
    \/ CommitTransition(r)
    \/ FollowUp(r)

ScheduleRequest(r) ==
    \/ \E s \in Subs :
          \/ \E op \in {"cancelLater", "changeLater"}, k \in Keys \cup {None},
                p \in Plans \cup {None} : BeginSchedule(r, s, op, k, p)
          \/ \E c \in 1..MaxChanges : BeginUnschedule(r, s, c)
          \/ BeginExtendTrial(r, s)
          \/ \E time \in 1..MaxTime : AdjustRenewalDate(r, s, time)
    \/ FlagCancel(r)
    \/ CreateChange(r)
    \/ CancelChange(r)
    \/ NoteChange(r)
    \/ ExtendTrial(r)

Next ==
    \/ Tick
    \/ \E r \in Requests :
          CreateRequest(r) \/ TransitionRequest(r) \/ ScheduleRequest(r) \/ Fail(r)

Spec == Init /\ [][Next]_vars

-----------------------------------------------------------------------------
(* Types. *)

Times == Nat

SubRow ==
    [ status : Statuses \cup {"ABSENT"}, version : Nat, periodEnd : Times,
      plan : Plans \cup {None}, cancelAtPeriodEnd : BOOLEAN,
      trialEnd : {"none", "planned", "extended", "closed"} ]

TrialRow ==
    [ sub : Subs \cup {None}, status : {"none", "ACTIVE", "CONVERTED", "EXPIRED"},
      endsAt : {"none", "planned", "extended"} ]

ChangeRow ==
    [ type : {"CANCEL_AT_PERIOD_END", "SWITCH"},
      status : {"PENDING", "APPLIED", "CANCELED"},
      plan : Plans \cup {None}, effectiveAt : Times ]

EventTypes ==
    { "CREATED", "TRIAL_STARTED", "TRIAL_CONVERTED", "TRIAL_EXPIRED", "ACTIVATED",
      "RENEWED", "UPGRADED", "PAUSED", "RESUMED", "CANCEL_SCHEDULED", "CANCELED",
      "EXPIRED", "SUSPENDED", "REACTIVATED", "PAYMENT_FAILED", "GRACE_PERIOD_STARTED",
      "SCHEDULED_CHANGE_CREATED", "SCHEDULED_CHANGE_APPLIED", "SCHEDULED_CHANGE_CANCELED" }

EventRow ==
    [ type : EventTypes, from : Statuses \cup {None}, to : Statuses \cup {None},
      key : Keys \cup {None}, change : Nat ]

Steps ==
    { "idle", "creating", "granted", "staged", "renewing", "telling", "flagging",
      "scheduling", "unscheduling", "noting", "extending" }

OpNames ==
    TransitionOps \cup
    { "none", "create", "createTrial", "grant", "cancelLater", "changeLater",
      "unschedule", "extendTrial" }

Call ==
    [ op : OpNames, sub : Subs \cup {None}, key : Keys \cup {None},
      version : Nat, plan : Plans \cup {None} ]

\* Every table and every worker holds values of its type.
TypeOK ==
    /\ now \in Times
    /\ sub \in [Subs -> SubRow]
    /\ item \in [Subs -> Plans \cup {None}]
    /\ trial \in TrialRow
    /\ changes \in [Subs -> Seq(ChangeRow)]
    /\ events \in [Subs -> Seq(EventRow)]
    /\ told \subseteq Subs \X Nat
    /\ dropped \subseteq Subs \X Nat
    /\ pc \in [Requests -> Steps]
    /\ call \in [Requests -> Call]
    /\ snap \in [Requests -> SubRow]
    /\ ref \in [Requests -> Nat]

-----------------------------------------------------------------------------
(* What holds however requests interleave, fail and are retried. *)

\* The event of s at i records a status the row was given.
SetsStatus(s, i) == events[s][i].to # None

\* A key names at most one recorded effect, over all operations, all
\* subscriptions, all retries and all concurrent duplicates of a request.
KeyAppliedOnce ==
    \A s, t \in Subs : \A i \in 1..Len(events[s]), j \in 1..Len(events[t]) :
        events[s][i].key = events[t][j].key /\ events[s][i].key # None
            => s = t /\ i = j

\* The log and the row agree: the last status the log records is the status of
\* the row, although transactions commit on top of rows they did not read.
LogMatchesRow ==
    \A s \in Subs : \A i \in 1..Len(events[s]) :
        SetsStatus(s, i) /\ (\A j \in i+1..Len(events[s]) : ~SetsStatus(s, j))
            => events[s][i].to = sub[s].status

\* A subscription that is still TRIALING has its trial: the trial is open and
\* ends when the row says so.  No concurrent request brings TRIALING back.
TrialingHasOpenTrial ==
    \A s \in Subs : sub[s].status = "TRIALING" =>
        /\ trial.sub = s
        /\ trial.status = "ACTIVE"
        /\ trial.endsAt = sub[s].trialEnd

\* One trial for a customer and a product, however many creations race.
OneTrial ==
    \A s, t \in Subs : \A i \in 1..Len(events[s]), j \in 1..Len(events[t]) :
        events[s][i].type = "TRIAL_STARTED" /\ events[t][j].type = "TRIAL_STARTED"
            => s = t /\ i = j

\* Every committed event that calls for a follow-up has been followed up, has
\* lost it with its request, or is the one some worker is about to follow up;
\* and only one of these.
FollowUpOnce ==
    \A s \in Subs : \A i \in 1..Len(events[s]) :
        LET owing == { r \in Requests :
                         pc[r] = "telling" /\ call[r].sub = s /\ ref[r] = i }
        IN  /\ \A q, r \in owing : q = r
            /\ NeedsFollowUp(events[s][i].type) =>
                  \/ <<s, i>> \in told /\ <<s, i>> \notin dropped /\ owing = {}
                  \/ <<s, i>> \in dropped /\ <<s, i>> \notin told /\ owing = {}
                  \/ <<s, i>> \notin told \cup dropped /\ owing # {}

\* Whoever changes a subscription row moves its version by one: no change is
\* invisible to a caller that compares versions.
VersionMovesWithRow ==
    [][\A s \in Subs : sub'[s] # sub[s] => sub'[s].version = sub[s].version + 1]_sub

-----------------------------------------------------------------------------
(* What holds as long as requests do not overlap (one worker), whatever     *)
(* fails half-way.                                                          *)

\* The implementation walks along the allow-list and spends each key once.
Lifecycle == INSTANCE SubscriptionLifecycle WITH
    status <- [s \in Subs |-> sub[s].status],
    spent <- { k \in Keys : ~KeyFree(k) }

LifecycleSpec == Lifecycle!Spec

\* The log of statuses is a chain: each transition starts where the previous
\* one ended.
EventChain ==
    \A s \in Subs : \A i, j \in 1..Len(events[s]) :
        /\ i < j /\ SetsStatus(s, i) /\ SetsStatus(s, j)
        /\ \A n \in i+1..j-1 : ~SetsStatus(s, n)
        => events[s][j].from = events[s][i].to

\* The plan of the row is the plan its item is priced at.
PlanMatchesItem == \A s \in Subs : sub[s].plan = item[s]

\* A scheduled switch is applied by one renewal if it is APPLIED, and by none
\* if it is PENDING or CANCELED.
SwitchAppliedOnce ==
    \A s \in Subs : \A c \in 1..Len(changes[s]) :
        LET by == { i \in 1..Len(events[s]) :
                      /\ events[s][i].type = "SCHEDULED_CHANGE_APPLIED"
                      /\ events[s][i].change = c }
        IN  /\ \A i, j \in by : i = j
            /\ changes[s][c].type = "SWITCH" =>
                  (by # {} <=> changes[s][c].status = "APPLIED")

\* Once a cancellation at period end has raised the flag, a renewal cancels;
\* it never starts another period, even if the request that raised the flag
\* died before it scheduled the change.
RenewHonoursCancel ==
    [][\A s \in Subs :
          sub[s].cancelAtPeriodEnd /\ sub'[s].cancelAtPeriodEnd
          /\ Len(events'[s]) > Len(events[s])
            => events'[s][Len(events'[s])].type
                 \notin {"RENEWED", "SCHEDULED_CHANGE_APPLIED"}]_vars

\* A transition sent with an expectedVersion is applied to that version.
ExpectedVersionHeld ==
    [][\A r \in Requests :
          pc[r] = "staged" /\ call[r].version # 0 /\ sub'[call[r].sub] # sub[call[r].sub]
            => sub[call[r].sub].version = call[r].version]_vars

-----------------------------------------------------------------------------
(* What the source says of itself, and a run refutes.                       *)

\* Every status the row takes was reached along the allow-list
\* (subscription-state-machine.ts: no code path sets status without the map).
\* Two overlapping transitions each check the map against the row they read.
StatusFollowsAllowList ==
    [][\A s \in Subs :
          Exists(s) /\ sub'[s].status # sub[s].status
            => IsTransitionAllowed(sub[s].status, sub'[s].status)]_sub

\* A request whose idempotency key has already taken effect has no effect
\* (mutation-options.dto.ts: a key lets a caller safely retry).
SpentKeyHasNoEffect ==
    [][\A r \in Requests :
          pc'[r] # pc[r] /\ ~KeyFree(call[r].key) /\ pc[r] # "telling"
            => UNCHANGED <<sub, changes>>]_vars

\* A renewal cancels only a subscription whose cancellation is still wanted:
\* resuming undoes it (subscription-state-machine.ts: cancelAtPeriodEnd undo).
RenewCancelsOnlyFlagged ==
    [][\A r \in Requests :
          pc[r] = "staged" /\ pc'[r] # pc[r] /\ call[r].op = "renewCancel" /\ events' # events
            => sub[call[r].sub].cancelAtPeriodEnd]_vars

=============================================================================
