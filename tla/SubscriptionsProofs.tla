------------------------- MODULE SubscriptionsProofs -------------------------
(***************************************************************************)
(* Theorems about Subscriptions, for any number of subscriptions, keys,    *)
(* plans and concurrent requests.                                          *)
(***************************************************************************)
EXTENDS Subscriptions, SequenceTheorems, TLAPS

-----------------------------------------------------------------------------
(* The inductive invariant. *)

\* The operations that leave a worker in a step outside a transition.
CreateOps == {"create", "createTrial", "grant"}
ScheduleOps == {"cancelLater", "changeLater", "unschedule"}

\* What worker r knows in each of its steps.
WorkerFits(r) ==
    /\ pc[r] = "idle" => ref[r] = 0
    /\ pc[r] = "creating" => call[r].op \in CreateOps /\ call[r].plan \in Plans
    /\ pc[r] \notin {"idle", "creating"} => call[r].sub \in Subs /\ Exists(call[r].sub)
    /\ pc[r] \in {"staged", "renewing"} =>
          call[r].op \in TransitionOps /\ snap[r].status \in Statuses
    /\ pc[r] \in {"flagging", "scheduling", "noting"} => call[r].op \in ScheduleOps
    /\ pc[r] = "staged" => ref[r] \in 0..Len(changes[call[r].sub])
    /\ pc[r] = "unscheduling" => ref[r] \in 1..Len(changes[call[r].sub])
    /\ pc[r] = "unscheduling" => call[r].op = "unschedule"

\* A subscription has changes and events only once it exists.
AbsentEmpty ==
    \A s \in Subs : ~Exists(s) => changes[s] = <<>> /\ events[s] = <<>>

\* What every other proof rests on.
Base ==
    /\ TypeOK
    /\ AbsentEmpty
    /\ \A r \in Requests : WorkerFits(r)

\* What a step of worker r does to the others: subscriptions are not removed,
\* nor are scheduled changes, and the other workers stay where they are.
RowsStay ==
    \A s \in Subs : Exists(s) => Exists(s)' /\ Len(changes'[s]) >= Len(changes[s])

OthersStay(r) ==
    \A q \in Requests \ {r} :
        pc'[q] = pc[q] /\ call'[q] = call[q] /\ snap'[q] = snap[q] /\ ref'[q] = ref[q]

-----------------------------------------------------------------------------
(* The operators of the module. *)

\* The operations that go through runTransition, one by one.
LEMMA TransitionOpsAre ==
    TransitionOps =
        { "activate", "renew", "renewCancel", "changeNow", "cancelNow", "resume",
          "pause", "markPastDue", "enterGracePeriod", "expire", "suspend", "reactivate" }
BY DEF TransitionOps, Target

\* No transition leads to TRIALING.
LEMMA TargetType == \A op \in TransitionOps : Target[op] \in Statuses \ {"TRIALING"}
BY TransitionOpsAre DEF Target, Statuses

\* The event of an operation is one of the event types.
LEMMA EventTypeType ==
    ASSUME NEW op \in TransitionOps, NEW from, NEW c
    PROVE  EventType(op, from, c) \in EventTypes \ {"CREATED", "TRIAL_STARTED"}
<1>1. UsualEvent[op] \in EventTypes \ {"CREATED", "TRIAL_STARTED"}
  BY TransitionOpsAre DEF UsualEvent, EventTypes
<1>2. QED
  BY <1>1 DEF EventType, EventTypes

\* A worker that goes idle.
LEMMA IdleFits ==
    ASSUME TypeOK, NEW r \in Requests, Idle(r)
    PROVE  /\ pc' \in [Requests -> Steps] /\ call' \in [Requests -> Call]
           /\ snap' \in [Requests -> SubRow] /\ ref' \in [Requests -> Nat]
           /\ OthersStay(r)
           /\ pc'[r] = "idle"
           /\ WorkerFits(r)'
<1>1. NoCall \in Call
  BY DEF NoCall, Call, OpNames
<1>2. NoSub \in SubRow
  BY DEF NoSub, SubRow, Times
<1>3. QED
  BY <1>1, <1>2 DEF TypeOK, Idle, Steps, OthersStay, WorkerFits

\* A worker that takes a request.
LEMMA TakeFits ==
    ASSUME TypeOK, NEW r \in Requests, NEW c \in Call, NEW step \in Steps,
           Take(r, c, step)
    PROVE  /\ pc' \in [Requests -> Steps] /\ call' \in [Requests -> Call]
           /\ snap' \in [Requests -> SubRow]
           /\ pc'[r] = step /\ call'[r] = c
           /\ c.sub \in Subs => snap'[r] = sub[c.sub]
           /\ \A q \in Requests \ {r} :
                 pc'[q] = pc[q] /\ call'[q] = call[q] /\ snap'[q] = snap[q]
<1>1. NoSub \in SubRow
  BY DEF NoSub, SubRow, Times
<1>2. c.sub \in Subs \cup {None}
  BY DEF Call
<1>3. (IF c.sub = None THEN NoSub ELSE sub[c.sub]) \in SubRow
  BY <1>1, <1>2 DEF TypeOK
<1>4. QED
  BY <1>2, <1>3, ConstantsAssumption DEF TypeOK, Take

\* A worker whose transaction has committed.
LEMMA CommittedFits ==
    ASSUME TypeOK, NEW r \in Requests, NEW s \in Subs, NEW type, NEW n \in Nat,
           Committed(r, s, type, n), Exists(s)'
    PROVE  /\ pc' \in [Requests -> Steps] /\ call' \in [Requests -> Call]
           /\ snap' \in [Requests -> SubRow] /\ ref' \in [Requests -> Nat]
           /\ OthersStay(r)
           /\ WorkerFits(r)'
           /\ NeedsFollowUp(type) =>
                 pc'[r] = "telling" /\ call'[r].sub = s /\ ref'[r] = n
           /\ ~NeedsFollowUp(type) => pc'[r] = "idle"
<1>1. CASE ~NeedsFollowUp(type)
  BY <1>1, IdleFits DEF Committed
<1>2. CASE NeedsFollowUp(type)
  <2>1. /\ pc' = [pc EXCEPT ![r] = "telling"]
        /\ call' = [call EXCEPT ![r].sub = s]
        /\ ref' = [ref EXCEPT ![r] = n]
        /\ snap' = snap
    BY <1>2 DEF Committed
  <2>2. call[r] \in Call
    BY DEF TypeOK
  <2>3. [call[r] EXCEPT !.sub = s] \in Call
    BY <2>2 DEF Call
  <2>4. call' \in [Requests -> Call] /\ call'[r].sub = s
    BY <2>1, <2>2, <2>3 DEF TypeOK, Call
  <2>5. pc' \in [Requests -> Steps] /\ snap' \in [Requests -> SubRow] /\ ref' \in [Requests -> Nat]
    BY <2>1 DEF TypeOK, Steps
  <2>6. OthersStay(r) /\ pc'[r] = "telling" /\ ref'[r] = n
    BY <2>1 DEF TypeOK, OthersStay
  <2>7. WorkerFits(r)'
    BY <2>4, <2>6 DEF WorkerFits
  <2>8. QED
    BY <1>2, <2>4, <2>5, <2>6, <2>7
<1>3. QED
  BY <1>1, <1>2

\* The c-th scheduled change of s is given the status st.
ChangeMarked(s, c, st) == changes' = [changes EXCEPT ![s][c].status = st]

\* The status of one scheduled change is updated.
LEMMA ChangeUpdated ==
    ASSUME TypeOK, NEW s \in Subs, NEW c \in 1..Len(changes[s]),
           NEW st \in {"PENDING", "APPLIED", "CANCELED"},
           ChangeMarked(s, c, st)
    PROVE  /\ changes' \in [Subs -> Seq(ChangeRow)]
           /\ \A t \in Subs : Len(changes'[t]) = Len(changes[t])
           /\ \A t \in Subs \ {s} : changes'[t] = changes[t]
           /\ changes'[s][c].status = st /\ changes'[s][c].type = changes[s][c].type
           /\ \A d \in 1..Len(changes[s]) \ {c} : changes'[s][d] = changes[s][d]
<1> DEFINE row == [changes[s][c] EXCEPT !.status = st]
<1>1. changes[s] \in Seq(ChangeRow)
  BY DEF TypeOK
<1>2. changes[s][c] \in ChangeRow
  BY <1>1, ElementOfSeq
<1>3. row \in ChangeRow /\ row.status = st /\ row.type = changes[s][c].type
  BY <1>2 DEF ChangeRow
<1>4. changes' = [changes EXCEPT ![s] = [changes[s] EXCEPT ![c] = row]]
  BY DEF TypeOK, ChangeMarked
<1> HIDE DEF row
<1>5. /\ [changes[s] EXCEPT ![c] = row] \in Seq(ChangeRow)
      /\ Len([changes[s] EXCEPT ![c] = row]) = Len(changes[s])
  BY <1>1, <1>3, ExceptSeq
<1>6. /\ [changes[s] EXCEPT ![c] = row][c] = row
      /\ \A d \in 1..Len(changes[s]) \ {c} : [changes[s] EXCEPT ![c] = row][d] = changes[s][d]
  BY <1>1, <1>3, ExceptSeq
<1>7. QED
  BY <1>3, <1>4, <1>5, <1>6 DEF TypeOK

\* The plan a staged transition switches to.
LEMMA NewPlanType ==
    ASSUME TypeOK, NEW r \in Requests, WorkerFits(r), pc[r] = "staged"
    PROVE  NewPlan(r) \in Plans \cup {None}
<1>1. call[r] \in Call /\ call[r].sub \in Subs /\ ref[r] \in 0..Len(changes[call[r].sub])
  BY DEF TypeOK, WorkerFits
<1>2. CASE ref[r] = 0
  BY <1>1, <1>2 DEF NewPlan, Call
<1>3. CASE ref[r] # 0
  <2>1. ref[r] \in 1..Len(changes[call[r].sub]) /\ changes[call[r].sub] \in Seq(ChangeRow)
    BY <1>1, <1>3 DEF TypeOK
  <2>2. changes[call[r].sub][ref[r]] \in ChangeRow
    BY <2>1, ElementOfSeq
  <2>3. QED
    BY <1>1, <2>2 DEF NewPlan, Call, ChangeRow
<1>4. QED
  BY <1>2, <1>3

\* A row is made of its columns.
LEMMA SubRowFromColumns ==
    ASSUME NEW status \in Statuses \cup {"ABSENT"}, NEW version \in Nat,
           NEW periodEnd \in Times, NEW plan \in Plans \cup {None},
           NEW cancelAtPeriodEnd \in BOOLEAN,
           NEW trialEnd \in {"none", "planned", "extended", "closed"}
    PROVE  [ status |-> status, version |-> version, periodEnd |-> periodEnd,
             plan |-> plan, cancelAtPeriodEnd |-> cancelAtPeriodEnd,
             trialEnd |-> trialEnd ] \in SubRow
BY DEF SubRow

\* The row differs in its version, by one, and keeps its status and its plan.
Updated(row, new) ==
    /\ new \in SubRow
    /\ new.version = row.version + 1
    /\ new.status = row.status
    /\ new.plan = row.plan

\* A row whose version moves by one.
LEMMA VersionMoved ==
    ASSUME NEW row \in SubRow
    PROVE  LET new == [row EXCEPT !.version = row.version + 1]
           IN  /\ Updated(row, new)
               /\ new.trialEnd = row.trialEnd
               /\ new.cancelAtPeriodEnd = row.cancelAtPeriodEnd
<1>1. row.version + 1 \in Nat
  BY DEF SubRow
<1> DEFINE v == row.version + 1
           new == [row EXCEPT !.version = v]
<1> HIDE DEF v
<1>2. v \in Nat => /\ new \in SubRow /\ new.version = v
                   /\ new.status = row.status /\ new.plan = row.plan
                   /\ new.trialEnd = row.trialEnd
                   /\ new.cancelAtPeriodEnd = row.cancelAtPeriodEnd
  BY DEF SubRow
<1>3. QED
  BY <1>1, <1>2 DEF v, Updated

\* The updates that name one column besides the version.
LEMMA PeriodEndUpdated ==
    ASSUME NEW row \in SubRow, NEW t \in Times
    PROVE  LET new == [row EXCEPT !.periodEnd = t, !.version = @ + 1]
           IN  /\ Updated(row, new)
               /\ new.trialEnd = row.trialEnd
               /\ new.cancelAtPeriodEnd = row.cancelAtPeriodEnd
<1> DEFINE mid == [row EXCEPT !.periodEnd = t]
<1>1. /\ mid \in SubRow /\ mid.version = row.version
      /\ mid.status = row.status /\ mid.plan = row.plan
      /\ mid.trialEnd = row.trialEnd /\ mid.cancelAtPeriodEnd = row.cancelAtPeriodEnd
  BY DEF SubRow
<1>2. [row EXCEPT !.periodEnd = t, !.version = @ + 1]
        = [mid EXCEPT !.version = mid.version + 1]
  BY DEF SubRow
<1> HIDE DEF mid
<1>3. QED
  BY <1>1, <1>2, VersionMoved DEF Updated

\* Writing the flag leaves the other fields of a row.
LEMMA FlagUpdated ==
    ASSUME NEW row \in SubRow
    PROVE  LET new == [row EXCEPT !.cancelAtPeriodEnd = TRUE, !.version = @ + 1]
           IN  Updated(row, new) /\ new.trialEnd = row.trialEnd
<1> DEFINE mid == [row EXCEPT !.cancelAtPeriodEnd = TRUE]
<1>1. /\ mid \in SubRow /\ mid.version = row.version
      /\ mid.status = row.status /\ mid.plan = row.plan /\ mid.trialEnd = row.trialEnd
  BY DEF SubRow
<1>2. [row EXCEPT !.cancelAtPeriodEnd = TRUE, !.version = @ + 1]
        = [mid EXCEPT !.version = mid.version + 1]
  BY DEF SubRow
<1> HIDE DEF mid
<1>3. QED
  BY <1>1, <1>2, VersionMoved DEF Updated

\* Writing the end of the trial leaves the other fields of a row.
LEMMA TrialEndUpdated ==
    ASSUME NEW row \in SubRow
    PROVE  LET new == [row EXCEPT !.trialEnd = "extended", !.version = @ + 1]
           IN  Updated(row, new) /\ new.trialEnd = "extended"
<1> DEFINE mid == [row EXCEPT !.trialEnd = "extended"]
<1>1. /\ mid \in SubRow /\ mid.version = row.version
      /\ mid.status = row.status /\ mid.plan = row.plan /\ mid.trialEnd = "extended"
  BY DEF SubRow
<1>2. [row EXCEPT !.trialEnd = "extended", !.version = @ + 1]
        = [mid EXCEPT !.version = mid.version + 1]
  BY DEF SubRow
<1> HIDE DEF mid
<1>3. QED
  BY <1>1, <1>2, VersionMoved DEF Updated

\* The row a staged transition writes.
LEMMA NewRowType ==
    ASSUME TypeOK, NEW r \in Requests, WorkerFits(r), pc[r] = "staged"
    PROVE  /\ NewRow(r) \in SubRow
           /\ NewRow(r).status = Target[call[r].op]
           /\ NewRow(r).version = sub[call[r].sub].version + 1
           /\ NewRow(r).plan = RowPlan(r)
<1>1. /\ call[r].sub \in Subs /\ call[r].op \in TransitionOps
      /\ sub[call[r].sub] \in SubRow /\ snap[r] \in SubRow /\ now \in Nat
  BY DEF TypeOK, WorkerFits, Times
<1>2. StatusWritten(r) \in Statuses \cup {"ABSENT"}
  BY <1>1, TargetType DEF StatusWritten
<1>3. RowPlan(r) \in Plans \cup {None}
  BY <1>1, NewPlanType DEF RowPlan, SubRow
<1>4. NewPeriodEnd(r) \in Times
  BY <1>1 DEF NewPeriodEnd, OrNow, SubRow, Times
<1>5. NewTrialEnd(r) \in {"none", "planned", "extended", "closed"}
  BY <1>1 DEF NewTrialEnd, SubRow
<1>6. sub[call[r].sub].version \in Nat /\ sub[call[r].sub].cancelAtPeriodEnd \in BOOLEAN
  BY <1>1 DEF SubRow
<1>7. sub[call[r].sub].version + 1 \in Nat
  BY <1>6
<1>8. (IF call[r].op = "resume" THEN FALSE ELSE sub[call[r].sub].cancelAtPeriodEnd) \in BOOLEAN
  BY <1>6
<1>9. NewRow(r) \in SubRow
  BY <1>2, <1>3, <1>4, <1>5, <1>7, <1>8, SubRowFromColumns, Zenon DEF NewRow
<1>10. NewRow(r).status = Target[call[r].op]
  BY DEF NewRow, StatusWritten
<1>11. NewRow(r).version = sub[call[r].sub].version + 1 /\ NewRow(r).plan = RowPlan(r)
  BY DEF NewRow
<1>12. QED
  BY <1>9, <1>10, <1>11
-----------------------------------------------------------------------------
(* The steps of a worker. *)

\* What is shown of every step of worker r.
StepFits(r) ==
    /\ TypeOK'
    /\ AbsentEmpty'
    /\ RowsStay
    /\ OthersStay(r)
    /\ WorkerFits(r)'

\* A row that exists has a status.
LEMMA ExistsHasStatus ==
    ASSUME TypeOK, NEW s \in Subs, Exists(s)
    PROVE  sub[s].status \in Statuses
BY DEF TypeOK, SubRow, Exists

\* A step that leaves every row alone.
LEMMA RowsUnchangedFits ==
    ASSUME Base, UNCHANGED rows
    PROVE  RowsStay /\ AbsentEmpty'
<1>1. \A s \in Subs : Len(changes[s]) \in Nat
  BY LenProperties DEF Base, TypeOK
<1>2. QED
  BY <1>1 DEF Base, RowsStay, AbsentEmpty, Exists, rows

\* A step that writes to the row of an existing subscription only.
LEMMA RowWriteFits ==
    ASSUME Base, NEW s \in Subs, NEW row \in SubRow, Exists(s), row.status # "ABSENT",
           sub' = [sub EXCEPT ![s] = row], UNCHANGED <<changes, events>>
    PROVE  /\ sub' \in [Subs -> SubRow]
           /\ RowsStay
           /\ AbsentEmpty'
<1>1. \A t \in Subs : Len(changes[t]) \in Nat
  BY LenProperties DEF Base, TypeOK
<1>2. sub' \in [Subs -> SubRow] /\ \A t \in Subs : sub'[t] = IF t = s THEN row ELSE sub[t]
  BY DEF Base, TypeOK
<1>3. QED
  BY <1>1, <1>2 DEF Base, RowsStay, AbsentEmpty, Exists

\* A step of a creation.
LEMMA CreateStep ==
    ASSUME Base, NEW r \in Requests, CreateRequest(r)
    PROVE  StepFits(r)
<1>1. ASSUME NEW op \in CreateOps, NEW k \in Keys \cup {None}, NEW p \in Plans,
             BeginCreate(r, op, k, p)
      PROVE  StepFits(r)
  <2> DEFINE c == [NoCall EXCEPT !.op = op, !.key = k, !.plan = p]
  <2>1. c \in Call /\ c.op = op /\ c.plan = p
    BY DEF NoCall, Call, OpNames, CreateOps
  <2>2. Take(r, c, "creating") /\ UNCHANGED <<now, rows, followUps, ref>>
    BY <1>1 DEF BeginCreate
  <2> HIDE DEF c
  <2>3. /\ pc' \in [Requests -> Steps] /\ call' \in [Requests -> Call]
        /\ snap' \in [Requests -> SubRow]
        /\ pc'[r] = "creating" /\ call'[r] = c
        /\ \A q \in Requests \ {r} :
              pc'[q] = pc[q] /\ call'[q] = call[q] /\ snap'[q] = snap[q]
    BY <2>1, <2>2, TakeFits DEF Base, Steps
  <2>4. TypeOK' /\ OthersStay(r)
    BY <2>2, <2>3 DEF Base, TypeOK, OthersStay, rows, followUps
  <2>5. WorkerFits(r)'
    BY <2>1, <2>3 DEF WorkerFits
  <2>6. QED
    BY <2>2, <2>4, <2>5, RowsUnchangedFits DEF StepFits
<1>2. ASSUME CommitCreate(r)
      PROVE  StepFits(r)
  <2> DEFINE onTrial == call[r].op = "createTrial"
             type == IF onTrial THEN "TRIAL_STARTED" ELSE "CREATED"
             status == IF onTrial THEN "TRIALING" ELSE "ACTIVE"
             row == [ status |-> status, version |-> 1, plan |-> call[r].plan,
                      cancelAtPeriodEnd |-> FALSE,
                      periodEnd |-> IF onTrial THEN 0 ELSE now + 1,
                      trialEnd |-> IF onTrial THEN "planned" ELSE "none" ]
             event == [type |-> type, from |-> None, to |-> status,
                       key |-> call[r].key, change |-> 0]
  <2>1. PICK s \in Subs :
          /\ ~Exists(s)
          /\ sub' = [sub EXCEPT ![s] = row]
          /\ item' = [item EXCEPT ![s] = call[r].plan]
          /\ trial' = IF onTrial
                      THEN [sub |-> s, status |-> "ACTIVE", endsAt |-> "planned"]
                      ELSE trial
          /\ events' = [events EXCEPT ![s] = <<event>>]
          /\ Committed(r, s, type, 1)
          /\ UNCHANGED <<now, changes, followUps>>
    BY <1>2 DEF CommitCreate
  <2>2. call[r] \in Call /\ call[r].plan \in Plans /\ now \in Nat
    BY <1>2 DEF CommitCreate, Base, TypeOK, WorkerFits, Times
  <2>3. row \in SubRow /\ row.status # "ABSENT"
    BY <2>2 DEF SubRow, Times, Statuses
  <2>4. event \in EventRow
    BY <2>2 DEF EventRow, EventTypes, Statuses, Call
  <2> HIDE DEF row, event
  <2>5. <<event>> \in Seq(EventRow)
    BY <2>4
  <2>6. sub' \in [Subs -> SubRow] /\ events' \in [Subs -> Seq(EventRow)]
    BY <2>1, <2>3, <2>5 DEF Base, TypeOK
  <2>7. item' \in [Subs -> Plans \cup {None}] /\ trial' \in TrialRow
    BY <2>1, <2>2 DEF Base, TypeOK, TrialRow
  <2>8. Exists(s)' /\ \A t \in Subs \ {s} : sub'[t] = sub[t] /\ events'[t] = events[t]
    BY <2>1, <2>3 DEF Base, TypeOK, Exists
  <2>9. /\ pc' \in [Requests -> Steps] /\ call' \in [Requests -> Call]
        /\ snap' \in [Requests -> SubRow] /\ ref' \in [Requests -> Nat]
        /\ OthersStay(r)
        /\ WorkerFits(r)'
    BY <2>1, <2>8, CommittedFits DEF Base
  <2>10. TypeOK'
    BY <2>1, <2>6, <2>7, <2>9 DEF Base, TypeOK, followUps
  <2>11. \A t \in Subs : Len(changes[t]) \in Nat /\ changes'[t] = changes[t]
    BY <2>1, LenProperties DEF Base, TypeOK
  <2>12. AbsentEmpty' /\ RowsStay
    BY <2>1, <2>8, <2>11 DEF Base, AbsentEmpty, RowsStay, Exists
  <2>13. QED
    BY <2>9, <2>10, <2>12 DEF StepFits
<1>3. ASSUME OverridePeriod(r)
      PROVE  StepFits(r)
  <2> DEFINE s == call[r].sub
  <2>1. PICK days \in 1..2 :
          sub' = [sub EXCEPT ![s].periodEnd = now + days, ![s].version = @ + 1]
    BY <1>3 DEF OverridePeriod
  <2> DEFINE row == [sub[s] EXCEPT !.periodEnd = now + days, !.version = @ + 1]
  <2>2. s \in Subs /\ Exists(s) /\ sub[s] \in SubRow /\ now \in Nat
    BY <1>3 DEF OverridePeriod, Base, TypeOK, WorkerFits, Times
  <2>3. now + days \in Times
    BY <2>2 DEF Times
  <2> HIDE DEF s
  <2>4. row \in SubRow /\ row.status = sub[s].status
    BY <2>2, <2>3, PeriodEndUpdated DEF Updated
  <2>5. sub' = [sub EXCEPT ![s] = row]
    BY <2>1, <2>2 DEF Base, TypeOK
  <2> HIDE DEF row
  <2>6. sub' \in [Subs -> SubRow] /\ RowsStay /\ AbsentEmpty'
    BY <1>3, <2>2, <2>4, <2>5, RowWriteFits DEF OverridePeriod, Exists
  <2>7. QED
    BY <1>3, <2>6, IdleFits DEF OverridePeriod, StepFits, Base, TypeOK, followUps
<1>4. QED
  BY <1>1, <1>2, <1>3 DEF CreateRequest, CreateOps

\* A step of a transition.
LEMMA TransitionStep ==
    ASSUME Base, NEW r \in Requests, TransitionRequest(r)
    PROVE  StepFits(r)
<1>1. ASSUME NEW s \in Subs, NEW op \in TransitionOps, NEW k \in Keys \cup {None},
             NEW v \in 0..MaxVersion, NEW p \in Plans \cup {None},
             BeginTransition(r, s, op, k, v, p)
      PROVE  StepFits(r)
  <2> DEFINE c == [op |-> op, sub |-> s, key |-> k, version |-> v, plan |-> p]
  <2>1. c \in Call /\ c.op = op /\ c.sub = s
    BY DEF Call, OpNames
  <2>2. Take(r, c, "staged") /\ Exists(s) /\ UNCHANGED <<now, rows, followUps, ref>>
    BY <1>1 DEF BeginTransition, Admissible
  <2> HIDE DEF c
  <2>3. /\ pc' \in [Requests -> Steps] /\ call' \in [Requests -> Call]
        /\ snap' \in [Requests -> SubRow]
        /\ pc'[r] = "staged" /\ call'[r] = c /\ snap'[r] = sub[s]
        /\ \A q \in Requests \ {r} :
              pc'[q] = pc[q] /\ call'[q] = call[q] /\ snap'[q] = snap[q]
    BY <2>1, <2>2, TakeFits DEF Base, Steps
  <2>4. TypeOK' /\ OthersStay(r)
    BY <2>2, <2>3 DEF Base, TypeOK, OthersStay, rows, followUps
  <2>5. WorkerFits(r)'
    <3>1. ref'[r] = 0 /\ Len(changes'[s]) \in Nat
      BY <2>2, LenProperties DEF Base, TypeOK, WorkerFits, Take, rows
    <3>2. QED
      BY <2>1, <2>2, <2>3, <3>1, ExistsHasStatus DEF Base, WorkerFits, Exists, rows
  <2>6. QED
    BY <2>2, <2>4, <2>5, RowsUnchangedFits DEF StepFits
<1>2. ASSUME NEW s \in Subs, NEW k \in Keys \cup {None}, NEW v \in 0..MaxVersion,
             BeginRenew(r, s, k, v)
      PROVE  StepFits(r)
  <2> DEFINE c == [op |-> "renew", sub |-> s, key |-> k, version |-> v, plan |-> None]
             d == [c EXCEPT !.op = "renewCancel"]
             n == Len(changes[s])
  <2>1. Exists(s) /\ UNCHANGED <<now, rows, followUps>>
    BY <1>2 DEF BeginRenew, Admissible
  <2>2. \/ Take(r, d, "staged") /\ \E i \in 0..n : ref' = [ref EXCEPT ![r] = i]
        \/ Take(r, c, "renewing") /\ UNCHANGED ref
    <3>1. n \in Nat /\ \A i \in DueCancels(s) : i \in 1..n
      BY LenProperties DEF Base, TypeOK, DueCancels, Due
    <3>2. QED
      BY <1>2, <3>1 DEF BeginRenew
  <2>3. /\ c \in Call /\ c.op = "renew" /\ c.sub = s
        /\ d \in Call /\ d.op = "renewCancel" /\ d.sub = s
    BY TransitionOpsAre DEF Call, OpNames
  <2>4. n \in Nat /\ "renew" \in TransitionOps /\ "renewCancel" \in TransitionOps
    BY TransitionOpsAre, LenProperties DEF Base, TypeOK
  <2> HIDE DEF c, d
  <2>5. CASE Take(r, d, "staged") /\ \E i \in 0..n : ref' = [ref EXCEPT ![r] = i]
    <3>1. PICK i \in 0..n : ref' = [ref EXCEPT ![r] = i]
      BY <2>5
    <3>2. /\ pc' \in [Requests -> Steps] /\ call' \in [Requests -> Call]
          /\ snap' \in [Requests -> SubRow]
          /\ pc'[r] = "staged" /\ call'[r] = d /\ snap'[r] = sub[s]
          /\ \A q \in Requests \ {r} :
                pc'[q] = pc[q] /\ call'[q] = call[q] /\ snap'[q] = snap[q]
      BY <2>3, <2>5, TakeFits DEF Base, Steps
    <3>3. TypeOK' /\ OthersStay(r)
      <4>1. ref' \in [Requests -> Nat] /\ \A q \in Requests \ {r} : ref'[q] = ref[q]
        BY <2>4, <3>1 DEF Base, TypeOK
      <4>2. QED
        BY <2>1, <3>2, <4>1 DEF Base, TypeOK, OthersStay, rows, followUps
    <3>4. WorkerFits(r)'
      <4>1. ref'[r] \in 0..Len(changes'[s])
        BY <2>1, <3>1 DEF Base, TypeOK, rows
      <4>2. QED
        BY <2>1, <2>3, <2>4, <3>2, <4>1, ExistsHasStatus DEF Base, WorkerFits, Exists, rows
    <3>5. QED
      BY <2>1, <3>3, <3>4, RowsUnchangedFits DEF StepFits
  <2>6. CASE Take(r, c, "renewing") /\ UNCHANGED ref
    <3>1. /\ pc' \in [Requests -> Steps] /\ call' \in [Requests -> Call]
          /\ snap' \in [Requests -> SubRow]
          /\ pc'[r] = "renewing" /\ call'[r] = c /\ snap'[r] = sub[s]
          /\ \A q \in Requests \ {r} :
                pc'[q] = pc[q] /\ call'[q] = call[q] /\ snap'[q] = snap[q]
      BY <2>3, <2>6, TakeFits DEF Base, Steps
    <3>2. TypeOK' /\ OthersStay(r)
      BY <2>1, <2>6, <3>1 DEF Base, TypeOK, OthersStay, rows, followUps
    <3>3. WorkerFits(r)'
      BY <2>1, <2>3, <2>4, <3>1, ExistsHasStatus DEF Base, WorkerFits, Exists, rows
    <3>4. QED
      BY <2>1, <3>2, <3>3, RowsUnchangedFits DEF StepFits
  <2>7. QED
    BY <2>2, <2>5, <2>6
<1>3. ASSUME FindDueChange(r)
      PROVE  StepFits(r)
  <2> DEFINE s == call[r].sub
             n == Len(changes[s])
  <2>1. /\ s \in Subs /\ Exists(s) /\ call[r].op \in TransitionOps
        /\ snap[r].status \in Statuses
        /\ pc' = [pc EXCEPT ![r] = "staged"]
        /\ UNCHANGED <<now, rows, followUps, call, snap>>
    BY <1>3 DEF FindDueChange, Base, WorkerFits
  <2>2. n \in Nat /\ \A i \in Due(s) : i \in 1..n
    BY <2>1, LenProperties DEF Base, TypeOK, Due
  <2>3. PICK i \in 0..n : ref' = [ref EXCEPT ![r] = i]
    <3>1. PICK i \in IF Due(s) = {} THEN {0} ELSE Due(s) : ref' = [ref EXCEPT ![r] = i]
      BY <1>3 DEF FindDueChange
    <3>2. i \in 0..n
      BY <2>2, <3>1
    <3>3. QED
      BY <3>1, <3>2
  <2>4. TypeOK' /\ OthersStay(r)
    BY <2>1, <2>2, <2>3 DEF Base, TypeOK, OthersStay, Steps, rows, followUps
  <2>5. WorkerFits(r)'
    <3>1. pc'[r] = "staged" /\ ref'[r] \in 0..n
      BY <2>1, <2>3 DEF Base, TypeOK
    <3>2. QED
      BY <2>1, <3>1 DEF WorkerFits, Exists, rows
  <2>6. QED
    BY <2>1, <2>4, <2>5, RowsUnchangedFits DEF StepFits
<1>4. ASSUME CommitTransition(r)
      PROVE  StepFits(r)
  <2> PICK s \in Subs : s = call[r].sub
    BY <1>4 DEF CommitTransition, Base, WorkerFits
  <2> DEFINE type == EventType(call[r].op, snap[r].status, ref[r])
             n == Len(changes[s])
             event == [type |-> type, from |-> snap[r].status, to |-> Target[call[r].op],
                       key |-> call[r].key,
                       change |-> IF call[r].op = "renew" THEN ref[r] ELSE 0]
  <2>1. /\ pc[r] = "staged"
        /\ sub' = [sub EXCEPT ![s] = NewRow(r)]
        /\ item' = [item EXCEPT ![s] = IF NewPlan(r) = None THEN @ ELSE NewPlan(r)]
        /\ trial' = NewTrial(r)
        /\ changes' = IF ref[r] = 0 THEN changes
                      ELSE [changes EXCEPT ![s][ref[r]].status = "APPLIED"]
        /\ events' = [events EXCEPT ![s] = Append(@, event)]
        /\ Committed(r, s, type, Len(events[s]) + 1)
        /\ UNCHANGED <<now, followUps>>
    BY <1>4 DEF CommitTransition
  <2>2. /\ Exists(s) /\ call[r].op \in TransitionOps /\ call[r] \in Call
        /\ ref[r] \in 0..n /\ snap[r] \in SubRow
        /\ snap[r].status \in Statuses
    BY <2>1 DEF Base, TypeOK, WorkerFits
  <2>3. n \in Nat /\ events[s] \in Seq(EventRow) /\ Len(events[s]) \in Nat
    BY <2>2, LenProperties DEF Base, TypeOK
  <2>4. NewRow(r) \in SubRow /\ NewRow(r).status \in Statuses \ {"ABSENT"}
    BY <2>1, <2>2, NewRowType, TargetType DEF Base, Statuses
  <2>5. sub' \in [Subs -> SubRow]
    BY <2>1, <2>4 DEF Base, TypeOK
  <2>6. item' \in [Subs -> Plans \cup {None}]
    BY <2>1, <2>2, NewPlanType DEF Base, TypeOK
  <2>7. trial' \in TrialRow
    BY <2>1 DEF Base, TypeOK, NewTrial, TrialRow
  <2>8. /\ changes' \in [Subs -> Seq(ChangeRow)]
        /\ \A t \in Subs : Len(changes'[t]) = Len(changes[t])
        /\ \A t \in Subs \ {s} : changes'[t] = changes[t]
    <3>1. CASE ref[r] = 0
      BY <2>1, <3>1 DEF Base, TypeOK
    <3>2. CASE ref[r] # 0
      <4>1. ref[r] \in 1..Len(changes[s])
        BY <2>2, <2>3, <3>2
      <4>2. ChangeMarked(s, ref[r], "APPLIED")
        BY <2>1, <3>2 DEF ChangeMarked
      <4>3. QED
        BY <4>1, <4>2, ChangeUpdated DEF Base
    <3>3. QED
      BY <3>1, <3>2
  <2>9. event \in EventRow
    <3>1. type \in EventTypes /\ Target[call[r].op] \in Statuses
      BY <2>2, EventTypeType, TargetType
    <3>2. QED
      BY <2>2, <3>1 DEF EventRow, Call
  <2> HIDE DEF event, type
  <2>10. events' \in [Subs -> Seq(EventRow)] /\ \A t \in Subs \ {s} : events'[t] = events[t]
    BY <2>1, <2>2, <2>3, <2>9 DEF Base, TypeOK
  <2>11. Exists(s)' /\ \A t \in Subs \ {s} : sub'[t] = sub[t]
    BY <2>1, <2>2, <2>4 DEF Base, TypeOK, Exists, Statuses
  <2>12. /\ pc' \in [Requests -> Steps] /\ call' \in [Requests -> Call]
         /\ snap' \in [Requests -> SubRow] /\ ref' \in [Requests -> Nat]
         /\ OthersStay(r)
         /\ WorkerFits(r)'
    BY <2>1, <2>2, <2>3, <2>11, CommittedFits DEF Base
  <2>13. TypeOK'
    BY <2>1, <2>5, <2>6, <2>7, <2>8, <2>10, <2>12 DEF Base, TypeOK, followUps
  <2>14. \A t \in Subs : Len(changes[t]) \in Nat
    BY LenProperties DEF Base, TypeOK
  <2>15. AbsentEmpty' /\ RowsStay
    <3>1. \A t \in Subs \ {s} : Exists(t)' <=> Exists(t)
      BY <2>11 DEF Exists
    <3>2. AbsentEmpty'
      BY <2>8, <2>10, <2>11, <3>1 DEF Base, AbsentEmpty
    <3>3. RowsStay
      BY <2>8, <2>11, <2>14, <3>1 DEF RowsStay
    <3>4. QED
      BY <3>2, <3>3
  <2>16. QED
    BY <2>12, <2>13, <2>15 DEF StepFits
<1>5. ASSUME FollowUp(r)
      PROVE  StepFits(r)
  <2>1. /\ pc[r] = "telling" /\ call[r].sub \in Subs /\ Exists(call[r].sub)
        /\ told' \subseteq Subs \X Nat
        /\ UNCHANGED <<now, rows, dropped>>
    <3>1. ref[r] \in Nat /\ told \subseteq Subs \X Nat
      BY DEF Base, TypeOK
    <3>2. /\ pc[r] = "telling" /\ told' = told \cup {<<call[r].sub, ref[r]>>}
          /\ UNCHANGED <<now, rows, dropped>>
      BY <1>5 DEF FollowUp
    <3>3. call[r].sub \in Subs /\ Exists(call[r].sub)
      BY <3>2 DEF Base, WorkerFits
    <3>4. QED
      BY <3>1, <3>2, <3>3
  <2>2. CASE Idle(r)
    BY <2>1, <2>2, IdleFits, RowsUnchangedFits DEF StepFits, Base, TypeOK, rows
  <2>3. CASE pc' = [pc EXCEPT ![r] = "granted"] /\ UNCHANGED <<call, snap, ref>>
    <3>1. TypeOK' /\ OthersStay(r) /\ pc'[r] = "granted"
      BY <2>1, <2>3 DEF Base, TypeOK, OthersStay, Steps, rows
    <3>2. WorkerFits(r)'
      BY <2>1, <2>3, <3>1 DEF WorkerFits, Exists, rows
    <3>3. QED
      BY <2>1, <3>1, <3>2, RowsUnchangedFits DEF StepFits
  <2>4. QED
    BY <1>5, <2>2, <2>3 DEF FollowUp
<1>6. QED
  BY <1>1, <1>2, <1>3, <1>4, <1>5 DEF TransitionRequest

\* A step of a change that is scheduled, or of a cancellation at period end.
LEMMA ScheduleStep ==
    ASSUME Base, NEW r \in Requests, ScheduleRequest(r)
    PROVE  StepFits(r)
<1>1. ASSUME NEW s \in Subs, NEW op \in {"cancelLater", "changeLater"},
             NEW k \in Keys \cup {None}, NEW p \in Plans \cup {None},
             BeginSchedule(r, s, op, k, p)
      PROVE  StepFits(r)
  <2>1. PICK c \in Call, step \in {"flagging", "scheduling"} :
          c.op = op /\ c.sub = s /\ Take(r, c, step)
    <3>1. /\ [NoCall EXCEPT !.op = op, !.sub = s, !.key = k] \in Call
          /\ [NoCall EXCEPT !.op = op, !.sub = s, !.key = k].op = op
          /\ [NoCall EXCEPT !.op = op, !.sub = s, !.key = k].sub = s
      BY DEF NoCall, Call, OpNames
    <3>2. /\ [NoCall EXCEPT !.op = op, !.sub = s, !.key = k, !.plan = p] \in Call
          /\ [NoCall EXCEPT !.op = op, !.sub = s, !.key = k, !.plan = p].op = op
          /\ [NoCall EXCEPT !.op = op, !.sub = s, !.key = k, !.plan = p].sub = s
      BY DEF NoCall, Call, OpNames
    <3>3. QED
      BY <1>1, <3>1, <3>2 DEF BeginSchedule
  <2>2. Exists(s) /\ UNCHANGED <<now, rows, followUps, ref>>
    BY <1>1 DEF BeginSchedule
  <2>3. /\ pc' \in [Requests -> Steps] /\ call' \in [Requests -> Call]
        /\ snap' \in [Requests -> SubRow]
        /\ pc'[r] = step /\ call'[r] = c
        /\ \A q \in Requests \ {r} :
              pc'[q] = pc[q] /\ call'[q] = call[q] /\ snap'[q] = snap[q]
    BY <2>1, TakeFits DEF Base, Steps
  <2>4. TypeOK' /\ OthersStay(r)
    BY <2>2, <2>3 DEF Base, TypeOK, OthersStay, rows, followUps
  <2>5. WorkerFits(r)'
    BY <2>1, <2>2, <2>3 DEF WorkerFits, ScheduleOps, Exists, rows
  <2>6. QED
    BY <2>2, <2>4, <2>5, RowsUnchangedFits DEF StepFits
<1>2. ASSUME NEW s \in Subs, NEW n \in 1..MaxChanges, BeginUnschedule(r, s, n)
      PROVE  StepFits(r)
  <2> DEFINE c == [NoCall EXCEPT !.op = "unschedule", !.sub = s]
  <2>1. c \in Call /\ c.op = "unschedule" /\ c.sub = s
    BY DEF NoCall, Call, OpNames
  <2>2. /\ Take(r, c, "unscheduling") /\ Exists(s) /\ n \in 1..Len(changes[s])
        /\ ref' = [ref EXCEPT ![r] = n] /\ UNCHANGED <<now, rows, followUps>>
    BY <1>2 DEF BeginUnschedule
  <2> HIDE DEF c
  <2>3. /\ pc' \in [Requests -> Steps] /\ call' \in [Requests -> Call]
        /\ snap' \in [Requests -> SubRow]
        /\ pc'[r] = "unscheduling" /\ call'[r] = c
        /\ \A q \in Requests \ {r} :
              pc'[q] = pc[q] /\ call'[q] = call[q] /\ snap'[q] = snap[q]
    BY <2>1, <2>2, TakeFits DEF Base, Steps
  <2>4. ref' \in [Requests -> Nat] /\ ref'[r] = n /\ \A q \in Requests \ {r} : ref'[q] = ref[q]
    BY <2>2, ConstantsAssumption DEF Base, TypeOK
  <2>5. TypeOK' /\ OthersStay(r)
    BY <2>2, <2>3, <2>4 DEF Base, TypeOK, OthersStay, rows, followUps
  <2>6. WorkerFits(r)'
    BY <2>1, <2>2, <2>3, <2>4 DEF WorkerFits, Exists, rows
  <2>7. QED
    BY <2>2, <2>5, <2>6, RowsUnchangedFits DEF StepFits
<1>3. ASSUME NEW s \in Subs, BeginExtendTrial(r, s)
      PROVE  StepFits(r)
  <2> DEFINE c == [NoCall EXCEPT !.op = "extendTrial", !.sub = s]
  <2>1. c \in Call /\ c.sub = s
    BY DEF NoCall, Call, OpNames
  <2>2. Take(r, c, "extending") /\ Exists(s) /\ UNCHANGED <<now, rows, followUps, ref>>
    BY <1>3 DEF BeginExtendTrial, Exists
  <2> HIDE DEF c
  <2>3. /\ pc' \in [Requests -> Steps] /\ call' \in [Requests -> Call]
        /\ snap' \in [Requests -> SubRow]
        /\ pc'[r] = "extending" /\ call'[r] = c
        /\ \A q \in Requests \ {r} :
              pc'[q] = pc[q] /\ call'[q] = call[q] /\ snap'[q] = snap[q]
    BY <2>1, <2>2, TakeFits DEF Base, Steps
  <2>4. TypeOK' /\ OthersStay(r)
    BY <2>2, <2>3 DEF Base, TypeOK, OthersStay, rows, followUps
  <2>5. WorkerFits(r)'
    BY <2>1, <2>2, <2>3 DEF WorkerFits, Exists, rows
  <2>6. QED
    BY <2>2, <2>4, <2>5, RowsUnchangedFits DEF StepFits
<1>4. ASSUME NEW s \in Subs, NEW time \in 1..MaxTime, AdjustRenewalDate(r, s, time)
      PROVE  StepFits(r)
  <2> DEFINE row == [sub[s] EXCEPT !.periodEnd = time, !.version = @ + 1]
  <2>1. /\ Exists(s) /\ sub' = [sub EXCEPT ![s].periodEnd = time, ![s].version = @ + 1]
        /\ UNCHANGED <<now, item, trial, changes, events, followUps, workers>>
    BY <1>4 DEF AdjustRenewalDate
  <2>2. time \in Times /\ sub[s] \in SubRow
    BY ConstantsAssumption DEF Base, TypeOK, Times
  <2>3. row \in SubRow /\ row.status = sub[s].status
    BY <2>2, PeriodEndUpdated DEF Updated
  <2>4. sub' = [sub EXCEPT ![s] = row]
    BY <2>1, <2>2 DEF Base, TypeOK
  <2> HIDE DEF row
  <2>5. sub' \in [Subs -> SubRow] /\ RowsStay /\ AbsentEmpty' /\ Exists(s)'
    BY <2>1, <2>3, <2>4, RowWriteFits DEF Exists, Base, TypeOK
  <2>6. TypeOK' /\ OthersStay(r)
    BY <2>1, <2>5 DEF Base, TypeOK, OthersStay, followUps, workers
  <2>7. WorkerFits(r)'
    BY <2>1, <2>5 DEF Base, WorkerFits, RowsStay, workers
  <2>8. QED
    BY <2>5, <2>6, <2>7 DEF StepFits
<1>5. ASSUME FlagCancel(r)
      PROVE  StepFits(r)
  <2> PICK s \in Subs : s = call[r].sub
    BY <1>5 DEF FlagCancel, Base, WorkerFits
  <2> DEFINE row == [sub[s] EXCEPT !.cancelAtPeriodEnd = TRUE, !.version = @ + 1]
  <2>1. /\ pc[r] = "flagging" /\ pc' = [pc EXCEPT ![r] = "scheduling"]
        /\ sub' = [sub EXCEPT ![s].cancelAtPeriodEnd = TRUE, ![s].version = @ + 1]
        /\ UNCHANGED <<now, item, trial, changes, events, followUps, call, snap, ref>>
    BY <1>5 DEF FlagCancel
  <2>2. Exists(s) /\ sub[s] \in SubRow /\ call[r].op \in ScheduleOps
    BY <2>1 DEF Base, TypeOK, WorkerFits
  <2>3. row \in SubRow /\ row.status = sub[s].status
    BY <2>2, FlagUpdated DEF Updated
  <2>4. sub' = [sub EXCEPT ![s] = row]
    BY <2>1, <2>2 DEF Base, TypeOK
  <2> HIDE DEF row
  <2>5. sub' \in [Subs -> SubRow] /\ RowsStay /\ AbsentEmpty' /\ Exists(s)'
    BY <2>1, <2>2, <2>3, <2>4, RowWriteFits DEF Exists, Base, TypeOK
  <2>6. TypeOK' /\ OthersStay(r) /\ pc'[r] = "scheduling"
    BY <2>1, <2>5 DEF Base, TypeOK, OthersStay, Steps, followUps
  <2>7. WorkerFits(r)'
    BY <2>1, <2>2, <2>5, <2>6 DEF WorkerFits
  <2>8. QED
    BY <2>5, <2>6, <2>7 DEF StepFits
<1>6. ASSUME CreateChange(r)
      PROVE  StepFits(r)
  <2> PICK s \in Subs : s = call[r].sub
    BY <1>6 DEF CreateChange, Base, WorkerFits
  <2> DEFINE change == [ type |-> IF call[r].op = "cancelLater" THEN "CANCEL_AT_PERIOD_END"
                                  ELSE "SWITCH",
                         status |-> "PENDING",
                         plan |-> call[r].plan,
                         effectiveAt |-> OrNow(snap[r].periodEnd) ]
             n == Len(changes[s])
  <2>1. /\ pc[r] = "scheduling" /\ pc' = [pc EXCEPT ![r] = "noting"]
        /\ changes' = [changes EXCEPT ![s] = Append(@, change)]
        /\ ref' = [ref EXCEPT ![r] = n + 1]
        /\ UNCHANGED <<now, sub, item, trial, events, followUps, call, snap>>
    BY <1>6 DEF CreateChange
  <2>2. /\ Exists(s) /\ call[r].op \in ScheduleOps /\ n \in Nat
        /\ changes[s] \in Seq(ChangeRow)
    BY <2>1, LenProperties DEF Base, TypeOK, WorkerFits
  <2>3. change \in ChangeRow
    BY DEF Base, TypeOK, ChangeRow, Call, SubRow, OrNow, Times
  <2> HIDE DEF change
  <2>4. /\ changes' \in [Subs -> Seq(ChangeRow)]
        /\ Len(changes'[s]) = n + 1
        /\ \A t \in Subs \ {s} : changes'[t] = changes[t]
    BY <2>1, <2>2, <2>3 DEF Base, TypeOK
  <2>5. TypeOK' /\ OthersStay(r) /\ pc'[r] = "noting"
    BY <2>1, <2>2, <2>4 DEF Base, TypeOK, OthersStay, Steps, followUps
  <2>6. \A t \in Subs : Len(changes[t]) \in Nat
    BY LenProperties DEF Base, TypeOK
  <2>7. AbsentEmpty' /\ RowsStay
    BY <2>1, <2>2, <2>4, <2>6 DEF Base, AbsentEmpty, RowsStay, Exists
  <2>8. WorkerFits(r)'
    BY <2>1, <2>2, <2>5 DEF WorkerFits, Exists
  <2>9. QED
    BY <2>5, <2>7, <2>8 DEF StepFits
<1>7. ASSUME CancelChange(r)
      PROVE  StepFits(r)
  <2> PICK s \in Subs : s = call[r].sub
    BY <1>7 DEF CancelChange, Base, WorkerFits
  <2>1. /\ pc[r] = "unscheduling" /\ pc' = [pc EXCEPT ![r] = "noting"]
        /\ ChangeMarked(s, ref[r], "CANCELED")
        /\ UNCHANGED <<now, sub, item, trial, events, followUps, call, snap, ref>>
    BY <1>7 DEF CancelChange, ChangeMarked
  <2>2. Exists(s) /\ call[r].op \in ScheduleOps /\ ref[r] \in 1..Len(changes[s])
    BY <2>1 DEF Base, WorkerFits, ScheduleOps
  <2>3. /\ changes' \in [Subs -> Seq(ChangeRow)]
        /\ \A t \in Subs : Len(changes'[t]) = Len(changes[t])
        /\ \A t \in Subs \ {s} : changes'[t] = changes[t]
    BY <2>1, <2>2, ChangeUpdated DEF Base
  <2>4. TypeOK' /\ OthersStay(r) /\ pc'[r] = "noting"
    BY <2>1, <2>3 DEF Base, TypeOK, OthersStay, Steps, followUps
  <2>5. \A t \in Subs : Len(changes[t]) \in Nat
    BY LenProperties DEF Base, TypeOK
  <2>6. AbsentEmpty' /\ RowsStay
    BY <2>1, <2>2, <2>3, <2>5 DEF Base, AbsentEmpty, RowsStay, Exists
  <2>7. WorkerFits(r)'
    BY <2>1, <2>2, <2>4 DEF WorkerFits, Exists
  <2>8. QED
    BY <2>4, <2>6, <2>7 DEF StepFits
<1>8. ASSUME NoteChange(r)
      PROVE  StepFits(r)
  <2> PICK s \in Subs : s = call[r].sub
    BY <1>8 DEF NoteChange, Base, WorkerFits
  <2> DEFINE event == [type |-> [ cancelLater |-> "CANCEL_SCHEDULED",
                                  changeLater |-> "SCHEDULED_CHANGE_CREATED",
                                  unschedule  |-> "SCHEDULED_CHANGE_CANCELED" ][call[r].op],
                       from |-> None, to |-> None, key |-> call[r].key, change |-> ref[r]]
  <2>1. /\ pc[r] = "noting" /\ Idle(r)
        /\ events' = [events EXCEPT ![s] = Append(@, event)]
        /\ UNCHANGED <<now, sub, item, trial, changes, followUps>>
    BY <1>8 DEF NoteChange
  <2>2. Exists(s) /\ call[r].op \in ScheduleOps /\ events[s] \in Seq(EventRow)
    BY <2>1 DEF Base, TypeOK, WorkerFits
  <2>3. event \in EventRow
    BY <2>2 DEF Base, TypeOK, Call, EventRow, EventTypes, ScheduleOps
  <2> HIDE DEF event
  <2>4. events' \in [Subs -> Seq(EventRow)] /\ \A t \in Subs \ {s} : events'[t] = events[t]
    BY <2>1, <2>2, <2>3 DEF Base, TypeOK
  <2>5. TypeOK' /\ OthersStay(r) /\ WorkerFits(r)'
    BY <2>1, <2>4, IdleFits DEF Base, TypeOK, followUps
  <2>6. \A t \in Subs : Len(changes[t]) \in Nat
    BY LenProperties DEF Base, TypeOK
  <2>7. AbsentEmpty' /\ RowsStay
    BY <2>1, <2>2, <2>4, <2>6 DEF Base, AbsentEmpty, RowsStay, Exists
  <2>8. QED
    BY <2>5, <2>7 DEF StepFits
<1>9. ASSUME ExtendTrial(r)
      PROVE  StepFits(r)
  <2> PICK s \in Subs : s = call[r].sub
    BY <1>9 DEF ExtendTrial, Base, WorkerFits
  <2> DEFINE row == [sub[s] EXCEPT !.trialEnd = "extended", !.version = @ + 1]
  <2>1. /\ pc[r] = "extending" /\ Idle(r)
        /\ sub' = [sub EXCEPT ![s].trialEnd = "extended", ![s].version = @ + 1]
        /\ trial' = IF trial.sub = s THEN [trial EXCEPT !.endsAt = "extended"] ELSE trial
        /\ UNCHANGED <<now, item, changes, events, followUps>>
    BY <1>9 DEF ExtendTrial
  <2>2. Exists(s) /\ sub[s] \in SubRow
    BY <2>1 DEF Base, TypeOK, WorkerFits
  <2>3. row \in SubRow /\ row.status = sub[s].status
    BY <2>2, TrialEndUpdated DEF Updated
  <2>4. sub' = [sub EXCEPT ![s] = row]
    BY <2>1, <2>2 DEF Base, TypeOK
  <2> HIDE DEF row
  <2>5. sub' \in [Subs -> SubRow] /\ RowsStay /\ AbsentEmpty'
    BY <2>1, <2>2, <2>3, <2>4, RowWriteFits DEF Exists
  <2>6. trial' \in TrialRow
    BY <2>1 DEF Base, TypeOK, TrialRow
  <2>7. TypeOK' /\ OthersStay(r) /\ WorkerFits(r)'
    BY <2>1, <2>5, <2>6, IdleFits DEF Base, TypeOK, followUps
  <2>8. QED
    BY <2>5, <2>7 DEF StepFits
<1>10. QED
  BY <1>1, <1>2, <1>3, <1>4, <1>5, <1>6, <1>7, <1>8, <1>9 DEF ScheduleRequest

\* A call fails.
LEMMA FailStep ==
    ASSUME Base, NEW r \in Requests, Fail(r)
    PROVE  StepFits(r)
<1>1. /\ Idle(r) /\ UNCHANGED <<now, rows, told>>
      /\ dropped' = IF pc[r] = "telling" THEN dropped \cup {<<call[r].sub, ref[r]>>}
                    ELSE dropped
  BY DEF Fail
<1>2. dropped' \subseteq Subs \X Nat
  <2>1. ref[r] \in Nat /\ dropped \subseteq Subs \X Nat
    BY DEF Base, TypeOK
  <2>2. pc[r] = "telling" => call[r].sub \in Subs
    BY DEF Base, WorkerFits
  <2>3. QED
    BY <1>1, <2>1, <2>2
<1>3. QED
  BY <1>1, <1>2, IdleFits, RowsUnchangedFits DEF StepFits, Base, TypeOK, rows

-----------------------------------------------------------------------------
(* Type correctness. *)

\* A step of worker r keeps the base invariant, that of the others included.
LEMMA StepKeepsBase ==
    ASSUME Base, NEW r \in Requests, StepFits(r)
    PROVE  Base'
<1>1. \A s \in Subs : Len(changes[s]) \in Nat /\ Len(changes'[s]) \in Nat
  BY LenProperties DEF StepFits, Base, TypeOK
<1>2. ASSUME NEW q \in Requests \ {r}
      PROVE  WorkerFits(q)'
  <2>1. pc'[q] = pc[q] /\ call'[q] = call[q] /\ snap'[q] = snap[q] /\ ref'[q] = ref[q]
    BY DEF StepFits, OthersStay
  <2>2. WorkerFits(q) /\ RowsStay
    BY DEF StepFits, Base
  <2>3. QED
    BY <1>1, <2>1, <2>2 DEF WorkerFits, RowsStay, Base, TypeOK
<1>3. QED
  BY <1>2 DEF StepFits, Base

\* Time passes.
LEMMA TickKeepsBase ==
    ASSUME Base, Tick
    PROVE  Base'
<1>1. now' \in Times /\ UNCHANGED <<rows, followUps, workers>>
  BY DEF Tick, Base, TypeOK, Times
<1>2. QED
  BY <1>1 DEF Base, TypeOK, AbsentEmpty, WorkerFits, Exists, rows, followUps, workers

\* The base invariant is inductive.
LEMMA BaseInvariant == Spec => []Base
<1>1. Init => Base
  <2>1. NoSub \in SubRow /\ NoCall \in Call /\ NoTrial \in TrialRow
    BY DEF NoSub, NoCall, NoTrial, SubRow, Call, OpNames, TrialRow, Times
  <2>2. Init => TypeOK
    BY <2>1 DEF Init, TypeOK, Steps, Times
  <2>3. Init => AbsentEmpty
    BY DEF Init, AbsentEmpty
  <2>4. Init => \A r \in Requests : WorkerFits(r)
    BY DEF Init, WorkerFits
  <2>5. QED
    BY <2>2, <2>3, <2>4 DEF Base
<1>2. Base /\ [Next]_vars => Base'
  <2> SUFFICES ASSUME Base, [Next]_vars PROVE Base'
    OBVIOUS
  <2>1. CASE Tick
    BY <2>1, TickKeepsBase
  <2>2. ASSUME NEW r \in Requests,
               CreateRequest(r) \/ TransitionRequest(r) \/ ScheduleRequest(r) \/ Fail(r)
        PROVE  Base'
    BY <2>2, CreateStep, TransitionStep, ScheduleStep, FailStep, StepKeepsBase
  <2>3. CASE UNCHANGED vars
    BY <2>3 DEF vars, Base, TypeOK, AbsentEmpty, WorkerFits, Exists, rows, followUps, workers
  <2>4. QED
    BY <2>1, <2>2, <2>3 DEF Next
<1>3. QED
  BY <1>1, <1>2, PTL DEF Spec

\* Every table and every worker always holds values of its type, however many
\* requests run at once and wherever they fail.
THEOREM TypeCorrect == Spec => []TypeOK
<1>1. Base => TypeOK
  BY DEF Base
<1>2. QED
  BY <1>1, BaseInvariant, PTL

-----------------------------------------------------------------------------
(* The event log. *)

\* The log of s gets the event e, and the row follows it.
EventAdded(s, e) ==
    /\ events' = [events EXCEPT ![s] = Append(events[s], e)]
    /\ KeyFree(e.key)
    /\ sub'[s].status = IF e.to = None THEN sub[s].status ELSE e.to
    /\ \A t \in Subs \ {s} : sub'[t].status = sub[t].status
    /\ trial.sub # None => trial'.sub = trial.sub
    /\ e.type = "TRIAL_STARTED" => trial.sub = None /\ trial'.sub = s /\ events[s] = <<>>

\* No log changes, nor does any status.
LogUnchanged ==
    /\ events' = events
    /\ \A s \in Subs : sub'[s].status = sub[s].status
    /\ trial'.sub = trial.sub

\* The steps of worker r that write a row, one by one.
LEMMA WritingSteps ==
    ASSUME NEW r \in Requests,
           CreateRequest(r) \/ TransitionRequest(r) \/ ScheduleRequest(r) \/ Fail(r)
    PROVE  \/ UNCHANGED rows \/ CommitCreate(r) \/ CommitTransition(r) \/ NoteChange(r)
           \/ OverridePeriod(r) \/ FlagCancel(r) \/ ExtendTrial(r)
           \/ CreateChange(r) \/ CancelChange(r)
           \/ \E s \in Subs, time \in 1..MaxTime : AdjustRenewalDate(r, s, time)
<1>1. CASE CreateRequest(r)
  BY <1>1 DEF CreateRequest, BeginCreate, FollowUp
<1>2. CASE TransitionRequest(r)
  <2>1. ASSUME NEW s, NEW op, NEW k, NEW v, NEW p, BeginTransition(r, s, op, k, v, p)
        PROVE  UNCHANGED rows
    BY <2>1 DEF BeginTransition
  <2>2. ASSUME NEW s, NEW k, NEW v, BeginRenew(r, s, k, v)
        PROVE  UNCHANGED rows
    BY <2>2 DEF BeginRenew
  <2>3. FindDueChange(r) \/ FollowUp(r) => UNCHANGED rows
    BY DEF FindDueChange, FollowUp
  <2>4. QED
    BY <1>2, <2>1, <2>2, <2>3 DEF TransitionRequest
<1>3. CASE ScheduleRequest(r)
  BY <1>3 DEF ScheduleRequest, BeginSchedule, BeginUnschedule, BeginExtendTrial, FollowUp
<1>4. CASE Fail(r)
  BY <1>4 DEF Fail
<1>5. QED
  BY <1>1, <1>2, <1>3, <1>4

\* What a creation by worker r writes to the log of s.
CreationEvent(r, s, e) ==
    /\ ~Exists(s) /\ events[s] = <<>>
    /\ e.type = IF call[r].op = "createTrial" THEN "TRIAL_STARTED" ELSE "CREATED"
    /\ e.from = None /\ e.to \in {"ACTIVE", "TRIALING"} /\ e.change = 0
    /\ Committed(r, s, e.type, 1)

\* A creation adds the first event of its subscription.
LEMMA CreateAdds ==
    ASSUME Base, NEW r \in Requests, CommitCreate(r)
    PROVE  \E s \in Subs, e \in EventRow : EventAdded(s, e) /\ CreationEvent(r, s, e)
<1> DEFINE onTrial == call[r].op = "createTrial"
           event == [type |-> IF onTrial THEN "TRIAL_STARTED" ELSE "CREATED",
                     from |-> None, to |-> IF onTrial THEN "TRIALING" ELSE "ACTIVE",
                     key |-> call[r].key, change |-> 0]
<1>1. PICK s \in Subs :
        /\ ~Exists(s)
        /\ sub' = [sub EXCEPT ![s] =
              [ status |-> IF onTrial THEN "TRIALING" ELSE "ACTIVE",
                version |-> 1, plan |-> call[r].plan,
                cancelAtPeriodEnd |-> FALSE,
                periodEnd |-> IF onTrial THEN 0 ELSE now + 1,
                trialEnd |-> IF onTrial THEN "planned" ELSE "none" ]]
        /\ trial' = IF onTrial
                    THEN [sub |-> s, status |-> "ACTIVE", endsAt |-> "planned"]
                    ELSE trial
        /\ events' = [events EXCEPT ![s] = <<event>>]
        /\ Committed(r, s, event.type, 1)
  BY DEF CommitCreate
<1>2. KeyFree(call[r].key) /\ (onTrial => trial.sub = None)
  BY DEF CommitCreate, IndexAdmits, TrialIndexAdmits
<1>3. event \in EventRow
  BY DEF Base, TypeOK, EventRow, EventTypes, Statuses, Call
<1>4. events[s] = <<>> /\ <<event>> = Append(events[s], event)
  BY <1>1 DEF Base, AbsentEmpty
<1>5. /\ sub'[s].status = event.to /\ event.to # None
      /\ \A t \in Subs \ {s} : sub'[t] = sub[t]
  BY <1>1, ConstantsAssumption DEF Base, TypeOK, Statuses
<1>6. (trial.sub # None => trial'.sub = trial.sub) /\ (onTrial => trial'.sub = s)
  BY <1>1, <1>2
<1>7. EventAdded(s, event)
  BY <1>1, <1>2, <1>4, <1>5, <1>6 DEF EventAdded
<1>8. CreationEvent(r, s, event)
  <2> HIDE DEF event
  <2>1. /\ event.type = IF onTrial THEN "TRIAL_STARTED" ELSE "CREATED"
        /\ event.from = None /\ event.to \in {"ACTIVE", "TRIALING"} /\ event.change = 0
    BY DEF event
  <2>2. QED
    BY <1>1, <1>4, <2>1 DEF CreationEvent
<1>9. QED
  BY <1>3, <1>7, <1>8

\* What a transition of worker r writes to the log of its subscription.
TransitionEvent(r, e) ==
    /\ call[r].op \in TransitionOps /\ snap[r].status \in Statuses
    /\ e.type = EventType(call[r].op, snap[r].status, ref[r])
    /\ e.from = snap[r].status /\ e.to = Target[call[r].op] /\ e.to # None
    /\ e.change = IF call[r].op = "renew" THEN ref[r] ELSE 0
    /\ Committed(r, call[r].sub, e.type, Len(events[call[r].sub]) + 1)

\* A transition adds the event of the status it writes.
LEMMA TransitionAdds ==
    ASSUME Base, NEW r \in Requests, CommitTransition(r)
    PROVE  \E s \in Subs, e \in EventRow :
               s = call[r].sub /\ EventAdded(s, e) /\ TransitionEvent(r, e)
<1> PICK s \in Subs : s = call[r].sub
  BY DEF CommitTransition, Base, WorkerFits
<1> DEFINE type == EventType(call[r].op, snap[r].status, ref[r])
           event == [type |-> type, from |-> snap[r].status, to |-> Target[call[r].op],
                     key |-> call[r].key,
                     change |-> IF call[r].op = "renew" THEN ref[r] ELSE 0]
<1>1. /\ pc[r] = "staged" /\ KeyFree(call[r].key)
      /\ sub' = [sub EXCEPT ![s] = NewRow(r)]
      /\ trial' = NewTrial(r)
      /\ events' = [events EXCEPT ![s] = Append(events[s], event)]
  BY DEF CommitTransition, IndexAdmits
<1>2. /\ call[r].op \in TransitionOps /\ call[r] \in Call /\ ref[r] \in Nat
      /\ snap[r].status \in Statuses
  BY <1>1 DEF Base, TypeOK, WorkerFits
<1>3. /\ type \in EventTypes /\ type # "TRIAL_STARTED"
      /\ Target[call[r].op] \in Statuses /\ Target[call[r].op] # None
  BY <1>2, EventTypeType, TargetType, ConstantsAssumption
<1> HIDE DEF type
<1>4. event \in EventRow
  BY <1>2, <1>3 DEF EventRow, Call
<1>5. /\ sub'[s].status = Target[call[r].op]
      /\ \A t \in Subs \ {s} : sub'[t] = sub[t]
  BY <1>1, NewRowType DEF Base, TypeOK
<1>6. trial'.sub = trial.sub
  BY <1>1 DEF NewTrial, Base, TypeOK, TrialRow
<1>7. EventAdded(s, event)
  BY <1>1, <1>3, <1>5, <1>6 DEF EventAdded
<1>8. Committed(r, s, event.type, Len(events[s]) + 1)
  BY DEF CommitTransition, type
<1>9. TransitionEvent(r, event)
  BY <1>2, <1>3, <1>8 DEF TransitionEvent, type
<1>10. QED
  BY <1>2, <1>4, <1>7, <1>9

\* What is written to the log when something was scheduled, or unscheduled.
NoteEvent(e) ==
    /\ e.type \in { "CANCEL_SCHEDULED", "SCHEDULED_CHANGE_CREATED", "SCHEDULED_CHANGE_CANCELED" }
    /\ e.to = None

\* A change that was scheduled adds an event that moves no status.
LEMMA NoteAdds ==
    ASSUME Base, NEW r \in Requests, NoteChange(r)
    PROVE  \E s \in Subs, e \in EventRow :
               s = call[r].sub /\ EventAdded(s, e) /\ NoteEvent(e)
<1> PICK s \in Subs : s = call[r].sub
  BY DEF NoteChange, Base, WorkerFits
<1> DEFINE type == [ cancelLater |-> "CANCEL_SCHEDULED",
                     changeLater |-> "SCHEDULED_CHANGE_CREATED",
                     unschedule  |-> "SCHEDULED_CHANGE_CANCELED" ][call[r].op]
           event == [type |-> type, from |-> None, to |-> None, key |-> call[r].key,
                     change |-> ref[r]]
<1>1. /\ KeyFree(call[r].key) /\ call[r].op \in ScheduleOps
      /\ events' = [events EXCEPT ![s] = Append(events[s], event)]
      /\ UNCHANGED <<sub, trial>>
  BY DEF NoteChange, IndexAdmits, Base, WorkerFits
<1>2. type \in EventTypes /\ type # "TRIAL_STARTED"
  BY <1>1 DEF ScheduleOps, EventTypes
<1> HIDE DEF type
<1>3. event \in EventRow
  BY <1>2 DEF Base, TypeOK, Call, EventRow
<1>4. EventAdded(s, event)
  BY <1>1, <1>2 DEF EventAdded
<1>5. NoteEvent(event)
  BY <1>1 DEF NoteEvent, ScheduleOps, type
<1>6. QED
  BY <1>3, <1>4, <1>5

\* A write to the row of s that is no transition: no event, no new status.
RawUpdate(s, row) ==
    /\ Exists(s) /\ Updated(sub[s], row)
    /\ sub' = [sub EXCEPT ![s] = row]
    /\ events' = events /\ item' = item
    /\ \/ row.trialEnd = sub[s].trialEnd /\ trial' = trial
       \/ /\ row.trialEnd = "extended"
          /\ trial' = IF trial.sub = s THEN [trial EXCEPT !.endsAt = "extended"] ELSE trial

\* The operations that write a row outside a transaction.
LEMMA RawSteps ==
    ASSUME Base, NEW r \in Requests,
           \/ OverridePeriod(r) \/ FlagCancel(r) \/ ExtendTrial(r)
           \/ \E s \in Subs, time \in 1..MaxTime : AdjustRenewalDate(r, s, time)
    PROVE  \E s \in Subs, row \in SubRow : RawUpdate(s, row)
<1>1. CASE OverridePeriod(r)
  <2> PICK s \in Subs : s = call[r].sub
    BY <1>1 DEF OverridePeriod, Base, WorkerFits
  <2>1. PICK days \in 1..2 :
          sub' = [sub EXCEPT ![s].periodEnd = now + days, ![s].version = @ + 1]
    BY <1>1 DEF OverridePeriod
  <2> DEFINE row == [sub[s] EXCEPT !.periodEnd = now + days, !.version = @ + 1]
  <2>2. now + days \in Times /\ sub[s] \in SubRow /\ Exists(s)
    <3>1. now \in Nat /\ sub[s] \in SubRow /\ Exists(s)
      BY <1>1 DEF OverridePeriod, Base, TypeOK, WorkerFits, Times
    <3>2. QED
      BY <3>1 DEF Times
  <2>3. Updated(sub[s], row) /\ row.trialEnd = sub[s].trialEnd
    BY <2>2, PeriodEndUpdated
  <2>4. sub' = [sub EXCEPT ![s] = row]
    BY <2>1, <2>2 DEF Base, TypeOK
  <2> HIDE DEF row
  <2>5. QED
    BY <1>1, <2>2, <2>3, <2>4 DEF OverridePeriod, RawUpdate, Updated
<1>2. ASSUME NEW s \in Subs, NEW time \in 1..MaxTime, AdjustRenewalDate(r, s, time)
      PROVE  \E row \in SubRow : RawUpdate(s, row)
  <2> DEFINE row == [sub[s] EXCEPT !.periodEnd = time, !.version = @ + 1]
  <2>1. time \in Times /\ sub[s] \in SubRow /\ Exists(s)
    BY <1>2, ConstantsAssumption DEF AdjustRenewalDate, Base, TypeOK, Times
  <2>2. Updated(sub[s], row) /\ row.trialEnd = sub[s].trialEnd
    BY <2>1, PeriodEndUpdated
  <2>3. sub' = [sub EXCEPT ![s] = row]
    BY <1>2, <2>1 DEF AdjustRenewalDate, Base, TypeOK
  <2> HIDE DEF row
  <2>4. QED
    BY <1>2, <2>1, <2>2, <2>3 DEF AdjustRenewalDate, RawUpdate, Updated
<1>3. CASE FlagCancel(r)
  <2> PICK s \in Subs : s = call[r].sub
    BY <1>3 DEF FlagCancel, Base, WorkerFits
  <2> DEFINE row == [sub[s] EXCEPT !.cancelAtPeriodEnd = TRUE, !.version = @ + 1]
  <2>1. sub[s] \in SubRow /\ Exists(s)
    BY <1>3 DEF FlagCancel, Base, TypeOK, WorkerFits
  <2>2. Updated(sub[s], row) /\ row.trialEnd = sub[s].trialEnd
    BY <2>1, FlagUpdated
  <2>3. sub' = [sub EXCEPT ![s] = row]
    BY <1>3 DEF FlagCancel, Base, TypeOK
  <2> HIDE DEF row
  <2>4. QED
    BY <1>3, <2>1, <2>2, <2>3 DEF FlagCancel, RawUpdate, Updated
<1>4. CASE ExtendTrial(r)
  <2> PICK s \in Subs : s = call[r].sub
    BY <1>4 DEF ExtendTrial, Base, WorkerFits
  <2> DEFINE row == [sub[s] EXCEPT !.trialEnd = "extended", !.version = @ + 1]
  <2>1. sub[s] \in SubRow /\ Exists(s)
    BY <1>4 DEF ExtendTrial, Base, TypeOK, WorkerFits
  <2>2. Updated(sub[s], row) /\ row.trialEnd = "extended"
    BY <2>1, TrialEndUpdated
  <2>3. sub' = [sub EXCEPT ![s] = row]
    BY <1>4 DEF ExtendTrial, Base, TypeOK
  <2>4. /\ trial' = IF trial.sub = s THEN [trial EXCEPT !.endsAt = "extended"] ELSE trial
        /\ events' = events /\ item' = item
    BY <1>4 DEF ExtendTrial
  <2> HIDE DEF row
  <2>5. QED
    BY <2>1, <2>2, <2>3, <2>4 DEF RawUpdate, Updated
<1>5. QED
  BY <1>1, <1>2, <1>3, <1>4

\* What a step may write, by the kind of write.
LEMMA StepKinds ==
    ASSUME Base, Next
    PROVE  \/ UNCHANGED <<sub, item, trial, events>>
           \/ \E r \in Requests : CommitCreate(r) \/ CommitTransition(r) \/ NoteChange(r)
           \/ \E s \in Subs, row \in SubRow : RawUpdate(s, row)
<1>1. CASE Tick
  BY <1>1 DEF Tick, rows
<1>2. ASSUME NEW r \in Requests,
             CreateRequest(r) \/ TransitionRequest(r) \/ ScheduleRequest(r) \/ Fail(r)
      PROVE  \/ UNCHANGED <<sub, item, trial, events>>
             \/ CommitCreate(r) \/ CommitTransition(r) \/ NoteChange(r)
             \/ \E s \in Subs, row \in SubRow : RawUpdate(s, row)
  <2>1. CASE UNCHANGED rows \/ CreateChange(r) \/ CancelChange(r)
    BY <2>1 DEF CreateChange, CancelChange, rows
  <2>2. QED
    BY <1>2, <2>1, WritingSteps, RawSteps
<1>3. QED
  BY <1>1, <1>2 DEF Next

\* A raw update moves no status and writes no log.
LEMMA RawUpdateQuiet ==
    ASSUME Base, NEW s \in Subs, NEW row \in SubRow, RawUpdate(s, row)
    PROVE  LogUnchanged
<1>1. \A t \in Subs : sub'[t].status = sub[t].status
  BY DEF RawUpdate, Updated, Base, TypeOK
<1>2. trial'.sub = trial.sub
  BY DEF RawUpdate, Base, TypeOK, TrialRow
<1>3. QED
  BY <1>1, <1>2 DEF RawUpdate, LogUnchanged

\* A step adds at most one event, whose key was free, and it changes no status
\* that the event does not record.
LEMMA EventStep ==
    ASSUME Base, Next
    PROVE  LogUnchanged \/ \E s \in Subs, e \in EventRow : EventAdded(s, e)
<1>1. UNCHANGED <<sub, item, trial, events>> => LogUnchanged
  BY DEF LogUnchanged
<1>2. QED
  BY <1>1, StepKinds, RawUpdateQuiet, CreateAdds, TransitionAdds, NoteAdds

\* What the logs are after an event was added.
LEMMA LogAfter ==
    ASSUME Base, NEW s \in Subs, NEW e \in EventRow, EventAdded(s, e)
    PROVE  /\ Len(events[s]) \in Nat /\ Len(events'[s]) = Len(events[s]) + 1
           /\ events'[s][Len(events[s]) + 1] = e
           /\ \A i \in 1..Len(events[s]) : events'[s][i] = events[s][i]
           /\ \A t \in Subs \ {s} : events'[t] = events[t]
<1>1. events[s] \in Seq(EventRow) /\ events'[s] = Append(events[s], e)
  BY DEF EventAdded, Base, TypeOK
<1>2. \A t \in Subs \ {s} : events'[t] = events[t]
  BY DEF EventAdded, Base, TypeOK
<1>3. QED
  BY <1>1, <1>2, AppendProperties, LenProperties

\* One step keeps KeyAppliedOnce.
LEMMA KeyAppliedOnceKept == Base /\ KeyAppliedOnce /\ [Next]_vars => KeyAppliedOnce'
<1> SUFFICES ASSUME Base, KeyAppliedOnce, [Next]_vars PROVE KeyAppliedOnce'
  OBVIOUS
<1>1. CASE LogUnchanged \/ UNCHANGED vars
  BY <1>1 DEF LogUnchanged, KeyAppliedOnce, vars, rows
<1>2. CASE \E s \in Subs, e \in EventRow : EventAdded(s, e)
  <2> PICK s \in Subs, e \in EventRow : EventAdded(s, e)
    BY <1>2
  <2> DEFINE n == Len(events[s])
  <2>1. /\ n \in Nat /\ Len(events'[s]) = n + 1 /\ events'[s][n + 1] = e
        /\ \A i \in 1..n : events'[s][i] = events[s][i]
        /\ \A t \in Subs \ {s} : events'[t] = events[t]
    BY LogAfter
  <2>2. e.key # None =>
          \A t \in Subs : \A i \in 1..Len(events[t]) : events[t][i].key # e.key
    BY DEF EventAdded, KeyFree
  <2> HIDE DEF n
  <2>3. ASSUME NEW t \in Subs, NEW i \in 1..Len(events'[t])
        PROVE  \/ t = s /\ i = n + 1 /\ events'[t][i] = e
               \/ i \in 1..Len(events[t]) /\ events'[t][i] = events[t][i]
    BY <2>1 DEF n
  <2>4. ASSUME NEW t \in Subs, NEW i \in 1..Len(events'[t]),
               NEW u \in Subs, NEW j \in 1..Len(events'[u]),
               events'[t][i].key = events'[u][j].key, events'[t][i].key # None
        PROVE  t = u /\ i = j
    <3>1. \/ t = s /\ i = n + 1 /\ events'[t][i] = e
          \/ i \in 1..Len(events[t]) /\ events'[t][i] = events[t][i]
      BY <2>3
    <3>2. \/ u = s /\ j = n + 1 /\ events'[u][j] = e
          \/ j \in 1..Len(events[u]) /\ events'[u][j] = events[u][j]
      BY <2>3
    <3>3. CASE events'[t][i] = events[t][i] /\ events'[u][j] = events[u][j]
               /\ i \in 1..Len(events[t]) /\ j \in 1..Len(events[u])
      BY <2>4, <3>3 DEF KeyAppliedOnce
    <3>4. QED
      BY <2>2, <2>4, <3>1, <3>2, <3>3
  <2>5. QED
    BY <2>4 DEF KeyAppliedOnce
<1>3. QED
  BY <1>1, <1>2, EventStep

\* An idempotency key has at most one recorded effect, whatever requests carry
\* it, together or again (the unique index on SubscriptionEvent).
THEOREM KeyIsAppliedOnce == Spec => []KeyAppliedOnce
<1>1. Init => KeyAppliedOnce
  BY DEF Init, KeyAppliedOnce
<1>2. QED
  BY <1>1, BaseInvariant, KeyAppliedOnceKept, PTL DEF Spec

\* One step keeps LogMatchesRow.
LEMMA LogMatchesRowKept == Base /\ LogMatchesRow /\ [Next]_vars => LogMatchesRow'
<1> SUFFICES ASSUME Base, LogMatchesRow, [Next]_vars PROVE LogMatchesRow'
  OBVIOUS
<1>1. CASE LogUnchanged
  BY <1>1 DEF LogUnchanged, LogMatchesRow, SetsStatus
<1>2. CASE UNCHANGED vars
  BY <1>2 DEF LogMatchesRow, SetsStatus, vars, rows
<1>3. CASE \E s \in Subs, e \in EventRow : EventAdded(s, e)
  <2> PICK s \in Subs, e \in EventRow : EventAdded(s, e)
    BY <1>3
  <2> DEFINE n == Len(events[s])
  <2>1. /\ n \in Nat /\ Len(events'[s]) = n + 1 /\ events'[s][n + 1] = e
        /\ \A i \in 1..n : events'[s][i] = events[s][i]
        /\ \A t \in Subs \ {s} : events'[t] = events[t]
    BY LogAfter
  <2>2. /\ sub'[s].status = IF e.to = None THEN sub[s].status ELSE e.to
        /\ \A t \in Subs \ {s} : sub'[t].status = sub[t].status
    BY DEF EventAdded
  <2>3. ASSUME NEW t \in Subs, NEW i \in 1..Len(events'[t]), events'[t][i].to # None,
               \A j \in i+1..Len(events'[t]) : events'[t][j].to = None
        PROVE  events'[t][i].to = sub'[t].status
    <3>1. CASE t # s
      <4>1. events'[t] = events[t] /\ sub'[t].status = sub[t].status
        BY <2>1, <2>2, <3>1
      <4>2. QED
        BY <2>3, <4>1 DEF LogMatchesRow, SetsStatus
    <3>2. CASE t = s /\ i = n + 1
      BY <2>1, <2>2, <2>3, <3>2
    <3>3. CASE t = s /\ i \in 1..n
      <4>1. e.to = None
        BY <2>1, <2>3, <3>3
      <4>2. \A j \in i+1..n : events[s][j].to = None
        BY <2>1, <2>3, <3>3
      <4>3. events[s][i].to = sub[s].status
        BY <2>1, <2>3, <3>3, <4>2 DEF LogMatchesRow, SetsStatus
      <4>4. QED
        BY <2>1, <2>2, <3>3, <4>1, <4>3
    <3>4. QED
      BY <2>1, <3>1, <3>2, <3>3
  <2>4. QED
    BY <2>3 DEF LogMatchesRow, SetsStatus
<1>4. QED
  BY <1>1, <1>2, <1>3, EventStep

\* The last status in the log is the status of the row, although transitions
\* commit on top of rows they did not read.
THEOREM LogAlwaysMatchesRow == Spec => []LogMatchesRow
<1>1. Init => LogMatchesRow
  BY DEF Init, LogMatchesRow
<1>2. QED
  BY <1>1, BaseInvariant, LogMatchesRowKept, PTL DEF Spec

-----------------------------------------------------------------------------
(* Trials. *)

\* The event that starts a trial is the first of the subscription the trial
\* belongs to.
TrialLogged ==
    \A s \in Subs : \A i \in 1..Len(events[s]) :
        events[s][i].type = "TRIAL_STARTED" => trial.sub = s /\ i = 1

\* One step keeps TrialLogged.
LEMMA TrialLoggedKept == Base /\ TrialLogged /\ [Next]_vars => TrialLogged'
<1> SUFFICES ASSUME Base, TrialLogged, [Next]_vars PROVE TrialLogged'
  OBVIOUS
<1>1. CASE LogUnchanged
  BY <1>1 DEF LogUnchanged, TrialLogged
<1>2. CASE UNCHANGED vars
  BY <1>2 DEF TrialLogged, vars, rows
<1>3. CASE \E s \in Subs, e \in EventRow : EventAdded(s, e)
  <2> PICK s \in Subs, e \in EventRow : EventAdded(s, e)
    BY <1>3
  <2> DEFINE n == Len(events[s])
  <2>1. /\ n \in Nat /\ Len(events'[s]) = n + 1 /\ events'[s][n + 1] = e
        /\ \A i \in 1..n : events'[s][i] = events[s][i]
        /\ \A t \in Subs \ {s} : events'[t] = events[t]
    BY LogAfter
  <2>2. /\ trial.sub # None => trial'.sub = trial.sub
        /\ e.type = "TRIAL_STARTED" => trial.sub = None /\ trial'.sub = s /\ n = 0
    BY EmptySeq DEF EventAdded
  <2> HIDE DEF n
  <2>3. ASSUME NEW t \in Subs, NEW i \in 1..Len(events'[t]),
               events'[t][i].type = "TRIAL_STARTED"
        PROVE  trial'.sub = t /\ i = 1
    <3>1. CASE t = s /\ i = n + 1
      BY <2>1, <2>2, <2>3, <3>1
    <3>2. CASE ~(t = s /\ i = n + 1)
      <4>1. i \in 1..Len(events[t]) /\ events'[t][i] = events[t][i]
        BY <2>1, <3>2 DEF n
      <4>2. trial.sub = t /\ i = 1
        BY <2>3, <4>1 DEF TrialLogged
      <4>3. QED
        BY <2>2, <4>2, ConstantsAssumption
    <3>3. QED
      BY <3>1, <3>2
  <2>4. QED
    BY <2>3 DEF TrialLogged
<1>4. QED
  BY <1>1, <1>2, <1>3, EventStep

\* At most one trial is ever started for a customer and a product, however
\* many creations race (the unique index on Trial).
THEOREM OneTrialOnly == Spec => []OneTrial
<1>1. Init => TrialLogged
  BY DEF Init, TrialLogged
<1>2. TrialLogged => OneTrial
  BY DEF TrialLogged, OneTrial
<1>3. QED
  BY <1>1, <1>2, BaseInvariant, TrialLoggedKept, PTL DEF Spec

-----------------------------------------------------------------------------
(* Rows: versions and trials. *)

\* A creation writes the first version of a row that was not there, and takes
\* the trial of the customer if it starts with one.
RowCreated(s, row) ==
    /\ ~Exists(s) /\ sub' = [sub EXCEPT ![s] = row]
    /\ row.version = 1 /\ row.status \in {"ACTIVE", "TRIALING"}
    /\ item' = [item EXCEPT ![s] = row.plan]
    /\ IF row.status = "TRIALING"
       THEN /\ trial.sub = None /\ row.trialEnd = "planned"
            /\ trial' = [sub |-> s, status |-> "ACTIVE", endsAt |-> "planned"]
       ELSE trial' = trial

\* CommitCreate creates a row.
LEMMA CreateWrites ==
    ASSUME Base, NEW r \in Requests, CommitCreate(r)
    PROVE  \E s \in Subs, row \in SubRow : RowCreated(s, row)
<1> DEFINE onTrial == call[r].op = "createTrial"
           row == [ status |-> IF onTrial THEN "TRIALING" ELSE "ACTIVE",
                    version |-> 1, plan |-> call[r].plan,
                    cancelAtPeriodEnd |-> FALSE,
                    periodEnd |-> IF onTrial THEN 0 ELSE now + 1,
                    trialEnd |-> IF onTrial THEN "planned" ELSE "none" ]
<1>1. PICK s \in Subs :
        /\ ~Exists(s)
        /\ sub' = [sub EXCEPT ![s] = row]
        /\ item' = [item EXCEPT ![s] = call[r].plan]
        /\ trial' = IF onTrial
                    THEN [sub |-> s, status |-> "ACTIVE", endsAt |-> "planned"]
                    ELSE trial
  BY DEF CommitCreate
<1>2. onTrial => trial.sub = None
  BY DEF CommitCreate, TrialIndexAdmits
<1>3. /\ row.status = IF onTrial THEN "TRIALING" ELSE "ACTIVE"
      /\ row.version = 1 /\ row.plan = call[r].plan
      /\ onTrial => row.trialEnd = "planned"
  OBVIOUS
<1>4. row \in SubRow
  <2>1. call[r].plan \in Plans /\ now \in Nat
    BY DEF CommitCreate, Base, TypeOK, WorkerFits, Times
  <2>2. QED
    BY <2>1 DEF SubRow, Times, Statuses
<1> HIDE DEF row
<1>5. RowCreated(s, row)
  BY <1>1, <1>2, <1>3 DEF RowCreated
<1>6. QED
  BY <1>4, <1>5

\* A transition writes the next version of an existing row, never brings
\* TRIALING back, and touches no trial but its own.
RowMoved(s, row) ==
    /\ Exists(s) /\ sub' = [sub EXCEPT ![s] = row]
    /\ row.version = sub[s].version + 1
    /\ row.status \in Statuses \ {"TRIALING"}
    /\ trial.sub # s => trial' = trial

\* CommitTransition moves the row of its subscription.
LEMMA TransitionWrites ==
    ASSUME Base, NEW r \in Requests, CommitTransition(r)
    PROVE  \E s \in Subs, row \in SubRow :
               s = call[r].sub /\ row = NewRow(r) /\ RowMoved(s, row)
<1> PICK s \in Subs : s = call[r].sub
  BY DEF CommitTransition, Base, WorkerFits
<1>1. /\ pc[r] = "staged" /\ Exists(s) /\ call[r].op \in TransitionOps
      /\ sub' = [sub EXCEPT ![s] = NewRow(r)]
      /\ trial' = NewTrial(r)
  BY DEF CommitTransition, Base, WorkerFits
<1>2. /\ NewRow(r) \in SubRow
      /\ NewRow(r).version = sub[s].version + 1
      /\ NewRow(r).status \in Statuses \ {"TRIALING"}
  BY <1>1, NewRowType, TargetType DEF Base
<1>3. trial.sub # s => trial' = trial
  BY <1>1 DEF NewTrial
<1>4. QED
  BY <1>1, <1>2, <1>3 DEF RowMoved

\* A row that is not there has no version.
AbsentUnversioned == \A s \in Subs : ~Exists(s) => sub[s].version = 0

\* The versions of the rows one step apart.
VersionStep ==
    \A s \in Subs : sub'[s] # sub[s] => sub'[s].version = sub[s].version + 1

\* A step that writes a row moves its version.
LEMMA VersionsKept ==
    ASSUME Base, AbsentUnversioned, Next
    PROVE  VersionStep /\ AbsentUnversioned'
<1>1. ASSUME NEW s \in Subs, NEW row \in SubRow, sub' = [sub EXCEPT ![s] = row],
             row.status # "ABSENT", row.version = sub[s].version + 1
      PROVE  VersionStep /\ AbsentUnversioned'
  <2>1. sub'[s] = row /\ \A t \in Subs \ {s} : sub'[t] = sub[t]
    BY <1>1 DEF Base, TypeOK
  <2>2. QED
    BY <1>1, <2>1 DEF VersionStep, AbsentUnversioned, Exists
<1>2. ASSUME NEW s \in Subs, NEW row \in SubRow, RowCreated(s, row)
      PROVE  VersionStep /\ AbsentUnversioned'
  <2>1. row.version = sub[s].version + 1 /\ row.status # "ABSENT"
    BY <1>2 DEF RowCreated, AbsentUnversioned
  <2>2. QED
    BY <1>1, <1>2, <2>1 DEF RowCreated
<1>3. ASSUME NEW s \in Subs, NEW row \in SubRow, RowMoved(s, row)
      PROVE  VersionStep /\ AbsentUnversioned'
  BY <1>1, <1>3 DEF RowMoved, Statuses
<1>4. ASSUME NEW s \in Subs, NEW row \in SubRow, RawUpdate(s, row)
      PROVE  VersionStep /\ AbsentUnversioned'
  BY <1>1, <1>4 DEF RawUpdate, Updated, Exists
<1>5. CASE sub' = sub
  BY <1>5 DEF VersionStep, AbsentUnversioned, Exists
<1>6. \A r \in Requests : NoteChange(r) => sub' = sub
  BY DEF NoteChange
<1>7. QED
  BY <1>2, <1>3, <1>4, <1>5, <1>6, StepKinds, CreateWrites, TransitionWrites

\* Whoever changes a row moves its version by one, transition or not: a caller
\* that compares versions sees every change (the version column, which every
\* update of the service increments).
THEOREM VersionsMoveWithRows == Spec => VersionMovesWithRow
<1>1. Init => AbsentUnversioned
  BY DEF Init, AbsentUnversioned, NoSub
<1>2. Base /\ AbsentUnversioned /\ [Next]_vars => AbsentUnversioned'
  <2>1. Base /\ AbsentUnversioned /\ Next => AbsentUnversioned'
    BY VersionsKept
  <2>2. AbsentUnversioned /\ UNCHANGED vars => AbsentUnversioned'
    BY DEF AbsentUnversioned, Exists, vars, rows
  <2>3. QED
    BY <2>1, <2>2
<1>3. Base /\ AbsentUnversioned /\ [Next]_vars
        => [\A s \in Subs : sub'[s] # sub[s] => sub'[s].version = sub[s].version + 1]_sub
  <2>1. Base /\ AbsentUnversioned /\ Next
          => \A s \in Subs : sub'[s] # sub[s] => sub'[s].version = sub[s].version + 1
    BY VersionsKept DEF VersionStep
  <2>2. UNCHANGED vars => sub' = sub
    BY DEF vars, rows
  <2>3. QED
    BY <2>1, <2>2
<1>4. QED
  BY <1>1, <1>2, <1>3, BaseInvariant, PTL DEF Spec, VersionMovesWithRow

\* One step keeps TrialingHasOpenTrial.
LEMMA TrialingKept == Base /\ TrialingHasOpenTrial /\ [Next]_vars => TrialingHasOpenTrial'
<1> SUFFICES ASSUME Base, TrialingHasOpenTrial, [Next]_vars PROVE TrialingHasOpenTrial'
  OBVIOUS
<1>1. CASE UNCHANGED <<sub, trial>>
  BY <1>1 DEF TrialingHasOpenTrial
<1>2. ASSUME NEW s \in Subs, NEW row \in SubRow, sub' = [sub EXCEPT ![s] = row],
             NEW t \in Subs \ {s}, sub'[t].status = "TRIALING"
      PROVE  /\ sub'[t] = sub[t] /\ trial.sub = t
             /\ trial.status = "ACTIVE" /\ trial.endsAt = sub[t].trialEnd
  BY <1>2 DEF TrialingHasOpenTrial, Base, TypeOK
<1>3. ASSUME NEW s \in Subs, NEW row \in SubRow, RowCreated(s, row)
      PROVE  TrialingHasOpenTrial'
  <2>1. sub'[s] = row /\ sub' = [sub EXCEPT ![s] = row]
    BY <1>3 DEF RowCreated, Base, TypeOK
  <2>2. ASSUME NEW t \in Subs, sub'[t].status = "TRIALING"
        PROVE  trial'.sub = t /\ trial'.status = "ACTIVE" /\ trial'.endsAt = sub'[t].trialEnd
    <3>1. CASE t = s
      BY <1>3, <2>1, <2>2, <3>1 DEF RowCreated
    <3>2. CASE t # s
      <4>1. /\ sub'[t] = sub[t] /\ trial.sub = t
            /\ trial.status = "ACTIVE" /\ trial.endsAt = sub[t].trialEnd
        BY <1>2, <2>1, <2>2, <3>2
      <4>2. trial' = trial
        BY <1>3, <4>1, ConstantsAssumption DEF RowCreated
      <4>3. QED
        BY <4>1, <4>2
    <3>3. QED
      BY <3>1, <3>2
  <2>3. QED
    BY <2>2 DEF TrialingHasOpenTrial
<1>4. ASSUME NEW s \in Subs, NEW row \in SubRow, RowMoved(s, row)
      PROVE  TrialingHasOpenTrial'
  <2>1. /\ sub'[s].status # "TRIALING" /\ sub' = [sub EXCEPT ![s] = row]
        /\ trial.sub # s => trial' = trial
    BY <1>4 DEF RowMoved, Base, TypeOK
  <2>2. QED
    BY <1>2, <2>1 DEF TrialingHasOpenTrial
<1>5. ASSUME NEW s \in Subs, NEW row \in SubRow, RawUpdate(s, row)
      PROVE  TrialingHasOpenTrial'
  <2>1. /\ sub'[s] = row /\ sub' = [sub EXCEPT ![s] = row] /\ row.status = sub[s].status
        /\ \/ row.trialEnd = sub[s].trialEnd /\ trial' = trial
           \/ /\ row.trialEnd = "extended"
              /\ trial' = IF trial.sub = s THEN [trial EXCEPT !.endsAt = "extended"] ELSE trial
    BY <1>5 DEF RawUpdate, Updated, Base, TypeOK
  <2>2. /\ [trial EXCEPT !.endsAt = "extended"].sub = trial.sub
        /\ [trial EXCEPT !.endsAt = "extended"].status = trial.status
        /\ [trial EXCEPT !.endsAt = "extended"].endsAt = "extended"
    BY DEF Base, TypeOK, TrialRow
  <2>3. ASSUME NEW t \in Subs, sub'[t].status = "TRIALING"
        PROVE  trial'.sub = t /\ trial'.status = "ACTIVE" /\ trial'.endsAt = sub'[t].trialEnd
    <3>1. CASE t = s
      <4>1. trial.sub = s /\ trial.status = "ACTIVE" /\ trial.endsAt = sub[s].trialEnd
        BY <2>1, <2>3, <3>1 DEF TrialingHasOpenTrial
      <4>2. QED
        BY <2>1, <2>2, <3>1, <4>1
    <3>2. CASE t # s
      <4>1. /\ sub'[t] = sub[t] /\ trial.sub = t
            /\ trial.status = "ACTIVE" /\ trial.endsAt = sub[t].trialEnd
        BY <1>2, <2>1, <2>3, <3>2
      <4>2. QED
        BY <2>1, <3>2, <4>1
    <3>3. QED
      BY <3>1, <3>2
  <2>4. QED
    BY <2>3 DEF TrialingHasOpenTrial
<1>6. \A r \in Requests : NoteChange(r) => UNCHANGED <<sub, trial>>
  BY DEF NoteChange
<1>7. UNCHANGED vars => UNCHANGED <<sub, trial>>
  BY DEF vars, rows
<1>8. QED
  BY <1>1, <1>3, <1>4, <1>5, <1>6, <1>7, StepKinds, CreateWrites, TransitionWrites

\* A subscription that is TRIALING has its trial open, ending when the row says
\* it ends: extendTrial writes row and trial together, activate and expire close
\* the trial they take the row from, and no concurrent request brings TRIALING
\* back.
THEOREM TrialingIsOpen == Spec => []TrialingHasOpenTrial
<1>1. Init => TrialingHasOpenTrial
  BY DEF Init, TrialingHasOpenTrial, NoSub
<1>2. QED
  BY <1>1, BaseInvariant, TrialingKept, PTL DEF Spec

-----------------------------------------------------------------------------
(* Follow-ups. *)

\* Worker r is about to follow up the i-th event of s.
Tells(r, s, i) == pc[r] = "telling" /\ call[r].sub = s /\ ref[r] = i

\* The follow-up of the i-th event of s was done, or was lost.
Settled(s, i) == <<s, i>> \in told \/ <<s, i>> \in dropped

\* Who tells, tells of an event that is in the log and is not settled.
TellersFit ==
    \A r \in Requests, s \in Subs, i \in Nat :
        Tells(r, s, i) => i \in 1..Len(events[s]) /\ ~Settled(s, i)

\* No two workers tell of one event.
TellersApart ==
    \A q, r \in Requests : \A s \in Subs, i \in Nat :
        Tells(q, s, i) /\ Tells(r, s, i) => q = r

\* Nothing is both done and lost, and nothing is either before it happened.
SettledOnce ==
    \A s \in Subs, i \in Nat :
        /\ ~(<<s, i>> \in told /\ <<s, i>> \in dropped)
        /\ Settled(s, i) => i \in 1..Len(events[s])

\* An event that calls for a follow-up is settled or in some worker's hands.
OwedHeld ==
    \A s \in Subs : \A i \in 1..Len(events[s]) :
        NeedsFollowUp(events[s][i].type) =>
            Settled(s, i) \/ \E r \in Requests : Tells(r, s, i)

\* What FollowUpOnce rests on.
FollowUps == TellersFit /\ TellersApart /\ SettledOnce /\ OwedHeld

\* A step of r that has nothing to do with follow-ups.
TellQuiet(r) ==
    /\ pc[r] # "telling" /\ pc'[r] # "telling"
    /\ UNCHANGED <<events, told, dropped>>

\* A step of r that records e, and owes what its type calls for.
TellStarted(r, s, e) ==
    /\ pc[r] # "telling" /\ EventAdded(s, e) /\ UNCHANGED <<told, dropped>>
    /\ IF NeedsFollowUp(e.type)
       THEN pc'[r] = "telling" /\ call'[r].sub = s /\ ref'[r] = Len(events[s]) + 1
       ELSE pc'[r] # "telling"

\* A step of r that does what it owes, or dies owing it.
TellSettled(r) ==
    /\ pc[r] = "telling" /\ pc'[r] # "telling" /\ events' = events
    /\ \/ told' = told \cup {<<call[r].sub, ref[r]>>} /\ dropped' = dropped
       \/ dropped' = dropped \cup {<<call[r].sub, ref[r]>>} /\ told' = told

\* After a commit the worker tells, or is idle.
LEMMA CommittedTells ==
    ASSUME TypeOK, NEW r \in Requests, NEW s, NEW type, NEW n,
           Committed(r, s, type, n)
    PROVE  IF NeedsFollowUp(type)
           THEN pc'[r] = "telling" /\ call'[r].sub = s /\ ref'[r] = n
           ELSE pc'[r] # "telling"
<1>1. CASE ~NeedsFollowUp(type)
  BY <1>1 DEF Committed, Idle, TypeOK
<1>2. CASE NeedsFollowUp(type)
  <2>1. /\ pc' = [pc EXCEPT ![r] = "telling"] /\ ref' = [ref EXCEPT ![r] = n]
        /\ call' = [call EXCEPT ![r].sub = s]
    BY <1>2 DEF Committed
  <2>2. call'[r].sub = s
    BY <2>1 DEF TypeOK, Call
  <2>3. QED
    BY <1>2, <2>1, <2>2 DEF TypeOK
<1>3. QED
  BY <1>1, <1>2

\* Every step of a worker is of one of the three kinds.
LEMMA TellStep ==
    ASSUME Base, NEW r \in Requests,
           CreateRequest(r) \/ TransitionRequest(r) \/ ScheduleRequest(r) \/ Fail(r)
    PROVE  \/ TellQuiet(r)
           \/ \E s \in Subs, e \in EventRow : TellStarted(r, s, e)
           \/ TellSettled(r)
<1>1. ASSUME NEW c, NEW step, Take(r, c, step), step # "telling",
             UNCHANGED <<rows, followUps>>
      PROVE  TellQuiet(r)
  BY <1>1 DEF Take, TellQuiet, Base, TypeOK, rows, followUps
<1>2. CASE CommitCreate(r)
  <2>1. PICK s \in Subs, e \in EventRow : EventAdded(s, e) /\ CreationEvent(r, s, e)
    BY <1>2, CreateAdds
  <2>2. events[s] = <<>> /\ Committed(r, s, e.type, 1)
    BY <2>1 DEF CreationEvent
  <2>3. 1 = Len(events[s]) + 1
    BY <2>2
  <2>4. pc[r] # "telling" /\ UNCHANGED <<told, dropped>>
    BY <1>2 DEF CommitCreate, followUps
  <2>5. TellStarted(r, s, e)
    BY <2>1, <2>2, <2>3, <2>4, CommittedTells DEF TellStarted, Base
  <2>6. QED
    BY <2>5
<1>3. CASE CommitTransition(r)
  <2>1. PICK s \in Subs, e \in EventRow :
               s = call[r].sub /\ EventAdded(s, e) /\ TransitionEvent(r, e)
    BY <1>3, TransitionAdds
  <2>2. Committed(r, s, e.type, Len(events[s]) + 1)
    BY <2>1 DEF TransitionEvent
  <2>3. pc[r] # "telling" /\ UNCHANGED <<told, dropped>>
    BY <1>3 DEF CommitTransition, followUps
  <2>4. TellStarted(r, s, e)
    BY <2>1, <2>2, <2>3, CommittedTells DEF TellStarted, Base
  <2>5. QED
    BY <2>4
<1>4. CASE NoteChange(r)
  <2>1. PICK s \in Subs, e \in EventRow : EventAdded(s, e) /\ NoteEvent(e)
    BY <1>4, NoteAdds
  <2>2. ~NeedsFollowUp(e.type)
    BY <2>1 DEF NoteEvent, NeedsFollowUp
  <2>3. pc[r] # "telling" /\ pc'[r] # "telling" /\ UNCHANGED <<told, dropped>>
    BY <1>4 DEF NoteChange, Idle, Base, TypeOK, followUps
  <2>4. TellStarted(r, s, e)
    BY <2>1, <2>2, <2>3 DEF TellStarted
  <2>5. QED
    BY <2>4
<1>5. CASE Fail(r)
  <2>1. /\ pc'[r] # "telling" /\ events' = events /\ told' = told
        /\ dropped' = IF pc[r] = "telling" THEN dropped \cup {<<call[r].sub, ref[r]>>}
                      ELSE dropped
    BY <1>5 DEF Fail, Idle, Base, TypeOK, rows
  <2>2. QED
    BY <2>1 DEF TellQuiet, TellSettled
<1>6. CASE FollowUp(r)
  <2>1. pc'[r] # "telling"
    BY <1>6 DEF FollowUp, Idle, Base, TypeOK
  <2>2. QED
    BY <1>6, <2>1 DEF FollowUp, TellSettled, rows
<1>7. CASE CreateRequest(r)
  <2>1. ASSUME NEW op, NEW k, NEW p, BeginCreate(r, op, k, p)
        PROVE  TellQuiet(r)
    BY <1>1, <2>1 DEF BeginCreate
  <2>2. CASE OverridePeriod(r)
    BY <2>2 DEF OverridePeriod, Idle, TellQuiet, Base, TypeOK, followUps
  <2>3. QED
    BY <1>2, <1>7, <2>1, <2>2 DEF CreateRequest
<1>8. CASE TransitionRequest(r)
  <2>1. ASSUME NEW s, NEW op, NEW k, NEW v, NEW p, BeginTransition(r, s, op, k, v, p)
        PROVE  TellQuiet(r)
    BY <1>1, <2>1 DEF BeginTransition
  <2>2. ASSUME NEW s, NEW k, NEW v, BeginRenew(r, s, k, v)
        PROVE  TellQuiet(r)
    <3> DEFINE c == [op |-> "renew", sub |-> s, key |-> k, version |-> v, plan |-> None]
               d == [c EXCEPT !.op = "renewCancel"]
    <3>1. Take(r, d, "staged") \/ Take(r, c, "renewing")
      BY <2>2 DEF BeginRenew
    <3>2. UNCHANGED <<rows, followUps>>
      BY <2>2 DEF BeginRenew
    <3> HIDE DEF c, d
    <3>3. QED
      BY <1>1, <3>1, <3>2
  <2>3. CASE FindDueChange(r)
    BY <2>3 DEF FindDueChange, TellQuiet, Base, TypeOK, rows, followUps
  <2>4. QED
    BY <1>3, <1>6, <1>8, <2>1, <2>2, <2>3 DEF TransitionRequest
<1>9. CASE ScheduleRequest(r)
  <2>1. ASSUME NEW s, NEW op, NEW k, NEW p, BeginSchedule(r, s, op, k, p)
        PROVE  TellQuiet(r)
    <3> DEFINE c == [NoCall EXCEPT !.op = op, !.sub = s, !.key = k]
               d == [NoCall EXCEPT !.op = op, !.sub = s, !.key = k, !.plan = p]
    <3>1. Take(r, c, "flagging") \/ Take(r, d, "scheduling")
      BY <2>1 DEF BeginSchedule
    <3>2. UNCHANGED <<rows, followUps>>
      BY <2>1 DEF BeginSchedule
    <3> HIDE DEF c, d
    <3>3. QED
      BY <1>1, <3>1, <3>2
  <2>2. ASSUME NEW s, NEW c, BeginUnschedule(r, s, c)
        PROVE  TellQuiet(r)
    BY <1>1, <2>2 DEF BeginUnschedule
  <2>3. ASSUME NEW s, BeginExtendTrial(r, s)
        PROVE  TellQuiet(r)
    BY <1>1, <2>3 DEF BeginExtendTrial
  <2>4. ASSUME NEW s, NEW time, AdjustRenewalDate(r, s, time)
        PROVE  TellQuiet(r)
    BY <2>4 DEF AdjustRenewalDate, TellQuiet, workers, followUps
  <2>5. CASE FlagCancel(r) \/ CreateChange(r) \/ CancelChange(r)
    BY <2>5 DEF FlagCancel, CreateChange, CancelChange, TellQuiet, Base, TypeOK, followUps
  <2>6. CASE ExtendTrial(r)
    BY <2>6 DEF ExtendTrial, Idle, TellQuiet, Base, TypeOK, followUps
  <2>7. QED
    BY <1>4, <1>9, <2>1, <2>2, <2>3, <2>4, <2>5, <2>6 DEF ScheduleRequest
<1>10. QED
  BY <1>5, <1>7, <1>8, <1>9

\* What another worker tells of, a step of r leaves in its hands.
LEMMA OthersTell ==
    ASSUME Base, NEW r \in Requests, OthersStay(r)
    PROVE  \A q \in Requests \ {r} : \A s, i : Tells(q, s, i)' <=> Tells(q, s, i)
BY DEF OthersStay, Tells

\* A quiet step keeps FollowUps.
LEMMA QuietKeeps ==
    ASSUME Base, NEW r \in Requests, OthersStay(r), FollowUps, TellQuiet(r)
    PROVE  FollowUps'
<1>1. \A q \in Requests, s \in Subs, i \in Nat : Tells(q, s, i)' <=> Tells(q, s, i)
  BY OthersTell DEF TellQuiet, Tells
<1>2. TellersFit'
  BY <1>1 DEF FollowUps, TellersFit, TellQuiet, Settled
<1>3. TellersApart'
  BY <1>1 DEF FollowUps, TellersApart
<1>4. SettledOnce'
  BY DEF FollowUps, SettledOnce, Settled, TellQuiet
<1>5. OwedHeld'
  <2>1. \A s \in Subs : Len(events[s]) \in Nat
    BY LenProperties DEF Base, TypeOK
  <2>2. ASSUME NEW s \in Subs, NEW i \in 1..Len(events[s]), NeedsFollowUp(events[s][i].type)
        PROVE  Settled(s, i)' \/ \E q \in Requests : Tells(q, s, i)'
    <3>1. Settled(s, i) \/ \E q \in Requests : Tells(q, s, i)
      BY <2>2 DEF FollowUps, OwedHeld
    <3>2. Settled(s, i)' <=> Settled(s, i)
      BY DEF Settled, TellQuiet
    <3>3. QED
      BY <1>1, <2>1, <3>1, <3>2
  <2>3. QED
    BY <2>2 DEF OwedHeld, TellQuiet
<1>6. QED
  BY <1>2, <1>3, <1>4, <1>5 DEF FollowUps

\* A step that records an event keeps FollowUps.
LEMMA StartedKeeps ==
    ASSUME Base, NEW r \in Requests, OthersStay(r), FollowUps,
           NEW s \in Subs, NEW e \in EventRow, TellStarted(r, s, e)
    PROVE  FollowUps'
<1> DEFINE n == Len(events[s])
<1>1. /\ n \in Nat /\ Len(events'[s]) = n + 1 /\ events'[s][n + 1] = e
      /\ \A i \in 1..n : events'[s][i] = events[s][i]
      /\ \A t \in Subs \ {s} : events'[t] = events[t]
  BY LogAfter DEF TellStarted
<1>2. /\ pc[r] # "telling" /\ told' = told /\ dropped' = dropped
      /\ pc'[r] = "telling" =>
            NeedsFollowUp(e.type) /\ call'[r].sub = s /\ ref'[r] = n + 1
      /\ NeedsFollowUp(e.type) => pc'[r] = "telling"
  BY DEF TellStarted
<1> HIDE DEF n
<1>3. \A t \in Subs, i \in Nat : Settled(t, i)' <=> Settled(t, i)
  BY <1>2 DEF Settled
<1>4. \A q \in Requests \ {r} : \A t, i : Tells(q, t, i)' <=> Tells(q, t, i)
  BY OthersTell
<1>5. \A t, i : ~Tells(r, t, i)
  BY <1>2 DEF Tells
<1>6. \A t, i : Tells(r, t, i)' => t = s /\ i = n + 1
  BY <1>2 DEF Tells
<1>7. \A t \in Subs : Len(events[t]) \in Nat /\ 1..Len(events[t]) \subseteq 1..Len(events'[t])
  <2>1. \A t \in Subs : Len(events[t]) \in Nat
    BY LenProperties DEF Base, TypeOK
  <2>2. 1..n \subseteq 1..(n + 1)
    BY <1>1
  <2>3. QED
    BY <1>1, <2>1, <2>2 DEF n
<1>8. ~Settled(s, n + 1)
  <2>1. n + 1 \in Nat /\ n + 1 \notin 1..n
    BY <1>1
  <2>2. QED
    BY <2>1 DEF FollowUps, SettledOnce, n
<1>9. \A q \in Requests, t \in Subs, i \in Nat : Tells(q, t, i) => i \in 1..Len(events[t])
  BY DEF FollowUps, TellersFit
<1>10. TellersFit'
  <2>1. ASSUME NEW q \in Requests, NEW t \in Subs, NEW i \in Nat, Tells(q, t, i)'
        PROVE  i \in 1..Len(events'[t]) /\ ~Settled(t, i)'
    <3>1. CASE q = r
      <4>1. t = s /\ i = n + 1 /\ n + 1 \in 1..(n + 1)
        BY <1>1, <1>6, <2>1, <3>1
      <4>2. QED
        BY <1>1, <1>3, <1>8, <4>1
    <3>2. CASE q # r
      <4>1. i \in 1..Len(events[t]) /\ ~Settled(t, i)
        BY <1>4, <2>1, <3>2 DEF FollowUps, TellersFit
      <4>2. QED
        BY <1>3, <1>7, <4>1
    <3>3. QED
      BY <3>1, <3>2
  <2>2. QED
    BY <2>1 DEF TellersFit
<1>11. TellersApart'
  <2>1. ASSUME NEW q \in Requests, NEW u \in Requests, NEW t \in Subs, NEW i \in Nat,
               Tells(q, t, i)', Tells(u, t, i)'
        PROVE  q = u
    <3>1. CASE q = r /\ u # r
      <4>1. t = s /\ i = n + 1 /\ Tells(u, t, i)
        BY <1>4, <1>6, <2>1, <3>1
      <4>2. n + 1 \in 1..n
        BY <1>9, <4>1 DEF n
      <4>3. QED
        BY <1>1, <4>2
    <3>2. CASE q # r /\ u = r
      <4>1. t = s /\ i = n + 1 /\ Tells(q, t, i)
        BY <1>4, <1>6, <2>1, <3>2
      <4>2. n + 1 \in 1..n
        BY <1>9, <4>1 DEF n
      <4>3. QED
        BY <1>1, <4>2
    <3>3. CASE q # r /\ u # r
      BY <1>4, <2>1, <3>3 DEF FollowUps, TellersApart
    <3>4. QED
      BY <3>1, <3>2, <3>3
  <2>2. QED
    BY <2>1 DEF TellersApart
<1>12. SettledOnce'
  BY <1>2, <1>3, <1>7 DEF FollowUps, SettledOnce
<1>13. OwedHeld'
  <2>1. ASSUME NEW t \in Subs, NEW i \in 1..Len(events'[t]), NeedsFollowUp(events'[t][i].type)
        PROVE  Settled(t, i)' \/ \E q \in Requests : Tells(q, t, i)'
    <3>1. CASE t = s /\ i = n + 1
      <4>1. NeedsFollowUp(e.type)
        BY <1>1, <2>1, <3>1
      <4>2. Tells(r, t, i)'
        BY <1>2, <3>1, <4>1 DEF Tells
      <4>3. QED
        BY <4>2
    <3>2. CASE ~(t = s /\ i = n + 1)
      <4>1. i \in 1..Len(events[t]) /\ events'[t][i] = events[t][i]
        BY <1>1, <3>2 DEF n
      <4>2. i \in Nat
        BY <1>7, <4>1
      <4>3. Settled(t, i) \/ \E q \in Requests : Tells(q, t, i)
        BY <2>1, <4>1 DEF FollowUps, OwedHeld
      <4>4. QED
        BY <1>3, <1>4, <1>5, <4>2, <4>3
    <3>3. QED
      BY <3>1, <3>2
  <2>2. QED
    BY <2>1 DEF OwedHeld
<1>14. QED
  BY <1>10, <1>11, <1>12, <1>13 DEF FollowUps

\* A step that settles what a worker owed keeps FollowUps.
LEMMA SettledKeeps ==
    ASSUME Base, NEW r \in Requests, OthersStay(r), FollowUps, TellSettled(r)
    PROVE  FollowUps'
<1> PICK s \in Subs, n \in Nat : s = call[r].sub /\ n = ref[r]
  BY DEF TellSettled, Base, WorkerFits, TypeOK
<1>1. /\ Tells(r, s, n) /\ n \in 1..Len(events[s]) /\ ~Settled(s, n)
      /\ pc'[r] # "telling" /\ events' = events
      /\ \/ told' = told \cup {<<s, n>>} /\ dropped' = dropped
         \/ dropped' = dropped \cup {<<s, n>>} /\ told' = told
  BY DEF TellSettled, Tells, FollowUps, TellersFit
<1>2. \A t \in Subs, i \in Nat : Settled(t, i)' <=> Settled(t, i) \/ (t = s /\ i = n)
  BY <1>1 DEF Settled
<1>3. \A q \in Requests \ {r} : \A t, i : Tells(q, t, i)' <=> Tells(q, t, i)
  BY OthersTell
<1>4. \A t, i : ~Tells(r, t, i)'
  BY <1>1 DEF Tells
<1>5. TellersFit'
  <2>1. ASSUME NEW q \in Requests, NEW t \in Subs, NEW i \in Nat, Tells(q, t, i)'
        PROVE  i \in 1..Len(events'[t]) /\ ~Settled(t, i)'
    <3>1. q # r /\ Tells(q, t, i)
      BY <1>3, <1>4, <2>1
    <3>2. i \in 1..Len(events[t]) /\ ~Settled(t, i)
      BY <3>1 DEF FollowUps, TellersFit
    <3>3. ~(t = s /\ i = n)
      BY <1>1, <3>1 DEF FollowUps, TellersApart
    <3>4. QED
      BY <1>1, <1>2, <3>2, <3>3
  <2>2. QED
    BY <2>1 DEF TellersFit
<1>6. TellersApart'
  BY <1>3, <1>4 DEF FollowUps, TellersApart
<1>7. SettledOnce'
  <2>1. ASSUME NEW t \in Subs, NEW i \in Nat
        PROVE  /\ ~(<<t, i>> \in told' /\ <<t, i>> \in dropped')
               /\ Settled(t, i)' => i \in 1..Len(events'[t])
    <3>1. /\ ~(<<t, i>> \in told /\ <<t, i>> \in dropped)
          /\ Settled(t, i) => i \in 1..Len(events[t])
      BY DEF FollowUps, SettledOnce
    <3>2. QED
      BY <1>1, <1>2, <3>1 DEF Settled
  <2>2. QED
    BY <2>1 DEF SettledOnce
<1>8. OwedHeld'
  <2>1. ASSUME NEW t \in Subs, NEW i \in 1..Len(events[t]), NeedsFollowUp(events[t][i].type)
        PROVE  Settled(t, i)' \/ \E q \in Requests : Tells(q, t, i)'
    <3>1. i \in Nat
      BY LenProperties DEF Base, TypeOK
    <3>2. Settled(t, i) \/ \E q \in Requests : Tells(q, t, i)
      BY <2>1 DEF FollowUps, OwedHeld
    <3>3. Tells(r, t, i) => t = s /\ i = n
      BY <1>1 DEF Tells
    <3>4. QED
      BY <1>2, <1>3, <3>1, <3>2, <3>3
  <2>2. QED
    BY <1>1, <2>1 DEF OwedHeld
<1>9. QED
  BY <1>5, <1>6, <1>7, <1>8 DEF FollowUps

\* What is shown of every step of a worker holds of each of its steps.
LEMMA WorkerStep ==
    ASSUME Base, NEW r \in Requests,
           CreateRequest(r) \/ TransitionRequest(r) \/ ScheduleRequest(r) \/ Fail(r)
    PROVE  StepFits(r)
BY CreateStep, TransitionStep, ScheduleStep, FailStep

\* One step keeps FollowUps.
LEMMA FollowUpsKept == Base /\ FollowUps /\ [Next]_vars => FollowUps'
<1> SUFFICES ASSUME Base, FollowUps, [Next]_vars PROVE FollowUps'
  OBVIOUS
<1>1. CASE UNCHANGED <<events, told, dropped, pc, call, ref>>
  BY <1>1 DEF FollowUps, TellersFit, TellersApart, SettledOnce, OwedHeld, Settled, Tells
<1>2. Tick \/ UNCHANGED vars => UNCHANGED <<events, told, dropped, pc, call, ref>>
  BY DEF Tick, vars, rows, followUps, workers
<1>3. ASSUME NEW r \in Requests,
             CreateRequest(r) \/ TransitionRequest(r) \/ ScheduleRequest(r) \/ Fail(r)
      PROVE  FollowUps'
  <2>1. OthersStay(r)
    BY <1>3, WorkerStep DEF StepFits
  <2>2. QED
    BY <1>3, <2>1, TellStep, QuietKeeps, StartedKeeps, SettledKeeps
<1>4. QED
  BY <1>1, <1>2, <1>3 DEF Next

\* FollowUps says what FollowUpOnce says of each event.
LEMMA FollowUpsSuffice ==
    ASSUME Base, FollowUps
    PROVE  FollowUpOnce
<1> SUFFICES ASSUME NEW s \in Subs, NEW i \in 1..Len(events[s])
             PROVE  LET owing == { r \in Requests :
                                     pc[r] = "telling" /\ call[r].sub = s /\ ref[r] = i }
                    IN  /\ \A q, r \in owing : q = r
                        /\ NeedsFollowUp(events[s][i].type) =>
                              \/ <<s, i>> \in told /\ <<s, i>> \notin dropped /\ owing = {}
                              \/ <<s, i>> \in dropped /\ <<s, i>> \notin told /\ owing = {}
                              \/ <<s, i>> \notin told \cup dropped /\ owing # {}
  BY DEF FollowUpOnce
<1> DEFINE owing == { r \in Requests :
                        pc[r] = "telling" /\ call[r].sub = s /\ ref[r] = i }
<1>1. i \in Nat
  BY LenProperties DEF Base, TypeOK
<1>2. \A r \in Requests : r \in owing <=> Tells(r, s, i)
  BY DEF Tells
<1>3. \A r \in owing : r \in Requests
  OBVIOUS
<1> HIDE DEF owing
<1>4. \A q, r \in owing : q = r
  BY <1>1, <1>2, <1>3 DEF FollowUps, TellersApart
<1>5. owing # {} => ~Settled(s, i)
  BY <1>1, <1>2, <1>3 DEF FollowUps, TellersFit
<1>6. ~(<<s, i>> \in told /\ <<s, i>> \in dropped)
  BY <1>1 DEF FollowUps, SettledOnce
<1>7. NeedsFollowUp(events[s][i].type) => Settled(s, i) \/ owing # {}
  BY <1>2 DEF FollowUps, OwedHeld
<1>8. QED
  BY <1>4, <1>5, <1>6, <1>7 DEF owing, Settled

\* Every committed event that calls for a follow-up is followed up once, or lost
\* with the request that committed it, or in the hands of exactly one worker:
\* none is published twice, and none vanishes but by a crash between the commit
\* and the publication.
THEOREM FollowedUpOnce == Spec => []FollowUpOnce
<1>1. Init => FollowUps
  BY DEF Init, FollowUps, TellersFit, TellersApart, SettledOnce, OwedHeld, Settled, Tells
<1>2. Base /\ FollowUps => FollowUpOnce
  BY FollowUpsSuffice
<1>3. QED
  BY <1>1, <1>2, BaseInvariant, FollowUpsKept, PTL DEF Spec

-----------------------------------------------------------------------------
(* Isolation: what holds, for any number of workers and wherever they fail, *)
(* as long as no subscription is written between the moment a worker reads  *)
(* it and the moment the worker writes what it decided.                     *)

\* Worker r has read a subscription, or a change of it, and is yet to write.
Deciding(r) == pc[r] \in {"renewing", "staged", "unscheduling"}

\* A step leaves alone what the workers it is not a step of are deciding on.
Undisturbed ==
    \A r \in Requests : Deciding(r) /\ pc'[r] = pc[r] =>
        /\ sub'[call[r].sub] = sub[call[r].sub]
        /\ changes'[call[r].sub] = changes[call[r].sub]

\* The behaviours in which reading a row would lock it.
Isolated == [][Undisturbed]_vars

\* There is one worker.
OneWorker == \A q, r \in Requests : q = r

\* What worker r read still stands when it writes.
Serial(r) ==
    /\ pc[r] \in {"staged", "renewing"} =>
          /\ snap[r] = sub[call[r].sub]
          /\ IsTransitionAllowed(snap[r].status, Target[call[r].op])
          /\ call[r].version # 0 => call[r].version = snap[r].version
          /\ call[r].op = "renew" => ~snap[r].cancelAtPeriodEnd
    /\ pc[r] = "renewing" => call[r].op = "renew" /\ ref[r] = 0
    /\ pc[r] = "staged" /\ ref[r] # 0 =>
          /\ call[r].op \in {"renew", "renewCancel"}
          /\ changes[call[r].sub][ref[r]].status = "PENDING"
          /\ call[r].op = "renewCancel" =>
                changes[call[r].sub][ref[r]].type = "CANCEL_AT_PERIOD_END"
    /\ pc[r] = "unscheduling" => changes[call[r].sub][ref[r]].status = "PENDING"

\* What every proof about isolated workers rests on.
SerialBase == Base /\ \A r \in Requests : Serial(r)

\* A step that leaves the worker outside a transition.
LEMMA SerialElsewhere ==
    ASSUME NEW r \in Requests, pc'[r] \notin {"staged", "renewing", "unscheduling"}
    PROVE  Serial(r)'
BY DEF Serial

\* A creation leaves the worker outside a transition.
LEMMA SerialCreate ==
    ASSUME Base, NEW r \in Requests, CreateRequest(r)
    PROVE  Serial(r)'
<1>1. ASSUME NEW op, NEW k, NEW p, BeginCreate(r, op, k, p)
      PROVE  Serial(r)'
  BY <1>1, SerialElsewhere DEF BeginCreate, Take, Base, TypeOK
<1>2. CASE CommitCreate(r)
  <2>1. PICK s, type : Committed(r, s, type, 1)
    BY <1>2, CreateAdds DEF CreationEvent
  <2>2. QED
    BY <2>1, SerialElsewhere DEF Committed, Idle, Base, TypeOK
<1>3. CASE OverridePeriod(r)
  BY <1>3, SerialElsewhere DEF OverridePeriod, Idle, Base, TypeOK
<1>4. QED
  BY <1>1, <1>2, <1>3 DEF CreateRequest

\* A transition reads a row that permits it.
LEMMA SerialTransition ==
    ASSUME Base, NEW r \in Requests, Serial(r), TransitionRequest(r)
    PROVE  Serial(r)'
<1>1. ASSUME NEW s \in Subs, NEW op \in TransitionOps, NEW k \in Keys \cup {None},
             NEW v \in 0..MaxVersion, NEW p \in Plans \cup {None},
             BeginTransition(r, s, op, k, v, p)
      PROVE  Serial(r)'
  <2> DEFINE c == [op |-> op, sub |-> s, key |-> k, version |-> v, plan |-> p]
  <2>1. c \in Call /\ c.op = op /\ c.sub = s /\ c.version = v
    BY DEF Call, OpNames
  <2>2. /\ Take(r, c, "staged") /\ op # "renew"
        /\ IsTransitionAllowed(sub[s].status, Target[op])
        /\ v # 0 => v = sub[s].version
        /\ UNCHANGED <<sub, ref>>
    BY <1>1 DEF BeginTransition, Admissible, rows
  <2> HIDE DEF c
  <2>3. pc'[r] = "staged" /\ call'[r] = c /\ snap'[r] = sub[s]
    BY <2>1, <2>2, TakeFits DEF Base, Steps
  <2>4. ref'[r] = 0
    BY <2>2 DEF Take, Base, WorkerFits
  <2>5. QED
    BY <2>1, <2>2, <2>3, <2>4 DEF Serial
<1>2. ASSUME NEW s \in Subs, NEW k \in Keys \cup {None}, NEW v \in 0..MaxVersion,
             BeginRenew(r, s, k, v)
      PROVE  Serial(r)'
  <2> DEFINE c == [op |-> "renew", sub |-> s, key |-> k, version |-> v, plan |-> None]
             d == [c EXCEPT !.op = "renewCancel"]
  <2>1. /\ c \in Call /\ c.op = "renew" /\ c.sub = s /\ c.version = v
        /\ d \in Call /\ d.op = "renewCancel" /\ d.sub = s /\ d.version = v
    BY TransitionOpsAre DEF Call, OpNames
  <2>2. /\ v # 0 => v = sub[s].version
        /\ UNCHANGED <<sub, changes>>
        /\ \/ /\ Take(r, d, "staged")
              /\ IsTransitionAllowed(sub[s].status, Target["renewCancel"])
              /\ \E i \in IF DueCancels(s) = {} THEN {0} ELSE DueCancels(s) :
                    ref' = [ref EXCEPT ![r] = i]
           \/ /\ Take(r, c, "renewing") /\ UNCHANGED ref
              /\ IsTransitionAllowed(sub[s].status, Target["renew"])
              /\ ~CancelWanted(s)
    BY <1>2 DEF BeginRenew, Admissible, rows
  <2> HIDE DEF c, d
  <2>3. CASE Take(r, d, "staged")
    <3>1. pc'[r] = "staged" /\ call'[r] = d /\ snap'[r] = sub[s]
      BY <2>1, <2>3, TakeFits DEF Base, Steps
    <3>2. c # d /\ pc'[r] # "renewing"
      BY <2>1, <3>1
    <3>3. ~Take(r, c, "renewing")
      BY <3>2 DEF Take, Base, TypeOK
    <3>4. PICK i \in IF DueCancels(s) = {} THEN {0} ELSE DueCancels(s) :
             ref' = [ref EXCEPT ![r] = i]
      BY <2>2, <3>3
    <3>5. ref'[r] = i /\ (i # 0 => i \in DueCancels(s))
      BY <3>4 DEF Base, TypeOK
    <3>6. i # 0 => changes[s][i].status = "PENDING" /\ changes[s][i].type = "CANCEL_AT_PERIOD_END"
      BY <3>5 DEF DueCancels, Due
    <3>7. QED
      BY <2>1, <2>2, <3>1, <3>3, <3>5, <3>6 DEF Serial
  <2>4. CASE Take(r, c, "renewing") /\ UNCHANGED ref /\ ~CancelWanted(s)
             /\ IsTransitionAllowed(sub[s].status, Target["renew"])
    <3>1. pc'[r] = "renewing" /\ call'[r] = c /\ snap'[r] = sub[s]
      BY <2>1, <2>4, TakeFits DEF Base, Steps
    <3>2. ref'[r] = 0
      BY <2>4 DEF Take, Base, WorkerFits
    <3>3. ~sub[s].cancelAtPeriodEnd
      BY <2>4 DEF CancelWanted
    <3>4. QED
      BY <2>1, <2>2, <2>4, <3>1, <3>2, <3>3 DEF Serial
  <2>5. QED
    BY <2>2, <2>3, <2>4
<1>3. CASE FindDueChange(r)
  <2> PICK s \in Subs : s = call[r].sub
    BY <1>3 DEF FindDueChange, Base, WorkerFits
  <2>1. /\ pc[r] = "renewing" /\ pc' = [pc EXCEPT ![r] = "staged"]
        /\ UNCHANGED <<sub, changes, call, snap>>
    BY <1>3 DEF FindDueChange, rows
  <2>2. PICK i \in IF Due(s) = {} THEN {0} ELSE Due(s) : ref' = [ref EXCEPT ![r] = i]
    BY <1>3 DEF FindDueChange
  <2>3. pc'[r] = "staged" /\ ref'[r] = i /\ (i # 0 => changes[s][i].status = "PENDING")
    BY <2>1, <2>2 DEF Due, Base, TypeOK
  <2>4. QED
    BY <2>1, <2>3 DEF Serial
<1>4. CASE CommitTransition(r)
  BY <1>4, SerialElsewhere DEF CommitTransition, Committed, Idle, Base, TypeOK
<1>5. CASE FollowUp(r)
  BY <1>5, SerialElsewhere DEF FollowUp, Idle, Base, TypeOK
<1>6. QED
  BY <1>1, <1>2, <1>3, <1>4, <1>5 DEF TransitionRequest

\* What is scheduled, or unscheduled, is not in a transition.
LEMMA SerialSchedule ==
    ASSUME Base, NEW r \in Requests, ScheduleRequest(r)
    PROVE  Serial(r)'
<1>1. ASSUME NEW s, NEW op, NEW k, NEW p, BeginSchedule(r, s, op, k, p)
      PROVE  Serial(r)'
  BY <1>1, SerialElsewhere DEF BeginSchedule, Take, Base, TypeOK
<1>2. ASSUME NEW s \in Subs, NEW n \in 1..MaxChanges, BeginUnschedule(r, s, n)
      PROVE  Serial(r)'
  <2> DEFINE c == [NoCall EXCEPT !.op = "unschedule", !.sub = s]
  <2>1. c \in Call /\ c.op = "unschedule" /\ c.sub = s
    BY DEF NoCall, Call, OpNames
  <2>2. /\ Take(r, c, "unscheduling") /\ changes[s][n].status = "PENDING"
        /\ ref' = [ref EXCEPT ![r] = n] /\ UNCHANGED changes
    BY <1>2 DEF BeginUnschedule, rows
  <2> HIDE DEF c
  <2>3. pc'[r] = "unscheduling" /\ call'[r] = c /\ ref'[r] = n
    BY <2>1, <2>2, TakeFits DEF Base, TypeOK, Steps
  <2>4. QED
    BY <2>1, <2>2, <2>3 DEF Serial
<1>3. ASSUME NEW s, BeginExtendTrial(r, s)
      PROVE  Serial(r)'
  BY <1>3, SerialElsewhere DEF BeginExtendTrial, Take, Base, TypeOK
<1>4. ASSUME NEW s, NEW time, AdjustRenewalDate(r, s, time)
      PROVE  Serial(r)'
  BY <1>4, SerialElsewhere DEF AdjustRenewalDate, workers
<1>5. CASE FlagCancel(r) \/ CreateChange(r) \/ CancelChange(r)
  BY <1>5, SerialElsewhere DEF FlagCancel, CreateChange, CancelChange, Base, TypeOK
<1>6. CASE NoteChange(r) \/ ExtendTrial(r)
  BY <1>6, SerialElsewhere DEF NoteChange, ExtendTrial, Idle, Base, TypeOK
<1>7. QED
  BY <1>1, <1>2, <1>3, <1>4, <1>5, <1>6 DEF ScheduleRequest

\* A step of r leaves the other workers where they are.
LEMMA OthersWait ==
    ASSUME Base, NEW r \in Requests,
           CreateRequest(r) \/ TransitionRequest(r) \/ ScheduleRequest(r) \/ Fail(r)
    PROVE  OthersStay(r)
BY CreateStep, TransitionStep, ScheduleStep, FailStep DEF StepFits

\* Isolated, what a worker read stands until it writes.
LEMMA SerialInvariant == Spec /\ Isolated => []SerialBase
<1>1. Init => \A r \in Requests : Serial(r)
  BY DEF Init, Serial
<1>2. SerialBase /\ Base' /\ [Next]_vars /\ [Undisturbed]_vars => SerialBase'
  <2> SUFFICES ASSUME SerialBase, Base', [Next]_vars, [Undisturbed]_vars
               PROVE  \A r \in Requests : Serial(r)'
    BY DEF SerialBase
  <2>1. CASE Tick \/ UNCHANGED vars
    <3>1. UNCHANGED <<sub, changes, pc, call, snap, ref>>
      BY <2>1 DEF Tick, vars, rows, workers
    <3>2. QED
      BY <3>1 DEF SerialBase, Serial
  <2>2. ASSUME NEW r \in Requests,
               CreateRequest(r) \/ TransitionRequest(r) \/ ScheduleRequest(r) \/ Fail(r)
        PROVE  \A q \in Requests : Serial(q)'
    <3>1. Fail(r) => Serial(r)'
      BY SerialElsewhere DEF Fail, Idle, SerialBase, Base, TypeOK
    <3>2. Serial(r)'
      BY <2>2, <3>1, SerialCreate, SerialTransition, SerialSchedule DEF SerialBase
    <3>3. ASSUME NEW q \in Requests \ {r}
          PROVE  Serial(q)'
      <4>1. pc'[q] = pc[q] /\ call'[q] = call[q] /\ snap'[q] = snap[q] /\ ref'[q] = ref[q]
        BY <2>2, OthersWait DEF SerialBase, OthersStay
      <4>2. CASE ~Deciding(q)
        BY <4>1, <4>2, SerialElsewhere DEF Deciding
      <4>3. CASE Deciding(q)
        <5>1. /\ sub'[call[q].sub] = sub[call[q].sub]
              /\ changes'[call[q].sub] = changes[call[q].sub]
          BY <4>1, <4>3 DEF Undisturbed, vars, rows
        <5>2. Serial(q)
          BY DEF SerialBase
        <5>3. QED
          BY <4>1, <5>1, <5>2 DEF Serial
      <4>4. QED
        BY <4>2, <4>3
    <3>4. QED
      BY <3>2, <3>3
  <2>3. QED
    BY <2>1, <2>2 DEF Next
<1>3. QED
  BY <1>1, <1>2, BaseInvariant, PTL DEF Spec, Isolated, SerialBase

\* A worker that is deciding is elsewhere after its next step.
LEMMA DecidingMoves ==
    ASSUME Base, NEW r \in Requests, Deciding(r),
           CreateRequest(r) \/ TransitionRequest(r) \/ ScheduleRequest(r) \/ Fail(r)
    PROVE  pc'[r] # pc[r]
<1>1. pc[r] \in {"renewing", "staged", "unscheduling"} /\ pc \in [Requests -> Steps]
  BY DEF Deciding, Base, TypeOK
<1>2. ~\E c, step : Take(r, c, step)
  BY <1>1 DEF Take
<1>3. ~CreateRequest(r)
  BY <1>1, <1>2 DEF CreateRequest, BeginCreate, CommitCreate, OverridePeriod
<1>4. CASE TransitionRequest(r)
  <2>1. \A s, op, k, v, p : ~BeginTransition(r, s, op, k, v, p)
    BY <1>2 DEF BeginTransition
  <2>2. \A s, k, v : ~BeginRenew(r, s, k, v)
    BY <1>2 DEF BeginRenew
  <2>3. ~FollowUp(r)
    BY <1>1 DEF FollowUp
  <2>4. FindDueChange(r) \/ CommitTransition(r)
    BY <1>4, <2>1, <2>2, <2>3 DEF TransitionRequest
  <2>5. FindDueChange(r) => pc[r] = "renewing" /\ pc'[r] = "staged"
    BY <1>1 DEF FindDueChange
  <2>6. CommitTransition(r) => pc[r] = "staged" /\ pc'[r] \in {"telling", "idle"}
    BY <1>1 DEF CommitTransition, Committed, Idle
  <2>7. QED
    BY <2>4, <2>5, <2>6
<1>5. CASE ScheduleRequest(r)
  <2>1. \A s, op, k, p, n : /\ ~BeginSchedule(r, s, op, k, p) /\ ~BeginUnschedule(r, s, n)
                            /\ ~BeginExtendTrial(r, s)
    BY <1>2 DEF BeginSchedule, BeginUnschedule, BeginExtendTrial
  <2>2. \A s, time : ~AdjustRenewalDate(r, s, time)
    BY <1>1 DEF AdjustRenewalDate
  <2>3. ~FlagCancel(r) /\ ~CreateChange(r) /\ ~NoteChange(r) /\ ~ExtendTrial(r)
    BY <1>1 DEF FlagCancel, CreateChange, NoteChange, ExtendTrial
  <2>4. CancelChange(r)
    BY <1>5, <2>1, <2>2, <2>3 DEF ScheduleRequest
  <2>5. pc[r] = "unscheduling" /\ pc'[r] = "noting"
    BY <1>1, <2>4 DEF CancelChange
  <2>6. QED
    BY <2>5
<1>6. CASE Fail(r)
  BY <1>1, <1>6 DEF Fail, Idle
<1>7. QED
  BY <1>3, <1>4, <1>5, <1>6

\* A single worker is isolated: whatever writes a subscription is a step of the worker
\* that has read it.
THEOREM OneWorkerIsIsolated == ASSUME OneWorker PROVE Spec => Isolated
<1>1. Base /\ [Next]_vars => [Undisturbed]_vars
  <2> SUFFICES ASSUME Base, Next, NEW q \in Requests, Deciding(q), pc'[q] = pc[q]
               PROVE  /\ sub'[call[q].sub] = sub[call[q].sub]
                      /\ changes'[call[q].sub] = changes[call[q].sub]
    BY DEF Undisturbed
  <2>1. Next => Tick \/ CreateRequest(q) \/ TransitionRequest(q) \/ ScheduleRequest(q) \/ Fail(q)
    BY DEF Next, OneWorker
  <2>2. Tick
    BY <2>1, DecidingMoves
  <2>3. QED
    BY <2>2 DEF Tick, rows
<1>2. QED
  BY <1>1, BaseInvariant, PTL DEF Spec, Isolated

\* An event an isolated worker adds: it creates the subscription, or moves it along
\* the allow-list from where it is, or notes what was scheduled.
EventFromRow(s, e) ==
    \/ /\ ~Exists(s) /\ events[s] = <<>>
       /\ e.to \in {"ACTIVE", "TRIALING"} /\ e.type \in {"CREATED", "TRIAL_STARTED"}
    \/ /\ Exists(s) /\ e.from = sub[s].status
       /\ e.to \in Statuses /\ IsTransitionAllowed(sub[s].status, e.to)
       /\ e.type \in {"RENEWED", "SCHEDULED_CHANGE_APPLIED"} => ~sub[s].cancelAtPeriodEnd
    \/ NoteEvent(e)

\* Only a renewal is recorded as one, and only with a change to apply is it
\* recorded as having applied it.
LEMMA EventTypeOfRenewal ==
    ASSUME NEW op \in TransitionOps, NEW from, NEW c
    PROVE  /\ EventType(op, from, c) \in {"RENEWED", "SCHEDULED_CHANGE_APPLIED"} => op = "renew"
           /\ EventType(op, from, c) = "SCHEDULED_CHANGE_APPLIED" <=> op = "renew" /\ c # 0
<1>1. /\ UsualEvent[op] # "SCHEDULED_CHANGE_APPLIED"
      /\ UsualEvent[op] = "RENEWED" => op = "renew"
  BY TransitionOpsAre DEF UsualEvent
<1>2. QED
  BY <1>1 DEF EventType

\* Isolated, every event is computed from the row it is recorded of.
LEMMA SerialEvents ==
    ASSUME SerialBase, Next
    PROVE  LogUnchanged \/ \E s \in Subs, e \in EventRow : EventAdded(s, e) /\ EventFromRow(s, e)
<1>1. ASSUME NEW r \in Requests, CommitCreate(r)
      PROVE  \E s \in Subs, e \in EventRow : EventAdded(s, e) /\ EventFromRow(s, e)
  BY <1>1, CreateAdds DEF SerialBase, CreationEvent, EventFromRow
<1>2. ASSUME NEW r \in Requests, CommitTransition(r)
      PROVE  \E s \in Subs, e \in EventRow : EventAdded(s, e) /\ EventFromRow(s, e)
  <2>1. PICK s \in Subs, e \in EventRow :
               s = call[r].sub /\ EventAdded(s, e) /\ TransitionEvent(r, e)
    BY <1>2, TransitionAdds DEF SerialBase
  <2>2. /\ call[r].op \in TransitionOps
        /\ e.type = EventType(call[r].op, snap[r].status, ref[r])
        /\ e.from = snap[r].status /\ e.to = Target[call[r].op]
    BY <2>1 DEF TransitionEvent
  <2>3. Exists(s) /\ snap[r] = sub[s]
        /\ IsTransitionAllowed(snap[r].status, Target[call[r].op])
        /\ (call[r].op = "renew" => ~snap[r].cancelAtPeriodEnd)
    BY <1>2, <2>1 DEF CommitTransition, SerialBase, Base, WorkerFits, Serial
  <2>4. e.to \in Statuses /\ IsTransitionAllowed(sub[s].status, e.to)
    BY <2>2, <2>3, TargetType
  <2>5. e.type \in {"RENEWED", "SCHEDULED_CHANGE_APPLIED"} => ~sub[s].cancelAtPeriodEnd
    BY <2>2, <2>3, EventTypeOfRenewal
  <2>6. EventFromRow(s, e)
    BY <2>2, <2>3, <2>4, <2>5 DEF EventFromRow
  <2>7. QED
    BY <2>1, <2>6
<1>3. ASSUME NEW r \in Requests, NoteChange(r)
      PROVE  \E s \in Subs, e \in EventRow : EventAdded(s, e) /\ EventFromRow(s, e)
  BY <1>3, NoteAdds DEF SerialBase, EventFromRow
<1>4. UNCHANGED <<sub, item, trial, events>> => LogUnchanged
  BY DEF LogUnchanged
<1>5. QED
  BY <1>1, <1>2, <1>3, <1>4, StepKinds, RawUpdateQuiet DEF SerialBase

\* One step of isolated workers keeps EventChain.
LEMMA EventChainKept ==
    SerialBase /\ LogMatchesRow /\ EventChain /\ [Next]_vars => EventChain'
<1> SUFFICES ASSUME SerialBase, LogMatchesRow, EventChain, [Next]_vars PROVE EventChain'
  OBVIOUS
<1>1. CASE events' = events
  BY <1>1 DEF EventChain, SetsStatus
<1>2. CASE \E s \in Subs, e \in EventRow : EventAdded(s, e) /\ EventFromRow(s, e)
  <2> PICK s \in Subs, e \in EventRow : EventAdded(s, e) /\ EventFromRow(s, e)
    BY <1>2
  <2> DEFINE n == Len(events[s])
  <2>1. /\ n \in Nat /\ Len(events'[s]) = n + 1 /\ events'[s][n + 1] = e
        /\ \A i \in 1..n : events'[s][i] = events[s][i]
        /\ \A t \in Subs \ {s} : events'[t] = events[t]
    BY LogAfter DEF SerialBase
  <2>2. n # 0 => e.to = None \/ e.from = sub[s].status
    BY EmptySeq DEF EventFromRow, NoteEvent
  <2>3. ASSUME NEW t \in Subs, NEW i \in 1..Len(events'[t]), NEW j \in 1..Len(events'[t]),
               i < j, events'[t][i].to # None, events'[t][j].to # None,
               \A m \in i+1..j-1 : events'[t][m].to = None
        PROVE  events'[t][j].from = events'[t][i].to
    <3>1. CASE t # s
      <4>1. events'[t] = events[t]
        BY <2>1, <3>1
      <4>2. QED
        BY <2>3, <4>1 DEF EventChain, SetsStatus
    <3>2. CASE t = s /\ j # n + 1
      <4>1. i \in 1..n /\ j \in 1..n /\ (\A m \in i+1..j-1 : m \in 1..n)
        BY <2>1, <2>3, <3>2
      <4>2. /\ events'[s][i] = events[s][i] /\ events'[s][j] = events[s][j]
            /\ \A m \in i+1..j-1 : events[s][m].to = None
        BY <2>1, <2>3, <3>2, <4>1
      <4>3. QED
        BY <2>3, <3>2, <4>1, <4>2 DEF EventChain, SetsStatus
    <3>3. CASE t = s /\ j = n + 1
      <4>1. i \in 1..n /\ events'[s][i] = events[s][i] /\ n # 0
        BY <2>1, <2>3, <3>3
      <4>2. \A m \in i+1..n : events[s][m].to = None
        BY <2>1, <2>3, <3>3
      <4>3. events[s][i].to = sub[s].status
        BY <2>3, <3>3, <4>1, <4>2 DEF LogMatchesRow, SetsStatus
      <4>4. e.from = sub[s].status
        BY <2>1, <2>2, <2>3, <3>3, <4>1
      <4>5. QED
        BY <2>1, <3>3, <4>1, <4>3, <4>4
    <3>4. QED
      BY <3>1, <3>2, <3>3
  <2>4. QED
    BY <2>3 DEF EventChain, SetsStatus
<1>3. UNCHANGED vars => events' = events
  BY DEF vars, rows
<1>4. QED
  BY <1>1, <1>2, <1>3, SerialEvents DEF LogUnchanged

\* Isolated, the statuses in the log form a chain: each transition starts
\* where the previous one ended, whatever failed in between.
THEOREM EventsChain == Spec /\ Isolated => []EventChain
<1>1. Init => EventChain
  BY DEF Init, EventChain
<1>2. QED
  BY <1>1, SerialInvariant, LogAlwaysMatchesRow, EventChainKept, PTL DEF Spec

\* Isolated, once a cancellation at period end has raised the flag a
\* renewal cancels: none is recorded as RENEWED, nor as having applied a change.
THEOREM RenewalsHonourCancel == Spec /\ Isolated => RenewHonoursCancel
<1> DEFINE Honours ==
      \A s \in Subs :
          sub[s].cancelAtPeriodEnd /\ sub'[s].cancelAtPeriodEnd
          /\ Len(events'[s]) > Len(events[s])
            => events'[s][Len(events'[s])].type
                 \notin {"RENEWED", "SCHEDULED_CHANGE_APPLIED"}
<1>1. SerialBase /\ [Next]_vars => [Honours]_vars
  <2> SUFFICES ASSUME SerialBase, Next PROVE Honours
    OBVIOUS
  <2>1. \A s \in Subs : Len(events[s]) \in Nat
    BY LenProperties DEF SerialBase, Base, TypeOK
  <2>2. CASE events' = events
    BY <2>1, <2>2
  <2>3. ASSUME NEW s \in Subs, NEW e \in EventRow, EventAdded(s, e), EventFromRow(s, e)
        PROVE  Honours
    <3>1. /\ Len(events'[s]) = Len(events[s]) + 1 /\ events'[s][Len(events[s]) + 1] = e
          /\ \A t \in Subs \ {s} : events'[t] = events[t]
      BY <2>3, LogAfter DEF SerialBase
    <3>2. sub[s].cancelAtPeriodEnd => e.type \notin {"RENEWED", "SCHEDULED_CHANGE_APPLIED"}
      BY <2>3 DEF EventFromRow, NoteEvent
    <3>3. QED
      BY <2>1, <3>1, <3>2
  <2>4. QED
    BY <2>2, <2>3, SerialEvents DEF LogUnchanged
<1>2. QED
  BY <1>1, SerialInvariant, PTL DEF Spec, RenewHonoursCancel

\* Isolated, a transition sent with an expectedVersion writes the row it
\* names at that version, or nothing.
THEOREM ExpectedVersionsHold == Spec /\ Isolated => ExpectedVersionHeld
<1>1. SerialBase /\ [Next]_vars
        => [\A r \in Requests :
              pc[r] = "staged" /\ call[r].version # 0 /\ sub'[call[r].sub] # sub[call[r].sub]
                => sub[call[r].sub].version = call[r].version]_vars
  BY DEF SerialBase, Serial
<1>2. QED
  BY <1>1, SerialInvariant, PTL DEF Spec, ExpectedVersionHeld

\* One step of isolated workers keeps PlanMatchesItem.
LEMMA PlanMatchesItemKept == SerialBase /\ PlanMatchesItem /\ [Next]_vars => PlanMatchesItem'
<1> SUFFICES ASSUME SerialBase, PlanMatchesItem, [Next]_vars PROVE PlanMatchesItem'
  OBVIOUS
<1>1. CASE UNCHANGED <<sub, item>>
  BY <1>1 DEF PlanMatchesItem
<1>2. ASSUME NEW s \in Subs, NEW row \in SubRow, sub' = [sub EXCEPT ![s] = row],
             item' = [item EXCEPT ![s] = row.plan]
      PROVE  PlanMatchesItem'
  BY <1>2 DEF PlanMatchesItem, SerialBase, Base, TypeOK
<1>3. ASSUME NEW s \in Subs, NEW row \in SubRow, RawUpdate(s, row)
      PROVE  PlanMatchesItem'
  <2>1. item' = [item EXCEPT ![s] = row.plan]
    BY <1>3 DEF RawUpdate, Updated, PlanMatchesItem, SerialBase, Base, TypeOK
  <2>2. QED
    BY <1>2, <1>3, <2>1 DEF RawUpdate
<1>4. ASSUME NEW r \in Requests, CommitTransition(r)
      PROVE  PlanMatchesItem'
  <2>1. PICK s \in Subs, row \in SubRow :
               s = call[r].sub /\ row = NewRow(r) /\ RowMoved(s, row)
    BY <1>4, TransitionWrites DEF SerialBase
  <2>2. /\ pc[r] = "staged" /\ sub' = [sub EXCEPT ![s] = row]
        /\ item' = [item EXCEPT ![s] = IF NewPlan(r) = None THEN item[s] ELSE NewPlan(r)]
    BY <1>4, <2>1 DEF CommitTransition, RowMoved
  <2>3. row.plan = RowPlan(r)
    BY <2>1, <2>2, NewRowType DEF SerialBase, Base
  <2>4. snap[r].plan = item[s] /\ sub[call[r].sub].plan = item[s]
    BY <2>1, <2>2 DEF SerialBase, Serial, PlanMatchesItem
  <2>5. row.plan = IF NewPlan(r) = None THEN item[s] ELSE NewPlan(r)
    <3>1. CASE NewPlan(r) = None
      BY <2>3, <2>4, <3>1 DEF RowPlan
    <3>2. CASE NewPlan(r) # None
      BY <2>3, <3>2 DEF RowPlan
    <3>3. QED
      BY <3>1, <3>2
  <2>6. QED
    BY <1>2, <2>2, <2>5
<1>5. ASSUME NEW r \in Requests, CommitCreate(r)
      PROVE  PlanMatchesItem'
  BY <1>2, <1>5, CreateWrites DEF RowCreated, SerialBase
<1>6. \A r \in Requests : NoteChange(r) => UNCHANGED <<sub, item>>
  BY DEF NoteChange
<1>7. UNCHANGED vars => UNCHANGED <<sub, item>>
  BY DEF vars, rows
<1>8. QED
  BY <1>1, <1>3, <1>4, <1>5, <1>6, <1>7, StepKinds DEF SerialBase

\* Isolated, the plan of a subscription is the plan its item is priced at:
\* creation, immediate change and scheduled switch write both.
THEOREM PlansMatchItems == Spec /\ Isolated => []PlanMatchesItem
<1>1. Init => PlanMatchesItem
  BY DEF Init, PlanMatchesItem, NoSub
<1>2. QED
  BY <1>1, SerialInvariant, PlanMatchesItemKept, PTL DEF Spec

\* The i-th event of s records that the change c was applied.
Applies(s, i, c) ==
    /\ i \in 1..Len(events[s])
    /\ events[s][i].type = "SCHEDULED_CHANGE_APPLIED" /\ events[s][i].change = c

\* What the log says was applied is a change, and APPLIED.
AppliedFits ==
    \A s \in Subs, i, c \in Nat :
        Applies(s, i, c) => c \in 1..Len(changes[s]) /\ changes[s][c].status = "APPLIED"

\* A change is applied once.
AppliedOnce ==
    \A s \in Subs, i, j, c \in Nat : Applies(s, i, c) /\ Applies(s, j, c) => i = j

\* A switch that is APPLIED was applied.
SwitchesLogged ==
    \A s \in Subs : \A c \in 1..Len(changes[s]) :
        changes[s][c].type = "SWITCH" /\ changes[s][c].status = "APPLIED"
            => \E i \in Nat : Applies(s, i, c)

\* What SwitchAppliedOnce rests on.
Switches == AppliedFits /\ AppliedOnce /\ SwitchesLogged

\* An event that applies no change.
LEMMA OtherEventApplies ==
    ASSUME Base, NEW s \in Subs, NEW e \in EventRow, EventAdded(s, e),
           e.type # "SCHEDULED_CHANGE_APPLIED"
    PROVE  \A t \in Subs, i, c \in Nat : Applies(t, i, c)' <=> Applies(t, i, c)
<1>1. /\ Len(events[s]) \in Nat /\ Len(events'[s]) = Len(events[s]) + 1
      /\ events'[s][Len(events[s]) + 1] = e
      /\ \A i \in 1..Len(events[s]) : events'[s][i] = events[s][i]
      /\ \A t \in Subs \ {s} : events'[t] = events[t]
  BY LogAfter
<1>2. QED
  BY <1>1 DEF Applies

\* An event that applies the change d.
LEMMA AppliedEventApplies ==
    ASSUME Base, NEW s \in Subs, NEW e \in EventRow, EventAdded(s, e),
           e.type = "SCHEDULED_CHANGE_APPLIED"
    PROVE  \A t \in Subs, i, c \in Nat :
              Applies(t, i, c)' <=>
                 Applies(t, i, c) \/ (t = s /\ i = Len(events[s]) + 1 /\ c = e.change)
<1>1. /\ Len(events[s]) \in Nat /\ Len(events'[s]) = Len(events[s]) + 1
      /\ events'[s][Len(events[s]) + 1] = e
      /\ \A i \in 1..Len(events[s]) : events'[s][i] = events[s][i]
      /\ \A t \in Subs \ {s} : events'[t] = events[t]
  BY LogAfter
<1>2. QED
  BY <1>1 DEF Applies

\* A step that takes no change out of APPLIED ...
AppliedStay ==
    \A t \in Subs : \A c \in 1..Len(changes[t]) :
        /\ c \in 1..Len(changes'[t])
        /\ changes[t][c].status = "APPLIED" => changes'[t][c].status = "APPLIED"

\* ... and no switch into it.
NoneMarked ==
    \A t \in Subs : \A c \in 1..Len(changes'[t]) :
        changes'[t][c].type = "SWITCH" /\ changes'[t][c].status = "APPLIED"
           => /\ c \in 1..Len(changes[t])
              /\ changes[t][c].type = "SWITCH" /\ changes[t][c].status = "APPLIED"

\* A step that applies nothing.
LEMMA NothingApplied ==
    ASSUME Base, Base', Switches, AppliedStay, NoneMarked,
           \A t \in Subs, i, c \in Nat : Applies(t, i, c)' <=> Applies(t, i, c)
    PROVE  Switches'
<1>1. AppliedFits'
  BY DEF Switches, AppliedFits, AppliedStay
<1>2. AppliedOnce'
  BY DEF Switches, AppliedOnce
<1>3. SwitchesLogged'
  <2>1. ASSUME NEW t \in Subs, NEW c \in 1..Len(changes'[t]),
               changes'[t][c].type = "SWITCH", changes'[t][c].status = "APPLIED"
        PROVE  \E i \in Nat : Applies(t, i, c)'
    <3>1. c \in 1..Len(changes[t]) /\ \E i \in Nat : Applies(t, i, c)
      BY <2>1 DEF Switches, SwitchesLogged, NoneMarked
    <3>2. c \in Nat
      BY LenProperties DEF Base, TypeOK
    <3>3. QED
      BY <3>1, <3>2
  <2>2. QED
    BY <2>1 DEF SwitchesLogged
<1>4. QED
  BY <1>1, <1>2, <1>3 DEF Switches

\* A change that is PENDING has not been applied.
LEMMA PendingUnapplied ==
    ASSUME Base, Switches, NEW s \in Subs, NEW c \in 1..Len(changes[s]),
           changes[s][c].status = "PENDING"
    PROVE  \A i \in Nat : ~Applies(s, i, c)
<1>1. c \in Nat
  BY LenProperties DEF Base, TypeOK
<1>2. QED
  BY <1>1 DEF Switches, AppliedFits

\* A renewal that applies a scheduled change, or a cancellation that was due.
LEMMA TransitionSwitches ==
    ASSUME SerialBase, Base', Switches, NEW r \in Requests, CommitTransition(r)
    PROVE  Switches'
<1>1. PICK s \in Subs, e \in EventRow :
             s = call[r].sub /\ EventAdded(s, e) /\ TransitionEvent(r, e)
  BY TransitionAdds DEF SerialBase
<1> PICK n \in Nat, d \in Nat : n = Len(events[s]) /\ d = ref[r]
  BY LenProperties DEF SerialBase, Base, TypeOK
<1>2. /\ call[r].op \in TransitionOps
      /\ e.type = EventType(call[r].op, snap[r].status, d)
      /\ e.change = IF call[r].op = "renew" THEN d ELSE 0
  BY <1>1 DEF TransitionEvent
<1>3. e.type = "SCHEDULED_CHANGE_APPLIED" <=> call[r].op = "renew" /\ d # 0
  BY <1>2, EventTypeOfRenewal
<1>4. /\ pc[r] = "staged"
      /\ changes' = IF d = 0 THEN changes
                    ELSE [changes EXCEPT ![s][d].status = "APPLIED"]
  BY <1>1 DEF CommitTransition
<1>5. CASE d = 0
  <2>1. \A t \in Subs, i, c \in Nat : Applies(t, i, c)' <=> Applies(t, i, c)
    BY <1>1, <1>3, <1>5, OtherEventApplies DEF SerialBase
  <2>2. AppliedStay /\ NoneMarked
    BY <1>4, <1>5 DEF AppliedStay, NoneMarked
  <2>3. QED
    BY <2>1, <2>2, NothingApplied DEF SerialBase
<1>6. CASE d # 0
  <2>1. d \in 0..Len(changes[s]) /\ Len(changes[s]) \in Nat
    BY <1>1, <1>4, LenProperties DEF SerialBase, Base, TypeOK, WorkerFits
  <2>2. d \in 1..Len(changes[s]) /\ d \in Nat
    BY <1>6, <2>1
  <2>3. /\ changes[s][d].status = "PENDING" /\ call[r].op \in {"renew", "renewCancel"}
        /\ call[r].op = "renewCancel" => changes[s][d].type = "CANCEL_AT_PERIOD_END"
    BY <1>1, <1>4, <1>6 DEF SerialBase, Serial
  <2>4. ChangeMarked(s, d, "APPLIED")
    BY <1>4, <1>6 DEF ChangeMarked
  <2>5. /\ \A t \in Subs : Len(changes'[t]) = Len(changes[t])
        /\ \A t \in Subs \ {s} : changes'[t] = changes[t]
        /\ changes'[s][d].status = "APPLIED" /\ changes'[s][d].type = changes[s][d].type
        /\ \A c \in 1..Len(changes[s]) \ {d} : changes'[s][c] = changes[s][c]
    BY <2>2, <2>4, ChangeUpdated DEF SerialBase, Base
  <2>6. \A i \in Nat : ~Applies(s, i, d)
    BY <2>2, <2>3, PendingUnapplied DEF SerialBase
  <2>7. CASE call[r].op = "renewCancel"
    <3>1. \A t \in Subs, i, c \in Nat : Applies(t, i, c)' <=> Applies(t, i, c)
      BY <1>1, <1>3, <2>7, OtherEventApplies DEF SerialBase
    <3>2. changes'[s][d].type # "SWITCH"
      BY <2>3, <2>5, <2>7
    <3>3. AppliedStay /\ NoneMarked
      BY <2>5, <3>2 DEF AppliedStay, NoneMarked
    <3>4. QED
      BY <3>1, <3>3, NothingApplied DEF SerialBase
  <2>8. CASE call[r].op = "renew"
    <3>1. \A t \in Subs, i, c \in Nat :
            Applies(t, i, c)' <=> Applies(t, i, c) \/ (t = s /\ i = n + 1 /\ c = d)
      BY <1>1, <1>2, <1>3, <1>6, <2>8, AppliedEventApplies DEF SerialBase
    <3>2. AppliedFits'
      <4>1. ASSUME NEW t \in Subs, NEW i \in Nat, NEW c \in Nat, Applies(t, i, c)'
            PROVE  c \in 1..Len(changes'[t]) /\ changes'[t][c].status = "APPLIED"
        <5>1. CASE t = s /\ c = d
          BY <2>2, <2>5, <5>1
        <5>2. CASE ~(t = s /\ c = d)
          <6>1. c \in 1..Len(changes[t]) /\ changes[t][c].status = "APPLIED"
            BY <3>1, <4>1, <5>2 DEF Switches, AppliedFits
          <6>2. QED
            BY <2>5, <5>2, <6>1
        <5>3. QED
          BY <5>1, <5>2
      <4>2. QED
        BY <4>1 DEF AppliedFits
    <3>3. AppliedOnce'
      <4>1. ASSUME NEW t \in Subs, NEW i \in Nat, NEW j \in Nat, NEW c \in Nat,
                   Applies(t, i, c)', Applies(t, j, c)'
            PROVE  i = j
        BY <2>6, <3>1, <4>1 DEF Switches, AppliedOnce
      <4>2. QED
        BY <4>1 DEF AppliedOnce
    <3>4. SwitchesLogged'
      <4>1. ASSUME NEW t \in Subs, NEW c \in 1..Len(changes'[t]),
                   changes'[t][c].type = "SWITCH", changes'[t][c].status = "APPLIED"
            PROVE  \E i \in Nat : Applies(t, i, c)'
        <5>1. CASE t = s /\ c = d
          <6>1. n + 1 \in Nat
            OBVIOUS
          <6>2. Applies(s, n + 1, d)'
            BY <2>2, <3>1, <6>1
          <6>3. QED
            BY <5>1, <6>1, <6>2
        <5>2. CASE ~(t = s /\ c = d)
          <6>1. c \in 1..Len(changes[t]) /\ changes'[t][c] = changes[t][c]
            BY <2>5, <5>2
          <6>2. c \in Nat
            BY <6>1, LenProperties DEF SerialBase, Base, TypeOK
          <6>3. \E i \in Nat : Applies(t, i, c)
            BY <4>1, <6>1 DEF Switches, SwitchesLogged
          <6>4. QED
            BY <3>1, <6>2, <6>3
        <5>3. QED
          BY <5>1, <5>2
      <4>2. QED
        BY <4>1 DEF SwitchesLogged
    <3>5. QED
      BY <3>2, <3>3, <3>4 DEF Switches
  <2>9. QED
    BY <2>3, <2>7, <2>8
<1>7. QED
  BY <1>5, <1>6

\* Scheduling a change, and canceling one.
LEMMA ScheduleSwitches ==
    ASSUME SerialBase, Base', Switches, NEW r \in Requests, CreateChange(r) \/ CancelChange(r)
    PROVE  Switches'
<1>1. \A t \in Subs, i, c \in Nat : Applies(t, i, c)' <=> Applies(t, i, c)
  BY DEF CreateChange, CancelChange, Applies
<1> PICK s \in Subs : s = call[r].sub
  BY DEF CreateChange, CancelChange, SerialBase, Base, WorkerFits
<1>2. changes[s] \in Seq(ChangeRow) /\ Len(changes[s]) \in Nat
  BY LenProperties DEF SerialBase, Base, TypeOK
<1>3. CASE CreateChange(r)
  <2>1. PICK change : /\ change.status = "PENDING"
                      /\ changes' = [changes EXCEPT ![s] = Append(changes[s], change)]
    <3> DEFINE change == [ type |-> IF call[r].op = "cancelLater" THEN "CANCEL_AT_PERIOD_END"
                                    ELSE "SWITCH",
                           status |-> "PENDING",
                           plan |-> call[r].plan,
                           effectiveAt |-> OrNow(snap[r].periodEnd) ]
    <3>1. changes' = [changes EXCEPT ![s] = Append(changes[s], change)]
      BY <1>3 DEF CreateChange
    <3>2. change.status = "PENDING"
      OBVIOUS
    <3> HIDE DEF change
    <3>3. QED
      BY <3>1, <3>2
  <2>2. /\ Len(changes'[s]) = Len(changes[s]) + 1
        /\ changes'[s][Len(changes[s]) + 1].status = "PENDING"
        /\ \A c \in 1..Len(changes[s]) : changes'[s][c] = changes[s][c]
        /\ \A t \in Subs \ {s} : changes'[t] = changes[t]
    <3>1. changes'[s] = Append(changes[s], change) /\ \A t \in Subs \ {s} : changes'[t] = changes[t]
      BY <2>1 DEF SerialBase, Base, TypeOK
    <3>2. QED
      BY <1>2, <2>1, <3>1
  <2>3. ASSUME NEW t \in Subs, NEW c \in 1..Len(changes[t])
        PROVE  c \in 1..Len(changes'[t]) /\ changes'[t][c] = changes[t][c]
    <3>1. CASE t = s
      BY <1>2, <2>2, <3>1
    <3>2. CASE t # s
      BY <2>2, <3>2
    <3>3. QED
      BY <3>1, <3>2
  <2>4. ASSUME NEW t \in Subs, NEW c \in 1..Len(changes'[t]), changes'[t][c].status = "APPLIED"
        PROVE  c \in 1..Len(changes[t]) /\ changes'[t][c] = changes[t][c]
    <3>1. CASE t = s
      <4>1. c # Len(changes[s]) + 1
        BY <2>2, <2>4, <3>1
      <4>2. QED
        BY <1>2, <2>2, <3>1, <4>1
    <3>2. CASE t # s
      BY <2>2, <3>2
    <3>3. QED
      BY <3>1, <3>2
  <2>5. AppliedStay /\ NoneMarked
    BY <2>3, <2>4 DEF AppliedStay, NoneMarked
  <2>6. QED
    BY <1>1, <2>5, NothingApplied DEF SerialBase
<1>4. CASE CancelChange(r)
  <2>1. /\ ref[r] \in 1..Len(changes[s]) /\ changes[s][ref[r]].status = "PENDING"
        /\ ChangeMarked(s, ref[r], "CANCELED")
    BY <1>4 DEF CancelChange, ChangeMarked, SerialBase, Serial, Base, WorkerFits
  <2> DEFINE d == ref[r]
  <2>2. /\ \A t \in Subs : Len(changes'[t]) = Len(changes[t])
        /\ \A t \in Subs \ {s} : changes'[t] = changes[t]
        /\ changes'[s][d].status = "CANCELED"
        /\ \A c \in 1..Len(changes[s]) \ {d} : changes'[s][c] = changes[s][c]
    BY <2>1, ChangeUpdated DEF SerialBase, Base
  <2> HIDE DEF d
  <2>3. changes[s][d].status = "PENDING"
    BY <2>1 DEF d
  <2>4. ASSUME NEW t \in Subs, NEW c \in 1..Len(changes[t]), changes[t][c].status = "APPLIED"
        PROVE  c \in 1..Len(changes'[t]) /\ changes'[t][c] = changes[t][c]
    <3>1. CASE t = s
      <4>1. c # d
        BY <2>3, <2>4, <3>1
      <4>2. QED
        BY <2>2, <2>4, <3>1, <4>1
    <3>2. CASE t # s
      BY <2>2, <2>4, <3>2
    <3>3. QED
      BY <3>1, <3>2
  <2>5. ASSUME NEW t \in Subs, NEW c \in 1..Len(changes'[t]), changes'[t][c].status = "APPLIED"
        PROVE  c \in 1..Len(changes[t]) /\ changes'[t][c] = changes[t][c]
    <3>1. c \in 1..Len(changes[t])
      BY <2>2
    <3>2. CASE t = s
      <4>1. c # d
        BY <2>2, <2>5, <3>2
      <4>2. QED
        BY <2>2, <3>1, <3>2, <4>1
    <3>3. CASE t # s
      BY <2>2, <3>1, <3>3
    <3>4. QED
      BY <3>2, <3>3, <3>1
  <2>6. AppliedStay
    BY <2>2, <2>4 DEF AppliedStay
  <2>7. NoneMarked
    BY <2>5 DEF NoneMarked
  <2>8. QED
    BY <1>1, <2>6, <2>7, NothingApplied DEF SerialBase
<1>5. QED
  BY <1>3, <1>4

\* One step of isolated workers keeps Switches.
LEMMA SwitchesKept == SerialBase /\ Base' /\ Switches /\ [Next]_vars => Switches'
<1> SUFFICES ASSUME SerialBase, Base', Switches, [Next]_vars PROVE Switches'
  OBVIOUS
<1>1. CASE UNCHANGED <<changes, events>>
  BY <1>1 DEF Switches, AppliedFits, AppliedOnce, SwitchesLogged, Applies
<1>2. ASSUME NEW s \in Subs, NEW e \in EventRow, EventAdded(s, e), changes' = changes,
             e.type # "SCHEDULED_CHANGE_APPLIED"
      PROVE  Switches'
  <2>1. \A t \in Subs, i, c \in Nat : Applies(t, i, c)' <=> Applies(t, i, c)
    BY <1>2, OtherEventApplies DEF SerialBase
  <2>2. AppliedStay /\ NoneMarked
    BY <1>2 DEF AppliedStay, NoneMarked
  <2>3. QED
    BY <2>1, <2>2, NothingApplied DEF SerialBase
<1>3. ASSUME NEW r \in Requests,
             CreateRequest(r) \/ TransitionRequest(r) \/ ScheduleRequest(r) \/ Fail(r)
      PROVE  Switches'
  <2>1. CASE CommitCreate(r)
    BY <1>2, <2>1, CreateAdds DEF SerialBase, CreationEvent, CommitCreate
  <2>2. CASE CommitTransition(r)
    BY <2>2, TransitionSwitches
  <2>3. CASE NoteChange(r)
    BY <1>2, <2>3, NoteAdds DEF SerialBase, NoteEvent, NoteChange
  <2>4. CASE CreateChange(r) \/ CancelChange(r)
    BY <2>4, ScheduleSwitches
  <2>5. CASE UNCHANGED rows \/ OverridePeriod(r) \/ FlagCancel(r) \/ ExtendTrial(r)
             \/ \E s \in Subs, time \in 1..MaxTime : AdjustRenewalDate(r, s, time)
    BY <1>1, <2>5 DEF rows, OverridePeriod, FlagCancel, ExtendTrial, AdjustRenewalDate
  <2>6. QED
    BY <1>3, <2>1, <2>2, <2>3, <2>4, <2>5, WritingSteps
<1>4. Tick \/ UNCHANGED vars => UNCHANGED <<changes, events>>
  BY DEF Tick, vars, rows
<1>5. QED
  BY <1>1, <1>3, <1>4 DEF Next

\* Switches says what SwitchAppliedOnce says of each change.
LEMMA SwitchesSuffice ==
    ASSUME Base, Switches
    PROVE  SwitchAppliedOnce
<1> SUFFICES ASSUME NEW s \in Subs, NEW c \in 1..Len(changes[s])
             PROVE  LET by == { i \in 1..Len(events[s]) :
                                 /\ events[s][i].type = "SCHEDULED_CHANGE_APPLIED"
                                 /\ events[s][i].change = c }
                    IN  /\ \A i, j \in by : i = j
                        /\ changes[s][c].type = "SWITCH" =>
                              (by # {} <=> changes[s][c].status = "APPLIED")
  BY DEF SwitchAppliedOnce
<1> DEFINE by == { i \in 1..Len(events[s]) :
                     /\ events[s][i].type = "SCHEDULED_CHANGE_APPLIED"
                     /\ events[s][i].change = c }
<1>1. c \in Nat /\ Len(events[s]) \in Nat
  BY LenProperties DEF Base, TypeOK
<1>2. \A i : i \in by <=> i \in Nat /\ Applies(s, i, c)
  BY <1>1 DEF Applies
<1> HIDE DEF by
<1>3. \A i, j \in by : i = j
  BY <1>1, <1>2 DEF Switches, AppliedOnce
<1>4. by # {} => changes[s][c].status = "APPLIED"
  BY <1>1, <1>2 DEF Switches, AppliedFits
<1>5. changes[s][c].type = "SWITCH" /\ changes[s][c].status = "APPLIED" => by # {}
  BY <1>2 DEF Switches, SwitchesLogged
<1>6. QED
  BY <1>3, <1>4, <1>5 DEF by

\* Isolated, a scheduled switch is applied by one renewal if it is
\* APPLIED, and by none while it is PENDING or once it was CANCELED.
THEOREM SwitchesApplyOnce == Spec /\ Isolated => []SwitchAppliedOnce
<1>1. Init => Switches
  BY DEF Init, Switches, AppliedFits, AppliedOnce, SwitchesLogged, Applies
<1>2. SerialBase => Base
  BY DEF SerialBase
<1>3. Base /\ Switches => SwitchAppliedOnce
  BY SwitchesSuffice
<1>4. QED
  BY <1>1, <1>2, <1>3, SerialInvariant, SwitchesKept, PTL DEF Spec

-----------------------------------------------------------------------------
(* Isolated, the service implements SubscriptionLifecycle. *)

\* What SubscriptionLifecycle sees of a state: the statuses, the keys spent.
StatusOf == [s \in Subs |-> sub[s].status]
SpentKeys == { k \in Keys : ~KeyFree(k) }

\* The allow-list of the abstract specification is the one of the service.
LEMMA SameAllowList ==
    /\ Lifecycle!Statuses = Statuses
    /\ \A from, to : Lifecycle!IsTransitionAllowed(from, to) <=> IsTransitionAllowed(from, to)
BY DEF Lifecycle!Statuses, Statuses, Lifecycle!IsTransitionAllowed, IsTransitionAllowed,
       Lifecycle!AllowedTransitions, AllowedTransitions

\* An event spends the key it carries, which no event has carried before.
LEMMA EventSpends ==
    ASSUME Base, NEW s \in Subs, NEW e \in EventRow, EventAdded(s, e)
    PROVE  \/ SpentKeys' = SpentKeys
           \/ \E k \in Keys \ SpentKeys : SpentKeys' = SpentKeys \cup {k}
<1>1. /\ Len(events[s]) \in Nat /\ Len(events'[s]) = Len(events[s]) + 1
      /\ events'[s][Len(events[s]) + 1] = e
      /\ \A i \in 1..Len(events[s]) : events'[s][i] = events[s][i]
      /\ \A t \in Subs \ {s} : events'[t] = events[t]
  BY LogAfter
<1>2. \A k \in Keys : KeyFree(k)' <=> KeyFree(k) /\ k # e.key
  <2>1. ASSUME NEW k \in Keys
        PROVE  KeyFree(k)' <=> KeyFree(k) /\ k # e.key
    <3>1. k # None
      BY ConstantsAssumption
    <3>2. (\A t \in Subs : \A i \in 1..Len(events'[t]) : events'[t][i].key # k)
            <=> (\A t \in Subs : \A i \in 1..Len(events[t]) : events[t][i].key # k) /\ k # e.key
      <4>1. ASSUME \A t \in Subs : \A i \in 1..Len(events'[t]) : events'[t][i].key # k
            PROVE  (\A t \in Subs : \A i \in 1..Len(events[t]) : events[t][i].key # k) /\ k # e.key
        BY <1>1, <4>1
      <4>2. ASSUME \A t \in Subs : \A i \in 1..Len(events[t]) : events[t][i].key # k, k # e.key
            PROVE  \A t \in Subs : \A i \in 1..Len(events'[t]) : events'[t][i].key # k
        BY <1>1, <4>2
      <4>3. QED
        BY <4>1, <4>2
    <3>3. QED
      BY <3>1, <3>2 DEF KeyFree
  <2>2. QED
    BY <2>1
<1>3. KeyFree(e.key) /\ e.key \in Keys \cup {None}
  BY DEF EventAdded, EventRow
<1>4. CASE e.key = None
  <2>1. \A k \in Keys : KeyFree(k)' <=> KeyFree(k)
    BY <1>2, <1>4, ConstantsAssumption
  <2>2. QED
    BY <2>1 DEF SpentKeys
<1>5. CASE e.key # None
  <2>1. e.key \in Keys \ SpentKeys
    BY <1>3, <1>5 DEF SpentKeys
  <2>2. SpentKeys' = SpentKeys \cup {e.key}
    BY <1>2, <1>3, <1>5 DEF SpentKeys
  <2>3. QED
    BY <2>1, <2>2
<1>6. QED
  BY <1>4, <1>5

\* A step of isolated workers is a step of the lifecycle, or invisible to it.
LEMMA LifecycleStep ==
    ASSUME SerialBase, Next
    PROVE  \/ StatusOf' = StatusOf /\ SpentKeys' = SpentKeys
           \/ /\ \/ SpentKeys' = SpentKeys
                 \/ \E k \in Keys \ SpentKeys : SpentKeys' = SpentKeys \cup {k}
              /\ \/ StatusOf' = StatusOf
                 \/ \E s \in Subs :
                       \/ /\ StatusOf[s] = "ABSENT"
                          /\ \E st \in {"ACTIVE", "TRIALING"} :
                                StatusOf' = [StatusOf EXCEPT ![s] = st]
                       \/ /\ StatusOf[s] # "ABSENT"
                          /\ \E to \in Statuses :
                                /\ IsTransitionAllowed(StatusOf[s], to)
                                /\ StatusOf' = [StatusOf EXCEPT ![s] = to]
<1>1. CASE LogUnchanged
  BY <1>1 DEF LogUnchanged, StatusOf, SpentKeys, KeyFree
<1>2. CASE \E s \in Subs, e \in EventRow : EventAdded(s, e) /\ EventFromRow(s, e)
  <2> PICK s \in Subs, e \in EventRow : EventAdded(s, e) /\ EventFromRow(s, e)
    BY <1>2
  <2>1. \/ SpentKeys' = SpentKeys
        \/ \E k \in Keys \ SpentKeys : SpentKeys' = SpentKeys \cup {k}
    BY EventSpends DEF SerialBase
  <2>2. /\ sub'[s].status = IF e.to = None THEN sub[s].status ELSE e.to
        /\ \A t \in Subs \ {s} : sub'[t].status = sub[t].status
    BY DEF EventAdded
  <2>3. CASE NoteEvent(e)
    <3>1. StatusOf' = StatusOf
      BY <2>2, <2>3 DEF NoteEvent, StatusOf
    <3>2. QED
      BY <2>1, <3>1
  <2>4. CASE ~NoteEvent(e)
    <3>1. /\ e.to \in Statuses
          /\ \/ ~Exists(s) /\ e.to \in {"ACTIVE", "TRIALING"}
             \/ Exists(s) /\ IsTransitionAllowed(sub[s].status, e.to)
      BY <2>4 DEF EventFromRow, Statuses
    <3>2. StatusOf' = [StatusOf EXCEPT ![s] = e.to]
      BY <2>2, <3>1, ConstantsAssumption DEF StatusOf
    <3>3. StatusOf[s] = sub[s].status
      BY DEF StatusOf
    <3>4. CASE ~Exists(s) /\ e.to \in {"ACTIVE", "TRIALING"}
      BY <2>1, <3>2, <3>3, <3>4 DEF Exists
    <3>5. CASE Exists(s) /\ IsTransitionAllowed(sub[s].status, e.to)
      BY <2>1, <3>1, <3>2, <3>3, <3>5 DEF Exists
    <3>6. QED
      BY <3>1, <3>4, <3>5
  <2>5. QED
    BY <2>3, <2>4
<1>3. QED
  BY <1>1, <1>2, SerialEvents

\* Isolated, the service implements SubscriptionLifecycle: every status is
\* reached along the allow-list, and a key is spent by one effect.
THEOREM ServiceImplementsLifecycle == Spec /\ Isolated => LifecycleSpec
<1>1. Init => Lifecycle!Init
  BY DEF Init, Lifecycle!Init, NoSub, KeyFree
<1>2. SerialBase /\ [Next]_vars => [Lifecycle!Next]_(Lifecycle!vars)
  <2> SUFFICES ASSUME SerialBase, [Next]_vars PROVE [Lifecycle!Next]_(Lifecycle!vars)
    OBVIOUS
  <2>1. CASE UNCHANGED vars
    <3>1. UNCHANGED <<sub, events>>
      BY <2>1 DEF vars, rows
    <3>2. StatusOf' = StatusOf /\ SpentKeys' = SpentKeys
      BY <3>1 DEF StatusOf, SpentKeys, KeyFree
    <3>3. QED
      BY <3>2 DEF Lifecycle!vars, StatusOf, SpentKeys
  <2>2. CASE Next
    <3>1. CASE StatusOf' = StatusOf /\ SpentKeys' = SpentKeys
      BY <3>1 DEF Lifecycle!vars, StatusOf, SpentKeys
    <3>2. CASE Lifecycle!Next
      BY <3>2
    <3>3. \/ StatusOf' = StatusOf /\ SpentKeys' = SpentKeys
          \/ Lifecycle!Next
      BY <2>2, LifecycleStep, SameAllowList
         DEF Lifecycle!Next, Lifecycle!Schedule, Lifecycle!Create, Lifecycle!Move,
             Lifecycle!Spend, StatusOf, SpentKeys
    <3>4. QED
      BY <3>1, <3>2, <3>3
  <2>3. QED
    BY <2>1, <2>2
<1>3. QED
  BY <1>1, <1>2, SerialInvariant, PTL DEF Spec, LifecycleSpec, Lifecycle!Spec

=============================================================================
