------------------------------ MODULE JobWorker ------------------------------
(***************************************************************************)
(* Background jobs: the sweeps that run them, the scheduler that keeps one *)
(* chain of occurrences going for each recurring task, and the event bus   *)
(* that enqueues a job for each automation rule an event triggers.         *)
(*                                                                         *)
(* A sweep is started every ten seconds in every replica of the API and    *)
(* claims nothing: two sweeps may have the same job in their batches, and  *)
(* each attempt reads the job, marks it, runs it and records the outcome   *)
(* in steps of its own.  A worker here is one such sweep.                  *)
(***************************************************************************)
EXTENDS Naturals, Sequences, FiniteSets

CONSTANTS
    Workers,     \* sweeps that may run at the same time
    Replicas,    \* replicas of the API: each boots, and may boot again
    Tasks,       \* recurring tasks
    Events,      \* platform events
    None,        \* SQL NULL
    Pausable,    \* queues that administrators pause
    MaxAttempts, \* BackgroundJob.maxAttempts
    BatchSize,   \* jobs taken by one sweep
    MaxRules,    \* bound on the automation rules an event triggers
    MaxRuns,     \* bound on time: an occurrence with this number never gets due
    MaxJobs,     \* bound: nothing but a next occurrence is enqueued beyond it
    MaxRequests, \* bound on the administrators' cancellations and retries
    MaxLost      \* bound on the attempts and sweeps cut short: failures are not for ever

ASSUME BoundsAssumption ==
    /\ None \notin Tasks \cup Events
    /\ Pausable \subseteq {"scheduled", "default"}
    /\ MaxAttempts \in Nat \ {0} /\ BatchSize \in Nat \ {0}
    /\ MaxRules \in Nat /\ MaxRuns \in Nat /\ MaxJobs \in Nat
    /\ MaxRequests \in Nat /\ MaxLost \in Nat

VARIABLES
    jobs,       \* the BackgroundJob rows, oldest first
    history,    \* JobHistoryEntry rows: <<job, attempt, status>>
    event,      \* event[e]: the PlatformEvent row of e, and its publisher's progress
    paused,     \* names of the paused queues
    requests,   \* administrators' requests that have passed their check
    asked,      \* history: how many requests have been made
    boot,       \* boot[b]: the task replica b has found missing, None for none
    pc,         \* pc[w]: what worker w does next
    batch,      \* batch[w]: the jobs it has still to attempt, the current one first
    attempt,    \* attempt[w]: number of its attempt at the current job
    cuts,       \* history: how many attempts and sweeps were cut short
    dropped     \* history: jobs whose outcome was lost by that

queue == <<jobs, history>>
administration == <<paused, requests, asked>>
workers == <<pc, batch, attempt>>
losses == <<cuts, dropped>>
vars == <<queue, event, administration, boot, workers, losses>>

-----------------------------------------------------------------------------
(* Jobs.  ready: runAt and nextAttemptAt have passed.  nth: which occurrence *)
(* of its task the job is, 0 for a job that does not recur.                  *)

Jobs == 1..Len(jobs)

\* A job the model lets become due.
InTime(j) == j \in Jobs /\ (jobs[j].nth = 0 \/ jobs[j].nth < MaxRuns)

NewJob(type, e, status, nth) ==
    [ type |-> type, event |-> e, status |-> status, attempts |-> 0,
      ready |-> status = "PENDING", nth |-> nth ]

RuleJob(e) == NewJob("AUTOMATION_RULE_EXECUTION", e, "PENDING", 0)

Occurrence(t, nth) == NewJob(t, None, "SCHEDULED", nth)

QueueOf(j) == IF jobs[j].type \in Tasks THEN "scheduled" ELSE "default"

\* Variant: a job that has failed is not due any more.
IsDueOnce(j) ==
    /\ jobs[j].status \in {"PENDING", "SCHEDULED"}
    /\ jobs[j].ready
    /\ QueueOf(j) \notin paused

IsDue(j) ==
    /\ jobs[j].status \in {"PENDING", "SCHEDULED", "RETRYING"}
    /\ jobs[j].ready
    /\ QueueOf(j) \notin paused

\* All jobs have the same priority: a batch holds the oldest that are due.
Batches == UNION { [1..n -> Jobs] : n \in 1..BatchSize }

DueBatch(b) ==
    /\ \A i \in DOMAIN b : IsDue(b[i])
    /\ \A i, k \in DOMAIN b : i < k => b[i] < b[k]
    /\ \A j \in Jobs : IsDue(j) =>
           (\E i \in DOMAIN b : b[i] = j) \/ (Len(b) = BatchSize /\ b[Len(b)] < j)

\* Variant: one more attempt than maxAttempts before the job is given up.
FinalStatusLate(n) == IF n > MaxAttempts THEN "DEAD_LETTER" ELSE "RETRYING"

\* Variant: a job that is given up is FAILED.
FinalStatusFailed(n) == IF n >= MaxAttempts THEN "FAILED" ELSE "RETRYING"

\* The status of a job whose n-th attempt has failed.
FinalStatus(n) == IF n >= MaxAttempts THEN "DEAD_LETTER" ELSE "RETRYING"

\* Variant: only a first attempt that succeeds enqueues the next occurrence.
RecursFirst(j, n) == jobs[j].type \in Tasks /\ n = 1

\* After its n-th attempt has succeeded, job j enqueues its next occurrence.
Recurs(j, n) == jobs[j].type \in Tasks

\* The bound MaxJobs leaves room for another boot or event.
Room ==
    Len(jobs) + Cardinality({ b \in Replicas : boot[b] # None })
              + Cardinality({ e \in Events : event[e].step # "done" }) < MaxJobs

Current(w) == Head(batch[w])

Goto(w, step) == pc' = [pc EXCEPT ![w] = step]

\* The attempt is over: the sweep goes on with the next job of its batch.
NextJob(w) ==
    /\ batch' = [batch EXCEPT ![w] = Tail(@)]
    /\ Goto(w, IF Len(batch[w]) = 1 THEN "idle" ELSE "reading")
    /\ attempt' = [attempt EXCEPT ![w] = 0]

\* The outcome of worker w's attempt: row and history entry in one transaction.
Record(w, status) ==
    LET j == Current(w)
    IN  /\ jobs' = [jobs EXCEPT ![j].status = status, ![j].attempts = attempt[w],
                                ![j].ready = @ /\ status # "RETRYING"]
        /\ history' = history \cup {<<j, attempt[w], status>>}

-----------------------------------------------------------------------------
Init ==
    /\ jobs = <<>> /\ history = {}
    /\ event = [e \in Events |-> [status |-> "none", step |-> "done", todo |-> 0]]
    /\ paused = {} /\ requests = {} /\ asked = 0
    /\ boot = [b \in Replicas |-> None]
    /\ pc = [w \in Workers |-> "idle"]
    /\ batch = [w \in Workers |-> <<>>]
    /\ attempt = [w \in Workers |-> 0]
    /\ cuts = 0 /\ dropped = {}

\* The time a job waits for comes.
Ripen(j) ==
    /\ InTime(j)
    /\ ~jobs[j].ready
    /\ jobs' = [jobs EXCEPT ![j].ready = TRUE]
    /\ UNCHANGED <<history, event, administration, boot, workers, losses>>

-----------------------------------------------------------------------------
(* The worker: processDue() and attempt().                                  *)

\* Variant: the sweep marks its whole batch at once.
SweepClaiming(w) ==
    /\ pc[w] = "idle"
    /\ \E b \in Batches :
           /\ DueBatch(b)
           /\ batch' = [batch EXCEPT ![w] = b]
           /\ jobs' = [j \in Jobs |->
                 IF \E i \in DOMAIN b : b[i] = j
                 THEN [jobs[j] EXCEPT !.status = "PROCESSING"] ELSE jobs[j]]
    /\ Goto(w, "reading")
    /\ UNCHANGED <<history, event, administration, boot, attempt, losses>>

\* A sweep starts with the jobs that are due.
Sweep(w) ==
    /\ pc[w] = "idle"
    /\ \E b \in Batches : DueBatch(b) /\ batch' = [batch EXCEPT ![w] = b]
    /\ Goto(w, "reading")
    /\ UNCHANGED <<queue, event, administration, boot, attempt, losses>>

\* The job is read.  Only a CANCELLED one is passed over: it may be another's
\* by now, or done.
Read(w) ==
    /\ pc[w] = "reading"
    /\ IF jobs[Current(w)].status = "CANCELLED"
       THEN NextJob(w)
       ELSE /\ attempt' = [attempt EXCEPT ![w] = jobs[Current(w)].attempts + 1]
            /\ Goto(w, "claiming")
            /\ UNCHANGED batch
    /\ UNCHANGED <<queue, event, administration, boot, losses>>

\* The job is marked PROCESSING, whatever it is by now.
Claim(w) ==
    /\ pc[w] = "claiming"
    /\ jobs' = [jobs EXCEPT ![Current(w)].status = "PROCESSING"]
    /\ Goto(w, "running")
    /\ UNCHANGED <<history, event, administration, boot, batch, attempt, losses>>

\* Variant: the attempt is not counted.
SucceedUncounted(w) ==
    /\ pc[w] = "running"
    /\ jobs' = [jobs EXCEPT ![Current(w)].status = "SUCCESS"]
    /\ history' = history \cup {<<Current(w), attempt[w], "SUCCESS">>}
    /\ Goto(w, "telling")
    /\ UNCHANGED <<event, administration, boot, batch, attempt, losses>>

\* The processor returns.
Succeed(w) ==
    /\ pc[w] = "running"
    /\ Record(w, "SUCCESS")
    /\ Goto(w, "telling")
    /\ UNCHANGED <<event, administration, boot, batch, attempt, losses>>

\* The source event is DISPATCHED; a failure to write that is ignored.
Tell(w) ==
    LET e == jobs[Current(w)].event
    IN  /\ pc[w] = "telling"
        /\ \/ e # None /\ event' = [event EXCEPT ![e].status = "DISPATCHED"]
           \/ UNCHANGED event
        /\ IF Recurs(Current(w), attempt[w])
           THEN Goto(w, "recurring") /\ UNCHANGED <<batch, attempt>>
           ELSE NextJob(w)
        /\ UNCHANGED <<queue, administration, boot, losses>>

\* A recurring job enqueues its next occurrence.
Recur(w) ==
    /\ pc[w] = "recurring"
    /\ jobs' = Append(jobs, Occurrence(jobs[Current(w)].type, jobs[Current(w)].nth + 1))
    /\ NextJob(w)
    /\ UNCHANGED <<history, event, administration, boot, losses>>

\* The processor throws, or so does enqueuing the next occurrence.
FailAttempt(w) ==
    LET status == FinalStatus(attempt[w])
    IN  /\ pc[w] \in {"running", "recurring"}
        /\ Record(w, status)
        /\ IF status = "RETRYING"
           THEN NextJob(w)
           ELSE Goto(w, "giving up") /\ UNCHANGED <<batch, attempt>>
        /\ UNCHANGED <<event, administration, boot, losses>>

\* The source event of a dead letter is FAILED; a failure to write is ignored.
GiveUp(w) ==
    LET e == jobs[Current(w)].event
    IN  /\ pc[w] = "giving up"
        /\ \/ e # None /\ event' = [event EXCEPT ![e].status = "FAILED"]
           \/ UNCHANGED event
        /\ NextJob(w)
        /\ UNCHANGED <<queue, administration, boot, losses>>

\* What is lost when an attempt is cut short where worker w stands: the mark
\* PROCESSING stays, or the next occurrence is not enqueued.
CutShort(w) ==
    /\ cuts < MaxLost
    /\ cuts' = cuts + 1
    /\ dropped' = IF pc[w] \in {"running", "telling", "recurring"}
                  THEN dropped \cup {Current(w)} ELSE dropped

\* The database fails the attempt before or while it records its outcome.
Abandon(w) ==
    /\ pc[w] \in {"reading", "claiming", "running", "recurring"}
    /\ CutShort(w)
    /\ NextJob(w)
    /\ UNCHANGED <<queue, event, administration, boot>>

\* The process dies, and its sweep with it.
Die(w) ==
    /\ pc[w] # "idle"
    /\ CutShort(w)
    /\ Goto(w, "idle")
    /\ batch' = [batch EXCEPT ![w] = <<>>]
    /\ attempt' = [attempt EXCEPT ![w] = 0]
    /\ UNCHANGED <<queue, event, administration, boot>>

-----------------------------------------------------------------------------
(* The scheduler: enqueueIfMissing(), for each task, whenever a replica boots. *)

\* No occurrence is PENDING or SCHEDULED; nothing else is looked at.
FindMissing(b, t) ==
    /\ boot[b] = None
    /\ \A j \in Jobs : jobs[j].type = t => jobs[j].status \notin {"PENDING", "SCHEDULED"}
    /\ Room
    /\ boot' = [boot EXCEPT ![b] = t]
    /\ UNCHANGED <<queue, event, administration, workers, losses>>

EnqueueFirst(b) ==
    /\ boot[b] # None
    /\ jobs' = Append(jobs, Occurrence(boot[b], 1))
    /\ boot' = [boot EXCEPT ![b] = None]
    /\ UNCHANGED <<history, event, administration, workers, losses>>

DieBooting(b) ==
    /\ boot[b] # None
    /\ boot' = [boot EXCEPT ![b] = None]
    /\ UNCHANGED <<queue, event, administration, workers, losses>>

-----------------------------------------------------------------------------
(* The event bus: publish().                                                *)

\* A business action publishes e: the event is stored first.
Publish(e) ==
    /\ event[e].status = "none"
    /\ Room
    /\ event' = [event EXCEPT ![e] = [status |-> "PENDING", step |-> "matching", todo |-> 0]]
    /\ UNCHANGED <<queue, administration, boot, workers, losses>>

\* Variant: the event is DISPATCHED as soon as its jobs are known.
MatchRulesDone(e, n) ==
    /\ event[e].step = "matching"
    /\ event' = [event EXCEPT ![e] = [status |-> "DISPATCHED", step |-> "enqueuing", todo |-> n]]
    /\ UNCHANGED <<queue, administration, boot, workers, losses>>

\* Then its n enabled rules are looked up; without any it is DISPATCHED.
MatchRules(e, n) ==
    /\ event[e].step = "matching"
    /\ event' = [event EXCEPT ![e] =
          IF n = 0 THEN [status |-> "DISPATCHED", step |-> "done", todo |-> 0]
          ELSE [status |-> "PENDING", step |-> "enqueuing", todo |-> n]]
    /\ UNCHANGED <<queue, administration, boot, workers, losses>>

\* Each rule gets a job; the rows are created concurrently.
EnqueueRule(e) ==
    /\ event[e].step = "enqueuing"
    /\ jobs' = Append(jobs, RuleJob(e))
    /\ event' = [event EXCEPT ![e].todo = @ - 1,
                              ![e].step = IF event[e].todo = 1 THEN "done" ELSE @]
    /\ UNCHANGED <<history, administration, boot, workers, losses>>

\* The publisher dies, or a statement fails: what is stored stays.
DiePublishing(e) ==
    /\ event[e].step # "done"
    /\ event' = [event EXCEPT ![e].step = "done", ![e].todo = 0]
    /\ UNCHANGED <<queue, administration, boot, workers, losses>>

-----------------------------------------------------------------------------
(* Administrators: cancel(), retry(), pauseQueue() and resumeQueue().       *)

Asks(request) ==
    /\ asked < MaxRequests
    /\ asked' = asked + 1
    /\ requests' = requests \cup {request}
    /\ UNCHANGED <<queue, event, paused, boot, workers, losses>>

\* The status is checked first ...
AskCancel(j) ==
    /\ jobs[j].status \in {"PENDING", "SCHEDULED", "RETRYING"}
    /\ Asks(<<"cancel", j>>)

AskRetry(j) ==
    /\ jobs[j].status = "DEAD_LETTER"
    /\ Asks(<<"retry", j>>)

\* ... and written later, whatever it is by then.
Cancel(j) ==
    /\ <<"cancel", j>> \in requests
    /\ jobs' = [jobs EXCEPT ![j].status = "CANCELLED"]
    /\ requests' = requests \ {<<"cancel", j>>}
    /\ UNCHANGED <<history, event, paused, asked, boot, workers, losses>>

\* The attempts already made still count.
Retry(j) ==
    /\ <<"retry", j>> \in requests
    /\ jobs' = [jobs EXCEPT ![j].status = "PENDING", ![j].ready = TRUE]
    /\ requests' = requests \ {<<"retry", j>>}
    /\ UNCHANGED <<history, event, paused, asked, boot, workers, losses>>

Pause(q) ==
    /\ q \notin paused
    /\ paused' = paused \cup {q}
    /\ UNCHANGED <<queue, event, requests, asked, boot, workers, losses>>

Resume(q) ==
    /\ q \in paused
    /\ paused' = paused \ {q}
    /\ UNCHANGED <<queue, event, requests, asked, boot, workers, losses>>

-----------------------------------------------------------------------------
Work(w) ==
    \/ Sweep(w) \/ Read(w) \/ Claim(w) \/ Succeed(w) \/ Tell(w) \/ Recur(w)
    \/ FailAttempt(w) \/ GiveUp(w)

Schedule(b) == EnqueueFirst(b) \/ DieBooting(b) \/ \E t \in Tasks : FindMissing(b, t)

Bus(e) ==
    \/ Publish(e) \/ EnqueueRule(e) \/ DiePublishing(e)
    \/ \E n \in 0..MaxRules : MatchRules(e, n)

Administer ==
    \/ \E j \in Jobs : AskCancel(j) \/ AskRetry(j) \/ Cancel(j) \/ Retry(j)
    \/ \E q \in Pausable : Pause(q) \/ Resume(q)

Next ==
    \/ \E j \in Jobs : Ripen(j)
    \/ \E w \in Workers : Work(w) \/ Abandon(w) \/ Die(w)
    \/ \E b \in Replicas : Schedule(b)
    \/ \E e \in Events : Bus(e)
    \/ Administer

\* Time passes, and every replica goes on sweeping.
Fairness ==
    /\ WF_vars(\E j \in Jobs : Ripen(j))
    /\ \A w \in Workers : WF_vars(Work(w))

Spec == Init /\ [][Next]_vars /\ Fairness

-----------------------------------------------------------------------------
(* Types. *)

\* The statuses that are written: FAILED, though declared, never is.
JobStatuses ==
    { "PENDING", "SCHEDULED", "PROCESSING", "SUCCESS", "RETRYING", "DEAD_LETTER",
      "CANCELLED" }

JobRow ==
    [ type : Tasks \cup {"AUTOMATION_RULE_EXECUTION"}, event : Events \cup {None},
      status : JobStatuses, attempts : Nat, ready : BOOLEAN, nth : Nat ]

\* Every table and every worker holds values of its type.
TypeOK ==
    /\ jobs \in Seq(JobRow)
    /\ history \subseteq Jobs \X Nat \X {"SUCCESS", "RETRYING", "DEAD_LETTER"}
    /\ event \in [Events -> [ status : {"none", "PENDING", "DISPATCHED", "FAILED"},
                              step : {"matching", "enqueuing", "done"}, todo : Nat ]]
    /\ paused \subseteq {"scheduled", "default"}
    /\ requests \subseteq {"cancel", "retry"} \X Jobs
    /\ asked \in Nat /\ cuts \in Nat
    /\ boot \in [Replicas -> Tasks \cup {None}]
    /\ pc \in [Workers -> {"idle", "reading", "claiming", "running", "telling",
                           "recurring", "giving up"}]
    /\ batch \in [Workers -> Seq(Jobs)]
    /\ attempt \in [Workers -> Nat]
    /\ dropped \subseteq Jobs

-----------------------------------------------------------------------------
(* What holds however sweeps overlap, die and are interfered with.          *)

\* Row and history agree: the outcome a job shows, and the number of attempts
\* with it, are in its history, even if a stale attempt has overwritten others.
OutcomeRecorded ==
    \A j \in Jobs : jobs[j].status \in {"SUCCESS", "RETRYING", "DEAD_LETTER"}
        => <<j, jobs[j].attempts, jobs[j].status>> \in history

\* A job is a dead letter only when its attempts are used up, and is retried
\* only while they are not, although overlapping attempts lose counts.
DeadOnlyWhenExhausted ==
    \A j \in Jobs :
        /\ jobs[j].status = "DEAD_LETTER" => jobs[j].attempts >= MaxAttempts
        /\ jobs[j].status = "RETRYING" => jobs[j].attempts < MaxAttempts

\* A job that is PROCESSING, which no sweep picks up, has a worker on it that
\* will record an outcome, unless an attempt at it has been cut short.
ProcessingIsHeld ==
    \A j \in Jobs : jobs[j].status = "PROCESSING" =>
        \/ j \in dropped
        \/ \E w \in Workers : pc[w] # "idle" /\ Current(w) = j

\* Once a recurring task has an occurrence it keeps one that will run, or is
\* about to get it, unless one was cut short, canceled or given up.
ChainAlive ==
    \A t \in Tasks :
        LET mine == { j \in Jobs : jobs[j].type = t }
            status(j) == jobs[j].status
        IN  mine # {} =>
              \/ \E j \in mine :
                    \/ j \in dropped
                    \/ status(j) \in {"PENDING", "SCHEDULED", "RETRYING", "PROCESSING"}
                    \/ status(j) \in {"CANCELLED", "DEAD_LETTER"}
              \/ \E w \in Workers : pc[w] \in {"telling", "recurring"} /\ Current(w) \in mine

\* An event is DISPATCHED only if it triggers no rule or a job of one of its
\* rules has succeeded, and FAILED only if one has been given up.
EventOutcomeEarned ==
    \A e \in Events :
        LET reached(status) == \E x \in history : jobs[x[1]].event = e /\ x[3] = status
            triggered == event[e].todo # 0 \/ \E j \in Jobs : jobs[j].event = e
        IN  /\ event[e].status = "DISPATCHED" /\ triggered => reached("SUCCESS")
            /\ event[e].status = "FAILED" => reached("DEAD_LETTER")

\* Every job is eventually done, given up or canceled, unless its queue is
\* paused or an attempt at it has been cut short: retries end, and no sweep
\* leaves a job behind for good.
EveryJobSettles ==
    \A j \in 1..MaxJobs + MaxRules :
        InTime(j) ~> j \in Jobs /\ \/ jobs[j].status \in {"SUCCESS", "DEAD_LETTER", "CANCELLED"}
                                   \/ QueueOf(j) \in paused
                                   \/ j \in dropped

-----------------------------------------------------------------------------
(* What the source says of itself, and a run refutes.                       *)

\* A recurring task has one chain of occurrences (scheduler.service.ts: the
\* look-up is there lest every restart spawn a duplicate recurring chain).
OneChainPerTask ==
    \A i, j \in Jobs :
        /\ jobs[i].type \in Tasks /\ jobs[i].type = jobs[j].type
        /\ jobs[i].status \in {"SCHEDULED", "PENDING", "RETRYING"}
        /\ jobs[j].status \in {"SCHEDULED", "PENDING", "RETRYING"}
        => i = j

=============================================================================
