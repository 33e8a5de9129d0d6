--------------------------- MODULE JobWorkerProofs ---------------------------
(***************************************************************************)
(* Theorems about JobWorker, for any number of sweeps, replicas, tasks,    *)
(* events, attempts and failures: rows and histories agree, a job is given *)
(* up only when its attempts are used up, no job is left PROCESSING by a   *)
(* worker that goes on, chains of occurrences do not break, and events get *)
(* the outcome their jobs have earned.                                     *)
(***************************************************************************)
EXTENDS JobWorker, SequenceTheorems, TLAPS

-----------------------------------------------------------------------------
(* The inductive invariant. *)

Steps == { "idle", "reading", "claiming", "running", "telling", "recurring", "giving up" }

Outcomes == {"SUCCESS", "RETRYING", "DEAD_LETTER"}

Entries == Jobs \X Nat \X Outcomes

EventRow ==
    [ status : {"none", "PENDING", "DISPATCHED", "FAILED"},
      step : {"matching", "enqueuing", "done"}, todo : Nat ]

WorkerTypes ==
    /\ pc \in [Workers -> Steps]
    /\ batch \in [Workers -> Seq(Jobs)]
    /\ attempt \in [Workers -> Nat]

\* A job's row, its history, and the worker that is to end its attempt agree.  The worker of
\* a job that is PROCESSING is running it: later steps have recorded an outcome.
JobFits(j) ==
    /\ jobs[j].status \in Outcomes => <<j, jobs[j].attempts, jobs[j].status>> \in history
    /\ jobs[j].status = "DEAD_LETTER" => jobs[j].attempts >= MaxAttempts
    /\ jobs[j].status = "RETRYING" => jobs[j].attempts < MaxAttempts
    /\ jobs[j].status = "PROCESSING" =>
          j \in dropped \/ \E w \in Workers : pc[w] = "running" /\ Current(w) = j

\* A worker has a batch unless it is idle, and tells of outcomes that are on record.
WorkerFits(w) ==
    /\ pc[w] = "idle" <=> batch[w] = <<>>
    /\ pc[w] \in {"telling", "recurring"} => <<Current(w), attempt[w], "SUCCESS">> \in history
    /\ pc[w] = "giving up" => <<Current(w), attempt[w], "DEAD_LETTER">> \in history

Reached(e, status) == \E x \in history : jobs[x[1]].event = e /\ x[3] = status

HasJob(e) == \E j \in Jobs : jobs[j].event = e

\* Jobs of an event are created between the look-up of its rules and the end of its
\* publication; its status is left to them.
EventFits(e) ==
    /\ event[e].step = "enqueuing" <=> event[e].todo # 0
    /\ event[e].step = "matching" => event[e].status = "PENDING" /\ ~HasJob(e)
    /\ event[e].status = "none" => event[e].step = "done" /\ ~HasJob(e)
    /\ event[e].status = "DISPATCHED" /\ (event[e].todo # 0 \/ HasJob(e)) => Reached(e, "SUCCESS")
    /\ event[e].status = "FAILED" => Reached(e, "DEAD_LETTER")

\* Task t has an occurrence that has not succeeded, or whose success went no further, ...
Lives(t) == \E j \in Jobs : jobs[j].type = t /\ (jobs[j].status # "SUCCESS" \/ j \in dropped)

\* ... or a worker that is to enqueue its next one.
Continues(t) ==
    \E w \in Workers : pc[w] \in {"telling", "recurring"} /\ jobs[Current(w)].type = t

ChainsFit == \A t \in Tasks, j \in Jobs : jobs[j].type = t => Lives(t) \/ Continues(t)

JobInv ==
    /\ TypeOK
    /\ \A j \in Jobs : JobFits(j)
    /\ \A w \in Workers : WorkerFits(w)
    /\ \A e \in Events : EventFits(e)
    /\ ChainsFit

-----------------------------------------------------------------------------
(* What a step does to rows and histories: they stay, and keep what they are for. *)

Grows ==
    /\ \A j \in Jobs :
          j \in Jobs' /\ jobs'[j].type = jobs[j].type /\ jobs'[j].event = jobs[j].event
    /\ history \subseteq history'
    /\ dropped \subseteq dropped'

\* Worker v stays where it is.
WorkerStays(v) == pc'[v] = pc[v] /\ batch'[v] = batch[v] /\ attempt'[v] = attempt[v]

\* The type invariant by its parts.
LEMMA TypeParts ==
    TypeOK <=>
        /\ jobs \in Seq(JobRow) /\ history \subseteq Entries /\ dropped \subseteq Jobs
        /\ event \in [Events -> EventRow] /\ WorkerTypes
        /\ paused \subseteq {"scheduled", "default"}
        /\ requests \subseteq {"cancel", "retry"} \X Jobs
        /\ asked \in Nat /\ cuts \in Nat
        /\ boot \in [Replicas -> Tasks \cup {None}]
  BY DEF TypeOK, Entries, Outcomes, EventRow, WorkerTypes, Steps

\* A worker at work has a job in hand, the first of its batch.
LEMMA CurrentOfBatch ==
    ASSUME JobInv, NEW w \in Workers, pc[w] # "idle"
    PROVE  /\ batch[w] \in Seq(Jobs) /\ batch[w] # <<>> /\ Len(batch[w]) \in Nat \ {0}
           /\ Current(w) \in Jobs
           /\ Tail(batch[w]) \in Seq(Jobs)
           /\ Len(Tail(batch[w])) = Len(batch[w]) - 1
<1>1. batch[w] \in Seq(Jobs) /\ batch[w] # <<>>
  BY DEF JobInv, TypeOK, WorkerFits
<1>2. Len(batch[w]) \in Nat \ {0}
  BY <1>1, EmptySeq
<1>3. /\ Head(batch[w]) \in Jobs
      /\ Tail(batch[w]) \in Seq(Jobs)
      /\ Len(Tail(batch[w])) = Len(batch[w]) - 1
  BY <1>1, HeadTailProperties
<1> QED
  BY <1>1, <1>2, <1>3 DEF Current

\* A job that is there has a row of its type.
LEMMA RowOf ==
    ASSUME TypeOK, NEW j \in Jobs
    PROVE  jobs[j] \in JobRow /\ j \in Nat
<1>1. jobs \in Seq(JobRow)
  BY TypeParts
<1>2. jobs[j] \in JobRow
  BY <1>1, ElementOfSeq DEF Jobs
<1> QED
  BY <1>2 DEF Jobs

\* One row is written, and is still for the same.
LEMMA RowWritten ==
    ASSUME TypeOK, NEW j \in Jobs, NEW row \in JobRow, jobs' = [jobs EXCEPT ![j] = row],
           row.type = jobs[j].type, row.event = jobs[j].event,
           history \subseteq history', dropped \subseteq dropped'
    PROVE  /\ jobs' \in Seq(JobRow) /\ Jobs' = Jobs
           /\ \A k \in Jobs : jobs'[k] = IF k = j THEN row ELSE jobs[k]
           /\ Grows
<1>1. jobs \in Seq(JobRow) /\ j \in 1..Len(jobs)
  BY TypeParts DEF Jobs
<1>2. /\ jobs' \in Seq(JobRow) /\ Len(jobs') = Len(jobs)
      /\ \A k \in 1..Len(jobs) : jobs'[k] = IF k = j THEN row ELSE jobs[k]
  BY <1>1, ExceptSeq
<1>3. Jobs' = Jobs
  BY <1>2 DEF Jobs
<1> QED
  BY <1>2, <1>3 DEF Grows, Jobs

\* A row is added.
LEMMA RowAdded ==
    ASSUME TypeOK, NEW row \in JobRow, jobs' = Append(jobs, row),
           history \subseteq history', dropped \subseteq dropped'
    PROVE  /\ jobs' \in Seq(JobRow) /\ Jobs' = Jobs \cup {Len(jobs) + 1}
           /\ Len(jobs) + 1 \notin Jobs
           /\ \A k \in Jobs : jobs'[k] = jobs[k]
           /\ jobs'[Len(jobs) + 1] = row
           /\ Grows
<1>0. jobs \in Seq(JobRow)
  BY TypeParts
<1>1. jobs \in Seq(JobRow) /\ Len(jobs) \in Nat
  BY <1>0
<1>2. /\ jobs' \in Seq(JobRow) /\ Len(jobs') = Len(jobs) + 1
      /\ \A k \in 1..Len(jobs) : jobs'[k] = jobs[k]
      /\ jobs'[Len(jobs) + 1] = row
  BY <1>1, AppendProperties
<1>3. Jobs' = Jobs \cup {Len(jobs) + 1} /\ Len(jobs) + 1 \notin Jobs
  BY <1>1, <1>2 DEF Jobs
<1> QED
  BY <1>2, <1>3 DEF Grows, Jobs

\* No row is written.
LEMMA RowsStay ==
    ASSUME TypeOK, jobs' = jobs, history \subseteq history', dropped \subseteq dropped'
    PROVE  Grows /\ jobs' \in Seq(JobRow) /\ Jobs' = Jobs
  BY DEF Grows, TypeOK, Jobs

-----------------------------------------------------------------------------
(* Workers. *)

\* A worker that stays fits when histories grow.
LEMMA StayingFits ==
    ASSUME JobInv, Grows, NEW v \in Workers, WorkerStays(v)
    PROVE  WorkerFits(v)' /\ batch'[v] \in Seq(Jobs') /\ Current(v)' = Current(v)
<1>1. Jobs \subseteq Jobs'
  BY DEF Grows
<1>2. batch'[v] \in Seq(Jobs')
  BY <1>1, SeqMonotonic DEF JobInv, TypeOK, WorkerStays
<1>3. Current(v)' = Current(v)
  BY DEF WorkerStays, Current
<1> QED
  BY <1>2, <1>3 DEF JobInv, WorkerFits, WorkerStays, Grows

\* No worker moves.
LEMMA WorkersStay ==
    ASSUME JobInv, Grows, UNCHANGED workers
    PROVE  /\ WorkerTypes' /\ \A w \in Workers : WorkerFits(w)'
           /\ \A v \in Workers : WorkerStays(v) /\ Current(v)' = Current(v)
<1>1. \A v \in Workers : WorkerStays(v)
  BY DEF workers, WorkerStays
<1>2. \A v \in Workers : WorkerFits(v)' /\ batch'[v] \in Seq(Jobs') /\ Current(v)' = Current(v)
  BY <1>1, StayingFits
<1>3. WorkerTypes'
  BY <1>2 DEF workers, WorkerTypes, JobInv, TypeOK, Steps
<1> QED
  BY <1>1, <1>2, <1>3

\* Worker w moves on to a step it may be in.
LEMMA WorkerMoves ==
    ASSUME JobInv, Grows, NEW w \in Workers, NEW step \in Steps, NEW rest \in Seq(Jobs'),
           NEW n \in Nat,
           pc' = [pc EXCEPT ![w] = step], batch' = [batch EXCEPT ![w] = rest],
           attempt' = [attempt EXCEPT ![w] = n],
           step = "idle" <=> rest = <<>>,
           step \in {"telling", "recurring"} => <<Head(rest), n, "SUCCESS">> \in history',
           step = "giving up" => <<Head(rest), n, "DEAD_LETTER">> \in history'
    PROVE  /\ WorkerTypes' /\ \A v \in Workers : WorkerFits(v)'
           /\ \A v \in Workers \ {w} : WorkerStays(v) /\ Current(v)' = Current(v)
           /\ pc'[w] = step /\ batch'[w] = rest /\ attempt'[w] = n
<1>0. WorkerTypes
  BY TypeParts DEF JobInv
<1>1. /\ pc'[w] = step /\ batch'[w] = rest /\ attempt'[w] = n
      /\ \A v \in Workers \ {w} : WorkerStays(v)
  BY <1>0 DEF WorkerTypes, WorkerStays
<1>2. \A v \in Workers \ {w} :
          WorkerFits(v)' /\ batch'[v] \in Seq(Jobs') /\ Current(v)' = Current(v)
  BY <1>1, StayingFits
<1>3. WorkerFits(w)'
  BY <1>1 DEF WorkerFits, Current
<1>4. \A v \in Workers : batch'[v] \in Seq(Jobs')
  BY <1>1, <1>2
<1>5. WorkerTypes'
  BY <1>0, <1>4 DEF WorkerTypes
<1> QED
  BY <1>1, <1>2, <1>3, <1>5

\* Worker w goes on with the same job.
LEMMA WorkerGoes ==
    ASSUME JobInv, Grows, NEW w \in Workers, pc[w] # "idle", NEW step \in Steps \ {"idle"},
           NEW n \in Nat,
           Goto(w, step), UNCHANGED batch, attempt' = [attempt EXCEPT ![w] = n],
           step \in {"telling", "recurring"} => <<Current(w), n, "SUCCESS">> \in history',
           step = "giving up" => <<Current(w), n, "DEAD_LETTER">> \in history'
    PROVE  /\ WorkerTypes' /\ \A v \in Workers : WorkerFits(v)'
           /\ \A v \in Workers \ {w} : WorkerStays(v)
           /\ \A v \in Workers : Current(v)' = Current(v)
           /\ pc'[w] = step /\ attempt'[w] = n
<1>1. batch[w] \in Seq(Jobs) /\ batch[w] # <<>>
  BY CurrentOfBatch
<1>2. batch[w] \in Seq(Jobs')
  BY <1>1, SeqMonotonic DEF Grows
<1>3. batch' = [batch EXCEPT ![w] = batch[w]]
  <2>1. batch \in [Workers -> Seq(Jobs)]
    BY TypeParts DEF JobInv, WorkerTypes
  <2> QED
    BY <2>1
<1>4. pc' = [pc EXCEPT ![w] = step]
  BY DEF Goto
<1>5. PICK rest \in Seq(Jobs') : rest = batch[w] /\ rest # <<>> /\ Head(rest) = Current(w)
  BY <1>1, <1>2 DEF Current
<1>6. step \in Steps /\ (step = "idle" <=> rest = <<>>)
  BY <1>5
<1>7. /\ step \in {"telling", "recurring"} => <<Head(rest), n, "SUCCESS">> \in history'
      /\ step = "giving up" => <<Head(rest), n, "DEAD_LETTER">> \in history'
  BY <1>5
<1>8. batch' = [batch EXCEPT ![w] = rest]
  BY <1>3, <1>5
<1>9. /\ WorkerTypes' /\ \A v \in Workers : WorkerFits(v)'
      /\ \A v \in Workers \ {w} : WorkerStays(v) /\ Current(v)' = Current(v)
      /\ pc'[w] = step /\ attempt'[w] = n
  BY <1>4, <1>6, <1>7, <1>8, WorkerMoves
<1> QED
  BY <1>9 DEF Current

\* Worker w goes on with the next job of its batch.
LEMMA WorkerGoesOn ==
    ASSUME JobInv, Grows, NEW w \in Workers, pc[w] # "idle", NextJob(w)
    PROVE  /\ WorkerTypes' /\ \A v \in Workers : WorkerFits(v)'
           /\ \A v \in Workers \ {w} : WorkerStays(v) /\ Current(v)' = Current(v)
           /\ pc'[w] \in {"idle", "reading"}
<1>1. /\ Tail(batch[w]) \in Seq(Jobs) /\ Len(batch[w]) \in Nat \ {0}
      /\ Len(Tail(batch[w])) = Len(batch[w]) - 1
  BY CurrentOfBatch
<1>2. Tail(batch[w]) \in Seq(Jobs')
  BY <1>1, SeqMonotonic DEF Grows
<1>3. Tail(batch[w]) = <<>> <=> Len(batch[w]) = 1
  <2>1. PICK s \in Seq(Jobs) : s = Tail(batch[w])
    BY <1>1
  <2>2. s = <<>> <=> Len(s) = 0
    BY <2>1, EmptySeq
  <2> QED
    BY <1>1, <2>1, <2>2
<1>4. PICK step \in {"idle", "reading"} :
          step = (IF Len(batch[w]) = 1 THEN "idle" ELSE "reading")
  OBVIOUS
<1>5. PICK rest \in Seq(Jobs') : rest = Tail(batch[w])
  BY <1>2
<1>6. /\ pc' = [pc EXCEPT ![w] = step] /\ batch' = [batch EXCEPT ![w] = rest]
      /\ attempt' = [attempt EXCEPT ![w] = 0]
  BY <1>4, <1>5 DEF NextJob, Goto
<1>7. step \in Steps /\ (step = "idle" <=> rest = <<>>)
  BY <1>3, <1>4, <1>5 DEF Steps
<1> QED
  BY <1>4, <1>6, <1>7, WorkerMoves

-----------------------------------------------------------------------------
(* Jobs, events and chains. *)

\* A job keeps fitting when its status and attempts stay and so does its runner.
LEMMA JobKept ==
    ASSUME JobInv, Grows, NEW j \in Jobs,
           jobs'[j].status = jobs[j].status, jobs'[j].attempts = jobs[j].attempts,
           \A v \in Workers : pc[v] = "running" /\ Current(v) = j =>
               (pc'[v] = "running" /\ Current(v)' = j) \/ j \in dropped'
    PROVE  JobFits(j)'
<1>1. JobFits(j)
  BY DEF JobInv
<1> QED
  BY <1>1 DEF JobFits, Grows

\* What jobs have reached stays so.
LEMMA ReachedKept ==
    ASSUME JobInv, Grows, NEW e, NEW status, Reached(e, status)
    PROVE  Reached(e, status)'
<1>1. PICK x \in history : jobs[x[1]].event = e /\ x[3] = status
  BY DEF Reached
<1>2. x[1] \in Jobs
  BY <1>1, TypeParts DEF JobInv, Entries
<1>3. x \in history' /\ jobs'[x[1]].event = e
  BY <1>1, <1>2 DEF Grows
<1> QED
  BY <1>1, <1>3 DEF Reached

\* An event keeps fitting when its row stays and no job of it is new.
LEMMA EventKept ==
    ASSUME JobInv, Grows, NEW e \in Events, event'[e] = event[e],
           \A j \in Jobs' \ Jobs : jobs'[j].event # e
    PROVE  EventFits(e)'
<1>1. EventFits(e)
  BY DEF JobInv
<1>2. HasJob(e)' <=> HasJob(e)
  BY DEF HasJob, Grows
<1>3. \A status : Reached(e, status) => Reached(e, status)'
  BY ReachedKept
<1> QED
  BY <1>1, <1>2, <1>3 DEF EventFits

\* No chain breaks: a job that becomes a success has a worker that continues, such a worker
\* stays or leaves an occurrence, and what is added has not succeeded.
LEMMA ChainsKept ==
    ASSUME JobInv, Grows,
           \A t \in Tasks, j \in Jobs : jobs[j].type = t /\ jobs'[j].status = "SUCCESS" =>
               jobs[j].status = "SUCCESS" \/ Continues(t)',
           \A t \in Tasks, v \in Workers :
               pc[v] \in {"telling", "recurring"} /\ jobs[Current(v)].type = t =>
                   \/ pc'[v] \in {"telling", "recurring"} /\ Current(v)' = Current(v)
                   \/ Lives(t)',
           \A j \in Jobs' \ Jobs : jobs'[j].status # "SUCCESS"
    PROVE  ChainsFit'
<1> SUFFICES ASSUME NEW t \in Tasks, NEW j \in Jobs', jobs'[j].type = t
             PROVE  Lives(t)' \/ Continues(t)'
  BY DEF ChainsFit
<1>1. CASE j \notin Jobs
  BY <1>1 DEF Lives
<1>2. CASE j \in Jobs
  <2>1. jobs[j].type = t
    BY <1>2 DEF Grows
  <2>2. Lives(t) \/ Continues(t)
    BY <1>2, <2>1 DEF JobInv, ChainsFit
  <2>3. CASE Lives(t)
    <3>1. PICK k \in Jobs : jobs[k].type = t /\ (jobs[k].status # "SUCCESS" \/ k \in dropped)
      BY <2>3 DEF Lives
    <3>2. k \in Jobs' /\ jobs'[k].type = t
      BY <3>1 DEF Grows
    <3>3. CASE k \in dropped
      BY <3>2, <3>3 DEF Lives, Grows
    <3>4. CASE jobs[k].status # "SUCCESS"
      <4>1. CASE jobs'[k].status # "SUCCESS"
        BY <3>2, <4>1 DEF Lives
      <4>2. CASE jobs'[k].status = "SUCCESS"
        BY <3>1, <3>4, <4>2
      <4> QED
        BY <4>1, <4>2
    <3> QED
      BY <3>1, <3>3, <3>4
  <2>4. CASE Continues(t)
    <3>1. PICK v \in Workers : pc[v] \in {"telling", "recurring"} /\ jobs[Current(v)].type = t
      BY <2>4 DEF Continues
    <3>2. Current(v) \in Jobs
      BY <3>1, CurrentOfBatch
    <3>3. jobs'[Current(v)].type = t
      BY <3>1, <3>2 DEF Grows
    <3>4. CASE pc'[v] \in {"telling", "recurring"} /\ Current(v)' = Current(v)
      BY <3>3, <3>4 DEF Continues
    <3> QED
      BY <3>1, <3>4
  <2> QED
    BY <2>2, <2>3, <2>4
<1> QED
  BY <1>1, <1>2

\* The parts of the invariant make it up.
LEMMA InvAssembled ==
    ASSUME jobs' \in Seq(JobRow), history' \subseteq Entries', dropped' \subseteq Jobs',
           event' \in [Events -> EventRow], WorkerTypes',
           paused' \subseteq {"scheduled", "default"},
           requests' \subseteq {"cancel", "retry"} \X Jobs',
           asked' \in Nat, cuts' \in Nat, boot' \in [Replicas -> Tasks \cup {None}],
           \A j \in Jobs' : JobFits(j)', \A w \in Workers : WorkerFits(w)',
           \A e \in Events : EventFits(e)', ChainsFit'
    PROVE  JobInv'
<1>1. TypeOK'
  BY DEF TypeOK, Entries, Outcomes, EventRow, WorkerTypes, Steps
<1> QED
  BY <1>1 DEF JobInv

-----------------------------------------------------------------------------
(* Steps of a worker that leave rows and histories alone. *)

\* Only worker w moves, and only to lose what it may lose.
LEMMA OnlyWorkerMoves ==
    ASSUME JobInv, NEW w \in Workers, UNCHANGED <<queue, event, administration, boot>>,
           WorkerTypes', \A v \in Workers : WorkerFits(v)', cuts' \in Nat,
           dropped \subseteq dropped', dropped' \subseteq Jobs,
           \A v \in Workers \ {w} : WorkerStays(v) /\ Current(v)' = Current(v),
           pc[w] = "running" => Current(w) \in dropped',
           pc[w] \in {"telling", "recurring"} =>
               \/ Current(w) \in dropped' \/ jobs[Current(w)].type \notin Tasks
               \/ pc'[w] \in {"telling", "recurring"} /\ Current(w)' = Current(w)
    PROVE  JobInv'
<1>1. TypeOK
  BY DEF JobInv
<1>2. jobs' = jobs /\ history' = history /\ event' = event
  BY DEF queue
<1>3. Grows /\ jobs' \in Seq(JobRow) /\ Jobs' = Jobs
  BY <1>1, <1>2, RowsStay
<1>4. \A j \in Jobs' : JobFits(j)'
  BY <1>2, <1>3, JobKept DEF WorkerStays
<1>5. \A e \in Events : EventFits(e)'
  BY <1>2, <1>3, EventKept
<1>6. ChainsFit'
  <2>1. ASSUME NEW t \in Tasks, NEW v \in Workers,
               pc[v] \in {"telling", "recurring"}, jobs[Current(v)].type = t
        PROVE  \/ pc'[v] \in {"telling", "recurring"} /\ Current(v)' = Current(v)
               \/ Lives(t)'
    <3>1. CASE v # w
      BY <2>1, <3>1 DEF WorkerStays
    <3>2. CASE v = w /\ Current(w) \in dropped'
      <4>1. Current(w) \in Jobs
        BY <2>1, <3>2, CurrentOfBatch
      <4> QED
        BY <1>2, <1>3, <2>1, <3>2, <4>1 DEF Lives
    <3> QED
      BY <2>1, <3>1, <3>2
  <2> QED
    BY <1>2, <1>3, <2>1, ChainsKept
<1>7. history' \subseteq Entries'
  BY <1>1, <1>2, <1>3, TypeParts DEF Entries
<1> QED
  BY <1>1, <1>2, <1>3, <1>4, <1>5, <1>6, <1>7, InvAssembled, TypeParts DEF administration

\* A sweep takes the jobs that are due.
LEMMA SweepKeeps ==
    ASSUME JobInv, NEW w \in Workers, Sweep(w)
    PROVE  JobInv'
<1>1. PICK b \in Batches : batch' = [batch EXCEPT ![w] = b]
  BY DEF Sweep
<1>2. PICK n \in 1..BatchSize : b \in [1..n -> Jobs]
  BY <1>1 DEF Batches
<1>3. b \in Seq(Jobs) /\ b # <<>>
  <2>1. n \in Nat \ {0}
    BY <1>2, BoundsAssumption
  <2>2. b \in Seq(Jobs) /\ Len(b) = n
    BY <1>2, <2>1, SeqDef
  <2> QED
    BY <2>1, <2>2, EmptySeq
<1>4. TypeOK /\ UNCHANGED <<queue, dropped>>
  BY DEF JobInv, Sweep, losses
<1>5. Grows /\ Jobs' = Jobs
  BY <1>4, RowsStay DEF queue
<1>6. pc' = [pc EXCEPT ![w] = "reading"] /\ "reading" \in Steps
  BY DEF Sweep, Goto, Steps
<1>7. attempt' = [attempt EXCEPT ![w] = attempt[w]] /\ attempt[w] \in Nat
  BY <1>4, TypeParts DEF Sweep, WorkerTypes
<1>8. /\ WorkerTypes' /\ \A v \in Workers : WorkerFits(v)'
      /\ \A v \in Workers \ {w} : WorkerStays(v) /\ Current(v)' = Current(v)
  <2>1. PICK rest \in Seq(Jobs') : rest = b
    BY <1>3, <1>5
  <2> QED
    BY <1>1, <1>3, <1>5, <1>6, <1>7, <2>1, WorkerMoves
<1>9. dropped' \subseteq Jobs /\ cuts' \in Nat
  BY <1>4, TypeParts DEF Sweep, losses
<1> QED
  BY <1>4, <1>8, <1>9, OnlyWorkerMoves DEF Sweep

\* An attempt reads its job.
LEMMA ReadKeeps ==
    ASSUME JobInv, NEW w \in Workers, Read(w)
    PROVE  JobInv'
<1>1. TypeOK /\ UNCHANGED <<queue, dropped, cuts>> /\ pc[w] = "reading"
  BY DEF JobInv, Read, losses
<1>2. Grows
  BY <1>1, RowsStay DEF queue
<1>3. /\ WorkerTypes' /\ \A v \in Workers : WorkerFits(v)'
      /\ \A v \in Workers \ {w} : WorkerStays(v) /\ Current(v)' = Current(v)
  <2>1. CASE NextJob(w)
    BY <1>1, <1>2, <2>1, WorkerGoesOn
  <2>2. CASE /\ attempt' = [attempt EXCEPT ![w] = jobs[Current(w)].attempts + 1]
             /\ Goto(w, "claiming") /\ UNCHANGED batch
    <3>1. Current(w) \in Jobs
      BY <1>1, CurrentOfBatch
    <3>2. PICK n \in Nat : n = jobs[Current(w)].attempts + 1
      BY <1>1, <3>1, RowOf DEF JobRow
    <3>3. "claiming" \in Steps \ {"idle"}
      BY DEF Steps
    <3> QED
      BY <1>1, <1>2, <2>2, <3>2, <3>3, WorkerGoes
  <2> QED
    BY <2>1, <2>2 DEF Read
<1>4. dropped' \subseteq Jobs /\ cuts' \in Nat
  BY <1>1, TypeParts
<1> QED
  BY <1>1, <1>3, <1>4, OnlyWorkerMoves DEF Read

\* An attempt is cut short, by its database or with its process.
LEMMA CutKeeps ==
    ASSUME JobInv, NEW w \in Workers, Abandon(w) \/ Die(w)
    PROVE  JobInv'
<1>1. TypeOK /\ UNCHANGED <<queue, event, administration, boot>> /\ pc[w] # "idle"
      /\ CutShort(w)
  BY DEF JobInv, Abandon, Die
<1>2. Current(w) \in Jobs
  BY <1>1, CurrentOfBatch
<1>3. dropped \subseteq dropped' /\ dropped' \subseteq Jobs /\ cuts' \in Nat
  BY <1>1, <1>2, TypeParts DEF CutShort
<1>4. Grows /\ Jobs' = Jobs
  BY <1>1, <1>3, RowsStay DEF queue
<1>5. /\ WorkerTypes' /\ \A v \in Workers : WorkerFits(v)'
      /\ \A v \in Workers \ {w} : WorkerStays(v) /\ Current(v)' = Current(v)
  <2>1. CASE NextJob(w)
    BY <1>1, <1>4, <2>1, WorkerGoesOn
  <2>2. CASE Die(w)
    <3>1. PICK rest \in Seq(Jobs') : rest = <<>>
      BY EmptySeq
    <3>2. /\ pc' = [pc EXCEPT ![w] = "idle"] /\ batch' = [batch EXCEPT ![w] = rest]
          /\ attempt' = [attempt EXCEPT ![w] = 0] /\ "idle" \in Steps
      BY <2>2, <3>1 DEF Die, Goto, Steps
    <3> QED
      BY <1>4, <3>1, <3>2, WorkerMoves
  <2> QED
    BY <2>1, <2>2 DEF Abandon
<1>6. pc[w] \in {"running", "telling", "recurring"} => Current(w) \in dropped'
  BY <1>1 DEF CutShort
<1> QED
  BY <1>1, <1>3, <1>5, <1>6, OnlyWorkerMoves

-----------------------------------------------------------------------------
(* Steps that write a row. *)

\* A row that becomes due, or that an administrator cancels or retries.
LEMMA RowChanged ==
    ASSUME JobInv, NEW j \in Jobs, NEW row \in JobRow, jobs' = [jobs EXCEPT ![j] = row],
           row.type = jobs[j].type, row.event = jobs[j].event,
           \/ row.status = jobs[j].status /\ row.attempts = jobs[j].attempts
           \/ row.status \in {"PENDING", "CANCELLED"},
           UNCHANGED <<history, event, paused, boot, workers, losses>>,
           requests' \subseteq requests, asked' = asked
    PROVE  JobInv'
<1>1. TypeOK /\ history' = history /\ dropped' = dropped
  BY DEF JobInv, losses
<1>2. /\ jobs' \in Seq(JobRow) /\ Jobs' = Jobs
      /\ \A k \in Jobs : jobs'[k] = IF k = j THEN row ELSE jobs[k]
      /\ Grows
  BY <1>1, RowWritten
<1>3. /\ WorkerTypes' /\ \A w \in Workers : WorkerFits(w)'
      /\ \A v \in Workers : WorkerStays(v) /\ Current(v)' = Current(v)
  BY <1>2, WorkersStay
<1>4. ASSUME NEW k \in Jobs PROVE JobFits(k)'
  <2>1. CASE jobs'[k].status = jobs[k].status /\ jobs'[k].attempts = jobs[k].attempts
    BY <1>2, <1>3, <2>1, JobKept DEF WorkerStays
  <2>2. CASE jobs'[k].status \in {"PENDING", "CANCELLED"}
    BY <2>2 DEF JobFits, Outcomes
  <2> QED
    BY <1>2, <2>1, <2>2
<1>5. \A e \in Events : EventFits(e)'
  BY <1>2, EventKept
<1>6. ChainsFit'
  BY <1>2, <1>3, ChainsKept DEF WorkerStays
<1>7. history' \subseteq Entries'
  BY <1>1, <1>2, TypeParts DEF Entries
<1> QED
  BY <1>1, <1>2, <1>3, <1>4, <1>5, <1>6, <1>7, InvAssembled, TypeParts DEF losses

\* Time, and administrators, change a row.
LEMMA RipenKeeps ==
    ASSUME JobInv, NEW j \in Jobs, Ripen(j)
    PROVE  JobInv'
<1>1. PICK row : row = [jobs[j] EXCEPT !.ready = TRUE]
  OBVIOUS
<1>2. jobs[j] \in JobRow
  BY RowOf DEF JobInv
<1>3. row \in JobRow /\ row.type = jobs[j].type /\ row.event = jobs[j].event
      /\ row.status = jobs[j].status /\ row.attempts = jobs[j].attempts
  BY <1>1, <1>2 DEF JobRow
<1>4. jobs' = [jobs EXCEPT ![j] = row]
  BY <1>1 DEF Ripen
<1> QED
  BY <1>3, <1>4, RowChanged DEF Ripen, administration

\* An administrator cancels or retries a job.
LEMMA ChangeKeeps ==
    ASSUME JobInv, NEW j \in Jobs, Cancel(j) \/ Retry(j)
    PROVE  JobInv'
<1>1. PICK row : /\ row = [jobs[j] EXCEPT !.status = "CANCELLED"]
                      \/ row = [jobs[j] EXCEPT !.status = "PENDING", !.ready = TRUE]
                 /\ jobs' = [jobs EXCEPT ![j] = row]
  BY DEF Cancel, Retry
<1>2. jobs[j] \in JobRow
  BY RowOf DEF JobInv
<1>3. row \in JobRow /\ row.type = jobs[j].type /\ row.event = jobs[j].event
      /\ row.status \in {"PENDING", "CANCELLED"}
  BY <1>1, <1>2 DEF JobRow, JobStatuses
<1> QED
  BY <1>1, <1>3, RowChanged DEF Cancel, Retry

\* An attempt marks its job.
LEMMA ClaimKeeps ==
    ASSUME JobInv, NEW w \in Workers, Claim(w)
    PROVE  JobInv'
<1>1. TypeOK /\ history' = history /\ dropped' = dropped /\ pc[w] = "claiming"
  BY DEF JobInv, Claim, losses
<1>2. PICK j \in Jobs : j = Current(w)
  BY <1>1, CurrentOfBatch
<1>3. PICK row : row = [jobs[j] EXCEPT !.status = "PROCESSING"]
  OBVIOUS
<1>4. row \in JobRow /\ row.type = jobs[j].type /\ row.event = jobs[j].event
      /\ row.status = "PROCESSING"
  BY <1>1, <1>3, RowOf DEF JobRow, JobStatuses
<1>5. /\ jobs' \in Seq(JobRow) /\ Jobs' = Jobs
      /\ \A k \in Jobs : jobs'[k] = IF k = j THEN row ELSE jobs[k]
      /\ Grows
  <2>1. jobs' = [jobs EXCEPT ![j] = row]
    BY <1>2, <1>3 DEF Claim
  <2> QED
    BY <1>1, <1>4, <2>1, RowWritten
<1>6. /\ WorkerTypes' /\ \A v \in Workers : WorkerFits(v)'
      /\ \A v \in Workers \ {w} : WorkerStays(v)
      /\ \A v \in Workers : Current(v)' = Current(v)
      /\ pc'[w] = "running"
  <2>1. attempt[w] \in Nat /\ attempt' = [attempt EXCEPT ![w] = attempt[w]]
    BY <1>1, TypeParts DEF WorkerTypes, Claim
  <2>2. "running" \in Steps \ {"idle"}
    BY DEF Steps
  <2>3. Goto(w, "running") /\ UNCHANGED batch
    BY DEF Claim
  <2> QED
    BY <1>1, <1>5, <2>1, <2>2, <2>3, WorkerGoes
<1>7. ASSUME NEW k \in Jobs PROVE JobFits(k)'
  <2>1. CASE k = j
    <3>1. jobs'[k].status = "PROCESSING"
      BY <1>4, <1>5, <2>1
    <3>2. pc'[w] = "running" /\ Current(w)' = k
      BY <1>2, <1>6, <2>1
    <3> QED
      BY <3>1, <3>2 DEF JobFits, Outcomes
  <2>2. CASE k # j
    <3>1. jobs'[k] = jobs[k]
      BY <1>5, <2>2
    <3>2. \A v \in Workers : pc[v] = "running" => pc'[v] = "running" /\ Current(v)' = Current(v)
      BY <1>1, <1>6 DEF WorkerStays
    <3> QED
      BY <1>5, <3>1, <3>2, JobKept
  <2> QED
    BY <2>1, <2>2
<1>8. \A e \in Events : EventFits(e)'
  BY <1>5, EventKept DEF Claim
<1>9. ChainsFit'
  BY <1>1, <1>4, <1>5, <1>6, ChainsKept DEF WorkerStays
<1>10. history' \subseteq Entries'
  BY <1>1, <1>5, TypeParts DEF Entries
<1> QED
  BY <1>1, <1>5, <1>6, <1>7, <1>8, <1>9, <1>10, InvAssembled, TypeParts
     DEF Claim, administration, losses

\* Worker w records an outcome that its number of attempts allows: what is then known of
\* the queue.
LEMMA Recorded ==
    ASSUME JobInv, NEW w \in Workers, pc[w] # "idle", NEW status \in Outcomes,
           Record(w, status), UNCHANGED dropped,
           status = "DEAD_LETTER" => attempt[w] >= MaxAttempts,
           status = "RETRYING" => attempt[w] < MaxAttempts
    PROVE  /\ jobs' \in Seq(JobRow) /\ Jobs' = Jobs /\ history' \subseteq Entries' /\ Grows
           /\ <<Current(w), attempt[w], status>> \in history'
           /\ \A k \in Jobs : jobs'[k].status = IF k = Current(w) THEN status ELSE jobs[k].status
           /\ (\A v \in Workers \ {w} : pc'[v] = pc[v] /\ Current(v)' = Current(v))
                  => \A k \in Jobs' : JobFits(k)'
<1>1. TypeOK
  BY DEF JobInv
<1>2. PICK j \in Jobs : j = Current(w)
  BY CurrentOfBatch
<1>3. PICK n \in Nat : n = attempt[w]
  BY <1>1, TypeParts DEF WorkerTypes
<1>4. PICK row : row = [jobs[j] EXCEPT !.status = status, !.attempts = n,
                                       !.ready = @ /\ status # "RETRYING"]
  OBVIOUS
<1>5. row.type = jobs[j].type /\ row.event = jobs[j].event
      /\ row.status = status /\ row.attempts = n /\ row \in JobRow
  <2>1. jobs[j] \in JobRow
    BY <1>1, RowOf
  <2>2. status \in JobStatuses
    BY DEF JobStatuses, Outcomes
  <2>3. (jobs[j].ready /\ status # "RETRYING") \in BOOLEAN
    OBVIOUS
  <2> QED
    BY <1>4, <2>1, <2>2, <2>3 DEF JobRow
<1>6. history' = history \cup {<<j, n, status>>}
  BY <1>2, <1>3 DEF Record
<1>7. /\ jobs' \in Seq(JobRow) /\ Jobs' = Jobs
      /\ \A k \in Jobs : jobs'[k] = IF k = j THEN row ELSE jobs[k]
      /\ Grows
  <2>1. jobs' = [jobs EXCEPT ![j] = row]
    BY <1>2, <1>3, <1>4 DEF Record
  <2> QED
    BY <1>1, <1>5, <1>6, <2>1, RowWritten
<1>8. history' \subseteq Entries'
  BY <1>1, <1>6, <1>7, TypeParts DEF Entries
<1>9. ASSUME \A v \in Workers \ {w} : pc'[v] = pc[v] /\ Current(v)' = Current(v),
             NEW k \in Jobs
      PROVE  JobFits(k)'
  <2>1. CASE k = j
    BY <1>3, <1>5, <1>6, <1>7, <2>1 DEF JobFits, Outcomes
  <2>2. CASE k # j
    <3>1. jobs'[k] = jobs[k]
      BY <1>7, <2>2
    <3> QED
      BY <1>2, <1>7, <1>9, <2>2, <3>1, JobKept
  <2> QED
    BY <2>1, <2>2
<1> QED
  BY <1>2, <1>3, <1>5, <1>6, <1>7, <1>8, <1>9

\* The processor returns.
LEMMA SucceedKeeps ==
    ASSUME JobInv, NEW w \in Workers, Succeed(w)
    PROVE  JobInv'
<1>1. TypeOK /\ pc[w] = "running" /\ Record(w, "SUCCESS") /\ UNCHANGED losses
  BY DEF JobInv, Succeed
<1>2. /\ jobs' \in Seq(JobRow) /\ Jobs' = Jobs /\ history' \subseteq Entries' /\ Grows
      /\ <<Current(w), attempt[w], "SUCCESS">> \in history'
      /\ \A k \in Jobs : jobs'[k].status = IF k = Current(w) THEN "SUCCESS" ELSE jobs[k].status
      /\ (\A v \in Workers \ {w} : pc'[v] = pc[v] /\ Current(v)' = Current(v))
             => \A k \in Jobs' : JobFits(k)'
  BY <1>1, Recorded DEF Outcomes, losses
<1>3. /\ WorkerTypes' /\ \A v \in Workers : WorkerFits(v)'
      /\ \A v \in Workers \ {w} : WorkerStays(v)
      /\ \A v \in Workers : Current(v)' = Current(v)
      /\ pc'[w] = "telling"
  <2>1. attempt[w] \in Nat /\ attempt' = [attempt EXCEPT ![w] = attempt[w]]
    BY <1>1, TypeParts DEF WorkerTypes, Succeed
  <2>2. "telling" \in Steps \ {"idle"}
    BY DEF Steps
  <2>3. Goto(w, "telling") /\ UNCHANGED batch
    BY DEF Succeed
  <2> QED
    BY <1>1, <1>2, <2>1, <2>2, <2>3, WorkerGoes
<1>4. \A k \in Jobs' : JobFits(k)'
  BY <1>2, <1>3 DEF WorkerStays
<1>5. \A e \in Events : EventFits(e)'
  BY <1>2, EventKept DEF Succeed
<1>6. ChainsFit'
  <2>1. ASSUME NEW t \in Tasks, NEW j \in Jobs, jobs[j].type = t, jobs'[j].status = "SUCCESS"
        PROVE  jobs[j].status = "SUCCESS" \/ Continues(t)'
    <3>1. CASE j = Current(w)
      <4>1. pc'[w] = "telling" /\ jobs'[Current(w)'].type = t
        BY <1>2, <1>3, <2>1, <3>1 DEF Grows
      <4> QED
        BY <4>1 DEF Continues
    <3> QED
      BY <1>2, <2>1, <3>1
  <2>2. \A v \in Workers : pc[v] \in {"telling", "recurring"} =>
            pc'[v] \in {"telling", "recurring"} /\ Current(v)' = Current(v)
    BY <1>1, <1>3 DEF WorkerStays
  <2> QED
    BY <1>2, <2>1, <2>2, ChainsKept
<1> QED
  BY <1>1, <1>2, <1>3, <1>4, <1>5, <1>6, InvAssembled, TypeParts
     DEF Succeed, administration, losses

\* The processor throws, or so does enqueuing the next occurrence.
LEMMA FailAttemptKeeps ==
    ASSUME JobInv, NEW w \in Workers, FailAttempt(w)
    PROVE  JobInv'
<1>0. PICK status \in {"RETRYING", "DEAD_LETTER"} : status = FinalStatus(attempt[w])
  BY DEF FinalStatus
<1>1. TypeOK /\ pc[w] \in {"running", "recurring"} /\ Record(w, status) /\ UNCHANGED losses
  BY <1>0 DEF JobInv, FailAttempt
<1>2. attempt[w] \in Nat
  BY <1>1, TypeParts DEF WorkerTypes
<1>3. /\ status = "DEAD_LETTER" => attempt[w] >= MaxAttempts
      /\ status = "RETRYING" => attempt[w] < MaxAttempts
  BY <1>0, <1>2, BoundsAssumption DEF FinalStatus
<1>4. /\ jobs' \in Seq(JobRow) /\ Jobs' = Jobs /\ history' \subseteq Entries' /\ Grows
      /\ <<Current(w), attempt[w], status>> \in history'
      /\ \A k \in Jobs : jobs'[k].status = IF k = Current(w) THEN status ELSE jobs[k].status
      /\ (\A v \in Workers \ {w} : pc'[v] = pc[v] /\ Current(v)' = Current(v))
             => \A k \in Jobs' : JobFits(k)'
  BY <1>0, <1>1, <1>3, Recorded DEF Outcomes, losses
<1>5. /\ WorkerTypes' /\ \A v \in Workers : WorkerFits(v)'
      /\ \A v \in Workers \ {w} : WorkerStays(v) /\ Current(v)' = Current(v)
  <2>1. CASE status = "RETRYING" /\ NextJob(w)
    BY <1>1, <1>4, <2>1, WorkerGoesOn
  <2>2. CASE status = "DEAD_LETTER" /\ Goto(w, "giving up") /\ UNCHANGED <<batch, attempt>>
    <3>1. attempt' = [attempt EXCEPT ![w] = attempt[w]]
      BY <1>1, <2>2, TypeParts DEF WorkerTypes
    <3>2. "giving up" \in Steps \ {"idle"}
      BY DEF Steps
    <3> QED
      BY <1>1, <1>2, <1>4, <2>2, <3>1, <3>2, WorkerGoes
  <2> QED
    BY <1>0, <2>1, <2>2 DEF FailAttempt
<1>6. \A k \in Jobs' : JobFits(k)'
  BY <1>4, <1>5 DEF WorkerStays
<1>7. \A e \in Events : EventFits(e)'
  BY <1>4, EventKept DEF FailAttempt
<1>8. ChainsFit'
  <2>1. Current(w) \in Jobs /\ jobs'[Current(w)].status # "SUCCESS"
    BY <1>1, <1>4, CurrentOfBatch
  <2>2. \A t \in Tasks : jobs[Current(w)].type = t => Lives(t)'
    BY <1>4, <2>1 DEF Lives, Grows
  <2> QED
    BY <1>4, <1>5, <2>1, <2>2, ChainsKept DEF WorkerStays
<1> QED
  BY <1>1, <1>4, <1>5, <1>6, <1>7, <1>8, InvAssembled, TypeParts
     DEF FailAttempt, administration, losses

-----------------------------------------------------------------------------
(* Steps that add a row. *)

\* A row that has not succeeded is added: what is then known of the queue.
LEMMA Added ==
    ASSUME JobInv, NEW row \in JobRow, jobs' = Append(jobs, row),
           row.status \in {"PENDING", "SCHEDULED"}, UNCHANGED <<history, losses>>,
           \A v \in Workers : pc[v] = "running" => pc'[v] = "running" /\ Current(v)' = Current(v)
    PROVE  /\ jobs' \in Seq(JobRow) /\ history' \subseteq Entries' /\ dropped' \subseteq Jobs'
           /\ \A j \in Jobs' : JobFits(j)'
           /\ \A t \in Tasks : row.type = t => Lives(t)'
<1>1. TypeOK /\ dropped' = dropped
  BY DEF JobInv, losses
<1>2. PICK new : /\ jobs' \in Seq(JobRow) /\ Jobs' = Jobs \cup {new} /\ new \notin Jobs
                 /\ \A k \in Jobs : jobs'[k] = jobs[k]
                 /\ jobs'[new] = row
                 /\ Grows
  BY <1>1, RowAdded
<1>3. ASSUME NEW k \in Jobs' PROVE JobFits(k)'
  <2>1. CASE k \in Jobs
    BY <1>2, <2>1, JobKept
  <2>2. CASE k = new
    BY <1>2, <2>2 DEF JobFits, Outcomes
  <2> QED
    BY <1>2, <2>1, <2>2
<1>4. \A t \in Tasks : row.type = t => Lives(t)'
  BY <1>2 DEF Lives
<1>5. history' \subseteq Entries'
  BY <1>1, <1>2, TypeParts DEF Entries
<1>6. dropped' \subseteq Jobs'
  BY <1>1, <1>2, TypeParts
<1> QED
  BY <1>2, <1>3, <1>4, <1>5, <1>6

\* Chains are kept when a row that has not succeeded is added and workers stay or have
\* added it for the task they were to continue.
LEMMA AddedChains ==
    ASSUME JobInv, NEW row \in JobRow, jobs' = Append(jobs, row),
           row.status \in {"PENDING", "SCHEDULED"}, UNCHANGED <<history, losses>>,
           \A t \in Tasks, v \in Workers :
               pc[v] \in {"telling", "recurring"} /\ jobs[Current(v)].type = t =>
                   \/ pc'[v] \in {"telling", "recurring"} /\ Current(v)' = Current(v)
                   \/ row.type = t
    PROVE  ChainsFit'
<1>1. TypeOK /\ dropped' = dropped
  BY DEF JobInv, losses
<1>2. PICK new : /\ Jobs' = Jobs \cup {new} /\ new \notin Jobs
                 /\ \A k \in Jobs : jobs'[k] = jobs[k]
                 /\ jobs'[new] = row
                 /\ Grows
  BY <1>1, RowAdded
<1>3. \A t \in Tasks : row.type = t => Lives(t)'
  BY <1>2 DEF Lives
<1> QED
  BY <1>2, <1>3, ChainsKept

\* A request for a job stays one for a job.
LEMMA RequestsKept ==
    ASSUME TypeOK, Jobs \subseteq Jobs', UNCHANGED requests
    PROVE  requests' \subseteq {"cancel", "retry"} \X Jobs'
  BY TypeParts

\* A recurring job enqueues its next occurrence.
LEMMA RecurKeeps ==
    ASSUME JobInv, NEW w \in Workers, Recur(w)
    PROVE  JobInv'
<1>1. TypeOK /\ pc[w] = "recurring" /\ NextJob(w)
      /\ UNCHANGED <<history, event, administration, boot, losses>>
  BY DEF JobInv, Recur
<1>2. PICK j \in Jobs : j = Current(w)
  BY <1>1, CurrentOfBatch
<1>3. PICK row : row = Occurrence(jobs[j].type, jobs[j].nth + 1)
  OBVIOUS
<1>4. row \in JobRow /\ row.type = jobs[j].type /\ row.event = None /\ row.status = "SCHEDULED"
  BY <1>1, <1>3, RowOf DEF Occurrence, NewJob, JobRow, JobStatuses
<1>5. jobs' = Append(jobs, row)
  BY <1>2, <1>3 DEF Recur
<1>6. PICK new : /\ Jobs' = Jobs \cup {new} /\ jobs'[new] = row /\ new \notin Jobs
                 /\ Grows
  BY <1>1, <1>4, <1>5, RowAdded DEF losses
<1>7. /\ WorkerTypes' /\ \A v \in Workers : WorkerFits(v)'
      /\ \A v \in Workers \ {w} : WorkerStays(v) /\ Current(v)' = Current(v)
  BY <1>1, <1>6, WorkerGoesOn
<1>8. /\ jobs' \in Seq(JobRow) /\ history' \subseteq Entries' /\ dropped' \subseteq Jobs'
      /\ \A k \in Jobs' : JobFits(k)'
  BY <1>1, <1>4, <1>5, <1>7, Added DEF WorkerStays
<1>9. \A e \in Events : EventFits(e)'
  <2>1. \A e \in Events : e # None
    BY BoundsAssumption
  <2> QED
    BY <1>1, <1>4, <1>6, <2>1, EventKept
<1>10. ChainsFit'
  BY <1>1, <1>2, <1>4, <1>5, <1>7, AddedChains DEF WorkerStays
<1>11. requests' \subseteq {"cancel", "retry"} \X Jobs'
  BY <1>1, <1>6, RequestsKept DEF administration
<1> QED
  BY <1>1, <1>7, <1>8, <1>9, <1>10, <1>11, InvAssembled, TypeParts DEF administration, losses

\* A booting replica enqueues the occurrence it has found missing.
LEMMA EnqueueFirstKeeps ==
    ASSUME JobInv, NEW b \in Replicas, EnqueueFirst(b)
    PROVE  JobInv'
<1>1. TypeOK /\ boot[b] \in Tasks /\ boot' \in [Replicas -> Tasks \cup {None}]
      /\ UNCHANGED <<history, event, administration, workers, losses>>
  BY TypeParts DEF JobInv, EnqueueFirst
<1>2. PICK row : row = Occurrence(boot[b], 1)
  OBVIOUS
<1>3. row \in JobRow /\ row.event = None /\ row.status = "SCHEDULED"
  BY <1>1, <1>2 DEF Occurrence, NewJob, JobRow, JobStatuses
<1>4. jobs' = Append(jobs, row)
  BY <1>2 DEF EnqueueFirst
<1>5. PICK new : /\ Jobs' = Jobs \cup {new} /\ jobs'[new] = row /\ new \notin Jobs
                 /\ Grows
  BY <1>1, <1>3, <1>4, RowAdded DEF losses
<1>6. /\ WorkerTypes' /\ \A v \in Workers : WorkerFits(v)'
      /\ \A v \in Workers : WorkerStays(v) /\ Current(v)' = Current(v)
  BY <1>1, <1>5, WorkersStay
<1>7. /\ jobs' \in Seq(JobRow) /\ history' \subseteq Entries' /\ dropped' \subseteq Jobs'
      /\ \A k \in Jobs' : JobFits(k)'
  BY <1>1, <1>3, <1>4, <1>6, Added DEF WorkerStays
<1>8. \A e \in Events : EventFits(e)'
  <2>1. \A e \in Events : e # None
    BY BoundsAssumption
  <2> QED
    BY <1>1, <1>3, <1>5, <2>1, EventKept
<1>9. ChainsFit'
  BY <1>1, <1>3, <1>4, <1>6, AddedChains DEF WorkerStays
<1>10. requests' \subseteq {"cancel", "retry"} \X Jobs'
  BY <1>1, <1>5, RequestsKept DEF administration
<1> QED
  BY <1>1, <1>6, <1>7, <1>8, <1>9, <1>10, InvAssembled, TypeParts DEF administration, losses

-----------------------------------------------------------------------------
(* Events. *)

\* The publisher creates the job of a rule.
LEMMA EnqueueRuleKeeps ==
    ASSUME JobInv, NEW e \in Events, EnqueueRule(e)
    PROVE  JobInv'
<1>1. TypeOK /\ event \in [Events -> EventRow] /\ EventFits(e) /\ event[e].step = "enqueuing"
      /\ UNCHANGED <<history, administration, boot, workers, losses>>
  BY TypeParts DEF JobInv, EnqueueRule
<1>2. PICK row : row = RuleJob(e)
  OBVIOUS
<1>3. row \in JobRow /\ row.event = e /\ row.status = "PENDING"
  BY <1>2 DEF RuleJob, NewJob, JobRow, JobStatuses
<1>4. jobs' = Append(jobs, row)
  BY <1>2 DEF EnqueueRule
<1>5. PICK new : /\ Jobs' = Jobs \cup {new} /\ jobs'[new] = row /\ new \notin Jobs
                 /\ Grows
  BY <1>1, <1>3, <1>4, RowAdded DEF losses
<1>6. /\ WorkerTypes' /\ \A v \in Workers : WorkerFits(v)'
      /\ \A v \in Workers : WorkerStays(v) /\ Current(v)' = Current(v)
  BY <1>1, <1>5, WorkersStay
<1>7. /\ jobs' \in Seq(JobRow) /\ history' \subseteq Entries' /\ dropped' \subseteq Jobs'
      /\ \A k \in Jobs' : JobFits(k)'
  BY <1>1, <1>3, <1>4, <1>6, Added DEF WorkerStays
<1>8. PICK todo \in Nat : todo = event[e].todo /\ todo # 0
  BY <1>1 DEF EventRow, EventFits
<1>9. /\ event' \in [Events -> EventRow]
      /\ \A f \in Events \ {e} : event'[f] = event[f]
      /\ event'[e].status = event[e].status /\ event'[e].todo = todo - 1
      /\ event'[e].step = IF todo = 1 THEN "done" ELSE "enqueuing"
  <2>1. PICK r : r = [event[e] EXCEPT !.todo = todo - 1,
                                      !.step = IF todo = 1 THEN "done" ELSE "enqueuing"]
    OBVIOUS
  <2>2. event' = [event EXCEPT ![e] = r]
    BY <1>1, <1>8, <2>1 DEF EnqueueRule
  <2>3. event[e] \in EventRow /\ todo - 1 \in Nat
    BY <1>1, <1>8
  <2>4. r \in EventRow /\ r.status = event[e].status /\ r.todo = todo - 1
        /\ r.step = IF todo = 1 THEN "done" ELSE "enqueuing"
    BY <2>1, <2>3 DEF EventRow
  <2> QED
    BY <1>1, <2>2, <2>4
<1>10. EventFits(e)'
  <2>1. event[e].status # "none"
    BY <1>1 DEF EventFits
  <2>2. event[e].status = "DISPATCHED" => Reached(e, "SUCCESS")
    BY <1>1, <1>8 DEF EventFits
  <2>3. event[e].status = "FAILED" => Reached(e, "DEAD_LETTER")
    BY <1>1 DEF EventFits
  <2>4. \A status : Reached(e, status) => Reached(e, status)'
    BY <1>5, ReachedKept
  <2>5. event'[e].step = "enqueuing" <=> event'[e].todo # 0
    BY <1>8, <1>9
  <2> QED
    BY <1>9, <2>1, <2>2, <2>3, <2>4, <2>5 DEF EventFits
<1>11. \A f \in Events \ {e} : EventFits(f)'
  BY <1>3, <1>5, <1>9, EventKept
<1>12. ChainsFit'
  BY <1>1, <1>3, <1>4, <1>6, AddedChains DEF WorkerStays
<1>13. requests' \subseteq {"cancel", "retry"} \X Jobs'
  BY <1>1, <1>5, RequestsKept DEF administration
<1> QED
  BY <1>1, <1>6, <1>7, <1>9, <1>10, <1>11, <1>12, <1>13, InvAssembled, TypeParts
     DEF administration, losses

\* The row of an event is written, by its publisher or by worker w.
LEMMA EventWritten ==
    ASSUME JobInv, NEW e \in Events, NEW row \in EventRow,
           event' = [event EXCEPT ![e] = row], UNCHANGED <<queue, dropped>>,
           row.step = "enqueuing" <=> row.todo # 0,
           row.step = "matching" => row.status = "PENDING" /\ ~HasJob(e),
           row.status = "none" => row.step = "done" /\ ~HasJob(e),
           row.status = "DISPATCHED" /\ (row.todo # 0 \/ HasJob(e)) => Reached(e, "SUCCESS"),
           row.status = "FAILED" => Reached(e, "DEAD_LETTER")
    PROVE  event' \in [Events -> EventRow] /\ \A f \in Events : EventFits(f)'
<1>1. TypeOK /\ event \in [Events -> EventRow]
  BY TypeParts DEF JobInv
<1>2. jobs' = jobs /\ history' = history
  BY DEF queue
<1>3. Grows /\ Jobs' = Jobs
  BY <1>1, <1>2, RowsStay
<1>4. event'[e] = row /\ \A f \in Events \ {e} : event'[f] = event[f]
  BY <1>1
<1>5. \A f \in Events \ {e} : EventFits(f)'
  BY <1>3, <1>4, EventKept
<1>6. (HasJob(e)' <=> HasJob(e)) /\ \A status : Reached(e, status)' <=> Reached(e, status)
  BY <1>2, <1>3 DEF HasJob, Reached
<1>7. EventFits(e)'
  BY <1>4, <1>6 DEF EventFits
<1> QED
  BY <1>1, <1>5, <1>7

\* Nothing but events changes.
LEMMA OnlyEvents ==
    ASSUME JobInv, UNCHANGED <<queue, administration, boot, workers, losses>>,
           event' \in [Events -> EventRow], \A f \in Events : EventFits(f)'
    PROVE  JobInv'
<1>1. TypeOK /\ jobs' = jobs /\ history' = history /\ dropped' = dropped
  BY DEF JobInv, queue, losses
<1>2. Grows /\ jobs' \in Seq(JobRow) /\ Jobs' = Jobs
  BY <1>1, RowsStay
<1>3. /\ WorkerTypes' /\ \A w \in Workers : WorkerFits(w)'
      /\ \A v \in Workers : WorkerStays(v) /\ Current(v)' = Current(v)
  BY <1>2, WorkersStay
<1>4. \A k \in Jobs' : JobFits(k)'
  BY <1>1, <1>2, <1>3, JobKept DEF WorkerStays
<1>5. ChainsFit'
  BY <1>1, <1>2, <1>3, ChainsKept DEF WorkerStays
<1>6. history' \subseteq Entries'
  BY <1>1, <1>2, TypeParts DEF Entries
<1> QED
  BY <1>1, <1>2, <1>3, <1>4, <1>5, <1>6, InvAssembled, TypeParts DEF administration, losses

\* An event is stored, its rules are looked up, or its publisher dies.
LEMMA PublishingKeeps ==
    ASSUME JobInv, NEW e \in Events,
           Publish(e) \/ DiePublishing(e) \/ \E n \in 0..MaxRules : MatchRules(e, n)
    PROVE  JobInv'
<1>1. UNCHANGED <<queue, administration, boot, workers, losses>>
  BY DEF Publish, DiePublishing, MatchRules
<1>2. event \in [Events -> EventRow] /\ event[e] \in EventRow /\ EventFits(e)
  BY TypeParts DEF JobInv
<1>3. event' \in [Events -> EventRow] /\ \A f \in Events : EventFits(f)'
  <2>1. CASE Publish(e)
    <3>1. PICK row : row = [status |-> "PENDING", step |-> "matching", todo |-> 0]
      OBVIOUS
    <3>2. row \in EventRow /\ row.status = "PENDING" /\ row.step = "matching" /\ row.todo = 0
      BY <3>1 DEF EventRow
    <3>3. event' = [event EXCEPT ![e] = row] /\ event[e].status = "none"
      BY <2>1, <3>1 DEF Publish
    <3>4. ~ HasJob(e)
      BY <1>2, <3>3 DEF EventFits
    <3> QED
      BY <1>1, <3>2, <3>3, <3>4, EventWritten DEF losses
  <2>2. CASE DiePublishing(e)
    <3>1. PICK row : row = [event[e] EXCEPT !.step = "done", !.todo = 0]
      OBVIOUS
    <3>2. row \in EventRow /\ row.status = event[e].status /\ row.step = "done" /\ row.todo = 0
      BY <1>2, <3>1 DEF EventRow
    <3>3. event' = [event EXCEPT ![e] = row]
      BY <2>2, <3>1 DEF DiePublishing
    <3>4. event[e].status # "none"
      BY <1>2, <2>2 DEF EventFits, DiePublishing
    <3> QED
      BY <1>1, <1>2, <3>2, <3>3, <3>4, EventWritten DEF losses, EventFits
  <2>3. ASSUME NEW n \in 0..MaxRules, MatchRules(e, n)
        PROVE  event' \in [Events -> EventRow] /\ \A f \in Events : EventFits(f)'
    <3>1. PICK row : row = IF n = 0 THEN [status |-> "DISPATCHED", step |-> "done", todo |-> 0]
                           ELSE [status |-> "PENDING", step |-> "enqueuing", todo |-> n]
      OBVIOUS
    <3>2. /\ row \in EventRow /\ (row.step = "enqueuing" <=> row.todo # 0)
          /\ row.step \in {"enqueuing", "done"} /\ row.status \in {"PENDING", "DISPATCHED"}
          /\ row.status = "DISPATCHED" => row.todo = 0
      BY <3>1, BoundsAssumption DEF EventRow
    <3>3. event' = [event EXCEPT ![e] = row] /\ event[e].step = "matching"
      BY <2>3, <3>1 DEF MatchRules
    <3>4. ~ HasJob(e)
      BY <1>2, <3>3 DEF EventFits
    <3> QED
      BY <1>1, <3>2, <3>3, <3>4, EventWritten DEF losses
  <2> QED
    BY <2>1, <2>2, <2>3
<1> QED
  BY <1>1, <1>3, OnlyEvents

\* A worker writes to the source event what its job has reached.
LEMMA Told ==
    ASSUME JobInv, NEW w \in Workers, NEW status \in {"DISPATCHED", "FAILED"},
           pc[w] # "idle", UNCHANGED <<queue, dropped>>,
           \/ jobs[Current(w)].event # None
              /\ event' = [event EXCEPT ![jobs[Current(w)].event].status = status]
           \/ UNCHANGED event,
           status = "DISPATCHED" => <<Current(w), attempt[w], "SUCCESS">> \in history,
           status = "FAILED" => <<Current(w), attempt[w], "DEAD_LETTER">> \in history
    PROVE  event' \in [Events -> EventRow] /\ \A f \in Events : EventFits(f)'
<1>1. TypeOK /\ event \in [Events -> EventRow]
  BY TypeParts DEF JobInv
<1>2. PICK j \in Jobs : j = Current(w)
  BY CurrentOfBatch
<1>3. PICK e \in Events \cup {None} : e = jobs[j].event
  BY <1>1, RowOf DEF JobRow
<1>4. CASE UNCHANGED event
  <2>1. Grows /\ Jobs' = Jobs
    BY <1>1, RowsStay DEF queue
  <2> QED
    BY <1>1, <1>4, <2>1, EventKept
<1>5. CASE e # None /\ event' = [event EXCEPT ![e].status = status]
  <2>1. e \in Events /\ EventFits(e) /\ event[e] \in EventRow
    BY <1>1, <1>5 DEF JobInv
  <2>2. PICK row : row = [event[e] EXCEPT !.status = status]
    OBVIOUS
  <2>3. /\ row \in EventRow /\ row.status = status /\ row.step = event[e].step
        /\ row.todo = event[e].todo
    BY <2>1, <2>2 DEF EventRow
  <2>4. event' = [event EXCEPT ![e] = row]
    BY <1>5, <2>2
  <2>5. HasJob(e) /\ event[e].step # "matching"
    BY <1>3, <2>1 DEF HasJob, EventFits
  <2>6. /\ status = "DISPATCHED" => Reached(e, "SUCCESS")
        /\ status = "FAILED" => Reached(e, "DEAD_LETTER")
    <3>1. PICK n : n = attempt[w]
      OBVIOUS
    <3>2. \A outcome : <<j, n, outcome>> \in history => Reached(e, outcome)
      BY <1>3 DEF Reached
    <3> QED
      BY <1>2, <3>1, <3>2
  <2> QED
    BY <2>1, <2>3, <2>4, <2>5, <2>6, EventWritten DEF EventFits
<1> QED
  BY <1>2, <1>3, <1>4, <1>5

\* Only worker w moves, and it tells an event.
LEMMA TellingMoves ==
    ASSUME JobInv, NEW w \in Workers, UNCHANGED <<queue, administration, boot, losses>>,
           event' \in [Events -> EventRow], \A f \in Events : EventFits(f)',
           WorkerTypes', \A v \in Workers : WorkerFits(v)',
           \A v \in Workers \ {w} : WorkerStays(v) /\ Current(v)' = Current(v),
           pc[w] \in {"telling", "giving up"},
           pc[w] = "telling" =>
               \/ jobs[Current(w)].type \notin Tasks
               \/ pc'[w] = "recurring" /\ Current(w)' = Current(w)
    PROVE  JobInv'
<1>1. TypeOK /\ jobs' = jobs /\ history' = history /\ dropped' = dropped
  BY DEF JobInv, queue, losses
<1>2. Grows /\ jobs' \in Seq(JobRow) /\ Jobs' = Jobs
  BY <1>1, RowsStay
<1>3. \A k \in Jobs' : JobFits(k)'
  BY <1>1, <1>2, JobKept DEF WorkerStays
<1>4. ChainsFit'
  BY <1>1, <1>2, ChainsKept DEF WorkerStays
<1>5. history' \subseteq Entries'
  BY <1>1, <1>2, TypeParts DEF Entries
<1> QED
  BY <1>1, <1>2, <1>3, <1>4, <1>5, InvAssembled, TypeParts DEF administration, losses

\* The source event of a success is DISPATCHED.
LEMMA TellKeeps ==
    ASSUME JobInv, NEW w \in Workers, Tell(w)
    PROVE  JobInv'
<1>1. /\ TypeOK /\ pc[w] = "telling" /\ UNCHANGED <<queue, administration, boot, losses>>
      /\ <<Current(w), attempt[w], "SUCCESS">> \in history
  BY DEF JobInv, Tell, WorkerFits
<1>2. event' \in [Events -> EventRow] /\ \A f \in Events : EventFits(f)'
  BY <1>1, Told DEF Tell, losses
<1>3. Grows
  BY <1>1, RowsStay DEF queue, losses
<1>4. /\ WorkerTypes' /\ \A v \in Workers : WorkerFits(v)'
      /\ \A v \in Workers \ {w} : WorkerStays(v) /\ Current(v)' = Current(v)
      /\ \/ jobs[Current(w)].type \notin Tasks
         \/ pc'[w] = "recurring" /\ Current(w)' = Current(w)
  <2>1. CASE jobs[Current(w)].type \in Tasks /\ Goto(w, "recurring")
             /\ UNCHANGED <<batch, attempt>>
    <3>1. attempt[w] \in Nat /\ attempt' = [attempt EXCEPT ![w] = attempt[w]]
      BY <1>1, <2>1, TypeParts DEF WorkerTypes
    <3>2. "recurring" \in Steps \ {"idle"}
      BY DEF Steps
    <3>3. <<Current(w), attempt[w], "SUCCESS">> \in history'
      BY <1>1 DEF queue
    <3> QED
      BY <1>1, <1>3, <2>1, <3>1, <3>2, <3>3, WorkerGoes
  <2>2. CASE jobs[Current(w)].type \notin Tasks /\ NextJob(w)
    BY <1>1, <1>3, <2>2, WorkerGoesOn
  <2> QED
    BY <2>1, <2>2 DEF Tell, Recurs
<1> QED
  BY <1>1, <1>2, <1>4, TellingMoves

\* The source event of a dead letter is FAILED.
LEMMA GiveUpKeeps ==
    ASSUME JobInv, NEW w \in Workers, GiveUp(w)
    PROVE  JobInv'
<1>1. /\ TypeOK /\ pc[w] = "giving up" /\ UNCHANGED <<queue, administration, boot, losses>>
      /\ <<Current(w), attempt[w], "DEAD_LETTER">> \in history
  BY DEF JobInv, GiveUp, WorkerFits
<1>2. event' \in [Events -> EventRow] /\ \A f \in Events : EventFits(f)'
  BY <1>1, Told DEF GiveUp, losses
<1>3. Grows
  BY <1>1, RowsStay DEF queue, losses
<1>4. /\ WorkerTypes' /\ \A v \in Workers : WorkerFits(v)'
      /\ \A v \in Workers \ {w} : WorkerStays(v) /\ Current(v)' = Current(v)
  BY <1>1, <1>3, WorkerGoesOn DEF GiveUp
<1> QED
  BY <1>1, <1>2, <1>4, TellingMoves

-----------------------------------------------------------------------------
(* The scheduler's and the administrators' other steps. *)

\* Nothing but queues, requests and boots changes.
LEMMA Unheeded ==
    ASSUME JobInv, UNCHANGED <<queue, event, workers, losses>>,
           paused' \subseteq {"scheduled", "default"},
           requests' \subseteq {"cancel", "retry"} \X Jobs, asked' \in Nat,
           boot' \in [Replicas -> Tasks \cup {None}]
    PROVE  JobInv'
<1>1. TypeOK /\ jobs' = jobs /\ history' = history /\ event' = event /\ dropped' = dropped
  BY DEF JobInv, queue, losses
<1>2. Grows /\ jobs' \in Seq(JobRow) /\ Jobs' = Jobs
  BY <1>1, RowsStay
<1>3. /\ WorkerTypes' /\ \A w \in Workers : WorkerFits(w)'
      /\ \A v \in Workers : WorkerStays(v) /\ Current(v)' = Current(v)
  BY <1>2, WorkersStay
<1>4. \A k \in Jobs' : JobFits(k)'
  BY <1>1, <1>2, <1>3, JobKept DEF WorkerStays
<1>5. \A e \in Events : EventFits(e)'
  BY <1>1, <1>2, EventKept
<1>6. ChainsFit'
  BY <1>1, <1>2, <1>3, ChainsKept DEF WorkerStays
<1>7. history' \subseteq Entries'
  BY <1>1, <1>2, TypeParts DEF Entries
<1> QED
  BY <1>1, <1>2, <1>3, <1>4, <1>5, <1>6, <1>7, InvAssembled, TypeParts DEF losses

\* A replica looks for what is missing, or dies with it.
LEMMA BootKeeps ==
    ASSUME JobInv, NEW b \in Replicas, DieBooting(b) \/ \E t \in Tasks : FindMissing(b, t)
    PROVE  JobInv'
<1>1. boot' \in [Replicas -> Tasks \cup {None}]
  BY TypeParts DEF JobInv, DieBooting, FindMissing
<1>2. UNCHANGED <<queue, event, administration, workers, losses>>
  BY DEF DieBooting, FindMissing
<1> QED
  BY <1>1, <1>2, Unheeded, TypeParts DEF administration, JobInv

\* Administrators ask, pause and resume.
LEMMA AdministrationKeeps ==
    ASSUME JobInv,
           \/ \E j \in Jobs : AskCancel(j) \/ AskRetry(j)
           \/ \E q \in Pausable : Pause(q) \/ Resume(q)
    PROVE  JobInv'
<1>1. UNCHANGED <<queue, event, boot, workers, losses>>
  BY DEF AskCancel, AskRetry, Asks, Pause, Resume
<1>2. paused' \subseteq {"scheduled", "default"} /\ asked' \in Nat
      /\ requests' \subseteq {"cancel", "retry"} \X Jobs
  <2>1. paused \subseteq {"scheduled", "default"} /\ asked \in Nat
        /\ requests \subseteq {"cancel", "retry"} \X Jobs
    BY TypeParts DEF JobInv
  <2>2. CASE \E j \in Jobs : AskCancel(j) \/ AskRetry(j)
    BY <2>1, <2>2 DEF AskCancel, AskRetry, Asks
  <2>3. CASE \E q \in Pausable : Pause(q) \/ Resume(q)
    BY <2>1, <2>3, BoundsAssumption DEF Pause, Resume
  <2> QED
    BY <2>2, <2>3
<1> QED
  BY <1>1, <1>2, Unheeded, TypeParts DEF JobInv

-----------------------------------------------------------------------------
(* The theorems. *)

\* There are no jobs at first.
LEMMA InitKeeps ==
    ASSUME Init
    PROVE  JobInv
<1>1. jobs = <<>> /\ history = {} /\ dropped = {} /\ Jobs = {}
  BY DEF Init, Jobs
<1>2. <<>> \in Seq(JobRow) /\ <<>> \in Seq(Jobs)
  OBVIOUS
<1>3. WorkerTypes
  BY <1>2 DEF Init, WorkerTypes, Steps
<1>4. event \in [Events -> EventRow] /\ \A e \in Events : EventFits(e)
  BY <1>1 DEF Init, EventRow, EventFits, HasJob
<1>5. TypeOK
  BY <1>1, <1>2, <1>3, <1>4, TypeParts DEF Init
<1>6. \A w \in Workers : WorkerFits(w)
  BY DEF Init, WorkerFits
<1> QED
  BY <1>1, <1>4, <1>5, <1>6 DEF JobInv, ChainsFit

\* Every step keeps the invariant.
LEMMA StepKeeps ==
    ASSUME JobInv, [Next]_vars
    PROVE  JobInv'
<1>1. CASE UNCHANGED vars
  BY <1>1, Unheeded, TypeParts DEF vars, administration, JobInv
<1>2. ASSUME NEW w \in Workers, Work(w) \/ Abandon(w) \/ Die(w) PROVE JobInv'
  BY <1>2, SweepKeeps, ReadKeeps, ClaimKeeps, SucceedKeeps, TellKeeps, RecurKeeps,
     FailAttemptKeeps, GiveUpKeeps, CutKeeps DEF Work
<1>3. ASSUME NEW b \in Replicas, Schedule(b) PROVE JobInv'
  BY <1>3, EnqueueFirstKeeps, BootKeeps DEF Schedule
<1>4. ASSUME NEW e \in Events, Bus(e) PROVE JobInv'
  BY <1>4, EnqueueRuleKeeps, PublishingKeeps DEF Bus
<1>5. CASE Administer
  BY <1>5, AdministrationKeeps, ChangeKeeps DEF Administer
<1> QED
  BY <1>1, <1>2, <1>3, <1>4, <1>5, RipenKeeps DEF Next

\* The invariant holds in every reachable state.
LEMMA InvHolds == Spec => []JobInv
<1> QED
  BY InitKeeps, StepKeeps, PTL DEF Spec

\* Tables and workers hold values of their types, however many sweeps overlap and die.
THEOREM TypeCorrect == Spec => []TypeOK
<1>1. JobInv => TypeOK
  BY DEF JobInv
<1> QED
  BY <1>1, InvHolds, PTL

\* The outcome a job shows is in its history under the number of attempts it shows: a stale
\* attempt overwrites both or neither.
THEOREM OutcomesAreRecorded == Spec => []OutcomeRecorded
<1>1. JobInv => OutcomeRecorded
  BY DEF JobInv, JobFits, Outcomes, OutcomeRecorded
<1> QED
  BY <1>1, InvHolds, PTL

\* A job is given up only when its attempts are used up, and retried only while they are not.
THEOREM DeadLettersAreExhausted == Spec => []DeadOnlyWhenExhausted
<1>1. JobInv => DeadOnlyWhenExhausted
  BY DEF JobInv, JobFits, DeadOnlyWhenExhausted
<1> QED
  BY <1>1, InvHolds, PTL

\* A job that is PROCESSING, which no sweep looks at, has a worker that is running it, unless
\* an attempt at it has been cut short.
THEOREM ProcessingHeld == Spec => []ProcessingIsHeld
<1>1. JobInv => ProcessingIsHeld
  BY DEF JobInv, JobFits, ProcessingIsHeld
<1> QED
  BY <1>1, InvHolds, PTL

\* The chain of a recurring task breaks only where an occurrence was cut short, canceled or
\* given up.
THEOREM ChainsStayAlive == Spec => []ChainAlive
<1>1. JobInv => ChainAlive
  <2> SUFFICES ASSUME JobInv, NEW t \in Tasks, NEW k \in Jobs, jobs[k].type = t
               PROVE  \/ \E j \in { j \in Jobs : jobs[j].type = t } :
                            \/ j \in dropped
                            \/ jobs[j].status \in {"PENDING", "SCHEDULED", "RETRYING",
                                                   "PROCESSING"}
                            \/ jobs[j].status \in {"CANCELLED", "DEAD_LETTER"}
                      \/ \E w \in Workers : /\ pc[w] \in {"telling", "recurring"}
                                            /\ Current(w) \in { j \in Jobs : jobs[j].type = t }
    BY DEF ChainAlive
  <2>1. Lives(t) \/ Continues(t)
    BY DEF JobInv, ChainsFit
  <2>2. \A j \in Jobs : jobs[j].status \in JobStatuses
    BY RowOf DEF JobInv, JobRow
  <2>3. CASE Lives(t)
    BY <2>2, <2>3 DEF Lives, JobStatuses
  <2>4. CASE Continues(t)
    BY <2>4, CurrentOfBatch DEF Continues
  <2> QED
    BY <2>1, <2>3, <2>4
<1> QED
  BY <1>1, InvHolds, PTL

\* An event that triggers jobs is DISPATCHED only after one of them has succeeded, and FAILED
\* only after one has been given up.
THEOREM EventOutcomesEarned == Spec => []EventOutcomeEarned
<1>1. JobInv => EventOutcomeEarned
  BY DEF JobInv, EventFits, Reached, HasJob, EventOutcomeEarned
<1> QED
  BY <1>1, InvHolds, PTL
=============================================================================
