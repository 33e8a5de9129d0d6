----------------------------- MODULE UsageCounters -----------------------------
(***************************************************************************)
(* The usage counter of one entitlement of one organization, and its       *)
(* limit.                                                                  *)
(*                                                                         *)
(* An increment reads the limit and the counter, compares, and writes the  *)
(* sum, in a transaction that READ COMMITTED lets others interleave with.  *)
(* A decrement is two statements: one subtracts, one lifts a negative      *)
(* counter to zero.  Administrators change the limit and reset the         *)
(* counter.  periodEnd is never written, so that the lazy reset of a       *)
(* period that is over never happens and is left out.                      *)
(***************************************************************************)
EXTENDS Integers

CONSTANTS
    UsageRequests,  \* requests that may be served at the same time
    UsageLimits,    \* the values of UsageLimit.limitValue
    NoLimit,        \* no row, no value, or isUnlimited
    MaxAmount,      \* bound on the amount of one request
    MaxUsage        \* bound on what is recorded, and on how far below zero

ASSUME UsageAssumption ==
    /\ UsageLimits \subseteq Nat /\ NoLimit \notin Nat
    /\ MaxAmount \in Nat /\ MaxUsage \in Nat

VARIABLES
    limit,      \* the limit in force
    counted,    \* there is a UsageCounter row
    used,       \* UsageCounter.value, 0 without a row
    usageReq,   \* usageReq[r]: what request r does next, and what it has read
    owed,       \* history: the usage recorded since the last reset, never below zero
    tangled     \* history: an increment was written over a value it had not read, or
                \* from one below zero

usageVars == <<limit, counted, used, usageReq, owed, tangled>>

IdleUsageRequest ==
    [ at |-> "idle", amount |-> 0, limit |-> NoLimit, found |-> FALSE, value |-> 0 ]

Exceeds(n, l) == l # NoLimit /\ n > l

AtLeastZero(n) == IF n < 0 THEN 0 ELSE n

\* Variant: the second statement of a decrement forgets its condition.
ClampedAlways(n) == 0

\* The second statement of a decrement: WHERE value < 0 SET value = 0.
Clamped(n) == AtLeastZero(n)

UsageReqDone(r) == usageReq' = [usageReq EXCEPT ![r] = IdleUsageRequest]

-----------------------------------------------------------------------------
UsageInit ==
    /\ limit = NoLimit /\ counted = FALSE /\ used = 0
    /\ usageReq = [r \in UsageRequests |-> IdleUsageRequest]
    /\ owed = 0 /\ tangled = FALSE

\* incrementUsage: the limit.
ReadLimit(r, n) ==
    /\ usageReq[r].at = "idle"
    /\ usageReq' = [usageReq EXCEPT ![r] =
           [ IdleUsageRequest EXCEPT !.at = "counting", !.amount = n, !.limit = limit ]]
    /\ UNCHANGED <<limit, counted, used, owed, tangled>>

\* incrementUsage: the counter, which is created at zero when there is none, and the check.
ReadCounter(r) ==
    /\ usageReq[r].at = "counting"
    /\ ~ Exceeds(used + usageReq[r].amount, usageReq[r].limit)
    /\ usageReq' = [usageReq EXCEPT ![r].at = "charging", ![r].found = counted,
                                    ![r].value = used]
    /\ UNCHANGED <<limit, counted, used, owed, tangled>>

\* incrementUsage: the update, by id, and the commit.  A row of its own that another
\* request has created by then fails it.
RecordUsage(r) ==
    LET req == usageReq[r]
    IN  /\ req.at = "charging"
        /\ req.found \/ ~ counted
        /\ owed + req.amount <= MaxUsage /\ req.value + req.amount <= MaxUsage
        /\ counted' = TRUE
        /\ used' = req.value + req.amount
        /\ owed' = owed + req.amount
        /\ tangled' = (tangled \/ req.value # used \/ req.value < 0)
        /\ UsageReqDone(r)
        /\ UNCHANGED limit

\* decrementUsage: the subtraction, which finds no row before there is one ...
DecrementUsage(r, n) ==
    /\ usageReq[r].at = "idle"
    /\ used - n >= -MaxUsage
    /\ used' = IF counted THEN used - n ELSE used
    /\ owed' = AtLeastZero(owed - n)
    /\ usageReq' = [usageReq EXCEPT ![r].at = "clamping"]
    /\ UNCHANGED <<limit, counted, tangled>>

\* ... and the lift to zero.
ClampUsage(r) ==
    /\ usageReq[r].at = "clamping"
    /\ used' = Clamped(used)
    /\ UsageReqDone(r)
    /\ UNCHANGED <<limit, counted, owed, tangled>>

\* A request is refused, or fails, or its process ends.
EndUsageRequest(r) ==
    /\ usageReq[r].at # "idle"
    /\ UsageReqDone(r)
    /\ UNCHANGED <<limit, counted, used, owed, tangled>>

\* getUsage creates the counter it reports.
GetUsage ==
    /\ ~ counted
    /\ counted' = TRUE
    /\ UNCHANGED <<limit, used, usageReq, owed, tangled>>

\* upsertLimit.
UpsertLimit(l) ==
    /\ limit' = l
    /\ UNCHANGED <<counted, used, usageReq, owed, tangled>>

\* resetCounter.
ResetCounter ==
    /\ counted' = TRUE /\ used' = 0 /\ owed' = 0
    /\ UNCHANGED <<limit, usageReq, tangled>>

UsageNext ==
    \/ \E r \in UsageRequests :
           \/ \E n \in 1..MaxAmount : ReadLimit(r, n) \/ DecrementUsage(r, n)
           \/ ReadCounter(r) \/ RecordUsage(r) \/ ClampUsage(r) \/ EndUsageRequest(r)
    \/ GetUsage
    \/ \E l \in UsageLimits \cup {NoLimit} : UpsertLimit(l)
    \/ ResetCounter

UsageSpec == UsageInit /\ [][UsageNext]_usageVars

-----------------------------------------------------------------------------
UsageTypeOK ==
    /\ limit \in UsageLimits \cup {NoLimit}
    /\ counted \in BOOLEAN
    /\ used \in Int
    /\ usageReq \in [UsageRequests ->
           [ at : {"idle", "counting", "charging", "clamping"}, amount : Nat,
             limit : UsageLimits \cup {NoLimit}, found : BOOLEAN, value : Int ]]
    /\ owed \in Nat
    /\ tangled \in BOOLEAN

\* The counter is the usage that was recorded and not taken back or reset: decrements
\* that overlap each other, increments and resets, and decrements that die between
\* their two statements, neither lose nor invent usage.  Only an increment that
\* overlaps another write of the counter, or finds it below zero, does.
UsageCounted == tangled \/ AtLeastZero(used) = owed
===============================================================================
