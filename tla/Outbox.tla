-------------------------------- MODULE Outbox --------------------------------
(***************************************************************************)
(* What the engines that deliver in the background promise.  An item is    *)
(* accepted, its effect happens elsewhere, and attempts are recorded until *)
(* the item is done or given up.                                           *)
(*                                                                         *)
(*  - An item is done only if its effect has happened.                     *)
(*  - It is given up only with all of its MaxAttempts attempts on record:  *)
(*    attempts are numbered without gaps.                                  *)
(*  - Only an item that was given up at some time is reopened by hand.     *)
(*                                                                         *)
(* It does not promise that done is final: an attempt that overlaps with   *)
(* the successful one may be recorded after it.                            *)
(***************************************************************************)
EXTENDS Naturals

CONSTANTS Items, MaxAttempts

VARIABLES
    outcome,    \* outcome[i]: none, open, done, dead or withdrawn
    effects,    \* the items whose effect has happened
    recorded    \* recorded[i]: numbers of the attempts on record

outboxVars == <<outcome, effects, recorded>>

OutboxInit ==
    /\ outcome = [i \in Items |-> "none"]
    /\ effects = {}
    /\ recorded = [i \in Items |-> {}]

\* An item is accepted; one that asks for nothing has its effect at once.
Accept(i) ==
    /\ outcome[i] = "none"
    /\ outcome' = [outcome EXCEPT ![i] = "open"]
    /\ effects' \in {effects, effects \cup {i}}
    /\ UNCHANGED recorded

TakeEffect(i) ==
    /\ outcome[i] # "none"
    /\ effects' = effects \cup {i}
    /\ UNCHANGED <<outcome, recorded>>

\* The n-th attempt is recorded with the outcome it leaves the item in.
RecordAttempt(i, n, result) ==
    /\ outcome[i] \in {"open", "done", "dead"}
    /\ n = 1 \/ n - 1 \in recorded[i]
    /\ \/ result = "done" /\ i \in effects
       \/ result = "open" /\ n < MaxAttempts
       \/ result = "dead" /\ n >= MaxAttempts
    /\ outcome' = [outcome EXCEPT ![i] = result]
    /\ recorded' = [recorded EXCEPT ![i] = @ \cup {n}]
    /\ UNCHANGED effects

Reopen(i) ==
    /\ outcome[i] \in {"open", "done", "dead"}
    /\ MaxAttempts \in recorded[i]
    /\ outcome' = [outcome EXCEPT ![i] = "open"]
    /\ UNCHANGED <<effects, recorded>>

\* Items are withdrawn together, with the destination they were meant for.
Withdraw(S) ==
    /\ outcome' = [i \in Items |-> IF i \in S THEN "withdrawn" ELSE outcome[i]]
    /\ UNCHANGED <<effects, recorded>>

OutboxNext ==
    \/ \E i \in Items : Accept(i) \/ TakeEffect(i) \/ Reopen(i)
    \/ \E i \in Items : \E n \in recorded'[i], result \in {"open", "done", "dead"} :
           RecordAttempt(i, n, result)
    \/ \E S \in SUBSET Items : Withdraw(S)

OutboxSpec == OutboxInit /\ [][OutboxNext]_outboxVars
===============================================================================
