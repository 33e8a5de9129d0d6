------------------------ MODULE SubscriptionLifecycle ------------------------
(***************************************************************************)
(* What the subscription API promises its callers, with no database, no    *)
(* transactions and no concurrent requests in it: every subscription walks *)
(* along the edges of the transition allow-list, and an idempotency key is *)
(* spent by at most one effect.                                            *)
(***************************************************************************)
EXTENDS SubscriptionStatus

CONSTANTS
    Subs,   \* subscriptions that may come to exist
    Keys    \* idempotency keys the callers use

VARIABLES
    status, \* status[s]: the status of subscription s, "ABSENT" before its creation
    spent   \* the keys that have already taken effect

vars == <<status, spent>>

Init ==
    /\ status = [s \in Subs |-> "ABSENT"]
    /\ spent = {}

\* An effect may carry a key that no earlier effect has carried.
Spend == \/ spent' = spent
         \/ \E k \in Keys \ spent : spent' = spent \cup {k}

\* A subscription starts ACTIVE, or TRIALING when it starts with a trial.
Create(s) ==
    /\ status[s] = "ABSENT"
    /\ \E st \in {"ACTIVE", "TRIALING"} : status' = [status EXCEPT ![s] = st]
    /\ Spend

\* A lifecycle transition follows an allowed edge.
Move(s) ==
    /\ status[s] # "ABSENT"
    /\ \E to \in Statuses :
          /\ IsTransitionAllowed(status[s], to)
          /\ status' = [status EXCEPT ![s] = to]
    /\ Spend

\* Scheduling something for later spends the key and moves nothing.
Schedule ==
    /\ Spend
    /\ UNCHANGED status

Next == Schedule \/ \E s \in Subs : Create(s) \/ Move(s)

Spec == Init /\ [][Next]_vars

=============================================================================
