------------------------------ MODULE Entitlements ------------------------------
(***************************************************************************)
(* The grants of one entitlement to one organization, and the FeatureAccess*)
(* row that the runtime reads instead of them.                             *)
(*                                                                         *)
(* Grants are created and revoked by hand, and materialized from the plan  *)
(* of the organization's subscription when someone asks for it.  Each of   *)
(* these ends with a recomputation: the valid grants are read, the winner  *)
(* is picked, and the access row is written, without a transaction around  *)
(* them.  Nothing recomputes when a grant lapses or a subscription changes.*)
(***************************************************************************)
EXTENDS Naturals, Sequences, FiniteSets

CONSTANTS
    GrantRequests,  \* requests that may be served at the same time
    HandSources,    \* sources of grants made by hand: of MANUAL, PROMOTIONAL and TRIAL
    PlanValues,     \* values a plan may give the feature
    MaxGrants       \* bound on the grants there will ever be

ASSUME GrantAssumption ==
    /\ HandSources \subseteq {"MANUAL", "PROMOTIONAL", "TRIAL"}
    /\ PlanValues \subseteq Nat \ {0}
    /\ MaxGrants \in Nat

VARIABLES
    grants,         \* the EntitlementGrant rows, oldest first
    access,         \* the FeatureAccess row: its grant and value, NoAccess without a row
    grantReq,       \* grantReq[r]: what request r does next, and what it has read
    overtaken,      \* history: requests whose reading of the grants is out of date
    drifted         \* history: the access row may lag behind the grants

grantVars == <<grants, access, grantReq, overtaken, drifted>>

NoAccess == [ grant |-> 0, value |-> 0 ]

GrantIds == 1..Len(grants)

Priority(source) ==
    CASE source = "MANUAL" -> 3 [] source = "PROMOTIONAL" -> 2 [] source = "TRIAL" -> 1
      [] source = "SUBSCRIPTION" -> 0

\* The candidates of a recomputation.
ValidGrants == { i \in GrantIds : grants[i].status = "ACTIVE" /\ ~ grants[i].lapsed }

Outranks(i, j) ==
    \/ Priority(grants[i].source) > Priority(grants[j].source)
    \/ Priority(grants[i].source) = Priority(grants[j].source) /\ i > j

\* Variant: the newest grant wins, whatever its source.
NewestGrant ==
    IF ValidGrants = {} THEN NoAccess
    ELSE LET i == CHOOSE i \in ValidGrants : \A j \in ValidGrants : j <= i
         IN  [ grant |-> i, value |-> grants[i].value ]

\* pickWinner: the highest priority, and the newest grant of that.
Winner ==
    IF ValidGrants = {} THEN NoAccess
    ELSE LET i == CHOOSE i \in ValidGrants : \A j \in ValidGrants \ {i} : Outranks(i, j)
         IN  [ grant |-> i, value |-> grants[i].value ]

IdleGrantRequest == [ at |-> "idle", grant |-> 0, plan |-> 0, entitled |-> FALSE,
                      active |-> FALSE, winner |-> NoAccess ]

GrantReqDone(r) == grantReq' = [grantReq EXCEPT ![r] = IdleGrantRequest]

Recomputing == { r \in GrantRequests : grantReq[r].at \in {"recomputing", "caching"} }

\* History of a change of the grants: recomputations that have read them are overtaken.
NoteGrants == overtaken' = { r \in GrantRequests : grantReq[r].at = "caching" }

NewGrant(source, value) ==
    [ source |-> source, status |-> "ACTIVE", value |-> value, lapsed |-> FALSE ]

SubscriptionGrants == { i \in GrantIds : grants[i].source = "SUBSCRIPTION" }

-----------------------------------------------------------------------------
GrantInit ==
    /\ grants = <<>>
    /\ access = NoAccess
    /\ grantReq = [r \in GrantRequests |-> IdleGrantRequest]
    /\ overtaken = {} /\ drifted = FALSE

\* validUntil of a grant made by hand passes: nothing recomputes.
LapseGrant(i) ==
    /\ grants[i].source \in HandSources /\ ~ grants[i].lapsed
    /\ grants' = [grants EXCEPT ![i].lapsed = TRUE]
    /\ NoteGrants
    /\ drifted' = TRUE
    /\ UNCHANGED <<access, grantReq>>

\* create: the grant; its recomputation follows.
CreateGrant(r, source) ==
    /\ grantReq[r].at = "idle"
    /\ Len(grants) < MaxGrants
    /\ grants' = Append(grants, NewGrant(source, 1))
    /\ grantReq' = [grantReq EXCEPT ![r].at = "recomputing"]
    /\ NoteGrants
    /\ UNCHANGED <<access, drifted>>

\* revoke: the read and the check; and then the update.
ReadGrant(r, i) ==
    /\ grantReq[r].at = "idle"
    /\ grants[i].status = "ACTIVE"
    /\ grantReq' = [grantReq EXCEPT ![r].at = "revoking", ![r].grant = i]
    /\ UNCHANGED <<grants, access, overtaken, drifted>>

RevokeGrant(r) ==
    /\ grantReq[r].at = "revoking"
    /\ grants' = [grants EXCEPT ![grantReq[r].grant].status = "REVOKED"]
    /\ grantReq' = [grantReq EXCEPT ![r] = [IdleGrantRequest EXCEPT !.at = "recomputing"]]
    /\ NoteGrants
    /\ UNCHANGED <<access, drifted>>

\* syncFromSubscription: the subscription, which belongs to another component and may be
\* in any state, is read with its plan.  When the plan is without the feature, the grant
\* of a former plan is not looked at: it stays as it is.
ReadSubscription(r) ==
    /\ grantReq[r].at = "idle"
    /\ \E value \in PlanValues, entitled \in BOOLEAN :
           grantReq' = [grantReq EXCEPT ![r] =
               [@ EXCEPT !.at = "finding", !.plan = value, !.entitled = entitled]]
    /\ UNCHANGED <<grants, access, overtaken, drifted>>

\* syncFromSubscription: the grant with the subscription's key is looked up.
FindGrant(r) ==
    /\ grantReq[r].at = "finding"
    /\ grantReq' = [grantReq EXCEPT ![r] =
           [@ EXCEPT !.at = "materializing",
                     !.grant = IF SubscriptionGrants = {} THEN 0
                               ELSE CHOOSE i \in SubscriptionGrants : TRUE,
                     !.active = \E i \in SubscriptionGrants : grants[i].status = "ACTIVE"]]
    /\ UNCHANGED <<grants, access, overtaken, drifted>>

\* syncFromSubscription: the grant is created, renewed or revoked, or left alone.
MaterializeGrant(r) ==
    LET q == grantReq[r]
    IN  /\ q.at = "materializing"
        /\ \/ /\ q.entitled /\ q.grant = 0 /\ SubscriptionGrants = {}
              /\ Len(grants) < MaxGrants
              /\ grants' = Append(grants, NewGrant("SUBSCRIPTION", q.plan))
              /\ NoteGrants
           \/ /\ q.entitled /\ q.grant # 0
              /\ grants' = [grants EXCEPT ![q.grant].status = "ACTIVE",
                                          ![q.grant].value = q.plan]
              /\ NoteGrants
           \/ /\ ~ q.entitled /\ q.active
              /\ grants' = [grants EXCEPT ![q.grant].status = "REVOKED"]
              /\ NoteGrants
           \/ /\ ~ q.entitled /\ ~ q.active
              /\ UNCHANGED <<grants, overtaken>>
        /\ grantReq' = [grantReq EXCEPT ![r] = [IdleGrantRequest EXCEPT !.at = "recomputing"]]
        /\ UNCHANGED <<access, drifted>>

\* Another request has created the grant first: its key is unique, and this one fails.
MaterializeTooLate(r) ==
    /\ grantReq[r].at = "materializing"
    /\ grantReq[r].entitled /\ grantReq[r].grant = 0 /\ SubscriptionGrants # {}
    /\ GrantReqDone(r)
    /\ UNCHANGED <<grants, access, overtaken, drifted>>

\* recompute: the candidates are read; and then the access row is written or deleted.
PickWinner(r) ==
    /\ grantReq[r].at = "recomputing"
    /\ grantReq' = [grantReq EXCEPT ![r].at = "caching", ![r].winner = Winner]
    /\ overtaken' = overtaken \ {r}
    /\ UNCHANGED <<grants, access, drifted>>

CacheAccess(r) ==
    /\ grantReq[r].at = "caching"
    /\ access' = grantReq[r].winner
    /\ drifted' = (r \in overtaken)
    /\ overtaken' = overtaken \ {r}
    /\ GrantReqDone(r)
    /\ UNCHANGED grants

\* A request ends before its recomputation is over.
CutGrantRequest(r) ==
    /\ grantReq[r].at # "idle"
    /\ drifted' = (drifted \/ r \in Recomputing)
    /\ overtaken' = overtaken \ {r}
    /\ GrantReqDone(r)
    /\ UNCHANGED <<grants, access>>

GrantNext ==
    \/ \E i \in GrantIds : LapseGrant(i)
    \/ \E r \in GrantRequests :
           \/ \E source \in HandSources : CreateGrant(r, source)
           \/ \E i \in GrantIds : ReadGrant(r, i)
           \/ RevokeGrant(r)
           \/ ReadSubscription(r) \/ FindGrant(r) \/ MaterializeGrant(r) \/ MaterializeTooLate(r)
           \/ PickWinner(r) \/ CacheAccess(r) \/ CutGrantRequest(r)

GrantSpec == GrantInit /\ [][GrantNext]_grantVars

-----------------------------------------------------------------------------
Accesses == [ grant : Nat, value : Nat ]

GrantTypeOK ==
    /\ grants \in Seq([ source : HandSources \cup {"SUBSCRIPTION"},
                        status : {"ACTIVE", "REVOKED"}, value : Nat, lapsed : BOOLEAN ])
    /\ access \in Accesses
    /\ grantReq \in [GrantRequests ->
           [ at : {"idle", "revoking", "finding", "materializing", "recomputing", "caching"},
             grant : Nat, plan : Nat, entitled : BOOLEAN, active : BOOLEAN, winner : Accesses ]]
    /\ overtaken \subseteq Recomputing
    /\ drifted \in BOOLEAN

\* When nobody is recomputing it, the access row is what the grants say - the value of a
\* valid grant that no valid grant outranks, or nothing without one - unless a grant
\* lapsed, a request ended early, or a recomputation was overtaken by another change
\* since the last one that went through.
AccessCurrent ==
    \/ drifted
    \/ Recomputing # {}
    \/ access = NoAccess /\ ValidGrants = {}
    \/ /\ access.grant \in ValidGrants
       /\ access.value = grants[access.grant].value
       /\ \A j \in ValidGrants : ~ Outranks(j, access.grant)
===============================================================================
