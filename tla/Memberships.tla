------------------------------ MODULE Memberships ------------------------------
(***************************************************************************)
(* The members of an organization and its owners.                          *)
(*                                                                         *)
(* A request reads the membership it is about, makes the check its change  *)
(* calls for - an owner grants ownership; an owner who leaves or is        *)
(* demoted leaves another one behind - and then writes, without a          *)
(* transaction around the three.  A platform administrator moves the       *)
(* ownership in one transaction.                                           *)
(***************************************************************************)
EXTENDS Naturals, FiniteSets

CONSTANTS
    People,             \* users
    Founder,            \* the user who creates the organization
    MemberRequests      \* requests that may be served at the same time

ASSUME MemberAssumption == Founder \in People

VARIABLES
    role,       \* role[u]: OrganizationMember.role of u, none before and left after it
    memberReq,  \* memberReq[r]: what request r does next, and what it has read
    stale,      \* history: requests since whose read the owners have changed
    raced       \* history: such a request has taken the ownership from someone

memberVars == <<role, memberReq, stale, raced>>

Roles == {"OWNER", "MEMBER"}

IdleMemberRequest == [ at |-> "idle", user |-> Founder, from |-> "none", to |-> "none" ]

Owners == { u \in People : role[u] = "OWNER" }

ActiveMemberReqs == { r \in MemberRequests : memberReq[r].at # "idle" }

\* Variant: only removals are checked, not demotions.
KeepsAnOwnerIfRemoved(r) ==
    memberReq[r].from = "OWNER" /\ memberReq[r].to = "left"
        => Owners \ {memberReq[r].user} # {}

\* assertNotLastOwner, for a member that was an owner when it was read.
KeepsAnOwner(r) ==
    memberReq[r].from = "OWNER" /\ memberReq[r].to # "OWNER"
        => Owners \ {memberReq[r].user} # {}

\* assertRoleAssignmentAllowed: the one who asks to make an owner is an owner.
MayGrant(r) == memberReq[r].to = "OWNER" => Owners # {}

\* The membership is there for the write: to be changed, or free to be created.
Writable(r) ==
    IF memberReq[r].from = "none" THEN role[memberReq[r].user] = "none"
    ELSE role[memberReq[r].user] \in Roles

\* History of a change of roles made by the requests in S: the others in progress may
\* have read owners that are no owners any more.
NoteOwners(newRole, S) ==
    stale' = IF { u \in People : newRole[u] = "OWNER" } = Owners THEN stale \ S
             ELSE ActiveMemberReqs \ S

-----------------------------------------------------------------------------
MemberInit ==
    /\ role = [u \in People |-> IF u = Founder THEN "OWNER" ELSE "none"]
    /\ memberReq = [r \in MemberRequests |-> IdleMemberRequest]
    /\ stale = {} /\ raced = FALSE

\* addMember, updateMemberRole, removeMember: the membership is read.  People who have
\* left are not added again, so that a membership is named by its user.
ReadMembership(r, u, to) ==
    /\ memberReq[r].at = "idle"
    /\ \/ role[u] = "none" /\ to \in Roles
       \/ role[u] \in Roles /\ to \in Roles \cup {"left"}
    /\ memberReq' = [memberReq EXCEPT ![r] =
           [ at |-> "checking", user |-> u, from |-> role[u], to |-> to ]]
    /\ UNCHANGED <<role, stale, raced>>

CheckMembership(r) ==
    /\ memberReq[r].at = "checking"
    /\ MayGrant(r) /\ KeepsAnOwner(r)
    /\ memberReq' = [memberReq EXCEPT ![r].at = "writing"]
    /\ UNCHANGED <<role, stale, raced>>

\* The request is refused, or its write finds nothing to write, or its process ends.
EndMemberRequest(r) ==
    /\ memberReq[r].at # "idle"
    /\ memberReq' = [memberReq EXCEPT ![r] = IdleMemberRequest]
    /\ stale' = stale \ {r}
    /\ UNCHANGED <<role, raced>>

WriteMembership(r) ==
    LET u == memberReq[r].user
    IN  /\ memberReq[r].at = "writing"
        /\ Writable(r)
        /\ role' = [role EXCEPT ![u] = memberReq[r].to]
        /\ memberReq' = [memberReq EXCEPT ![r] = IdleMemberRequest]
        /\ NoteOwners(role', {r})
        /\ raced' = (raced \/ (r \in stale /\ role[u] = "OWNER" /\ role'[u] # "OWNER"))

\* transferOwnership: the owners are demoted and the new one is written together.
TransferOwnership(u) ==
    /\ role[u] # "left"
    /\ role' = [v \in People |-> IF v = u THEN "OWNER"
                                 ELSE IF v \in Owners THEN "MEMBER" ELSE role[v]]
    /\ NoteOwners(role', {})
    /\ UNCHANGED <<memberReq, raced>>

MemberNext ==
    \/ \E r \in MemberRequests :
           \/ \E u \in People, to \in Roles \cup {"left"} : ReadMembership(r, u, to)
           \/ CheckMembership(r) \/ WriteMembership(r) \/ EndMemberRequest(r)
    \/ \E u \in People : TransferOwnership(u)

MemberSpec == MemberInit /\ [][MemberNext]_memberVars

-----------------------------------------------------------------------------
MemberTypeOK ==
    /\ role \in [People -> Roles \cup {"none", "left"}]
    /\ memberReq \in [MemberRequests ->
           [ at : {"idle", "checking", "writing"}, user : People,
             from : Roles \cup {"none"}, to : Roles \cup {"none", "left"} ]]
    /\ stale \subseteq ActiveMemberReqs
    /\ raced \in BOOLEAN

\* An organization keeps an owner, whatever its members and the platform do to its
\* roles, as long as no request takes an ownership away after the owners have changed
\* under it: that race is the only way to lose the last owner.
OwnerlessOnlyByRace == Owners = {} => raced
===============================================================================
