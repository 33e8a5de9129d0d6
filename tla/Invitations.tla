------------------------------ MODULE Invitations ------------------------------
(***************************************************************************)
(* The invitations of one address to one application, and its membership.  *)
(*                                                                         *)
(* Creating, revoking, resending and accepting an invitation each read it  *)
(* first and write it by id later, whatever it has become in between; only *)
(* the membership and the mark ACCEPTED are written together.  A link      *)
(* stands for the invitation whose token it carries: resending it replaces *)
(* the token and renews its time.                                          *)
(***************************************************************************)
EXTENDS Naturals, Sequences

CONSTANTS
    InviteRequests,     \* requests that may be served at the same time
    MaxInvitations      \* bound on the invitations there will ever be

ASSUME InviteAssumption == MaxInvitations \in Nat

VARIABLES
    invitations,    \* the DeveloperInvitation rows of the address, oldest first
    member,         \* there is an ApplicationMember row of the user with the address
    inviteReq,      \* inviteReq[r]: what request r does next, and what it has read
    admitted,       \* history: admitted[i]: how often invitation i has made a membership
    crossed         \* history: invitations written by a request after another had

inviteVars == <<invitations, member, inviteReq, admitted, crossed>>

InvitationStatuses == {"PENDING", "ACCEPTED", "REVOKED", "EXPIRED"}

InvitationIds == 1..Len(invitations)

IdleInvite == [ at |-> "idle", id |-> 0, seen |-> "PENDING" ]

NewInvitation == [ status |-> "PENDING", overdue |-> FALSE ]

PendingInvitations == { i \in InvitationIds : invitations[i].status = "PENDING" }

\* Request r goes on to `at` with invitation i as it is now.
InviteReqHolds(r, at, i) ==
    inviteReq' = [inviteReq EXCEPT ![r] =
        [ at |-> at, id |-> i, seen |-> invitations[i].status ]]

InviteReqGoto(r, at) ==
    inviteReq' = [inviteReq EXCEPT ![r] = [ IdleInvite EXCEPT !.at = at ]]

\* Request r writes a status to the invitation it has read, by id.
WriteInvitation(r, status) ==
    LET i == inviteReq[r].id
    IN  /\ invitations' = [invitations EXCEPT ![i].status = status]
        /\ crossed' = IF invitations[i].status = inviteReq[r].seen THEN crossed
                      ELSE crossed \cup {i}

\* Variant: a link is good as long as its time has not run out.
AcceptableWhileInTime(i) == TRUE

\* accept: the check of the invitation's status.
Acceptable(i) == invitations[i].status = "PENDING"

-----------------------------------------------------------------------------
InviteInit ==
    /\ invitations = <<>> /\ member = FALSE
    /\ inviteReq = [r \in InviteRequests |-> IdleInvite]
    /\ admitted = <<>> /\ crossed = {}

\* create: the address must not be a member's.
CheckAddress(r) ==
    /\ inviteReq[r].at = "idle"
    /\ ~ member
    /\ InviteReqGoto(r, "searching")
    /\ UNCHANGED <<invitations, member, admitted, crossed>>

\* create: one that is pending will be replaced.
FindPending(r) ==
    /\ inviteReq[r].at = "searching"
    /\ \/ PendingInvitations = {} /\ InviteReqGoto(r, "inviting")
       \/ \E i \in PendingInvitations : InviteReqHolds(r, "replacing", i)
    /\ UNCHANGED <<invitations, member, admitted, crossed>>

ReplaceInvitation(r) ==
    /\ inviteReq[r].at = "replacing"
    /\ WriteInvitation(r, "REVOKED")
    /\ InviteReqGoto(r, "inviting")
    /\ UNCHANGED <<member, admitted>>

CreateInvitation(r) ==
    /\ inviteReq[r].at = "inviting"
    /\ Len(invitations) < MaxInvitations
    /\ invitations' = Append(invitations, NewInvitation)
    /\ admitted' = Append(admitted, 0)
    /\ InviteReqGoto(r, "idle")
    /\ UNCHANGED <<member, crossed>>

\* revoke and resend: the invitation must be pending.
ReadInvitation(r, i) ==
    /\ inviteReq[r].at = "idle"
    /\ i \in PendingInvitations
    /\ \E at \in {"revoking", "resending"} : InviteReqHolds(r, at, i)
    /\ UNCHANGED <<invitations, member, admitted, crossed>>

RevokeInvitation(r) ==
    /\ inviteReq[r].at = "revoking"
    /\ WriteInvitation(r, "REVOKED")
    /\ InviteReqGoto(r, "idle")
    /\ UNCHANGED <<member, admitted>>

ResendInvitation(r) ==
    /\ inviteReq[r].at = "resending"
    /\ invitations' = [invitations EXCEPT ![inviteReq[r].id].overdue = FALSE]
    /\ InviteReqGoto(r, "idle")
    /\ UNCHANGED <<member, admitted, crossed>>

\* The time of an invitation runs out.
InvitationLapses(i) ==
    /\ ~ invitations[i].overdue
    /\ invitations' = [invitations EXCEPT ![i].overdue = TRUE]
    /\ UNCHANGED <<member, inviteReq, admitted, crossed>>

\* accept: status and time of the invitation the link leads to.
OpenInvitation(r, i) ==
    /\ inviteReq[r].at = "idle"
    /\ Acceptable(i)
    /\ InviteReqHolds(r, IF invitations[i].overdue THEN "expiring" ELSE "accepting", i)
    /\ UNCHANGED <<invitations, member, admitted, crossed>>

ExpireInvitation(r) ==
    /\ inviteReq[r].at = "expiring"
    /\ WriteInvitation(r, "EXPIRED")
    /\ InviteReqGoto(r, "idle")
    /\ UNCHANGED <<member, admitted>>

\* accept: the transaction.  One who is a member already stays what he is.
AcceptInvitation(r) ==
    /\ inviteReq[r].at = "accepting"
    /\ WriteInvitation(r, "ACCEPTED")
    /\ member' = TRUE
    /\ admitted' = IF member THEN admitted
                   ELSE [admitted EXCEPT ![inviteReq[r].id] = @ + 1]
    /\ InviteReqGoto(r, "idle")

\* A request fails, or its process ends.
EndInviteRequest(r) ==
    /\ inviteReq[r].at # "idle"
    /\ InviteReqGoto(r, "idle")
    /\ UNCHANGED <<invitations, member, admitted, crossed>>

\* Members of the application are also added and removed by hand.
AddApplicationMember ==
    /\ ~ member /\ member' = TRUE
    /\ UNCHANGED <<invitations, inviteReq, admitted, crossed>>

RemoveApplicationMember ==
    /\ member /\ member' = FALSE
    /\ UNCHANGED <<invitations, inviteReq, admitted, crossed>>

InviteNext ==
    \/ \E r \in InviteRequests :
           \/ CheckAddress(r) \/ FindPending(r) \/ ReplaceInvitation(r) \/ CreateInvitation(r)
           \/ \E i \in InvitationIds : ReadInvitation(r, i) \/ OpenInvitation(r, i)
           \/ RevokeInvitation(r) \/ ResendInvitation(r)
           \/ ExpireInvitation(r) \/ AcceptInvitation(r) \/ EndInviteRequest(r)
    \/ \E i \in InvitationIds : InvitationLapses(i)
    \/ AddApplicationMember \/ RemoveApplicationMember

InviteSpec == InviteInit /\ [][InviteNext]_inviteVars

-----------------------------------------------------------------------------
InviteTypeOK ==
    /\ invitations \in Seq([ status : InvitationStatuses, overdue : BOOLEAN ])
    /\ member \in BOOLEAN
    /\ inviteReq \in [InviteRequests ->
           [ at : {"idle", "searching", "replacing", "inviting", "revoking", "resending",
                   "expiring", "accepting"}, id : Nat, seen : InvitationStatuses ]]
    /\ \A r \in InviteRequests :
           inviteReq[r].at \in {"replacing", "revoking", "resending", "expiring", "accepting"}
               => inviteReq[r].id \in InvitationIds
    /\ admitted \in Seq(Nat) /\ Len(admitted) = Len(invitations)
    /\ crossed \subseteq InvitationIds

\* An invitation lets one person in, once, and stays ACCEPTED for it: one that was
\* revoked, replaced or ran out has let nobody in, and someone who was removed does not
\* come back by an invitation that was used - unless two requests crossed over it.
InvitationSpentOnce ==
    \A i \in InvitationIds \ crossed :
        admitted[i] <= (IF invitations[i].status = "ACCEPTED" THEN 1 ELSE 0)
===============================================================================
