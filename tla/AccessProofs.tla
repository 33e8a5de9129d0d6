------------------------------ MODULE AccessProofs ------------------------------
(***************************************************************************)
(* Theorems about who has access and to how much, for any people, limits,  *)
(* grants and requests: what it takes to lose the last owner, what an      *)
(* invitation is worth, and what an organization's devices, counters and   *)
(* access rows say.                                                        *)
(***************************************************************************)
EXTENDS Memberships, Invitations, UsageCounters, Devices, Entitlements,
        SequenceTheorems, FiniteSetTheorems, WellFoundedInduction, TLAPS

-----------------------------------------------------------------------------
(* Memberships: the inductive invariant. *)

MemberReqs ==
    [ at : {"idle", "checking", "writing"}, user : People,
      from : Roles \cup {"none"}, to : Roles \cup {"none", "left"} ]

\* A request that is not stale knows whether its user is an owner, and once it has been
\* checked, that there is another one if it takes the ownership away.
MemberFits(r) ==
    memberReq[r].at # "idle" /\ r \notin stale =>
        /\ memberReq[r].from = "OWNER" <=> memberReq[r].user \in Owners
        /\ memberReq[r].at = "writing" => KeepsAnOwner(r)

MemberInv ==
    /\ MemberTypeOK
    /\ OwnerlessOnlyByRace
    /\ \A r \in MemberRequests : MemberFits(r)

\* What the type invariant says of each variable.
LEMMA MemberTypes ==
    MemberTypeOK => /\ role \in [People -> Roles \cup {"none", "left"}]
                    /\ memberReq \in [MemberRequests -> MemberReqs]
  BY DEF MemberTypeOK, MemberReqs

-----------------------------------------------------------------------------
(* Memberships: every step preserves the invariant. *)

\* The steps of one request that change no role.
LEMMA RequestStepKeeps ==
    ASSUME MemberInv, NEW r \in MemberRequests,
           \/ \E u \in People, to \in Roles \cup {"left"} : ReadMembership(r, u, to)
           \/ CheckMembership(r) \/ EndMemberRequest(r)
    PROVE  MemberInv'
<1>1. role' = role /\ raced' = raced /\ stale' \in {stale, stale \ {r}}
  BY DEF ReadMembership, CheckMembership, EndMemberRequest
<1>2. Owners' = Owners
  BY <1>1 DEF Owners
<1>3. PICK old \in MemberReqs : old = memberReq[r]
  BY MemberTypes DEF MemberInv
<1>4. PICK new \in MemberReqs :
          /\ memberReq' = [memberReq EXCEPT ![r] = new]
          /\ new.at = "idle" => r \notin stale'
          /\ new.at # "idle" /\ r \notin stale' =>
                 /\ new.from = "OWNER" <=> new.user \in Owners
                 /\ new.at = "writing" =>
                        (new.from = "OWNER" /\ new.to # "OWNER" => Owners \ {new.user} # {})
  <2>1. ASSUME NEW u \in People, NEW to \in Roles \cup {"left"}, ReadMembership(r, u, to)
        PROVE  \E new \in MemberReqs :
                   /\ memberReq' = [memberReq EXCEPT ![r] = new]
                   /\ new.at = "checking" /\ (new.from = "OWNER" <=> new.user \in Owners)
    <3>1. PICK new : new = [ at |-> "checking", user |-> u, from |-> role[u], to |-> to ]
      OBVIOUS
    <3>2. role[u] \in Roles \cup {"none"}
      BY <2>1 DEF ReadMembership
    <3>3. new \in MemberReqs /\ new.at = "checking" /\ new.from = role[u] /\ new.user = u
      BY <3>1, <3>2 DEF MemberReqs
    <3>4. role[u] = "OWNER" <=> u \in Owners
      BY DEF Owners
    <3> QED
      BY <2>1, <3>1, <3>3, <3>4 DEF ReadMembership
  <2>2. CASE CheckMembership(r)
    <3>1. PICK new : new = [old EXCEPT !.at = "writing"]
      OBVIOUS
    <3>2. /\ new \in MemberReqs /\ new.at = "writing"
          /\ new.from = old.from /\ new.user = old.user /\ new.to = old.to
      BY <3>1 DEF MemberReqs
    <3>3. memberReq' = [memberReq EXCEPT ![r] = new] /\ stale' = stale
      BY <1>3, <2>2, <3>1 DEF CheckMembership
    <3>4. old.from = "OWNER" /\ old.to # "OWNER" => Owners \ {old.user} # {}
      BY <1>3, <2>2 DEF CheckMembership, KeepsAnOwner
    <3>5. r \notin stale => (old.from = "OWNER" <=> old.user \in Owners)
      BY <1>3, <2>2 DEF CheckMembership, MemberInv, MemberFits
    <3> QED
      BY <3>2, <3>3, <3>4, <3>5
  <2>3. CASE EndMemberRequest(r)
    <3>1. IdleMemberRequest \in MemberReqs /\ IdleMemberRequest.at = "idle"
      BY MemberAssumption DEF IdleMemberRequest, MemberReqs
    <3> QED
      BY <2>3, <3>1 DEF EndMemberRequest
  <2> QED
    BY <2>1, <2>2, <2>3
<1>5. /\ memberReq' \in [MemberRequests -> MemberReqs]
      /\ \A q \in MemberRequests : memberReq'[q] = IF q = r THEN new ELSE memberReq[q]
  BY <1>4, MemberTypes DEF MemberInv
<1>6. stale' \subseteq ActiveMemberReqs'
  BY <1>1, <1>4, <1>5 DEF MemberInv, MemberTypeOK, ActiveMemberReqs
<1>7. MemberTypeOK'
  BY <1>1, <1>5, <1>6 DEF MemberInv, MemberTypeOK, MemberReqs
<1>8. OwnerlessOnlyByRace'
  BY <1>1, <1>2 DEF MemberInv, OwnerlessOnlyByRace
<1>9. MemberFits(r)'
  BY <1>2, <1>4, <1>5 DEF MemberFits, KeepsAnOwner
<1>10. ASSUME NEW q \in MemberRequests, q # r PROVE MemberFits(q)'
  BY <1>1, <1>2, <1>5, <1>10 DEF MemberInv, MemberFits, KeepsAnOwner
<1> QED
  BY <1>7, <1>8, <1>9, <1>10 DEF MemberInv

\* Those who go on after a change of roles fit: they are stale if the owners changed.
LEMMA NotedFits ==
    ASSUME MemberInv, NEW S \in SUBSET MemberRequests, NEW q \in MemberRequests \ S,
           NoteOwners(role', S), memberReq'[q] = memberReq[q]
    PROVE  MemberFits(q)'
<1>1. CASE Owners' = Owners
  <2>1. stale' = stale \ S
    BY <1>1 DEF NoteOwners, Owners
  <2> QED
    BY <1>1, <2>1 DEF MemberInv, MemberFits, KeepsAnOwner
<1>2. CASE Owners' # Owners
  <2>1. stale' = ActiveMemberReqs \ S
    BY <1>2 DEF NoteOwners, Owners
  <2> QED
    BY <2>1 DEF MemberFits, ActiveMemberReqs
<1> QED
  BY <1>1, <1>2

\* A member is written: an owner only, if another one was left when it was checked.
LEMMA WriteMembershipKeeps ==
    ASSUME MemberInv, NEW r \in MemberRequests, WriteMembership(r)
    PROVE  MemberInv'
<1>1. PICK req \in MemberReqs : req = memberReq[r] /\ req.at = "writing"
  BY MemberTypes DEF MemberInv, WriteMembership
<1>2. PICK u \in People : u = req.user
  BY DEF MemberReqs
<1>3. /\ role' = [role EXCEPT ![u] = req.to]
      /\ memberReq' = [memberReq EXCEPT ![r] = IdleMemberRequest]
      /\ NoteOwners(role', {r})
      /\ raced' = (raced \/ (r \in stale /\ role[u] = "OWNER" /\ role'[u] # "OWNER"))
  BY <1>1, <1>2 DEF WriteMembership
<1>4. IdleMemberRequest \in MemberReqs /\ IdleMemberRequest.at = "idle"
  BY MemberAssumption DEF IdleMemberRequest, MemberReqs
<1>5. /\ memberReq' \in [MemberRequests -> MemberReqs]
      /\ \A q \in MemberRequests :
             memberReq'[q] = IF q = r THEN IdleMemberRequest ELSE memberReq[q]
  BY <1>3, <1>4, MemberTypes DEF MemberInv
<1>6. /\ role' \in [People -> Roles \cup {"none", "left"}]
      /\ \A v \in People : role'[v] = IF v = u THEN req.to ELSE role[v]
  BY <1>3, MemberTypes DEF MemberInv, MemberReqs
<1>7. stale' \subseteq ActiveMemberReqs'
  BY <1>3, <1>5 DEF MemberInv, MemberTypeOK, ActiveMemberReqs, NoteOwners
<1>8. MemberTypeOK'
  BY <1>3, <1>5, <1>6, <1>7 DEF MemberInv, MemberTypeOK, MemberReqs
<1>9. OwnerlessOnlyByRace'
  <2> SUFFICES ASSUME Owners' = {}, ~ raced' PROVE FALSE
    BY DEF OwnerlessOnlyByRace
  <2>1. ~ raced /\ Owners # {}
    BY <1>3 DEF MemberInv, OwnerlessOnlyByRace
  <2>2. \A v \in People \ {u} : v \notin Owners
    BY <1>6 DEF Owners
  <2>3. role[u] = "OWNER" /\ u \in Owners
    BY <2>1, <2>2 DEF Owners
  <2>4. req.to # "OWNER" /\ role'[u] # "OWNER"
    BY <1>6 DEF Owners
  <2>5. r \notin stale
    BY <1>3, <2>3, <2>4
  <2>6. req.from = "OWNER" /\ Owners \ {u} # {}
    BY <1>1, <1>2, <2>3, <2>4, <2>5 DEF MemberInv, MemberFits, KeepsAnOwner
  <2> QED
    BY <2>2, <2>6 DEF Owners
<1>10. \A q \in MemberRequests : MemberFits(q)'
  <2>1. MemberFits(r)'
    BY <1>4, <1>5 DEF MemberFits
  <2>2. ASSUME NEW q \in MemberRequests, q # r PROVE MemberFits(q)'
    BY <1>3, <1>5, <2>2, NotedFits
  <2> QED
    BY <2>1, <2>2
<1> QED
  BY <1>8, <1>9, <1>10 DEF MemberInv

\* The transfer writes the new owner and the former one.
LEMMA TransferOwnershipKeeps ==
    ASSUME MemberInv, NEW u \in People, TransferOwnership(u)
    PROVE  MemberInv'
<1>1. role' \in [People -> Roles \cup {"none", "left"}]
  BY MemberTypes DEF MemberInv, TransferOwnership, Roles
<1>2. u \in Owners'
  BY DEF TransferOwnership, Owners
<1>3. stale' \subseteq ActiveMemberReqs'
  BY DEF TransferOwnership, MemberInv, MemberTypeOK, ActiveMemberReqs, NoteOwners
<1>4. MemberTypeOK'
  BY <1>1, <1>3 DEF TransferOwnership, MemberInv, MemberTypeOK
<1>5. \A q \in MemberRequests : MemberFits(q)'
  <2>1. {} \in SUBSET MemberRequests /\ MemberRequests \ {} = MemberRequests
    OBVIOUS
  <2> QED
    BY <2>1, NotedFits DEF TransferOwnership
<1> QED
  BY <1>2, <1>4, <1>5 DEF MemberInv, OwnerlessOnlyByRace

\* One step of any request.
LEMMA MemberStepKeeps ==
    ASSUME MemberInv, [MemberNext]_memberVars
    PROVE  MemberInv'
<1>1. CASE UNCHANGED memberVars
  BY <1>1 DEF memberVars, MemberInv, MemberTypeOK, ActiveMemberReqs, OwnerlessOnlyByRace,
     MemberFits, KeepsAnOwner, Owners
<1> QED
  BY <1>1, RequestStepKeeps, WriteMembershipKeeps, TransferOwnershipKeeps DEF MemberNext

\* The founder is the owner at first.
LEMMA MemberInitKeeps ==
    ASSUME MemberInit
    PROVE  MemberInv
<1>1. Founder \in Owners
  BY MemberAssumption DEF MemberInit, Owners
<1>2. IdleMemberRequest \in MemberReqs /\ IdleMemberRequest.at = "idle"
  BY MemberAssumption DEF IdleMemberRequest, MemberReqs
<1>3. MemberTypeOK
  BY <1>2 DEF MemberInit, MemberTypeOK, MemberReqs, Roles
<1> QED
  BY <1>1, <1>2, <1>3 DEF MemberInv, OwnerlessOnlyByRace, MemberFits, MemberInit

\* Whatever is asked of an organization and in whichever order, it has an owner unless a
\* request took an ownership away on a reading of the owners that was out of date.
THEOREM OwnersRemain == MemberSpec => []OwnerlessOnlyByRace
<1>1. MemberInv => OwnerlessOnlyByRace
  BY DEF MemberInv
<1> QED
  BY <1>1, MemberInitKeeps, MemberStepKeeps, PTL DEF MemberSpec

-----------------------------------------------------------------------------
(* Invitations: the inductive invariant. *)

InvitationRows == [ status : InvitationStatuses, overdue : BOOLEAN ]

InviteReqs ==
    [ at : {"idle", "searching", "replacing", "inviting", "revoking", "resending",
            "expiring", "accepting"}, id : Nat, seen : InvitationStatuses ]

Holding == {"replacing", "revoking", "resending", "expiring", "accepting"}

\* What a request holds it has seen pending.
SeenPending(r) ==
    inviteReq[r].at \in Holding => inviteReq[r].id \in InvitationIds /\ inviteReq[r].seen = "PENDING"

InviteInv ==
    /\ InviteTypeOK
    /\ InvitationSpentOnce
    /\ \A r \in InviteRequests : SeenPending(r)

\* What the type invariant says of each variable.
LEMMA InviteTypes ==
    InviteTypeOK => /\ invitations \in Seq(InvitationRows) /\ Len(invitations) \in Nat
                    /\ inviteReq \in [InviteRequests -> InviteReqs]
                    /\ admitted \in Seq(Nat) /\ Len(admitted) = Len(invitations)
  BY LenProperties DEF InviteTypeOK, InvitationRows, InviteReqs

\* Request r takes a new state, and the rows do not get fewer.
LEMMA InviteReqTyped ==
    ASSUME InviteInv, NEW r \in InviteRequests, NEW new \in InviteReqs,
           inviteReq' = [inviteReq EXCEPT ![r] = new],
           InvitationIds \subseteq InvitationIds',
           new.at \in Holding => new.id \in InvitationIds /\ new.seen = "PENDING"
    PROVE  /\ inviteReq' \in [InviteRequests -> InviteReqs]
           /\ \A q \in InviteRequests : SeenPending(q)'
<1>1. /\ inviteReq' \in [InviteRequests -> InviteReqs]
      /\ \A q \in InviteRequests : inviteReq'[q] = IF q = r THEN new ELSE inviteReq[q]
  BY InviteTypes DEF InviteInv
<1>2. SeenPending(r)'
  BY <1>1 DEF SeenPending
<1>3. ASSUME NEW q \in InviteRequests, q # r PROVE SeenPending(q)'
  BY <1>1, <1>3 DEF InviteInv, SeenPending
<1> QED
  BY <1>1, <1>2, <1>3

\* Request r goes to a stage in which it holds no invitation.
LEMMA InviteReqGoes ==
    ASSUME InviteInv, NEW r \in InviteRequests, NEW at \in {"idle", "searching", "inviting"},
           InviteReqGoto(r, at), InvitationIds \subseteq InvitationIds'
    PROVE  /\ inviteReq' \in [InviteRequests -> InviteReqs]
           /\ \A q \in InviteRequests : SeenPending(q)'
<1>1. PICK new : new = [ IdleInvite EXCEPT !.at = at ]
  OBVIOUS
<1>2. new \in InviteReqs /\ new.at = at
  BY <1>1 DEF IdleInvite, InviteReqs, InvitationStatuses
<1>3. inviteReq' = [inviteReq EXCEPT ![r] = new] /\ new.at \notin Holding
  BY <1>1, <1>2 DEF InviteReqGoto, Holding
<1> QED
  BY <1>2, <1>3, InviteReqTyped

\* The invariant, put together from its parts.
LEMMA InviteAssembled ==
    ASSUME invitations' \in Seq(InvitationRows), member' \in BOOLEAN,
           inviteReq' \in [InviteRequests -> InviteReqs],
           \A q \in InviteRequests : SeenPending(q)',
           admitted' \in Seq(Nat), Len(admitted') = Len(invitations'),
           crossed' \subseteq InvitationIds', InvitationSpentOnce'
    PROVE  InviteInv'
<1>1. InviteTypeOK'
  BY DEF InviteTypeOK, InvitationRows, InviteReqs, SeenPending, Holding
<1> QED
  BY <1>1 DEF InviteInv

\* The steps that write no invitation.
LEMMA InviteReadsKeep ==
    ASSUME InviteInv, NEW r \in InviteRequests,
           \/ CheckAddress(r) \/ FindPending(r) \/ EndInviteRequest(r)
           \/ \E i \in InvitationIds : ReadInvitation(r, i) \/ OpenInvitation(r, i)
    PROVE  InviteInv'
<1>1. UNCHANGED <<invitations, member, admitted, crossed>>
  BY DEF CheckAddress, FindPending, EndInviteRequest, ReadInvitation, OpenInvitation
<1>2. InvitationIds' = InvitationIds
  BY <1>1 DEF InvitationIds
<1>3. /\ inviteReq' \in [InviteRequests -> InviteReqs]
      /\ \A q \in InviteRequests : SeenPending(q)'
  <2>1. ASSUME NEW at \in {"idle", "searching", "inviting"}, InviteReqGoto(r, at)
        PROVE  <1>3
    BY <1>2, <2>1, InviteReqGoes
  <2>2. ASSUME NEW i \in InvitationIds, NEW at \in Holding, InviteReqHolds(r, at, i),
               invitations[i].status = "PENDING"
        PROVE  <1>3
    <3>1. PICK new : new = [ at |-> at, id |-> i, seen |-> "PENDING" ]
      OBVIOUS
    <3>2. i \in Nat
      BY DEF InvitationIds
    <3>3. new \in InviteReqs /\ new.id = i /\ new.seen = "PENDING"
      BY <3>1, <3>2 DEF InviteReqs, InvitationStatuses, Holding
    <3>4. inviteReq' = [inviteReq EXCEPT ![r] = new]
      BY <2>2, <3>1 DEF InviteReqHolds
    <3> QED
      BY <1>2, <3>3, <3>4, InviteReqTyped
  <2>3. CASE CheckAddress(r) \/ EndInviteRequest(r)
    BY <2>1, <2>3 DEF CheckAddress, EndInviteRequest
  <2>4. CASE FindPending(r)
    BY <2>1, <2>2, <2>4 DEF FindPending, PendingInvitations, Holding
  <2>5. ASSUME NEW i \in InvitationIds, ReadInvitation(r, i) \/ OpenInvitation(r, i)
        PROVE  <1>3
    BY <2>2, <2>5 DEF ReadInvitation, OpenInvitation, PendingInvitations, Acceptable, Holding
  <2> QED
    BY <2>3, <2>4, <2>5
<1>4. InvitationSpentOnce'
  BY <1>1, <1>2 DEF InviteInv, InvitationSpentOnce
<1> QED
  BY <1>1, <1>2, <1>3, <1>4, InviteTypes, InviteAssembled DEF InviteInv, InviteTypeOK

\* A row that is written in place.
LEMMA InvitationWritten ==
    ASSUME InviteInv, NEW i \in InvitationIds, NEW row \in InvitationRows,
           invitations' = [invitations EXCEPT ![i] = row]
    PROVE  /\ invitations' \in Seq(InvitationRows) /\ Len(invitations') = Len(invitations)
           /\ InvitationIds' = InvitationIds
           /\ \A j \in InvitationIds : invitations'[j] = IF j = i THEN row ELSE invitations[j]
<1>1. invitations \in Seq(InvitationRows) /\ i \in 1..Len(invitations)
  BY InviteTypes DEF InviteInv, InvitationIds
<1>2. /\ invitations' \in Seq(InvitationRows) /\ Len(invitations') = Len(invitations)
      /\ \A j \in 1..Len(invitations) :
             invitations'[j] = IF j = i THEN row ELSE invitations[j]
  BY <1>1, ExceptSeq
<1> QED
  BY <1>2 DEF InvitationIds

\* The steps that move time, which no membership depends on.
LEMMA InvitationTimesKeep ==
    ASSUME InviteInv,
           \/ \E r \in InviteRequests : ResendInvitation(r)
           \/ \E i \in InvitationIds : InvitationLapses(i)
    PROVE  InviteInv'
<1>1. PICK i \in InvitationIds, b \in BOOLEAN :
          /\ invitations' = [invitations EXCEPT ![i].overdue = b]
          /\ \/ \E r \in InviteRequests : InviteReqGoto(r, "idle")
             \/ UNCHANGED inviteReq
  <2>1. ASSUME NEW r \in InviteRequests, ResendInvitation(r)
        PROVE  inviteReq[r].id \in InvitationIds
    BY <2>1 DEF ResendInvitation, InviteInv, SeenPending, Holding
  <2> QED
    BY <2>1 DEF ResendInvitation, InvitationLapses
<1>2. UNCHANGED <<member, admitted, crossed>>
  BY DEF ResendInvitation, InvitationLapses
<1>3. PICK old \in InvitationRows : old = invitations[i]
  BY InviteTypes, ElementOfSeq DEF InviteInv, InvitationIds
<1>4. PICK row : row = [old EXCEPT !.overdue = b]
  OBVIOUS
<1>5. row \in InvitationRows /\ row.status = old.status
  BY <1>4 DEF InvitationRows
<1>6. invitations' = [invitations EXCEPT ![i] = row]
  BY <1>1, <1>3, <1>4, InviteTypes DEF InviteInv
<1>7. /\ invitations' \in Seq(InvitationRows) /\ Len(invitations') = Len(invitations)
      /\ InvitationIds' = InvitationIds
      /\ \A j \in InvitationIds : invitations'[j] = IF j = i THEN row ELSE invitations[j]
  BY <1>5, <1>6, InvitationWritten
<1>8. /\ inviteReq' \in [InviteRequests -> InviteReqs]
      /\ \A q \in InviteRequests : SeenPending(q)'
  <2>1. CASE UNCHANGED inviteReq
    BY <1>7, <2>1, InviteTypes DEF InviteInv, SeenPending
  <2>2. ASSUME NEW r \in InviteRequests, InviteReqGoto(r, "idle") PROVE <1>8
    BY <1>7, <2>2, InviteReqGoes
  <2> QED
    BY <1>1, <2>1, <2>2
<1>9. InvitationSpentOnce'
  BY <1>2, <1>3, <1>5, <1>7 DEF InviteInv, InvitationSpentOnce
<1> QED
  BY <1>2, <1>7, <1>8, <1>9, InviteTypes, InviteAssembled DEF InviteInv, InviteTypeOK

\* A new invitation has let nobody in.
LEMMA CreateInvitationKeeps ==
    ASSUME InviteInv, NEW r \in InviteRequests, CreateInvitation(r)
    PROVE  InviteInv'
<1>1. PICK n \in Nat : n = Len(invitations)
  BY InviteTypes DEF InviteInv
<1>2. NewInvitation \in InvitationRows
  BY DEF NewInvitation, InvitationRows, InvitationStatuses
<1>3. /\ invitations' \in Seq(InvitationRows) /\ Len(invitations') = n + 1
      /\ \A j \in 1..n : invitations'[j] = invitations[j]
  BY <1>1, <1>2, InviteTypes, AppendProperties DEF InviteInv, CreateInvitation
<1>4. /\ admitted' \in Seq(Nat) /\ Len(admitted') = n + 1
      /\ \A j \in 1..n : admitted'[j] = admitted[j]
      /\ admitted'[n + 1] = 0
  BY <1>1, InviteTypes, AppendProperties DEF InviteInv, CreateInvitation
<1>5. InvitationIds = 1..n /\ InvitationIds' = (1..n) \cup {n + 1}
  BY <1>1, <1>3 DEF InvitationIds
<1>6. /\ inviteReq' \in [InviteRequests -> InviteReqs]
      /\ \A q \in InviteRequests : SeenPending(q)'
  BY <1>5, InviteReqGoes DEF CreateInvitation
<1>7. crossed' = crossed /\ member' = member
  BY DEF CreateInvitation
<1>8. InvitationSpentOnce'
  BY <1>3, <1>4, <1>5, <1>7 DEF InviteInv, InvitationSpentOnce
<1> QED
  BY <1>3, <1>4, <1>5, <1>6, <1>7, <1>8, InviteAssembled DEF InviteInv, InviteTypeOK

\* The steps that write the status of an invitation, and what they do to memberships.
LEMMA StatusesKeep ==
    ASSUME InviteInv, NEW r \in InviteRequests,
           \/ ReplaceInvitation(r) \/ RevokeInvitation(r) \/ ExpireInvitation(r)
           \/ AcceptInvitation(r)
    PROVE  InviteInv'
<1>1. PICK i \in InvitationIds : i = inviteReq[r].id /\ inviteReq[r].seen = "PENDING"
  BY DEF ReplaceInvitation, RevokeInvitation, ExpireInvitation, AcceptInvitation,
     InviteInv, SeenPending, Holding
<1>2. PICK status \in InvitationStatuses, more \in BOOLEAN :
          /\ WriteInvitation(r, status)
          /\ more => status = "ACCEPTED"
          /\ admitted' = IF more THEN [admitted EXCEPT ![i] = admitted[i] + 1] ELSE admitted
          /\ member' \in BOOLEAN
          /\ \E at \in {"idle", "inviting"} : InviteReqGoto(r, at)
  <2>1. CASE AcceptInvitation(r)
    <3>1. "ACCEPTED" \in InvitationStatuses /\ (~ member) \in BOOLEAN
      BY DEF InvitationStatuses
    <3> QED
      BY <1>1, <2>1, <3>1 DEF AcceptInvitation
  <2>2. CASE ~ AcceptInvitation(r)
    <3>1. UNCHANGED <<member, admitted>> /\ member \in BOOLEAN
      BY <2>2 DEF ReplaceInvitation, RevokeInvitation, ExpireInvitation, InviteInv, InviteTypeOK
    <3>2. \E status \in {"REVOKED", "EXPIRED"} : WriteInvitation(r, status)
      BY <2>2 DEF ReplaceInvitation, RevokeInvitation, ExpireInvitation
    <3>3. \E at \in {"idle", "inviting"} : InviteReqGoto(r, at)
      BY <2>2 DEF ReplaceInvitation, RevokeInvitation, ExpireInvitation
    <3>4. FALSE \in BOOLEAN /\ {"REVOKED", "EXPIRED"} \subseteq InvitationStatuses
      BY DEF InvitationStatuses
    <3> QED
      BY <3>1, <3>2, <3>3, <3>4
  <2> QED
    BY <2>1, <2>2
<1>3. PICK old \in InvitationRows : old = invitations[i]
  BY InviteTypes, ElementOfSeq DEF InviteInv, InvitationIds
<1>4. PICK row : row = [old EXCEPT !.status = status]
  OBVIOUS
<1>5. row \in InvitationRows /\ row.status = status
  BY <1>4 DEF InvitationRows
<1>6. invitations' = [invitations EXCEPT ![i] = row]
  BY <1>1, <1>2, <1>3, <1>4, InviteTypes DEF InviteInv, WriteInvitation
<1>7. /\ invitations' \in Seq(InvitationRows) /\ Len(invitations') = Len(invitations)
      /\ InvitationIds' = InvitationIds
      /\ \A j \in InvitationIds : invitations'[j] = IF j = i THEN row ELSE invitations[j]
  BY <1>5, <1>6, InvitationWritten
<1>8. /\ inviteReq' \in [InviteRequests -> InviteReqs]
      /\ \A q \in InviteRequests : SeenPending(q)'
  BY <1>2, <1>7, InviteReqGoes
<1>9. /\ admitted' \in Seq(Nat) /\ Len(admitted') = Len(admitted)
      /\ \A j \in InvitationIds :
             admitted'[j] = IF more /\ j = i THEN admitted[j] + 1 ELSE admitted[j]
  <2>1. admitted \in Seq(Nat) /\ InvitationIds = 1..Len(admitted) /\ admitted[i] + 1 \in Nat
    BY InviteTypes, ElementOfSeq DEF InviteInv, InvitationIds
  <2> QED
    BY <1>2, <2>1, ExceptSeq
<1>10. crossed' = IF old.status = "PENDING" THEN crossed ELSE crossed \cup {i}
  BY <1>1, <1>2, <1>3 DEF WriteInvitation
<1>11. InvitationSpentOnce'
  <2> SUFFICES ASSUME NEW j \in InvitationIds, j \notin crossed'
               PROVE  admitted'[j] <= (IF invitations'[j].status = "ACCEPTED" THEN 1 ELSE 0)
    BY <1>7 DEF InvitationSpentOnce
  <2>1. admitted[j] <= (IF invitations[j].status = "ACCEPTED" THEN 1 ELSE 0) /\ admitted[j] \in Nat
    BY <1>10, InviteTypes, ElementOfSeq DEF InviteInv, InvitationSpentOnce, InvitationIds
  <2>2. CASE j # i
    BY <1>7, <1>9, <2>1, <2>2
  <2>3. CASE j = i
    <3>1. admitted[j] = 0
      BY <1>3, <1>10, <2>1, <2>3
    <3>2. invitations'[j].status = status /\ (status = "ACCEPTED" \/ ~ more)
      BY <1>2, <1>5, <1>7, <2>3
    <3> QED
      BY <1>9, <3>1, <3>2
  <2> QED
    BY <2>2, <2>3
<1> QED
  BY <1>2, <1>7, <1>8, <1>9, <1>10, <1>11, InviteTypes, InviteAssembled
     DEF InviteInv, InviteTypeOK

\* One step of any request.
LEMMA InviteStepKeeps ==
    ASSUME InviteInv, [InviteNext]_inviteVars
    PROVE  InviteInv'
<1>1. CASE UNCHANGED inviteVars
  BY <1>1 DEF inviteVars, InviteInv, InviteTypeOK, InvitationIds, InvitationSpentOnce,
     SeenPending
<1>2. CASE AddApplicationMember \/ RemoveApplicationMember
  BY <1>2 DEF AddApplicationMember, RemoveApplicationMember, InviteInv, InviteTypeOK,
     InvitationIds, InvitationSpentOnce, SeenPending
<1> QED
  BY <1>1, <1>2, InviteReadsKeep, InvitationTimesKeep, CreateInvitationKeeps, StatusesKeep
     DEF InviteNext

\* Nobody is invited at first.
LEMMA InviteInitKeeps ==
    ASSUME InviteInit
    PROVE  InviteInv
<1>1. InvitationIds = {} /\ Len(invitations) = 0 /\ Len(admitted) = 0
  BY DEF InviteInit, InvitationIds
<1>2. IdleInvite \in InviteReqs /\ IdleInvite.at = "idle"
  BY DEF IdleInvite, InviteReqs, InvitationStatuses
<1>3. invitations \in Seq(InvitationRows) /\ admitted \in Seq(Nat)
  BY DEF InviteInit
<1>4. InviteTypeOK
  BY <1>1, <1>2, <1>3 DEF InviteInit, InviteTypeOK, InvitationRows, InviteReqs
<1> QED
  BY <1>1, <1>2, <1>4 DEF InviteInv, InviteInit, InvitationSpentOnce, SeenPending, Holding

\* Whatever requests race over it, an invitation lets somebody in at most once, and only
\* by being accepted - as long as no two of them crossed over it.
THEOREM InvitationsSpentOnce == InviteSpec => []InvitationSpentOnce
<1>1. InviteInv => InvitationSpentOnce
  BY DEF InviteInv
<1> QED
  BY <1>1, InviteInitKeeps, InviteStepKeeps, PTL DEF InviteSpec

-----------------------------------------------------------------------------
(* UsageCounters. *)

UsageReqs == [ at : {"idle", "counting", "charging", "clamping"}, amount : Nat,
               limit : UsageLimits \cup {NoLimit}, found : BOOLEAN, value : Int ]

\* There is no usage without a row.
UsageInv == UsageTypeOK /\ (used = 0 \/ counted) /\ UsageCounted

\* Nothing is used at first.
LEMMA UsageInitInv == UsageInit => UsageInv
<1> SUFFICES ASSUME UsageInit PROVE UsageInv
  OBVIOUS
<1>1. IdleUsageRequest \in UsageReqs
  BY DEF IdleUsageRequest, UsageReqs
<1>2. usageReq \in [UsageRequests -> UsageReqs]
  BY <1>1 DEF UsageInit
<1>3. UsageTypeOK
  <2>1. 0 \in Int /\ 0 \in Nat
    OBVIOUS
  <2>2. counted \in BOOLEAN /\ tangled \in BOOLEAN
    BY Zenon DEF UsageInit
  <2> QED
    BY <1>2, <2>1, <2>2, Zenon DEF UsageInit, UsageTypeOK, UsageReqs
<1>4. AtLeastZero(0) = 0
  BY DEF AtLeastZero
<1>5. UsageCounted
  <2>1. used = 0 /\ owed = 0
    BY DEF UsageInit
  <2> QED
    BY <1>4, <2>1 DEF UsageCounted
<1> QED
  BY <1>3, <1>5 DEF UsageInit, UsageInv

\* The rows that the steps of a request leave behind.
LEMMA UsageRows ==
    ASSUME UsageTypeOK, NEW r \in UsageRequests
    PROVE  /\ usageReq[r] \in UsageReqs /\ IdleUsageRequest \in UsageReqs
           /\ \A row \in UsageReqs :
                  [usageReq EXCEPT ![r] = row] \in [UsageRequests -> UsageReqs]
  BY DEF UsageTypeOK, UsageReqs, IdleUsageRequest

\* A request that reads, or ends, leaves the counter.
LEMMA UsageReadKeeps ==
    ASSUME UsageInv, NEW r \in UsageRequests,
           \/ \E n \in 1..MaxAmount : ReadLimit(r, n)
           \/ ReadCounter(r)
           \/ EndUsageRequest(r)
    PROVE  UsageInv'
<1>1. UNCHANGED <<limit, counted, used, owed, tangled>>
  BY DEF ReadLimit, ReadCounter, EndUsageRequest
<1>2. usageReq' \in [UsageRequests -> UsageReqs]
  <2>1. CASE \E n \in 1..MaxAmount : ReadLimit(r, n)
    <3>1. PICK n \in 1..MaxAmount : ReadLimit(r, n)
      BY <2>1
    <3>2. PICK row : row = [ IdleUsageRequest EXCEPT !.at = "counting", !.amount = n,
                                                    !.limit = limit ]
      OBVIOUS
    <3>3. n \in Nat /\ limit \in UsageLimits \cup {NoLimit} /\ IdleUsageRequest \in UsageReqs
      BY UsageAssumption, UsageRows DEF UsageInv, UsageTypeOK
    <3>4. row \in UsageReqs
      BY <3>2, <3>3 DEF UsageReqs
    <3>5. usageReq' = [usageReq EXCEPT ![r] = row]
      BY <3>1, <3>2 DEF ReadLimit
    <3> QED
      BY <3>4, <3>5, UsageRows DEF UsageInv
  <2>2. CASE ReadCounter(r)
    <3>1. PICK row : row = [ usageReq[r] EXCEPT !.at = "charging", !.found = counted,
                                               !.value = used ]
      OBVIOUS
    <3>2. row \in UsageReqs
      BY <3>1, UsageRows DEF UsageInv, UsageTypeOK, UsageReqs
    <3>3. usageReq' = [usageReq EXCEPT ![r] = row]
      BY <2>2, <3>1 DEF ReadCounter, UsageInv, UsageTypeOK
    <3> QED
      BY <3>2, <3>3, UsageRows DEF UsageInv
  <2>3. CASE EndUsageRequest(r)
    BY <2>3, UsageRows DEF EndUsageRequest, UsageReqDone, UsageInv
  <2> QED
    BY <2>1, <2>2, <2>3
<1> QED
  BY <1>1, <1>2 DEF UsageInv, UsageTypeOK, UsageReqs, UsageCounted

\* The sum is of the counter as it is, or the increment is tangled.
LEMMA RecordKeeps ==
    ASSUME UsageInv, NEW r \in UsageRequests, RecordUsage(r)
    PROVE  UsageInv'
<1>1. usageReq' \in [UsageRequests -> UsageReqs]
  BY UsageRows DEF RecordUsage, UsageReqDone, UsageInv
<1>2. usageReq[r].amount \in Nat /\ usageReq[r].value \in Int
  BY UsageRows DEF UsageInv, UsageReqs
<1>3. /\ limit' = limit /\ counted' = TRUE
      /\ used' = usageReq[r].value + usageReq[r].amount
      /\ owed' = owed + usageReq[r].amount
      /\ tangled' = (tangled \/ usageReq[r].value # used \/ usageReq[r].value < 0)
  BY DEF RecordUsage
<1>4. tangled' \in BOOLEAN
  BY <1>3
<1>5. UsageTypeOK'
  BY <1>1, <1>2, <1>3, <1>4 DEF UsageInv, UsageTypeOK, UsageReqs
<1>6. ASSUME ~ tangled'
      PROVE  AtLeastZero(used') = owed'
  <2>1. ~ tangled /\ usageReq[r].value = used /\ used >= 0
    <3>1. ~ (tangled \/ usageReq[r].value # used \/ usageReq[r].value < 0)
      BY <1>3, <1>6, Zenon
    <3>2. ~ tangled /\ usageReq[r].value = used
      BY <3>1, Zenon
    <3>3. ~ (usageReq[r].value < 0)
      BY <3>1, Zenon
    <3> QED
      BY <1>2, <3>2, <3>3
  <2>2. used = owed /\ owed \in Nat
    BY <1>2, <2>1 DEF UsageInv, UsageTypeOK, UsageCounted, AtLeastZero
  <2> QED
    BY <1>2, <1>3, <2>1, <2>2 DEF AtLeastZero
<1> QED
  BY <1>3, <1>5, <1>6 DEF UsageInv, UsageCounted, AtLeastZero

\* What is subtracted from the counter is subtracted from what is owed.
LEMMA DecrementKeeps ==
    ASSUME UsageInv, NEW r \in UsageRequests, NEW n \in 1..MaxAmount, DecrementUsage(r, n)
    PROVE  UsageInv'
<1>1. n \in Nat
  BY UsageAssumption
<1>2. usageReq' \in [UsageRequests -> UsageReqs]
  <2>1. PICK row : row = [ usageReq[r] EXCEPT !.at = "clamping" ]
    OBVIOUS
  <2>2. row \in UsageReqs
    BY <2>1, UsageRows DEF UsageInv, UsageReqs
  <2>3. usageReq' = [usageReq EXCEPT ![r] = row]
    BY <2>1 DEF DecrementUsage, UsageInv, UsageTypeOK
  <2> QED
    BY <2>2, <2>3, UsageRows DEF UsageInv
<1>3. /\ UNCHANGED <<limit, counted, tangled>>
      /\ used' = (IF counted THEN used - n ELSE used) /\ owed' = AtLeastZero(owed - n)
  BY DEF DecrementUsage
<1>4. used \in Int /\ owed \in Nat
  BY DEF UsageInv, UsageTypeOK
<1>5. used' \in Int /\ owed' \in Nat
  BY <1>1, <1>3, <1>4 DEF AtLeastZero
<1>6. AtLeastZero(used) = owed => AtLeastZero(used') = owed'
  BY <1>1, <1>3, <1>4 DEF AtLeastZero, UsageInv
<1>7. UsageTypeOK'
  BY <1>2, <1>3, <1>5 DEF UsageInv, UsageTypeOK, UsageReqs
<1>8. used' = 0 \/ counted'
  BY <1>3 DEF UsageInv
<1>9. UsageCounted'
  BY <1>3, <1>6 DEF UsageInv, UsageCounted, AtLeastZero
<1> QED
  BY <1>7, <1>8, <1>9 DEF UsageInv

\* Lifting the counter to zero changes nothing that is counted.
LEMMA ClampKeeps ==
    ASSUME UsageInv, NEW r \in UsageRequests, ClampUsage(r)
    PROVE  UsageInv'
<1>1. usageReq' \in [UsageRequests -> UsageReqs]
  BY UsageRows DEF ClampUsage, UsageReqDone, UsageInv
<1>2. /\ UNCHANGED <<limit, counted, owed, tangled>>
      /\ used' = AtLeastZero(used) /\ used \in Int
  BY DEF ClampUsage, Clamped, UsageInv, UsageTypeOK
<1> QED
  BY <1>1, <1>2 DEF UsageInv, UsageTypeOK, UsageReqs, UsageCounted, AtLeastZero

\* One step of any request or administrator.
LEMMA UsageNextInv == UsageInv /\ [UsageNext]_usageVars => UsageInv'
<1> SUFFICES ASSUME UsageInv, [UsageNext]_usageVars
             PROVE  UsageInv'
  OBVIOUS
<1>1. CASE GetUsage
  BY <1>1 DEF GetUsage, UsageInv, UsageTypeOK, UsageCounted
<1>2. CASE \E l \in UsageLimits \cup {NoLimit} : UpsertLimit(l)
  BY <1>2 DEF UpsertLimit, UsageInv, UsageTypeOK, UsageCounted
<1>3. CASE ResetCounter
  BY <1>3 DEF ResetCounter, UsageInv, UsageTypeOK, UsageCounted, AtLeastZero
<1>4. CASE UNCHANGED usageVars
  BY <1>4 DEF usageVars, UsageInv, UsageTypeOK, UsageCounted
<1> QED
  BY <1>1, <1>2, <1>3, <1>4, UsageReadKeeps, RecordKeeps, DecrementKeeps, ClampKeeps
  DEF UsageNext

\* The counter neither loses nor invents usage, unless an increment overlaps another write
\* of the counter or finds it below zero: whatever else incrementUsage, decrementUsage,
\* resetCounter and upsertLimit of runtime-authorization.service.ts do in between.
THEOREM UsageIsCounted == UsageSpec => []UsageCounted
<1>1. UsageInv => UsageCounted
  BY DEF UsageInv
<1> QED
  BY <1>1, UsageInitInv, UsageNextInv, PTL DEF UsageSpec

-----------------------------------------------------------------------------
(* Devices. *)

DeviceRows == [ status : DeviceStatuses, license : DeviceLicenses \cup {NoLicense} ]

DeviceInv == DeviceTypeOK /\ DevicesWithinLimit

\* The active devices of a license can be counted.
LEMMA ActiveCounted ==
    ASSUME NEW l
    PROVE  /\ IsFiniteSet(ActiveOn(l)) /\ IsFiniteSet(ActiveOn(l) \ moved)
           /\ Cardinality(ActiveOn(l)) \in Nat /\ Cardinality(ActiveOn(l) \ moved) \in Nat
           /\ Cardinality(ActiveOn(l) \ moved) <= Cardinality(ActiveOn(l))
<1>1. ActiveOn(l) \in SUBSET DeviceIds /\ IsFiniteSet(DeviceIds)
  BY DeviceAssumption DEF ActiveOn
<1>2. IsFiniteSet(ActiveOn(l))
  BY <1>1, FS_Subset
<1>3. ActiveOn(l) \ moved \in SUBSET ActiveOn(l)
  OBVIOUS
<1> QED
  BY <1>2, <1>3, FS_Subset, FS_CardinalityType

\* No license gains an active device that did not move.
LEMMA NoMoreActive ==
    ASSUME DevicesWithinLimit,
           \A l \in DeviceLicenses : ActiveOn(l)' \ moved' \subseteq ActiveOn(l) \ moved
    PROVE  DevicesWithinLimit'
<1> SUFFICES ASSUME NEW l \in DeviceLicenses
             PROVE  Cardinality(ActiveOn(l)' \ moved') <= DeviceLimit
  BY DEF DevicesWithinLimit
<1>1. Cardinality(ActiveOn(l)' \ moved') <= Cardinality(ActiveOn(l) \ moved)
      /\ Cardinality(ActiveOn(l)' \ moved') \in Nat
  BY ActiveCounted, FS_Subset, FS_CardinalityType
<1> QED
  BY <1>1, ActiveCounted, DeviceAssumption DEF DevicesWithinLimit

\* A registration adds an active device only below the limit.
LEMMA RegisterKeeps ==
    ASSUME DeviceInv, NEW d \in DeviceIds, NEW l \in DeviceLicenses \cup {NoLicense},
           RegisterDevice(d, l)
    PROVE  DeviceInv'
<1>1. PICK license : license = IF Known(d) /\ l = NoLicense THEN devices[d].license ELSE l
  OBVIOUS
<1>2. PICK row : row = [ status |-> RegisteredStatus(d), license |-> license ]
  OBVIOUS
<1>3. devices[d] \in DeviceRows /\ devices \in [DeviceIds -> DeviceRows]
  BY DEF DeviceInv, DeviceTypeOK, DeviceRows
<1>4. /\ row \in DeviceRows /\ row.license = license
      /\ row.status = IF Known(d) THEN devices[d].status ELSE "ACTIVE"
  BY <1>1, <1>2, <1>3 DEF DeviceRows, RegisteredStatus, DeviceStatuses
<1>5. /\ devices' = [devices EXCEPT ![d] = row]
      /\ moved' = IF Known(d) /\ license # devices[d].license THEN moved \cup {d} ELSE moved
      /\ UNCHANGED blocking
  BY <1>1, <1>2 DEF RegisterDevice
<1>6. DeviceTypeOK'
  BY <1>3, <1>4, <1>5 DEF DeviceInv, DeviceTypeOK, DeviceRows
<1>7. \A e \in DeviceIds : devices'[e] = IF e = d THEN row ELSE devices[e]
  BY <1>3, <1>5
<1>8. CASE Known(d)
  <2>1. \A k : ActiveOn(k)' \ moved' \subseteq ActiveOn(k) \ moved
    BY <1>4, <1>5, <1>7, <1>8 DEF ActiveOn
  <2> QED
    BY <1>6, <2>1, NoMoreActive DEF DeviceInv
<1>9. CASE ~ Known(d)
  <2>1. license = l /\ moved' = moved /\ HasRoom(l)
    BY <1>1, <1>5, <1>9 DEF RegisterDevice
  <2>2. \A k : ActiveOn(k)' = IF k = l THEN ActiveOn(k) \cup {d} ELSE ActiveOn(k)
    BY <1>4, <1>7, <1>9, <2>1 DEF ActiveOn, Known
  <2>3. ASSUME NEW k \in DeviceLicenses
        PROVE  Cardinality(ActiveOn(k)' \ moved') <= DeviceLimit
    <3>1. CASE k # l
      BY <2>1, <2>2, <3>1 DEF DeviceInv, DevicesWithinLimit
    <3>2. CASE k = l
      <4>1. Cardinality(ActiveOn(k)) < DeviceLimit
        BY <2>1, <3>2, DeviceAssumption DEF HasRoom
      <4>2. Cardinality(ActiveOn(k) \cup {d}) <= DeviceLimit
            /\ IsFiniteSet(ActiveOn(k) \cup {d})
        <5>1. IsFiniteSet(ActiveOn(k)) /\ Cardinality(ActiveOn(k)) \in Nat
          BY ActiveCounted
        <5>2. /\ IsFiniteSet(ActiveOn(k) \cup {d})
              /\ \/ Cardinality(ActiveOn(k) \cup {d}) = Cardinality(ActiveOn(k))
                 \/ Cardinality(ActiveOn(k) \cup {d}) = Cardinality(ActiveOn(k)) + 1
          BY <5>1, FS_AddElement
        <5> QED
          BY <4>1, <5>1, <5>2, DeviceAssumption
      <4>3. ActiveOn(k)' \ moved' \in SUBSET (ActiveOn(k) \cup {d})
        BY <2>2, <3>2
      <4>4. Cardinality(ActiveOn(k)' \ moved') <= Cardinality(ActiveOn(k) \cup {d})
            /\ IsFiniteSet(ActiveOn(k)' \ moved')
        BY <4>2, <4>3, FS_Subset
      <4>5. Cardinality(ActiveOn(k)' \ moved') \in Nat
            /\ Cardinality(ActiveOn(k) \cup {d}) \in Nat
        BY <4>2, <4>4, FS_CardinalityType
      <4> QED
        BY <4>2, <4>4, <4>5, DeviceAssumption
    <3> QED
      BY <3>1, <3>2
  <2> QED
    BY <1>6, <2>3 DEF DeviceInv, DevicesWithinLimit
<1> QED
  BY <1>8, <1>9

\* The other statements leave every license and make nothing active.
LEMMA RetireKeeps ==
    ASSUME DeviceInv, moved' = moved, devices' \in [DeviceIds -> DeviceRows],
           blocking' \in [DeviceRequests -> SUBSET DeviceIds],
           \A d \in DeviceIds :
               /\ devices'[d].license = devices[d].license
               /\ devices'[d].status = "ACTIVE" => devices[d].status = "ACTIVE"
    PROVE  DeviceInv'
<1>1. DeviceTypeOK'
  BY DEF DeviceInv, DeviceTypeOK, DeviceRows
<1>2. \A l : ActiveOn(l)' \ moved' \subseteq ActiveOn(l) \ moved
  BY DEF ActiveOn
<1> QED
  BY <1>1, <1>2, NoMoreActive DEF DeviceInv

\* A device goes quiet, or is removed.
LEMMA StatusKeeps ==
    ASSUME DeviceInv, NEW d \in DeviceIds,
           \/ CleanUpDevice(d)
           \/ DeactivateDevice(d)
           \/ RemoveDevice(d)
    PROVE  DeviceInv'
<1>1. PICK status \in DeviceStatuses \ {"ACTIVE"} :
          devices' = [devices EXCEPT ![d].status = status]
  BY DEF CleanUpDevice, DeactivateDevice, RemoveDevice, DeviceStatuses
<1>2. PICK row : row = [devices[d] EXCEPT !.status = status]
  OBVIOUS
<1>3. devices \in [DeviceIds -> DeviceRows]
  BY DEF DeviceInv, DeviceTypeOK, DeviceRows
<1>4. row \in DeviceRows /\ row.license = devices[d].license /\ row.status # "ACTIVE"
  BY <1>1, <1>2, <1>3 DEF DeviceRows
<1>5. devices' = [devices EXCEPT ![d] = row]
  BY <1>1, <1>2, <1>3
<1>6. /\ devices' \in [DeviceIds -> DeviceRows]
      /\ \A e \in DeviceIds : devices'[e] = IF e = d THEN row ELSE devices[e]
  BY <1>3, <1>4, <1>5
<1>7. UNCHANGED <<blocking, moved>> /\ blocking \in [DeviceRequests -> SUBSET DeviceIds]
  BY DEF CleanUpDevice, DeactivateDevice, RemoveDevice, DeviceInv, DeviceTypeOK
<1> QED
  BY <1>4, <1>6, <1>7, RetireKeeps

\* A device is blocked, in two statements.
LEMMA BlockKeeps ==
    ASSUME DeviceInv, NEW r \in DeviceRequests,
           \/ \E d \in DeviceIds : FindDevice(r, d)
           \/ BlockDevice(r)
    PROVE  DeviceInv'
<1>1. devices \in [DeviceIds -> DeviceRows] /\ blocking \in [DeviceRequests -> SUBSET DeviceIds]
  BY DEF DeviceInv, DeviceTypeOK, DeviceRows
<1>2. CASE \E d \in DeviceIds : FindDevice(r, d)
  <2>1. UNCHANGED <<devices, moved>> /\ blocking' \in [DeviceRequests -> SUBSET DeviceIds]
    BY <1>1, <1>2 DEF FindDevice
  <2> QED
    BY <1>1, <2>1, RetireKeeps
<1>3. CASE BlockDevice(r)
  <2>1. \A d \in DeviceIds :
            /\ [devices[d] EXCEPT !.status = "BLOCKED"] \in DeviceRows
            /\ [devices[d] EXCEPT !.status = "BLOCKED"].status = "BLOCKED"
            /\ [devices[d] EXCEPT !.status = "BLOCKED"].license = devices[d].license
    BY <1>1 DEF DeviceRows, DeviceStatuses
  <2>2. devices' = [d \in DeviceIds |->
            IF d \in blocking[r] THEN [devices[d] EXCEPT !.status = "BLOCKED"] ELSE devices[d]]
    BY <1>3 DEF BlockDevice
  <2>3. devices' \in [DeviceIds -> DeviceRows]
    BY <1>1, <2>1, <2>2
  <2>4. \A d \in DeviceIds :
            /\ devices'[d].license = devices[d].license
            /\ devices'[d].status = "ACTIVE" => devices[d].status = "ACTIVE"
    BY <1>1, <2>1, <2>2
  <2>5. moved' = moved /\ blocking' \in [DeviceRequests -> SUBSET DeviceIds]
    BY <1>1, <1>3 DEF BlockDevice
  <2> QED
    BY <2>3, <2>4, <2>5, RetireKeeps
<1> QED
  BY <1>2, <1>3

\* No device is registered at first.
LEMMA DeviceInitKeeps == DeviceInit => DeviceInv
<1> SUFFICES ASSUME DeviceInit PROVE DeviceInv
  OBVIOUS
<1>1. DeviceTypeOK
  BY DEF DeviceInit, DeviceTypeOK, DeviceStatuses
<1>2. \A l : ActiveOn(l) \ moved = {}
  BY DEF DeviceInit, ActiveOn
<1> QED
  BY <1>1, <1>2, FS_EmptySet, DeviceAssumption DEF DeviceInv, DevicesWithinLimit

\* One step of the service.
LEMMA DeviceStepKeeps == DeviceInv /\ [DeviceNext]_deviceVars => DeviceInv'
<1> SUFFICES ASSUME DeviceInv, [DeviceNext]_deviceVars PROVE DeviceInv'
  OBVIOUS
<1>1. CASE UNCHANGED deviceVars
  BY <1>1 DEF deviceVars, DeviceInv, DeviceTypeOK, DevicesWithinLimit, ActiveOn
<1> QED
  BY <1>1, RegisterKeeps, StatusKeeps, BlockKeeps DEF DeviceNext

\* A license never has more active devices than its limit, but for the devices that
\* register of devices.service.ts moved to it: whatever is cleaned up, deactivated, removed,
\* blocked and registered again.
THEOREM DevicesLimited == DeviceSpec => []DevicesWithinLimit
<1>1. DeviceInv => DevicesWithinLimit
  BY DEF DeviceInv
<1> QED
  BY <1>1, DeviceInitKeeps, DeviceStepKeeps, PTL DEF DeviceSpec

-----------------------------------------------------------------------------
(* Entitlements. *)

Sources == HandSources \cup {"SUBSCRIPTION"}
GrantRows == [ source : Sources, status : {"ACTIVE", "REVOKED"}, value : Nat,
               lapsed : BOOLEAN ]
GrantReqs == [ at : {"idle", "revoking", "finding", "materializing", "recomputing", "caching"},
               grant : Nat, plan : Nat, entitled : BOOLEAN, active : BOOLEAN,
               winner : Accesses ]

\* The grant that a request has found exists.
Points(row, ids) ==
    /\ row.at = "revoking" => row.grant \in ids
    /\ row.at = "materializing" => /\ row.grant \in ids \cup {0}
                                   /\ row.active => row.grant # 0

\* What AccessCurrent asks of the access row, of any access.
Current(a) ==
    \/ a = NoAccess /\ ValidGrants = {}
    \/ /\ a.grant \in ValidGrants
       /\ a.value = grants[a.grant].value
       /\ \A j \in ValidGrants : ~ Outranks(j, a.grant)

\* A recomputation that was not overtaken has picked what the grants still say.
PicksCurrent ==
    \A r \in GrantRequests :
        grantReq[r].at = "caching" /\ r \notin overtaken => Current(grantReq[r].winner)

GrantInv ==
    /\ GrantTypeOK
    /\ \A r \in GrantRequests : Points(grantReq[r], GrantIds)
    /\ PicksCurrent
    /\ AccessCurrent

\* AccessCurrent, in terms of Current.
LEMMA AccessIsCurrent == AccessCurrent <=> (drifted \/ Recomputing # {} \/ Current(access))
  BY Zenon DEF AccessCurrent, Current

\* What the type invariant says of the grants and of the requests.
LEMMA GrantTypes ==
    ASSUME GrantTypeOK
    PROVE  /\ grants \in Seq(GrantRows) /\ Len(grants) \in Nat
           /\ \A i \in GrantIds : grants[i] \in GrantRows
           /\ grantReq \in [GrantRequests -> GrantReqs]
           /\ \A r \in GrantRequests : grantReq[r] \in GrantReqs
  BY LenProperties, ElementOfSeq DEF GrantTypeOK, GrantRows, Sources, GrantReqs, GrantIds

\* The priorities of the sources are numbers.
LEMMA Priorities == \A s \in Sources : Priority(s) \in 0..3
<1>1. Sources \subseteq {"MANUAL", "PROMOTIONAL", "TRIAL", "SUBSCRIPTION"}
  BY GrantAssumption DEF Sources
<1> QED
  BY <1>1 DEF Priority

\* A set of naturals that is not empty has a smallest element.
LEMMA SmallestOf ==
    ASSUME NEW T \in SUBSET Nat, T # {}
    PROVE  \E x \in T : \A y \in T : x <= y
<1>1. PICK x \in T : \A y \in T : ~ (<<y, x>> \in OpToRel(<, Nat))
  BY NatLessThanWellFounded, WFMin
<1>2. \A y \in T : ~ (y < x)
  BY <1>1 DEF OpToRel
<1> QED
  BY <1>2

\* Of some grants there is one that outranks all the others.
LEMMA HighestGrant ==
    ASSUME GrantTypeOK, NEW G \in SUBSET GrantIds, G # {}
    PROVE  \E i \in G : \A j \in G \ {i} : Outranks(i, j)
<1> DEFINE P(i) == Priority(grants[i].source)
           ranks == { 3 - P(i) : i \in G }
<1>1. /\ \A i \in G : P(i) \in 0..3 /\ i \in 1..Len(grants)
      /\ Len(grants) \in Nat
  BY GrantTypes, Priorities DEF GrantIds, GrantRows
<1>2. PICK g \in G : \A j \in G : P(j) <= P(g)
  <2>1. ranks \in SUBSET Nat /\ ranks # {}
    BY <1>1
  <2>2. PICK x \in ranks : \A y \in ranks : x <= y
    BY <2>1, SmallestOf
  <2>3. PICK g \in G : x = 3 - P(g)
    BY <2>2
  <2>4. \A j \in G : 3 - P(g) <= 3 - P(j)
    BY <2>2, <2>3
  <2> HIDE DEF P, ranks
  <2>5. \A j \in G : P(j) <= P(g)
    <3>1. P(g) \in 0..3 /\ \A j \in G : P(j) \in 0..3
      BY <1>1
    <3> QED
      BY <2>4, <3>1
  <2> QED
    BY <2>5
<1> DEFINE ages == { Len(grants) - i : i \in { j \in G : P(j) = P(g) } }
<1> HIDE DEF P
<1>3. PICK i \in G : P(i) = P(g) /\ \A j \in G : P(j) = P(g) => j <= i
  <2>1. ages \in SUBSET Nat /\ ages # {}
    BY <1>1, <1>2
  <2>2. PICK x \in ages : \A y \in ages : x <= y
    BY <2>1, SmallestOf
  <2>3. PICK i \in G : P(i) = P(g) /\ x = Len(grants) - i
    BY <2>2
  <2>4. \A j \in G : P(j) = P(g) => Len(grants) - i <= Len(grants) - j
    BY <2>2, <2>3
  <2> QED
    BY <1>1, <2>3, <2>4
<1>4. \A j \in G \ {i} : P(i) > P(j) \/ (P(i) = P(j) /\ i > j)
  BY <1>1, <1>2, <1>3
<1> QED
  BY <1>4 DEF P, Outranks

\* pickWinner returns what the grants say.
LEMMA WinnerCurrent == GrantTypeOK => Current(Winner) /\ Winner \in Accesses
<1> SUFFICES ASSUME GrantTypeOK PROVE Current(Winner) /\ Winner \in Accesses
  OBVIOUS
<1>1. CASE ValidGrants = {}
  BY <1>1 DEF Winner, Current, NoAccess, Accesses
<1>2. CASE ValidGrants # {}
  <2> DEFINE i == CHOOSE i \in ValidGrants : \A j \in ValidGrants \ {i} : Outranks(i, j)
  <2>1. ValidGrants \in SUBSET GrantIds
    BY DEF ValidGrants
  <2>2. i \in ValidGrants /\ \A j \in ValidGrants \ {i} : Outranks(i, j)
    BY <1>2, <2>1, HighestGrant
  <2>3. Winner = [ grant |-> i, value |-> grants[i].value ]
    BY <1>2 DEF Winner
  <2> HIDE DEF i
  <2>4. i \in Nat /\ i \in GrantIds /\ grants[i].value \in Nat
    BY <2>1, <2>2, GrantTypes DEF GrantIds, GrantRows
  <2>5. \A j \in ValidGrants : ~ Outranks(j, i)
    <3>1. ASSUME NEW j \in ValidGrants
          PROVE  ~ Outranks(j, i)
      <4>1. /\ Priority(grants[i].source) \in 0..3 /\ Priority(grants[j].source) \in 0..3
            /\ i \in Nat /\ j \in Nat
        BY <2>1, <2>4, GrantTypes, Priorities DEF GrantIds, GrantRows
      <4>2. j # i => Outranks(i, j)
        BY <2>2
      <4> QED
        BY <4>1, <4>2 DEF Outranks
    <3> QED
      BY <3>1
  <2> QED
    BY <2>2, <2>3, <2>4, <2>5 DEF Current, Accesses
<1> QED
  BY <1>1, <1>2

\* What the grants say depends on the grants alone.
LEMMA CurrentStays ==
    ASSUME grants' = grants
    PROVE  /\ GrantIds' = GrantIds /\ ValidGrants' = ValidGrants
           /\ \A a : Current(a)' <=> Current(a)
<1>1. GrantIds' = GrantIds /\ ValidGrants' = ValidGrants
  BY DEF GrantIds, ValidGrants
<1>2. \A i, j : Outranks(i, j)' <=> Outranks(i, j)
  BY DEF Outranks
<1> QED
  BY <1>1, <1>2 DEF Current

\* Which requests recompute after request r has written its row.
LEMMA RecomputingMoves ==
    ASSUME grantReq \in [GrantRequests -> GrantReqs], NEW r \in GrantRequests, NEW row,
           grantReq' = [grantReq EXCEPT ![r] = row]
    PROVE  Recomputing' = IF row.at \in {"recomputing", "caching"} THEN Recomputing \cup {r}
                          ELSE Recomputing \ {r}
  BY DEF Recomputing

\* A request moves on, outside of its recomputation, and the rest stays.
LEMMA QuietGrant ==
    ASSUME GrantInv, NEW r \in GrantRequests, NEW row \in GrantReqs,
           grantReq' = [grantReq EXCEPT ![r] = row], Points(row, GrantIds),
           row.at \notin {"recomputing", "caching"}, r \notin Recomputing,
           UNCHANGED <<grants, access, overtaken, drifted>>
    PROVE  GrantInv'
<1>1. grantReq' \in [GrantRequests -> GrantReqs]
  BY GrantTypes DEF GrantInv
<1>2. Recomputing' = Recomputing
  BY RecomputingMoves, GrantTypes DEF GrantInv
<1>3. GrantTypeOK'
  BY <1>1, <1>2 DEF GrantInv, GrantTypeOK, GrantReqs
<1>4. \A q \in GrantRequests : Points(grantReq[q], GrantIds)'
  BY GrantTypes, CurrentStays DEF GrantInv, Points
<1>5. PicksCurrent'
  BY GrantTypes, CurrentStays DEF GrantInv, PicksCurrent
<1>6. AccessCurrent'
  BY <1>2, CurrentStays, AccessIsCurrent DEF GrantInv, AccessCurrent, Outranks
<1> QED
  BY <1>3, <1>4, <1>5, <1>6 DEF GrantInv

\* A request changes the grants and is about to recompute: the others are overtaken.
LEMMA ChangeGrant ==
    ASSUME GrantInv, NEW r \in GrantRequests, NEW row \in GrantReqs,
           grantReq' = [grantReq EXCEPT ![r] = row], row.at = "recomputing",
           r \notin Recomputing, grants' \in Seq(GrantRows), Len(grants') >= Len(grants),
           NoteGrants, UNCHANGED <<access, drifted>>
    PROVE  GrantInv'
<1>1. grantReq' \in [GrantRequests -> GrantReqs]
  BY GrantTypes DEF GrantInv
<1>2. Recomputing' = Recomputing \cup {r}
  BY RecomputingMoves, GrantTypes DEF GrantInv
<1>3. overtaken' = { q \in GrantRequests : grantReq[q].at = "caching" }
  BY DEF NoteGrants
<1>4. overtaken' \subseteq Recomputing'
  BY <1>2, <1>3 DEF Recomputing
<1>5. GrantTypeOK'
  BY <1>1, <1>4 DEF GrantInv, GrantTypeOK, GrantReqs, GrantRows, Sources
<1>6. GrantIds \subseteq GrantIds'
  BY GrantTypes, LenProperties DEF GrantInv, GrantIds
<1>7. \A q \in GrantRequests : Points(grantReq[q], GrantIds)'
  BY <1>6, GrantTypes DEF GrantInv, Points
<1>8. PicksCurrent'
  BY <1>3, GrantTypes DEF GrantInv, PicksCurrent
<1>9. AccessCurrent'
  BY <1>2 DEF AccessCurrent
<1> QED
  BY <1>5, <1>7, <1>8, <1>9 DEF GrantInv

\* A new grant.
LEMMA NewGrantRow ==
    ASSUME NEW source \in Sources, NEW value \in Nat
    PROVE  NewGrant(source, value) \in GrantRows
  BY DEF NewGrant, GrantRows

\* The row of a request that is about to recompute.
LEMMA RecomputeRow ==
    /\ IdleGrantRequest \in GrantReqs
    /\ [IdleGrantRequest EXCEPT !.at = "recomputing"] \in GrantReqs
    /\ [IdleGrantRequest EXCEPT !.at = "recomputing"].at = "recomputing"
  BY DEF IdleGrantRequest, GrantReqs, NoAccess, Accesses

\* A grant by hand.
LEMMA CreateGrantKeeps ==
    ASSUME GrantInv, NEW r \in GrantRequests, NEW source \in HandSources,
           CreateGrant(r, source)
    PROVE  GrantInv'
<1>1. PICK row : row = [grantReq[r] EXCEPT !.at = "recomputing"]
  OBVIOUS
<1>2. row \in GrantReqs /\ row.at = "recomputing"
  BY <1>1, GrantTypes DEF GrantInv, GrantReqs
<1>3. grantReq' = [grantReq EXCEPT ![r] = row]
  BY <1>1, GrantTypes DEF CreateGrant, GrantInv
<1>4. NewGrant(source, 1) \in GrantRows
  BY NewGrantRow DEF Sources
<1>5. grants' \in Seq(GrantRows) /\ Len(grants') >= Len(grants)
  BY <1>4, GrantTypes, AppendProperties DEF CreateGrant, GrantInv
<1>6. r \notin Recomputing /\ NoteGrants /\ UNCHANGED <<access, drifted>>
  BY DEF CreateGrant, Recomputing
<1> QED
  BY <1>2, <1>3, <1>5, <1>6, ChangeGrant

\* The revocation of a grant by hand.
LEMMA RevokeKeeps ==
    ASSUME GrantInv, NEW r \in GrantRequests, RevokeGrant(r)
    PROVE  GrantInv'
<1>1. PICK i \in GrantIds : i = grantReq[r].grant
  BY DEF RevokeGrant, GrantInv, Points
<1>2. PICK new : new = [grants[i] EXCEPT !.status = "REVOKED"]
  OBVIOUS
<1>3. new \in GrantRows
  BY <1>2, GrantTypes DEF GrantInv, GrantRows
<1>4. grants' = [grants EXCEPT ![i] = new]
  BY <1>1, <1>2, GrantTypes DEF RevokeGrant, GrantInv
<1>5. grants' \in Seq(GrantRows) /\ Len(grants') >= Len(grants)
  BY <1>3, <1>4, GrantTypes, ExceptSeq DEF GrantInv, GrantIds
<1>6. PICK row \in GrantReqs : /\ row = [IdleGrantRequest EXCEPT !.at = "recomputing"]
                               /\ row.at = "recomputing"
  BY RecomputeRow
<1>7. grantReq' = [grantReq EXCEPT ![r] = row]
  BY <1>6 DEF RevokeGrant
<1>8. r \notin Recomputing /\ NoteGrants /\ UNCHANGED <<access, drifted>>
  BY DEF RevokeGrant, Recomputing
<1> QED
  BY <1>5, <1>6, <1>7, <1>8, ChangeGrant

\* The grant of a plan is created, renewed, revoked or left alone.
LEMMA MaterializeKeeps ==
    ASSUME GrantInv, NEW r \in GrantRequests, MaterializeGrant(r)
    PROVE  GrantInv'
<1>1. PICK q \in GrantReqs : q = grantReq[r]
  BY GrantTypes DEF GrantInv
<1>2. PICK row \in GrantReqs : /\ row = [IdleGrantRequest EXCEPT !.at = "recomputing"]
                               /\ row.at = "recomputing"
  BY RecomputeRow
<1>3. grantReq' = [grantReq EXCEPT ![r] = row] /\ UNCHANGED <<access, drifted>>
  BY <1>2 DEF MaterializeGrant
<1>4. /\ r \notin Recomputing /\ q.at = "materializing"
      /\ q.grant \in GrantIds \cup {0} /\ (q.active => q.grant # 0)
      /\ q.plan \in Nat
  BY <1>1 DEF MaterializeGrant, Recomputing, GrantInv, Points, GrantReqs
<1>5. CASE /\ NoteGrants
           /\ grants' = Append(grants, NewGrant("SUBSCRIPTION", q.plan))
  <2>1. NewGrant("SUBSCRIPTION", q.plan) \in GrantRows
    BY <1>4, NewGrantRow DEF Sources
  <2>2. grants' \in Seq(GrantRows) /\ Len(grants') >= Len(grants)
    BY <1>5, <2>1, GrantTypes, AppendProperties DEF GrantInv
  <2> QED
    BY <1>2, <1>3, <1>4, <1>5, <2>2, ChangeGrant
<1>6. CASE /\ NoteGrants
           /\ q.grant # 0
           /\ \/ grants' = [grants EXCEPT ![q.grant].status = "ACTIVE",
                                          ![q.grant].value = q.plan]
              \/ grants' = [grants EXCEPT ![q.grant].status = "REVOKED"]
  <2>1. PICK i \in GrantIds : i = q.grant
    BY <1>4, <1>6
  <2>2. PICK new \in GrantRows : grants' = [grants EXCEPT ![i] = new]
    <3>1. grants[i] \in GrantRows /\ i \in DOMAIN grants
      BY GrantTypes, LenProperties DEF GrantInv, GrantIds
    <3>2. /\ [grants[i] EXCEPT !.status = "ACTIVE", !.value = q.plan] \in GrantRows
          /\ [grants[i] EXCEPT !.status = "REVOKED"] \in GrantRows
      BY <1>4, <3>1 DEF GrantRows
    <3>3. CASE grants' = [grants EXCEPT ![q.grant].status = "ACTIVE",
                                        ![q.grant].value = q.plan]
      <4>1. grants' = [grants EXCEPT ![i] =
                           [grants[i] EXCEPT !.status = "ACTIVE", !.value = q.plan]]
        BY <2>1, <3>1, <3>3
      <4> QED
        BY <3>2, <4>1
    <3>4. CASE grants' = [grants EXCEPT ![q.grant].status = "REVOKED"]
      <4>1. grants' = [grants EXCEPT ![i] = [grants[i] EXCEPT !.status = "REVOKED"]]
        BY <2>1, <3>1, <3>4
      <4> QED
        BY <3>2, <4>1
    <3> QED
      BY <1>6, <3>3, <3>4
  <2>3. grants' \in Seq(GrantRows) /\ Len(grants') >= Len(grants)
    BY <2>2, GrantTypes, ExceptSeq DEF GrantInv, GrantIds
  <2> QED
    BY <1>2, <1>3, <1>4, <1>6, <2>3, ChangeGrant
<1>7. CASE UNCHANGED <<grants, overtaken>>
  <2>1. grantReq' \in [GrantRequests -> GrantReqs]
    BY <1>2, <1>3, GrantTypes DEF GrantInv
  <2>2. Recomputing' = Recomputing \cup {r}
    BY <1>2, <1>3, RecomputingMoves, GrantTypes DEF GrantInv
  <2>3. GrantTypeOK'
    BY <1>3, <1>7, <2>1, <2>2 DEF GrantInv, GrantTypeOK, GrantReqs
  <2>4. \A p \in GrantRequests : Points(grantReq[p], GrantIds)'
    BY <1>2, <1>3, <1>7, GrantTypes, CurrentStays DEF GrantInv, Points
  <2>5. PicksCurrent'
    BY <1>2, <1>3, <1>7, GrantTypes, CurrentStays DEF GrantInv, PicksCurrent
  <2>6. AccessCurrent'
    BY <2>2 DEF AccessCurrent
  <2> QED
    BY <2>3, <2>4, <2>5, <2>6 DEF GrantInv
<1>8. \/ /\ NoteGrants
         /\ grants' = Append(grants, NewGrant("SUBSCRIPTION", q.plan))
      \/ /\ NoteGrants
         /\ q.grant # 0
         /\ \/ grants' = [grants EXCEPT ![q.grant].status = "ACTIVE",
                                        ![q.grant].value = q.plan]
            \/ grants' = [grants EXCEPT ![q.grant].status = "REVOKED"]
      \/ UNCHANGED <<grants, overtaken>>
  BY <1>1, <1>4, Zenon DEF MaterializeGrant
<1> QED
  BY <1>5, <1>6, <1>7, <1>8

\* A grant lapses: the access row drifts, and whoever has read the grants is overtaken.
LEMMA LapseKeeps ==
    ASSUME GrantInv, NEW i \in GrantIds, LapseGrant(i)
    PROVE  GrantInv'
<1>1. PICK new : new = [grants[i] EXCEPT !.lapsed = TRUE]
  OBVIOUS
<1>2. new \in GrantRows
  BY <1>1, GrantTypes DEF GrantInv, GrantRows
<1>3. grants' = [grants EXCEPT ![i] = new] /\ UNCHANGED <<access, grantReq>>
  BY <1>1, GrantTypes DEF LapseGrant, GrantInv
<1>4. grants' \in Seq(GrantRows) /\ GrantIds' = GrantIds
  BY <1>2, <1>3, GrantTypes, ExceptSeq DEF GrantInv, GrantIds
<1>5. overtaken' = { q \in GrantRequests : grantReq[q].at = "caching" } /\ drifted' = TRUE
  BY DEF LapseGrant, NoteGrants
<1>6. GrantTypeOK'
  BY <1>3, <1>4, <1>5 DEF GrantInv, GrantTypeOK, GrantRows, Sources, Recomputing
<1>7. \A q \in GrantRequests : Points(grantReq[q], GrantIds)'
  BY <1>3, <1>4 DEF GrantInv, Points
<1>8. PicksCurrent'
  BY <1>3, <1>5 DEF PicksCurrent
<1>9. AccessCurrent'
  BY <1>5 DEF AccessCurrent
<1> QED
  BY <1>6, <1>7, <1>8, <1>9 DEF GrantInv

\* The grants are read, and what they say is picked.
LEMMA PickKeeps ==
    ASSUME GrantInv, NEW r \in GrantRequests, PickWinner(r)
    PROVE  GrantInv'
<1>1. PICK w \in Accesses : w = Winner /\ Current(w)
  BY WinnerCurrent DEF GrantInv
<1>2. PICK row : row = [grantReq[r] EXCEPT !.at = "caching", !.winner = w]
  OBVIOUS
<1>3. row \in GrantReqs /\ row.at = "caching" /\ row.winner = w
  BY <1>1, <1>2, GrantTypes DEF GrantInv, GrantReqs
<1>4. grantReq' = [grantReq EXCEPT ![r] = row]
  BY <1>1, <1>2, GrantTypes DEF PickWinner, GrantInv
<1>5. grantReq' \in [GrantRequests -> GrantReqs]
  BY <1>3, <1>4, GrantTypes DEF GrantInv
<1>6. Recomputing' = Recomputing \cup {r}
  BY <1>3, <1>4, RecomputingMoves, GrantTypes DEF GrantInv
<1>7. UNCHANGED <<grants, access, drifted>> /\ overtaken' = overtaken \ {r}
  BY DEF PickWinner
<1>8. GrantTypeOK'
  BY <1>5, <1>6, <1>7 DEF GrantInv, GrantTypeOK, GrantReqs
<1>9. \A q \in GrantRequests : Points(grantReq[q], GrantIds)'
  BY <1>3, <1>4, <1>7, GrantTypes, CurrentStays DEF GrantInv, Points
<1>10. PicksCurrent'
  <2> SUFFICES ASSUME NEW q \in GrantRequests, grantReq'[q].at = "caching",
                      q \notin overtaken'
               PROVE  Current(grantReq[q].winner)'
    BY DEF PicksCurrent
  <2>1. PICK a : a = grantReq'[q].winner
    OBVIOUS
  <2>2. Current(a)
    BY <1>1, <1>3, <1>4, <1>7, <2>1, GrantTypes DEF GrantInv, PicksCurrent
  <2>3. Current(a)'
    BY <1>7, <2>2, CurrentStays
  <2> QED
    BY <2>1, <2>3 DEF Current
<1>11. AccessCurrent'
  BY <1>6 DEF AccessCurrent
<1> QED
  BY <1>8, <1>9, <1>10, <1>11 DEF GrantInv

\* The end of a request: it is idle, and no longer overtaken.
LEMMA DoneMoves ==
    ASSUME GrantInv, NEW r \in GrantRequests, GrantReqDone(r),
           overtaken' = overtaken \ {r}, UNCHANGED grants,
           access' \in Accesses, drifted' \in BOOLEAN
    PROVE  /\ GrantTypeOK' /\ Recomputing' = Recomputing \ {r}
           /\ \A q \in GrantRequests : Points(grantReq[q], GrantIds)'
           /\ PicksCurrent'
<1>1. IdleGrantRequest \in GrantReqs /\ IdleGrantRequest.at = "idle"
  BY RecomputeRow DEF IdleGrantRequest
<1>2. grantReq' = [grantReq EXCEPT ![r] = IdleGrantRequest]
  BY DEF GrantReqDone
<1>3. grantReq' \in [GrantRequests -> GrantReqs]
  BY <1>1, <1>2, GrantTypes DEF GrantInv
<1>4. Recomputing' = Recomputing \ {r}
  BY <1>1, <1>2, RecomputingMoves, GrantTypes DEF GrantInv
<1>5. GrantTypeOK'
  BY <1>3, <1>4 DEF GrantInv, GrantTypeOK, GrantReqs
<1>6. \A q \in GrantRequests : Points(grantReq[q], GrantIds)'
  BY <1>1, <1>2, GrantTypes, CurrentStays DEF GrantInv, Points
<1>7. PicksCurrent'
  BY <1>1, <1>2, GrantTypes, CurrentStays DEF GrantInv, PicksCurrent
<1> QED
  BY <1>4, <1>5, <1>6, <1>7

\* The access row is what was picked, and that is current unless it was overtaken.
LEMMA CacheKeeps ==
    ASSUME GrantInv, NEW r \in GrantRequests, CacheAccess(r)
    PROVE  GrantInv'
<1>1. PICK a \in Accesses : a = grantReq[r].winner
  BY GrantTypes DEF GrantInv, GrantReqs
<1>2. /\ access' = a /\ drifted' = (r \in overtaken)
      /\ overtaken' = overtaken \ {r} /\ GrantReqDone(r) /\ UNCHANGED grants
  BY <1>1 DEF CacheAccess
<1>3. drifted' \in BOOLEAN
  BY <1>2
<1>4. /\ GrantTypeOK'
      /\ \A q \in GrantRequests : Points(grantReq[q], GrantIds)'
      /\ PicksCurrent'
  BY <1>1, <1>2, <1>3, DoneMoves
<1>5. AccessCurrent'
  <2>1. CASE r \in overtaken
    BY <1>2, <2>1 DEF AccessCurrent
  <2>2. CASE r \notin overtaken
    <3>1. Current(a)
      BY <1>1, <2>2 DEF CacheAccess, GrantInv, PicksCurrent
    <3>2. Current(a)'
      BY <1>2, <3>1, CurrentStays
    <3> QED
      BY <1>2, <3>2 DEF AccessCurrent, Current
  <2> QED
    BY <2>1, <2>2
<1> QED
  BY <1>4, <1>5 DEF GrantInv

\* A request ends early: the access row drifts if it was to be written.
LEMMA CutKeeps ==
    ASSUME GrantInv, NEW r \in GrantRequests, CutGrantRequest(r)
    PROVE  GrantInv'
<1>1. /\ drifted' = (drifted \/ r \in Recomputing) /\ overtaken' = overtaken \ {r}
      /\ GrantReqDone(r) /\ UNCHANGED <<grants, access>>
  BY DEF CutGrantRequest
<1>2. drifted' \in BOOLEAN /\ access' \in Accesses
  BY <1>1 DEF GrantInv, GrantTypeOK
<1>3. /\ GrantTypeOK' /\ Recomputing' = Recomputing \ {r}
      /\ \A q \in GrantRequests : Points(grantReq[q], GrantIds)'
      /\ PicksCurrent'
  BY <1>1, <1>2, DoneMoves
<1>4. AccessCurrent'
  <2>1. CASE r \in Recomputing
    BY <1>1, <2>1 DEF AccessCurrent
  <2>2. CASE r \notin Recomputing
    <3>1. Recomputing' = Recomputing /\ drifted' = drifted
      BY <1>1, <1>3, <2>2 DEF GrantInv, GrantTypeOK
    <3> QED
      BY <1>1, <3>1, CurrentStays, AccessIsCurrent DEF GrantInv, AccessCurrent, Outranks
  <2> QED
    BY <2>1, <2>2
<1> QED
  BY <1>3, <1>4 DEF GrantInv

\* The statements of a request that only read, and its failure on the unique key.
LEMMA FindGrantKeeps ==
    ASSUME GrantInv, NEW r \in GrantRequests,
           \/ \E i \in GrantIds : ReadGrant(r, i)
           \/ ReadSubscription(r)
           \/ FindGrant(r)
           \/ MaterializeTooLate(r)
    PROVE  GrantInv'
<1>1. r \notin Recomputing /\ UNCHANGED <<grants, access, overtaken, drifted>>
  BY DEF ReadGrant, ReadSubscription, FindGrant, MaterializeTooLate, Recomputing
<1>2. grantReq[r] \in GrantReqs /\ grantReq \in [GrantRequests -> GrantReqs]
  BY GrantTypes DEF GrantInv
<1>3. CASE \E i \in GrantIds : ReadGrant(r, i)
  <2>1. PICK i \in GrantIds : ReadGrant(r, i)
    BY <1>3
  <2>2. i \in Nat
    BY GrantTypes DEF GrantInv, GrantIds
  <2>3. PICK row : row = [grantReq[r] EXCEPT !.at = "revoking", !.grant = i]
    OBVIOUS
  <2>4. row \in GrantReqs /\ row.at = "revoking" /\ row.grant = i
    BY <1>2, <2>2, <2>3 DEF GrantReqs
  <2>5. grantReq' = [grantReq EXCEPT ![r] = row]
    BY <1>2, <2>1, <2>3 DEF ReadGrant
  <2> QED
    BY <1>1, <2>4, <2>5, QuietGrant DEF Points
<1>4. CASE ReadSubscription(r)
  <2>1. PICK value \in PlanValues, entitled \in BOOLEAN :
            grantReq' = [grantReq EXCEPT ![r] =
                [@ EXCEPT !.at = "finding", !.plan = value, !.entitled = entitled]]
    BY <1>4 DEF ReadSubscription
  <2>2. PICK row : row = [grantReq[r] EXCEPT !.at = "finding", !.plan = value,
                                             !.entitled = entitled]
    OBVIOUS
  <2>3. row \in GrantReqs /\ row.at = "finding"
    BY <1>2, <2>2, GrantAssumption DEF GrantReqs
  <2>4. grantReq' = [grantReq EXCEPT ![r] = row]
    BY <1>2, <2>1, <2>2
  <2> QED
    BY <1>1, <2>3, <2>4, QuietGrant DEF Points
<1>5. CASE FindGrant(r)
  <2>1. PICK g : g = IF SubscriptionGrants = {} THEN 0 ELSE CHOOSE i \in SubscriptionGrants : TRUE
    OBVIOUS
  <2>2. PICK active : active = \E i \in SubscriptionGrants : grants[i].status = "ACTIVE"
    OBVIOUS
  <2>3. /\ g \in GrantIds \cup {0} /\ g \in Nat
        /\ active \in BOOLEAN /\ (active => g # 0)
    <3>1. SubscriptionGrants \subseteq GrantIds /\ \A i \in GrantIds : i \in Nat /\ i # 0
      BY GrantTypes DEF GrantInv, GrantIds, SubscriptionGrants
    <3>2. active \in BOOLEAN
      BY <2>2
    <3>3. SubscriptionGrants # {} => g \in SubscriptionGrants
      BY <2>1
    <3>4. active => SubscriptionGrants # {}
      BY <2>2
    <3>5. SubscriptionGrants = {} => g = 0
      BY <2>1
    <3> QED
      BY <3>1, <3>2, <3>3, <3>4, <3>5
  <2>4. PICK row : row = [grantReq[r] EXCEPT !.at = "materializing", !.grant = g,
                                             !.active = active]
    OBVIOUS
  <2>5. /\ row \in GrantReqs /\ row.at = "materializing"
        /\ row.grant = g /\ row.active = active
    BY <1>2, <2>3, <2>4 DEF GrantReqs
  <2>6. grantReq' = [grantReq EXCEPT ![r] = row]
    BY <1>2, <1>5, <2>1, <2>2, <2>4 DEF FindGrant
  <2> QED
    BY <1>1, <2>3, <2>5, <2>6, QuietGrant DEF Points
<1>6. CASE MaterializeTooLate(r)
  <2>1. IdleGrantRequest \in GrantReqs /\ IdleGrantRequest.at = "idle"
    BY RecomputeRow DEF IdleGrantRequest
  <2> QED
    BY <1>1, <1>6, <2>1, QuietGrant DEF MaterializeTooLate, GrantReqDone, Points
<1> QED
  BY <1>3, <1>4, <1>5, <1>6

\* Nothing is granted at first.
LEMMA GrantInitKeeps == GrantInit => GrantInv
<1> SUFFICES ASSUME GrantInit PROVE GrantInv
  OBVIOUS
<1>1. grants \in Seq(GrantRows) /\ Len(grants) = 0 /\ GrantIds = {} /\ ValidGrants = {}
  BY EmptySeq DEF GrantInit, GrantIds, ValidGrants
<1>2. IdleGrantRequest \in GrantReqs /\ IdleGrantRequest.at = "idle"
  BY RecomputeRow DEF IdleGrantRequest
<1>3. /\ grantReq \in [GrantRequests -> GrantReqs]
      /\ \A r \in GrantRequests : grantReq[r].at = "idle"
  BY <1>2 DEF GrantInit
<1>4. access = NoAccess /\ NoAccess \in Accesses /\ overtaken = {} /\ drifted \in BOOLEAN
  BY DEF GrantInit, NoAccess, Accesses
<1>5. GrantTypeOK
  BY <1>1, <1>3, <1>4 DEF GrantTypeOK, GrantRows, Sources, GrantReqs
<1>6. PicksCurrent /\ \A r \in GrantRequests : Points(grantReq[r], GrantIds)
  BY <1>3 DEF PicksCurrent, Points
<1>7. AccessCurrent
  BY <1>1, <1>4 DEF AccessCurrent
<1> QED
  BY <1>5, <1>6, <1>7 DEF GrantInv

\* One step of the service.
LEMMA GrantStepKeeps == GrantInv /\ [GrantNext]_grantVars => GrantInv'
<1> SUFFICES ASSUME GrantInv, [GrantNext]_grantVars PROVE GrantInv'
  OBVIOUS
<1>1. CASE UNCHANGED grantVars
  <2>1. UNCHANGED <<grants, access, grantReq, overtaken, drifted>> /\ Recomputing' = Recomputing
    BY <1>1 DEF grantVars, Recomputing
  <2>2. GrantTypeOK' /\ PicksCurrent'
    BY <2>1, CurrentStays DEF GrantInv, GrantTypeOK, PicksCurrent
  <2>3. \A r \in GrantRequests : Points(grantReq[r], GrantIds)'
    BY <2>1, CurrentStays DEF GrantInv, Points
  <2>4. AccessCurrent'
    BY <2>1, CurrentStays DEF GrantInv, AccessCurrent, Outranks
  <2> QED
    BY <2>2, <2>3, <2>4 DEF GrantInv
<1> QED
  BY <1>1, LapseKeeps, CreateGrantKeeps, FindGrantKeeps, RevokeKeeps, MaterializeKeeps,
     PickKeeps, CacheKeeps, CutKeeps DEF GrantNext

\* When nobody is recomputing it, the FeatureAccess row is what the grants say, unless a
\* grant lapsed, a request ended early, or a recomputation was overtaken since the last
\* one of entitlement-grants.service.ts that went through.
THEOREM AccessIsWinner == GrantSpec => []AccessCurrent
<1>1. GrantInv => AccessCurrent
  BY DEF GrantInv
<1> QED
  BY <1>1, GrantInitKeeps, GrantStepKeeps, PTL DEF GrantSpec
================================================================================
