---------------------------- MODULE MCServicesProofs ----------------------------
(***************************************************************************)
(* Theorems about the services side by side, for any instance of each: a   *)
(* step of one leaves the tables of the others alone, so that each keeps   *)
(* among the others what it keeps on its own.                              *)
(***************************************************************************)
EXTENDS MCServices, SyncEngineProofs, WebhookDispatchProofs, LimitsProofs, AccessProofs

\* The inductive invariants of the services, together.
ServicesInv ==
    /\ focus \in Services
    /\ SyncInv /\ HookInv /\ SeatInv /\ KeyInv /\ CouponInv
    /\ DeviceInv /\ MemberInv /\ InviteInv /\ GrantInv /\ UsageInv

\* A step of the platform is, for each service, a step of its own or none.
LEMMA EachServiceSteps ==
    ASSUME [Next]_vars
    PROVE  /\ [SyncNext]_syncVars /\ [HookNext]_hookVars /\ [SeatNext]_seatVars
           /\ [KeyNext]_keyVars /\ [DeviceNext]_deviceVars /\ [CouponNext]_couponVars
           /\ [MemberNext]_memberVars /\ [InviteNext]_inviteVars
           /\ [GrantNext]_grantVars /\ [UsageNext]_usageVars
<1>1. CASE UNCHANGED vars
  BY <1>1 DEF vars
<1>2. CASE Next
  <2>1. Step
    BY <1>2 DEF Next
  <2>2. /\ focus = "sync" => SyncNext
        /\ focus = "webhooks" => HookNext
        /\ focus = "seats" => SeatNext
        /\ focus = "keys" => KeyNext
        /\ focus = "devices" => DeviceNext
        /\ focus = "coupons" => CouponNext
        /\ focus = "members" => MemberNext
        /\ focus = "invitations" => InviteNext
        /\ focus = "grants" => GrantNext
        /\ focus = "usage" => UsageNext
    BY <2>1 DEF Step
  <2>3. /\ focus # "sync" => UNCHANGED syncVars
        /\ focus # "webhooks" => UNCHANGED hookVars
        /\ focus # "seats" => UNCHANGED seatVars
        /\ focus # "keys" => UNCHANGED keyVars
        /\ focus # "devices" => UNCHANGED deviceVars
        /\ focus # "coupons" => UNCHANGED couponVars
        /\ focus # "members" => UNCHANGED memberVars
        /\ focus # "invitations" => UNCHANGED inviteVars
        /\ focus # "grants" => UNCHANGED grantVars
        /\ focus # "usage" => UNCHANGED usageVars
    BY <1>2 DEF Next, Unless
  <2>4. QED
    BY <2>2, <2>3
<1>3. QED
  BY <1>1, <1>2

\* Every service starts where it starts on its own.
LEMMA ServicesInitKeep == Init => ServicesInv
<1> SUFFICES ASSUME Init PROVE ServicesInv
  OBVIOUS
<1>1. SyncInv /\ HookInv
  BY SyncInitKeeps, HookInitKeeps DEF Init
<1>2. SeatInv /\ KeyInv /\ CouponInv
  BY SeatInitInv, KeyInitKeeps, CouponInitKeeps DEF Init
<1>3. DeviceInv /\ MemberInv /\ InviteInv /\ GrantInv /\ UsageInv
  BY DeviceInitKeeps, MemberInitKeeps, InviteInitKeeps, GrantInitKeeps, UsageInitInv DEF Init
<1>4. focus \in Services
  BY DEF Init
<1>5. QED
  BY <1>1, <1>2, <1>3, <1>4 DEF ServicesInv

\* One step of the platform.
LEMMA ServicesStepKeeps == ServicesInv /\ [Next]_vars => ServicesInv'
<1> SUFFICES ASSUME ServicesInv, [Next]_vars PROVE ServicesInv'
  OBVIOUS
<1>1. SyncInv' /\ HookInv'
  BY EachServiceSteps, SyncStepKeeps, HookStepKeeps DEF ServicesInv
<1>2. SeatInv' /\ KeyInv' /\ CouponInv'
  BY EachServiceSteps, SeatNextInv, KeyStepKeeps, CouponStepKeeps DEF ServicesInv
<1>3. DeviceInv' /\ MemberInv' /\ InviteInv'
  BY EachServiceSteps, DeviceStepKeeps, MemberStepKeeps, InviteStepKeeps DEF ServicesInv
<1>4. GrantInv' /\ UsageInv'
  BY EachServiceSteps, GrantStepKeeps, UsageNextInv DEF ServicesInv
<1>5. focus' \in Services
  BY DEF ServicesInv, Next, vars
<1>6. QED
  BY <1>1, <1>2, <1>3, <1>4, <1>5 DEF ServicesInv

\* ServicesInv holds in every reachable state.
LEMMA ServicesInvHolds == Spec => []ServicesInv
<1> QED
  BY ServicesInitKeep, ServicesStepKeeps, PTL DEF Spec

-----------------------------------------------------------------------------
(* The theorems. *)

\* Every table of every service is well typed in every reachable state of the platform,
\* and every request refers only to rows that exist.
THEOREM TypeCorrect == Spec => []TypeOK
<1>1. ServicesInv => TypeOK
  BY DEF ServicesInv, TypeOK, SyncInv, HookInv, SeatInv, KeyInv, CouponInv, DeviceInv,
         MemberInv, InviteInv, GrantInv, UsageInv
<1> QED
  BY <1>1, ServicesInvHolds, PTL

\* The limits on seats, activations, devices and redemptions hold on the whole platform
\* as they hold for the service that counts them, races apart.
THEOREM LimitsHold ==
    Spec => [](SeatExclusive /\ SeatsBounded /\ KeyAllowance /\ DevicesWithinLimit
                 /\ CouponOverrunBounded)
<1>1. ServicesInv => SeatExclusive /\ SeatsBounded
  BY HoldersApart DEF ServicesInv, SeatInv, Bounded, Bound, OtherSeatReqs, SeatsBounded
<1>2. ServicesInv => KeyAllowance
  BY DEF ServicesInv, KeyInv, KeyFits, KeyAllowance
<1>3. ServicesInv => DevicesWithinLimit
  BY DEF ServicesInv, DeviceInv
<1>4. ServicesInv => CouponOverrunBounded
  BY CouponInvBounds DEF ServicesInv
<1> QED
  BY <1>1, <1>2, <1>3, <1>4, ServicesInvHolds, PTL

\* On the whole platform, ownership is lost only by a race, an invitation lets one person
\* in, and the access row and the usage counter are what grants and recorded usage say.
THEOREM RightsHold ==
    Spec => [](OwnerlessOnlyByRace /\ InvitationSpentOnce /\ AccessCurrent /\ UsageCounted)
<1>1. ServicesInv => OwnerlessOnlyByRace /\ InvitationSpentOnce /\ AccessCurrent /\ UsageCounted
  BY DEF ServicesInv, MemberInv, InviteInv, GrantInv, UsageInv
<1> QED
  BY <1>1, ServicesInvHolds, PTL

\* On the whole platform, the sync engine and the dispatcher of webhooks both keep the
\* promise of an outbox.
THEOREM EnginesAreOutboxes == Spec => SyncImplementsOutbox /\ HookImplementsOutbox
<1>1. Init => SyncOutbox!OutboxInit /\ HookOutbox!OutboxInit
  BY SyncInitMaps, HookInitMaps DEF Init
<1>2. ServicesInv /\ ServicesInv' /\ [Next]_vars
         => [SyncOutbox!OutboxNext]_(SyncOutbox!outboxVars)
  BY EachServiceSteps, SyncStepMaps DEF ServicesInv
<1>3. ServicesInv /\ [Next]_vars => [HookOutbox!OutboxNext]_(HookOutbox!outboxVars)
  BY EachServiceSteps, HookStepMaps DEF ServicesInv
<1> QED
  BY <1>1, <1>2, <1>3, ServicesInvHolds, PTL
     DEF Spec, SyncImplementsOutbox, HookImplementsOutbox,
         SyncOutbox!OutboxSpec, HookOutbox!OutboxSpec
=================================================================================
