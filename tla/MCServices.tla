------------------------------ MODULE MCServices ------------------------------
(***************************************************************************)
(* The services around the subscription engine, side by side.              *)
(*                                                                         *)
(* They share no table that any of them writes, so that a behaviour of the *)
(* platform is, for each of them, a behaviour of that service: TLC checks  *)
(* each of them in the same run, and in a behaviour only the service in    *)
(* focus takes steps.                                                      *)
(***************************************************************************)
EXTENDS SyncEngine, WebhookDispatch, Seats, LicenseKeys, Devices, Coupons,
        Memberships, Invitations, Entitlements, UsageCounters, TLC

VARIABLE focus  \* the service that takes steps

Services == {"sync", "webhooks", "seats", "keys", "devices", "coupons", "members",
             "invitations", "grants", "usage"}

Init ==
    /\ focus \in Services
    /\ SyncInit /\ HookInit /\ SeatInit /\ KeyInit
    /\ DeviceInit /\ CouponInit /\ MemberInit /\ InviteInit /\ GrantInit /\ UsageInit

Unless(service, variables) == focus # service => UNCHANGED variables

Step ==
    \/ focus = "sync" /\ SyncNext
    \/ focus = "webhooks" /\ HookNext
    \/ focus = "seats" /\ SeatNext
    \/ focus = "keys" /\ KeyNext
    \/ focus = "devices" /\ DeviceNext
    \/ focus = "coupons" /\ CouponNext
    \/ focus = "members" /\ MemberNext
    \/ focus = "invitations" /\ InviteNext
    \/ focus = "grants" /\ GrantNext
    \/ focus = "usage" /\ UsageNext

Next ==
    /\ Step
    /\ UNCHANGED focus
    /\ Unless("sync", syncVars) /\ Unless("webhooks", hookVars)
    /\ Unless("seats", seatVars) /\ Unless("keys", keyVars)
    /\ Unless("devices", deviceVars) /\ Unless("coupons", couponVars)
    /\ Unless("members", memberVars) /\ Unless("invitations", inviteVars)
    /\ Unless("grants", grantVars) /\ Unless("usage", usageVars)

vars == <<focus, syncVars, hookVars, seatVars, keyVars, deviceVars, couponVars,
          memberVars, inviteVars, grantVars, usageVars>>

\* The fairness of the engines, for the behaviours in which they take steps.
Fairness ==
    /\ \A e \in FinancialEvents : WF_syncVars(focus = "sync" /\ SyncRipen(e))
    /\ \A w \in SyncWorkers : WF_syncVars(focus = "sync" /\ SyncSweep(w))
    /\ \A a \in SyncActors : WF_syncVars(focus = "sync" /\ SyncAttempt(a))
    /\ \A o \in SyncOperators : WF_syncVars(focus = "sync" /\ RearmSync(o))
    /\ \A d \in Deliveries : WF_hookVars(focus = "webhooks" /\ HookRipen(d))
    /\ \A w \in HookWorkers : WF_hookVars(focus = "webhooks" /\ HookSweep(w))
    /\ \A a \in HookActors : WF_hookVars(focus = "webhooks" /\ HookAttempt(a))
    /\ \A o \in HookOperators : WF_hookVars(focus = "webhooks" /\ RearmDelivery(o))

Spec == Init /\ [][Next]_vars /\ Fairness

\* Every table of every service holds what its schema allows, and every request refers
\* only to rows that exist.
TypeOK ==
    /\ focus \in Services
    /\ SyncTypeOK /\ HookTypeOK /\ SeatTypeOK /\ KeyTypeOK
    /\ DeviceTypeOK /\ CouponTypeOK
    /\ MemberTypeOK /\ InviteTypeOK /\ GrantTypeOK /\ UsageTypeOK
===============================================================================
