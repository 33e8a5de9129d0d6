------------------------------ MODULE LicenseKeys ------------------------------
(***************************************************************************)
(* License keys and their activations.                                     *)
(*                                                                         *)
(* An activation reads the key, checks it, and increments activationCount  *)
(* by a compare-and-swap against the count it has read; when it loses, it  *)
(* starts over.  Keys expire, are revoked, and move to other licenses in   *)
(* between.                                                                *)
(***************************************************************************)
EXTENDS Naturals, FiniteSets

CONSTANTS
    LicenseKeyIds,      \* license keys
    OwningLicenses,     \* licenses of the organization
    ActivationLimits,   \* the activation limits that keys are generated with
    KeyRequests,        \* requests that may be served at the same time
    MaxKeyTries         \* MAX_ATTEMPTS of activate

ASSUME KeyAssumption ==
    /\ IsFiniteSet(KeyRequests)
    /\ ActivationLimits \subseteq Nat
    /\ MaxKeyTries \in Nat \ {0}

VARIABLES
    keys,       \* keys[k]: the LicenseKey row of k
    keyReq,     \* keyReq[r]: what request r does next, and what it has read
    granted,    \* granted[k]: history, how many activations were answered with success
    outlived    \* outlived[k]: history, how many of them after the key was revoked

keyVars == <<keys, keyReq, granted, outlived>>

NoKeyYet == [ status |-> "none", license |-> "none", limit |-> 0, count |-> 0, expired |-> FALSE ]

IdleKeyRequest == [ at |-> "idle", key |-> "none", count |-> 0, tries |-> 0, to |-> "none" ]

KeyReqDone(r) == keyReq' = [keyReq EXCEPT ![r] = IdleKeyRequest]

\* Variant: the count is incremented whatever it is by now.
CountUnchangedAlways(r) == TRUE

\* The condition of the compare-and-swap, evaluated under the lock of the key's row.
CountUnchanged(r) == keys[keyReq[r].key].count = keyReq[r].count

\* activate's checks.
MayActivate(k) ==
    keys[k].status = "ACTIVE" /\ ~ keys[k].expired /\ keys[k].count < keys[k].limit

-----------------------------------------------------------------------------
KeyInit ==
    /\ keys = [k \in LicenseKeyIds |-> NoKeyYet]
    /\ keyReq = [r \in KeyRequests |-> IdleKeyRequest]
    /\ granted = [k \in LicenseKeyIds |-> 0]
    /\ outlived = [k \in LicenseKeyIds |-> 0]

\* generate: for a license that is active when it is read.
GenerateKey(k, l, n) ==
    /\ keys[k].status = "none"
    /\ keys' = [keys EXCEPT ![k] =
                    [NoKeyYet EXCEPT !.status = "ACTIVE", !.license = l, !.limit = n]]
    /\ UNCHANGED <<keyReq, granted, outlived>>

ExpireKey(k) ==
    /\ keys[k].status # "none" /\ ~ keys[k].expired
    /\ keys' = [keys EXCEPT ![k].expired = TRUE]
    /\ UNCHANGED <<keyReq, granted, outlived>>

\* activate: the read and the checks, at the start and after a lost race.
CheckKey(r, k) ==
    /\ \/ keyReq[r].at = "idle"
       \/ keyReq[r].at = "retrying" /\ keyReq[r].key = k
    /\ MayActivate(k)
    /\ keyReq' = [keyReq EXCEPT ![r] =
           [@ EXCEPT !.at = "swapping", !.key = k, !.count = keys[k].count]]
    /\ UNCHANGED <<keys, granted, outlived>>

\* activate: a key that fails a check after a lost race is refused.
RefuseKey(r) ==
    /\ keyReq[r].at = "retrying"
    /\ ~ MayActivate(keyReq[r].key)
    /\ KeyReqDone(r)
    /\ UNCHANGED <<keys, granted, outlived>>

\* activate: the compare-and-swap.
ActivateKey(r) ==
    LET k == keyReq[r].key
    IN  /\ keyReq[r].at = "swapping"
        /\ CountUnchanged(r)
        /\ keys' = [keys EXCEPT ![k].count = @ + 1]
        /\ granted' = [granted EXCEPT ![k] = @ + 1]
        /\ outlived' = [outlived EXCEPT ![k] = IF keys[k].status = "REVOKED" THEN @ + 1 ELSE @]
        /\ KeyReqDone(r)

LoseActivation(r) ==
    /\ keyReq[r].at = "swapping"
    /\ ~ CountUnchanged(r)
    /\ IF keyReq[r].tries + 1 < MaxKeyTries
       THEN keyReq' = [keyReq EXCEPT ![r].at = "retrying", ![r].tries = @ + 1]
       ELSE KeyReqDone(r)
    /\ UNCHANGED <<keys, granted, outlived>>

\* revoke and transfer: the read and the checks; and then the update.
ReadKey(r, k) ==
    /\ keyReq[r].at = "idle"
    /\ \/ /\ keys[k].status = "ACTIVE"
          /\ keyReq' = [keyReq EXCEPT ![r].at = "revoking", ![r].key = k]
       \/ /\ keys[k].status # "none"
          /\ \E l \in OwningLicenses \ {keys[k].license} :
                 keyReq' = [keyReq EXCEPT ![r].at = "moving", ![r].key = k, ![r].to = l]
    /\ UNCHANGED <<keys, granted, outlived>>

RevokeKey(r) ==
    /\ keyReq[r].at = "revoking"
    /\ keys' = [keys EXCEPT ![keyReq[r].key].status = "REVOKED"]
    /\ KeyReqDone(r)
    /\ UNCHANGED <<granted, outlived>>

\* The count goes with the key: what was activated stays activated.
MoveKey(r) ==
    /\ keyReq[r].at = "moving"
    /\ keys' = [keys EXCEPT ![keyReq[r].key].license = keyReq[r].to]
    /\ KeyReqDone(r)
    /\ UNCHANGED <<granted, outlived>>

KeyNext ==
    \/ \E k \in LicenseKeyIds :
           \/ \E l \in OwningLicenses, n \in ActivationLimits : GenerateKey(k, l, n)
           \/ ExpireKey(k)
    \/ \E r \in KeyRequests :
           \/ \E k \in LicenseKeyIds : CheckKey(r, k) \/ ReadKey(r, k)
           \/ RefuseKey(r) \/ ActivateKey(r) \/ LoseActivation(r)
           \/ RevokeKey(r) \/ MoveKey(r)

KeySpec == KeyInit /\ [][KeyNext]_keyVars

-----------------------------------------------------------------------------
KeyTypeOK ==
    /\ keys \in [LicenseKeyIds ->
           [ status : {"none", "ACTIVE", "REVOKED"}, license : OwningLicenses \cup {"none"},
             limit : Nat, count : Nat, expired : BOOLEAN ]]
    /\ keyReq \in [KeyRequests ->
           [ at : {"idle", "swapping", "retrying", "revoking", "moving"},
             key : LicenseKeyIds \cup {"none"}, count : Nat, tries : Nat,
             to : OwningLicenses \cup {"none"} ]]
    /\ granted \in [LicenseKeyIds -> Nat] /\ outlived \in [LicenseKeyIds -> Nat]

\* A key is activated as often as its row says and never beyond its limit, however many
\* activations race for the last one, and wherever the key is moved meanwhile; and once it
\* is revoked, one activation at most still succeeds, of all that were checked before.
KeyAllowance ==
    \A k \in LicenseKeyIds :
        /\ granted[k] = keys[k].count
        /\ keys[k].count <= keys[k].limit
        /\ outlived[k] <= 1
===============================================================================
