-------------------------------- MODULE Devices --------------------------------
(***************************************************************************)
(* The devices registered under the licenses of an application.            *)
(*                                                                         *)
(* A registration is a serializable transaction: it looks the device up,   *)
(* counts the active devices of the license only if the device is new, and *)
(* inserts or updates it.  Devices go inactive after a time without a sign *)
(* of life, are deactivated or removed by their owner, and are blocked.    *)
(***************************************************************************)
EXTENDS Naturals, FiniteSets

CONSTANTS
    DeviceIds,          \* devices
    DeviceLicenses,     \* licenses of the application
    NoLicense,          \* a registration without a license
    DeviceLimit,        \* License.deviceLimit of every license
    DeviceRequests      \* requests to block a device that may overlap

ASSUME DeviceAssumption ==
    /\ IsFiniteSet(DeviceIds)
    /\ NoLicense \notin DeviceLicenses
    /\ DeviceLimit \in Nat

VARIABLES
    devices,    \* devices[d]: the DeviceRegistration row of d
    blocking,   \* blocking[r]: the devices that request r has found not blocked
    moved       \* history: devices that came to their license when they were known already

deviceVars == <<devices, blocking, moved>>

DeviceStatuses == {"none", "ACTIVE", "INACTIVE", "BLOCKED", "REMOVED"}

Known(d) == devices[d].status # "none"

ActiveOn(l) == { d \in DeviceIds : devices[d].status = "ACTIVE" /\ devices[d].license = l }

\* Variant: a known device that registers is active again.
StatusReactivated(d) == "ACTIVE"

\* The status of d once it is registered: the update leaves it as it is.
RegisteredStatus(d) == IF Known(d) THEN devices[d].status ELSE "ACTIVE"

\* The limit, for a new device.
HasRoom(l) == l # NoLicense => Cardinality(ActiveOn(l)) < DeviceLimit

-----------------------------------------------------------------------------
DeviceInit ==
    /\ devices = [d \in DeviceIds |-> [ status |-> "none", license |-> NoLicense ]]
    /\ blocking = [r \in DeviceRequests |-> {}]
    /\ moved = {}

\* register: a registration without a license leaves the license of a known device.
RegisterDevice(d, l) ==
    /\ Known(d) \/ HasRoom(l)
    /\ LET license == IF Known(d) /\ l = NoLicense THEN devices[d].license ELSE l
       IN  /\ devices' = [devices EXCEPT ![d] =
                              [ status |-> RegisteredStatus(d), license |-> license ]]
           /\ moved' = IF Known(d) /\ license # devices[d].license THEN moved \cup {d}
                       ELSE moved
    /\ UNCHANGED blocking

\* The scheduled cleanup, and deactivate of the customer portal, whatever the status.
CleanUpDevice(d) ==
    /\ devices[d].status = "ACTIVE"
    /\ devices' = [devices EXCEPT ![d].status = "INACTIVE"]
    /\ UNCHANGED <<blocking, moved>>

DeactivateDevice(d) ==
    /\ Known(d)
    /\ devices' = [devices EXCEPT ![d].status = "INACTIVE"]
    /\ UNCHANGED <<blocking, moved>>

\* remove of the customer portal keeps the row.
RemoveDevice(d) ==
    /\ Known(d)
    /\ devices' = [devices EXCEPT ![d].status = "REMOVED"]
    /\ UNCHANGED <<blocking, moved>>

\* revoke: the check; and then the update.
FindDevice(r, d) ==
    /\ blocking[r] = {}
    /\ Known(d) /\ devices[d].status # "BLOCKED"
    /\ blocking' = [blocking EXCEPT ![r] = {d}]
    /\ UNCHANGED <<devices, moved>>

BlockDevice(r) ==
    /\ blocking[r] # {}
    /\ devices' = [d \in DeviceIds |->
           IF d \in blocking[r] THEN [devices[d] EXCEPT !.status = "BLOCKED"] ELSE devices[d]]
    /\ blocking' = [blocking EXCEPT ![r] = {}]
    /\ UNCHANGED moved

DeviceNext ==
    \/ \E d \in DeviceIds :
           \/ \E l \in DeviceLicenses \cup {NoLicense} : RegisterDevice(d, l)
           \/ CleanUpDevice(d) \/ DeactivateDevice(d) \/ RemoveDevice(d)
           \/ \E r \in DeviceRequests : FindDevice(r, d)
    \/ \E r \in DeviceRequests : BlockDevice(r)

DeviceSpec == DeviceInit /\ [][DeviceNext]_deviceVars

-----------------------------------------------------------------------------
DeviceTypeOK ==
    /\ devices \in [DeviceIds ->
           [ status : DeviceStatuses, license : DeviceLicenses \cup {NoLicense} ]]
    /\ blocking \in [DeviceRequests -> SUBSET DeviceIds]
    /\ moved \subseteq DeviceIds

\* A license has no more active devices than its limit, but for the devices that were
\* known already when they came to it: registering, going quiet, being blocked and
\* registering again never adds one.
DevicesWithinLimit ==
    \A l \in DeviceLicenses : Cardinality(ActiveOn(l) \ moved) <= DeviceLimit
===============================================================================
