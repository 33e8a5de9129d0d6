SPECIFICATION Spec
CONSTANTS
    NumEvents = 1
    SyncWorkers = {w1, w2}
    SyncOperators = {o1}
    MaxSyncAttempts = 2
    SyncBatchSize = 1
    MaxSyncRetries = 1
    MaxSyncLost = 1
    NumDeliveries = 1
    HookWorkers = {w1, w2}
    HookOperators = {o1}
    MaxHookAttempts = 2
    HookBatchSize = 1
    MaxHookRetries = 1
    MaxHookLost = 1
    SeatRequests = {r1, r2}
    SeatLimit = 1
    MaxBulk = 1
    MaxSeatTries = 2
    MaxAssignments = 3
    LicenseKeyIds = {k1}
    OwningLicenses = {l1, l2}
    ActivationLimits = {1, 2}
    KeyRequests = {r1, r2, r3}
    MaxKeyTries = 2
    DeviceIds = {d1, d2, d3}
    DeviceLicenses = {l1, l2}
    NoLicense = NoLicense
    DeviceLimit = 1
    DeviceRequests = {r1}
    PromotionCodes = {c1}
    NoCode = NoCode
    CouponRequests = {r1, r2}
    MaxRedemptions = 2
    MaxCodeRedemptions = 1
    People = {u1, u2}
    Founder = u1
    MemberRequests = {r1, r2}
    GrantRequests = {r1, r2}
    HandSources = {"MANUAL"}
    PlanValues = {1, 2}
    MaxGrants = 2
    InviteRequests = {r1, r2}
    MaxInvitations = 2
    UsageRequests = {r1, r2}
    UsageLimits = {1}
    NoLimit = NoLimit
    MaxAmount = 2
    MaxUsage = 2
INVARIANTS
    TypeOK
    
    SeatExclusive
    
    KeyAllowance
    DevicesWithinLimit
    
    OwnerlessOnlyByRace
    InvitationSpentOnce
    
    
PROPERTIES
    SyncImplementsOutbox
    EverySyncSettles
    HookImplementsOutbox
    EveryDeliverySettles
CHECK_DEADLOCK FALSE
