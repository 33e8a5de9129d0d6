SPECIFICATION Spec
CONSTANTS
    s1 = s1
    p1 = p1
    p2 = p2
    k1 = k1
    r1 = r1
    None = None
    Subs = {s1}
    Plans = {p1, p2}
    Keys = {k1}
    Requests = {r1}
    Ops = {"create", "createTrial", "grant", "renew", "changeNow", "cancelNow", "resume", "expire", "markPastDue", "enterGracePeriod", "suspend", "reactivate", "cancelLater", "changeLater", "unschedule", "extendTrial"}
    MaxVersion = 3
    MaxChanges = 1
    MaxTime = 2
    MaxLost = 0
SYMMETRY Symmetry
INVARIANTS
    EventChain
    
    SwitchAppliedOnce
PROPERTIES
    LifecycleSpec
    RenewHonoursCancel
    
CHECK_DEADLOCK FALSE
