SPECIFICATION Spec
CONSTANTS
    s1 = s1
    p1 = p1
    k1 = k1
    r1 = r1
    None = None
    Subs = {s1}
    Plans = {p1}
    Keys = {k1}
    Requests = {r1}
    Ops = {"create", "cancelLater", "resume", "renew"}
    MaxVersion = 4
    MaxChanges = 1
    MaxTime = 2
    MaxLost = 0
PROPERTIES
    RenewCancelsOnlyFlagged
CHECK_DEADLOCK FALSE
