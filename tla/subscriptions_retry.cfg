SPECIFICATION Spec
CONSTANTS
    s1 = s1
    p1 = p1
    k1 = k1
    r1 = r1
    None = None
    Subs = {s1}
    Plans = {p1}
    Keys = {k1}
    Requests = {r1}
    Ops = {"grant", "cancelLater"}
    MaxVersion = 3
    MaxChanges = 2
    MaxTime = 1
    MaxLost = 0
PROPERTIES
    SpentKeyHasNoEffect
CHECK_DEADLOCK FALSE
