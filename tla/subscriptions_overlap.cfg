SPECIFICATION Spec
CONSTANTS
    s1 = s1
    p1 = p1
    k1 = k1
    r1 = r1
    r2 = r2
    None = None
    Subs = {s1}
    Plans = {p1}
    Keys = {k1}
    Requests = {r1, r2}
    Ops = {"createTrial", "expire", "activate", "pause", "reactivate"}
    MaxVersion = 2
    MaxChanges = 0
    MaxTime = 1
    MaxLost = 0
PROPERTIES
    StatusFollowsAllowList
CHECK_DEADLOCK FALSE
