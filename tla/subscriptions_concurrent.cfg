SPECIFICATION Spec
CONSTANTS
    s1 = s1
    s2 = s2
    p1 = p1
    k1 = k1
    r1 = r1
    r2 = r2
    None = None
    Subs = {s1, s2}
    Plans = {p1}
    Keys = {k1}
    Requests = {r1, r2}
    Ops = {"create", "createTrial", "activate", "pause", "expire", "extendTrial", "adjustRenewalDate"}
    MaxVersion = 2
    MaxChanges = 1
    MaxTime = 1
    MaxLost = 1
SYMMETRY Symmetry
INVARIANTS
    TypeOK
    KeyAppliedOnce
    LogMatchesRow
    TrialingHasOpenTrial
    OneTrial
    FollowUpOnce
PROPERTIES
    VersionMovesWithRow
CHECK_DEADLOCK FALSE
