SPECIFICATION Spec
CONSTANTS
    None = None
    Workers = {w1, w2}
    Replicas = {b1}
    Tasks = {trialExpiration}
    Events = {x1}
    Pausable = {"default"}
    MaxAttempts = 2
    BatchSize = 1
    MaxRules = 1
    MaxRuns = 2
    MaxJobs = 1
    MaxRequests = 1
    MaxLost = 1
INVARIANTS
    TypeOK
    
    DeadOnlyWhenExhausted
    ProcessingIsHeld
    ChainAlive
    
PROPERTIES
    EveryJobSettles
CHECK_DEADLOCK FALSE
