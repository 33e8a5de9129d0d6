SPECIFICATION Spec
CONSTANTS
    None = None
    Workers = {w1}
    Replicas = {b1}
    Tasks = {trialExpiration}
    Events = {}
    Pausable = {}
    MaxAttempts = 2
    BatchSize = 2
    MaxRules = 0
    MaxRuns = 2
    MaxJobs = 2
    MaxRequests = 0
    MaxLost = 0
INVARIANTS
    OneChainPerTask
CHECK_DEADLOCK FALSE
