SPECIFICATION SeatSpec
CONSTANTS
    SeatRequests = {r1, r2}
    SeatLimit = 2
    MaxBulk = 2
    MaxSeatTries = 2
    MaxAssignments = 3
INVARIANTS
    NeverOverAllocated
CHECK_DEADLOCK FALSE
