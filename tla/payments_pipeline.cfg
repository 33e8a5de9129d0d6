SPECIFICATION Spec
CONSTANTS
    e1 = e1
    e2 = e2
    e3 = e3
    e4 = e4
    e5 = e5
    e6 = e6
    e7 = e7
    t1 = t1
    None = None
    Events <- AllEvents
    Txs = {t1, t2}
    Workers = {w1, w2}
    Elsewhere = {"ACTIVE", "CANCELED"}
    MaxRequests = 2
    MaxRows = 1
    MaxVersion = 2
SYMMETRY Symmetry
INVARIANTS
    TypeOK
    ProcessedIsBooked
    
    StatusExplained
    LedgerBacked
CHECK_DEADLOCK FALSE
