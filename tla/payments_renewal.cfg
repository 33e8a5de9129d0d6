SPECIFICATION Spec
CONSTANTS
    e1 = e1
    e2 = e2
    e3 = e3
    e4 = e4
    e5 = e5
    e6 = e6
    e7 = e7
    t1 = t1
    None = None
    Events <- RenewalEvents
    Txs = {t1}
    Workers = {w1}
    Elsewhere = {"ACTIVE", "CANCELED"}
    MaxRequests = 2
    MaxRows = 1
    MaxVersion = 4
INVARIANTS
    ChargeBookedOnce
CHECK_DEADLOCK FALSE
