SPECIFICATION FairSpec
CONSTANTS
    Payments = {x1}
    Synthetic = {}
    InitialFailed = {x1}
    Orders = {o1, m1}
    ManualOrders = {m1}
    Pipelines = {p1}
    Workers = {w1}
    Reconcilers = {r1}
    Timeout = 0
    MaxFaults = 1
    FaultKinds = {"crash", "lock_timeout"}
    None = None
INVARIANTS EventLogAgrees
PROPERTIES PendingIsLeft 
CHECK_DEADLOCK FALSE
