SPECIFICATION Spec
CONSTANTS
    Payments = {x1}
    Synthetic = {}
    InitialFailed = {x1}
    Orders = {o1}
    ManualOrders = {}
    Pipelines = {p1}
    Workers = {}
    Reconcilers = {r1}
    Timeout = 1
    MaxFaults = 0
    FaultKinds = {}
    None = None
INVARIANTS ResolutionReplaces
CHECK_DEADLOCK FALSE
