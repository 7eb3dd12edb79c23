SPECIFICATION Spec
CONSTANTS
    Payments = {x1}
    Synthetic = {x1}
    InitialFailed = {}
    Orders = {m1}
    ManualOrders = {m1}
    Pipelines = {p1}
    Workers = {}
    Reconcilers = {r1}
    Timeout = 1
    MaxFaults = 0
    FaultKinds = {}
    None = None
PROPERTY MalformedIsSkipped
CHECK_DEADLOCK FALSE
