SPECIFICATION Spec
CONSTANTS
    Payments = {x1}
    Synthetic = {}
    InitialFailed = {x1}
    Orders = {o1, o2, o3, o4}
    ManualOrders = {}
    Pipelines = {p1, p2}
    Workers = {}
    Reconcilers = {}
    Timeout = 1
    MaxFaults = 1
    FaultKinds = {"crash", "lock_timeout", "lost_response", "torn_read"}
    None = None
INVARIANTS OrdersPerPayment
SYMMETRY OrderSymmetry
CHECK_DEADLOCK FALSE
