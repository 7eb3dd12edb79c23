SPECIFICATION Spec
CONSTANTS
    Payments = {x1, x2}
    Synthetic = {}
    InitialFailed = {x1}
    Orders = {o1}
    ManualOrders = {}
    Pipelines = {p1}
    Workers = {w1, w2}
    Reconcilers = {r1}
    Timeout = 1
    MaxFaults = 1
    FaultKinds = {"crash", "lock_timeout", "torn_write"}
    None = None
INVARIANTS TypeOK   RecoveredOnlyIfPaid UnrecoveredForCause TimeoutOnlyAfterWindow
 
SYMMETRY WorkerSymmetry
CHECK_DEADLOCK FALSE
