SPECIFICATION Spec
CONSTANTS
    Procs = {p1, p2}
    Orders = {o1}
    Files = {f1, f2, f3}
    MaxCrashes = 0
    None = None
INVARIANTS PoppedOnce
SYMMETRY StoreSymmetry
CHECK_DEADLOCK FALSE
