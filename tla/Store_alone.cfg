SPECIFICATION Spec
CONSTANTS
    Procs = {p1, p2}
    Orders = {o1, o2}
    Files = {f1, f2, f3}
    MaxCrashes = 1
    None = None
INVARIANTS AloneIsInvisible
PROPERTIES AloneIsAtomic
SYMMETRY StoreSymmetry
CHECK_DEADLOCK FALSE
