SPECIFICATION Spec
CONSTANTS
    Writers = {w1, w2}
    Entries = {e1}
    MaxAppends = 3
    MaxKills = 1
    None = None
    Records <- MCRecords
INVARIANTS NothingLost LadderClimbs
PROPERTIES LockedAppendIsAtomic 
SYMMETRY WriterSymmetry
CHECK_DEADLOCK FALSE
