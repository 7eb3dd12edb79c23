SPECIFICATION Spec
CONSTANTS
    Records <- MCRecords
    MaxRecords = 3
    MinAmount = 150
    Caps <- MCCaps
    AfaLimit = 15000
INVARIANTS AgreeUntilFirstDifference FallbackMeasured
CHECK_DEADLOCK FALSE
