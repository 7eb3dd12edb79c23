SPECIFICATION Spec
CONSTANTS
    Admins = {a1, a2}
    RetryCauses = {"INSUFFICIENT_FUNDS", "CARD_DECLINED"}
    MinAmounts <- MCMinAmounts
    DefaultMin = 2
    DefaultCaps <- MCDefaultCaps
    MaxCap = 2
    MaxUpdates = 2
    SettingsFaults = {"crash", "lock_timeout", "torn_write", "db_read", "db_write"}
    MaxFaults = 1
    None = None
    Records <- MCRecords
    AfaLimit <- Afa
    MaxRecords = 2
INVARIANTS BatchTypeOK DecidedInForce CapChangesLogged ReportBalances
PROPERTIES OtherCausesKept AttemptsInForce
SYMMETRY AdminSymmetry
CHECK_DEADLOCK FALSE
