SPECIFICATION Spec
CONSTANTS
    Admins = {a1, a2}
    RetryCauses = {"INSUFFICIENT_FUNDS", "CARD_DECLINED"}
    MinAmounts <- MCMinAmounts
    DefaultMin = 2
    DefaultCaps <- MCDefaultCaps
    MaxCap = 2
    MaxUpdates = 3
    SettingsFaults = {}
    MaxFaults = 0
    None = None
    Records <- MCRecords
    AfaLimit <- Afa
    MaxRecords = 2
INVARIANTS EveryChangeLogged
CHECK_DEADLOCK FALSE
