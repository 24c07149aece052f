SPECIFICATION L2Spec
CONSTANTS
    Null = Null
    TransactionsPerPoll = 2
    StopAt = 9
    LegacyModes = {TRUE, FALSE}
    L2CatchAllErrors = FALSE
    L2FaultKinds = {}
    MaxL2Faults = 0
    MaxL2Block = 4
PROPERTIES AtTheHeadIsSynced
