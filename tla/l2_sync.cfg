SPECIFICATION L2FairSpec
CONSTANTS
    Null = Null
    TransactionsPerPoll = 2
    StopAt = 4
    LegacyModes = {TRUE, FALSE}
    L2CatchAllErrors = FALSE
    L2FaultKinds = {"crash", "rpc", "read", "lag", "rewind"}
    MaxL2Faults = 2
    MaxL2Block = 5
INVARIANTS L2TypeOK SyncedBlocksStored RootsHaveTransactions StopsAtStopBlock
PROPERTIES EventuallyStored
