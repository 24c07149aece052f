SPECIFICATION DataSpec
CONSTANTS
    Null = Null
    ctc = ctc
    scc = scc
    newCtc = newCtc
    newScc = newScc
    AddressZero = AddressZero
    Addresses = {ctc, scc}
    Deployed <- MCDeployed
    DeployBlock = 1
    Upgradable <- OnlyCtc
    Kinds = {"TransactionEnqueued", "SequencerBatchAppended", "StateBatchAppended"}
    Shapes <- MixedPair
    InitTip = 1
    MaxReorg = 1
    MaxLag = 0
    MaxBlock = 3
    MaxLogs = 6
    Confirmations = 1
    LogsPerPoll = 2
    SearchRange = 2
    CatchAllErrors = FALSE
    FaultKinds = {"reorg", "crash", "rpc", "serve"}
    MaxFaults = 1
    TransactionsPerPoll = 1
    StopAt = 0
    LegacyModes = {FALSE}
    L2CatchAllErrors = FALSE
    L2FaultKinds = {}
    MaxL2Faults = 0
    MaxL2Block = 0
    ShowUnconfirmed = FALSE
    Routes = {"syncing", "context", "enqueue", "transaction", "stateroot", "batch:transaction", "batch:stateroot"}
    Indices = {1}
    SyncFromL1 = TRUE
    SyncFromL2 = FALSE
    MayStop = FALSE
INVARIANTS DataTypeOK BatchBelongs ElementBelongs AllOrNothing FreshAnswer DoneMeansAllStored ContextIsFinal
