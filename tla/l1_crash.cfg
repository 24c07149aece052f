SPECIFICATION Spec
CONSTANTS
    Null = Null
    ctc = ctc
    scc = scc
    newCtc = newCtc
    newScc = newScc
    AddressZero = AddressZero
    Addresses = {ctc, scc}
    Deployed <- MCDeployed
    DeployBlock = 1
    Upgradable <- OnlyCtc
    Kinds = {"TransactionEnqueued", "SequencerBatchAppended", "StateBatchAppended"}
    Shapes <- Mixed
    InitTip = 1
    MaxReorg = 0
    MaxLag = 0
    MaxBlock = 4
    MaxLogs = 7
    Confirmations = 1
    LogsPerPoll = 2
    SearchRange = 2
    CatchAllErrors = TRUE
    FaultKinds = {"crash", "rpc"}
    MaxFaults = 1
INVARIANTS TypeOK SyncedMeansIndexed NoHoles TransactionsResolve StateRootsHaveTransactions StateRootsResolve LatestResolves CtcIndexPointsBack LatestReachesSynced
PROPERTIES LatestNeverGoesBack
