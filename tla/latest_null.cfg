SPECIFICATION DataSpec
CONSTANTS
    Null = Null
    ctc = ctc
    scc = scc
    newCtc = newCtc
    newScc = newScc
    AddressZero = AddressZero
    Addresses = {ctc, scc}
    Deployed <- MCDeployed
    DeployBlock = 1
    Upgradable <- OnlyCtc
    Kinds = {"SequencerBatchAppended"}
    Shapes <- OneSequenced
    InitTip = 1
    MaxReorg = 0
    MaxLag = 0
    MaxBlock = 2
    MaxLogs = 3
    Confirmations = 0
    LogsPerPoll = 2
    SearchRange = 2
    CatchAllErrors = FALSE
    FaultKinds = {}
    MaxFaults = 0
    TransactionsPerPoll = 1
    StopAt = 9
    LegacyModes = {FALSE}
    L2CatchAllErrors = FALSE
    L2FaultKinds = {"rpc"}
    MaxL2Faults = 1
    MaxL2Block = 2
    ShowUnconfirmed = TRUE
    Routes = {"transaction"}
    Indices = {0}
    SyncFromL1 = TRUE
    SyncFromL2 = TRUE
    MayStop = FALSE
INVARIANTS LatestIsAnswered
