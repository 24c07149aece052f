SPECIFICATION Spec
CONSTANTS
    Null = Null
    ctc = ctc
    scc = scc
    newCtc = newCtc
    newScc = newScc
    AddressZero = AddressZero
    Addresses = {ctc, scc, newCtc}
    Deployed <- MCDeployed
    DeployBlock = 1
    Upgradable <- OnlyCtc
    Kinds = {"AddressSet", "TransactionEnqueued", "SequencerBatchAppended"}
    Shapes <- OneL1
    InitTip = 1
    MaxReorg = 0
    MaxLag = 0
    MaxBlock = 4
    MaxLogs = 7
    Confirmations = 1
    LogsPerPoll = 3
    SearchRange = 2
    CatchAllErrors = FALSE
    FaultKinds = {"crash"}
    MaxFaults = 1
INVARIANTS SyncedMeansIndexed TransactionsResolve NoHoles
