SPECIFICATION Spec
CONSTANTS
    Null = Null
    ctc = ctc
    scc = scc
    newCtc = newCtc
    newScc = newScc
    AddressZero = AddressZero
    Addresses = {ctc, scc}
    Deployed <- MCDeployed
    DeployBlock = 1
    Upgradable <- OnlyCtc
    Kinds = {"TransactionEnqueued"}
    Shapes <- OneL1
    InitTip = 1
    MaxReorg = 0
    MaxLag = 0
    MaxBlock = 5
    MaxLogs = 3
    Confirmations = 2
    LogsPerPoll = 4
    SearchRange = 2
    CatchAllErrors = FALSE
    FaultKinds = {}
    MaxFaults = 1
INVARIANTS SyncedMeansIndexed
