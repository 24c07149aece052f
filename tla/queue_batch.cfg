SPECIFICATION Spec
CONSTANTS
    Null = Null
    ctc = ctc
    scc = scc
    newCtc = newCtc
    newScc = newScc
    AddressZero = AddressZero
    Addresses = {ctc, scc}
    Deployed <- MCDeployed
    DeployBlock = 1
    Upgradable <- OnlyCtc
    Kinds = {"TransactionEnqueued", "QueueBatchAppended"}
    Shapes <- OneL1
    InitTip = 1
    MaxReorg = 0
    MaxLag = 0
    MaxBlock = 4
    MaxLogs = 6
    Confirmations = 1
    LogsPerPoll = 2
    SearchRange = 2
    CatchAllErrors = FALSE
    FaultKinds = {}
    MaxFaults = 1
INVARIANTS QueueBatchesIndexed
