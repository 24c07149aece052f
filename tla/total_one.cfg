SPECIFICATION Spec
CONSTANTS
    Null = Null
    ctc = ctc
    scc = scc
    newCtc = newCtc
    newScc = newScc
    AddressZero = AddressZero
    Addresses = {ctc, scc}
    Deployed <- MCDeployed
    DeployBlock = 1
    Upgradable <- OnlyCtc
    Kinds = {"TransactionEnqueued", "SequencerBatchAppended"}
    Shapes <- OneOfEach
    InitTip = 1
    MaxReorg = 0
    MaxLag = 0
    MaxBlock = 3
    MaxLogs = 4
    Confirmations = 0
    LogsPerPoll = 2
    SearchRange = 2
    CatchAllErrors = FALSE
    FaultKinds = {}
    MaxFaults = 1
PROPERTIES TotalIsStored
