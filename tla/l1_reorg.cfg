SPECIFICATION FairSpec
CONSTANTS
    Null = Null
    ctc = ctc
    scc = scc
    newCtc = newCtc
    newScc = newScc
    AddressZero = AddressZero
    Addresses = {ctc, scc}
    Deployed <- MCDeployed
    DeployBlock = 3
    Upgradable <- OnlyCtc
    Kinds = {"TransactionEnqueued", "SequencerBatchAppended", "QueueBatchAppended", "StateBatchAppended"}
    Shapes <- OneL1
    InitTip = 3
    MaxReorg = 1
    MaxLag = 1
    MaxBlock = 7
    MaxLogs = 5
    Confirmations = 2
    LogsPerPoll = 2
    SearchRange = 2
    CatchAllErrors = FALSE
    FaultKinds = {"crash", "rpc", "read", "reorg"}
    MaxFaults = 2
INVARIANTS StoredIsFinal SyncedMeansIndexed
PROPERTIES EntriesImmutable ImplementsIndexedChain EventuallyIndexed
