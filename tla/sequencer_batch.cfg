SPECIFICATION Spec
CONSTANTS
    Null = Null
    Transactions <- FourTransactions
    Timestamps = {300}
    BlockNumbers = {7}
    MaxContexts = 2
    MaxSequenced = 2
    MaxQueued = 2
    PrevTotalElements = 5
    StartingQueueIndex = 3
CHECK_DEADLOCK FALSE
INVARIANTS DecodesTheBatch CutIsNoticed
