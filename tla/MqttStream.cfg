SPECIFICATION FairSpec
CONSTANTS
    Modes = {"tcp", "ws"}
    Coalesce = TRUE
    Controls = {"ping", "close"}
    Sizes = {1, 3}
    Answers = {1}
    Limit = 2
    PollLimit = 1
    ChunkCapacity = 1
    SendCapacity = 1
    Budget = 2
    MaxItems = 3
CHECK_DEADLOCK FALSE
INVARIANTS InOrder BudgetKept
PROPERTIES BytesReachDart
