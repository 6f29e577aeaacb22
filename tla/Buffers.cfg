SPECIFICATION Spec
CONSTANTS
    o1 = o1
    t1 = t1
    t2 = t2
    heap = heap
    None = None
    Owner = {o1}
    Token = {t1, t2}
    Home <- AllHome
    Size <- OneByte
    MaxOwners = 1
    MaxBytes = 1
    MaxLeases = 1
    MaxHandle = 2
    MaxFrame = 2
    MaxFrames = 2
    Capacity = 1
    MaxViews = 1
    LastHeap = 1
    Links <- TwoLinks
CHECK_DEADLOCK FALSE
INVARIANTS  OwnerOutlivesLoans BorrowedThroughFlush
PROPERTIES StaleHandleStaysDead LoansPromise
