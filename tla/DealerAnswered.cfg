SPECIFICATION FairSpec
CONSTANTS
    caller = caller
    callee1 = callee1
    callee2 = callee2
    c1 = c1
    c2 = c2
    Session <- OneCallee
    Call = {c1}
    CallerOf <- CallerOfAll
    MaxInv = 2
    Modes = {"skip", "killnowait"}
    Progress = {TRUE}
    Timed = {TRUE}
    Chunked = {c1}
    Stray <- Nobody
    MaxProgress = 0
INVARIANT OnePending
PROPERTY EveryCallAnswered
CHECK_DEADLOCK FALSE
