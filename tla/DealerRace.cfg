SPECIFICATION Spec
CONSTANTS
    caller = caller
    callee1 = callee1
    callee2 = callee2
    c1 = c1
    c2 = c2
    Session <- TwoCallees
    Call = {c1}
    CallerOf <- CallerOfAll
    MaxInv = 1
    Modes = {"skip", "kill", "killnowait"}
    Progress = {TRUE, FALSE}
    Timed = {TRUE}
    Chunked <- Nobody
    Stray = {callee2}
    MaxProgress = 1
CHECK_DEADLOCK FALSE
INVARIANTS OneAnswer NoOrphans 
