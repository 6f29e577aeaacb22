SPECIFICATION FairSpec
CONSTANTS
    c1 = c1
    c2 = c2
    c3 = c3
    Peer = {c1, c2, c3}
    Talking = {c1, c2}
    Leaving = {c2}
    Slow = {c3}
    Idle = {c3}
    MaxFail = 1
CHECK_DEADLOCK FALSE
INVARIANTS SlotSound
PROPERTIES Served
