SPECIFICATION FairSpec
CONSTANTS
    Kinds = {"raw", "ws"}
    Capacity = 1
    FrameCapacity = 1
    Timers <- MCTimers
    Items = {"msg", "ping", "pong", "bad"}
    Qualities = {"good", "unprepared", "unencodable", "barrier"}
    MaxIn = 1
    MaxSend = 2
    MaxPings = 1
CHECK_DEADLOCK FALSE
INVARIANTS NothingAfterTheEnd 
PROPERTIES EndsCleanly SilenceNoticed
