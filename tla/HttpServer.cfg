SPECIFICATION HttpSpec
CONSTANTS
    MaxRequests = 2
    MuxRequests = 1
    MaxLen = 2
    InlineLimit = 1
    StreamBuffer = 1
    MaxChunks = 2
CHECK_DEADLOCK FALSE
INVARIANTS BodiesWhole AnswersWhole SleepersAwaited
PROPERTIES OneEvent
