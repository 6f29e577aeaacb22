SPECIFICATION Spec
CONSTANTS
    MaxAttempts = 2
    MaxRuns = 2
    MaxListeners = 2
    MaxVersion = 1
    MaxId = 2
    Backlog = 1
    Capacity = 1
CHECK_DEADLOCK FALSE
INVARIANTS GivenOnceToItsListener 
 
