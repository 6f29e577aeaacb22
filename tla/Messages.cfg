CONSTANTS
    w1 = w1
    w2 = w2
    Workers = {w1, w2}
    Inputs <- MCInputs
    Raced <- MCRaced
    MaxMessages = 1
    MaxHandles = 3
    MaxViews = 1
    MaxQueue = 1
SYMMETRY Symmetry
SPECIFICATION MessagesSpec
CHECK_DEADLOCK FALSE
INVARIANTS NeverOverwritten  ForwardedFaithfully
