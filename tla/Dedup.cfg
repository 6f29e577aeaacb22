SPECIFICATION FairSpec
CONSTANTS
    alice = alice
    bob = bob
    c1 = c1
    c2 = c2
    c3 = c3
    h1 = h1
    h2 = h2
    NoHash = NoHash
    Session = {alice, bob}
    Call = {c1, c2, c3}
    CallerOf <- CallerOfAll
    Hash = {h1, h2}
    HashOf <- HashOfAll
    Policies = {"throttle", "debounce"}
    Capacity = 1
    Global = 2
    Expiry = 1
    Debounce = 1
    MaxInv = 3
    MaxReg = 1
    MaxAsk = 1
    LastAsk = 1
CHECK_DEADLOCK FALSE
INVARIANTS DedupConsistent ThrottleHolds
PROPERTIES  EveryAskTold
