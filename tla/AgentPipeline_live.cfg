SPECIFICATION FairSpec
CONSTANTS
    Batches = {b1, b2, b3, b4}
    NoBatch = NoBatch
    Workers = {w1, w2}
    ChanCap = 1
    MaxPolls = 1
    NetworkFails = TRUE
INVARIANTS
    NoSampleTwice
PROPERTIES
    CancelLeadsToReturn
    EventuallySettled
