SPECIFICATION Spec
CONSTANTS
    Batches = {b1, b2, b3, b4, b5}
    NoBatch = NoBatch
    Workers = {w1}
    ChanCap <- CodeChanCap
    MaxPolls = 2
    NetworkFails = TRUE
SYMMETRY BatchSymmetry
INVARIANTS
    TypeOK
    BatchExclusive
    PooledBatchesEmpty
    NoSampleLost
    NoSampleTwice
    NothingLeftBehind
PROPERTIES
    LedgerSpec
    OnlyRequeueReorders
