SPECIFICATION FairSpec
CONSTANTS
    Ids = {"a", "b"}
    Null = Null
    Ops <- ThreeOps
    Batch <- OneTypeEach
    Drivers = {"v4", "v5"}
    Cancellable = TRUE
    MaxFaults = 1
CHECK_DEADLOCK FALSE
INVARIANTS
    AnswerTellsTheCommit
    CountersKeepUpWithGauges
PROPERTIES
    Finishes
    StoreSpec
