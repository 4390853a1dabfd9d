SPECIFICATION Spec
CONSTANTS
    Ids = {"a", "b"}
    Null = Null
    Ops <- ThreeOps
    Batch <- OneTypeEach
    Drivers = {"v4"}
    Cancellable = FALSE
    MaxFaults = 0
CHECK_DEADLOCK FALSE
INVARIANTS
    TemporaryErrorsAreRetried
