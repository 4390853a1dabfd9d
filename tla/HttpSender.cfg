SPECIFICATION FairSpec
CONSTANTS
    Size = 4
    Invalid = {2}
    NoForms = {{}, {3}}
    TooLongs = {{}, {0, 1}}
    MaxConc = 2
    Deadlines = {4, 20}
    Cancellable = TRUE
    Senders = {"http", "grpc"}
    Servers = {{"batch", "json", "text", "grpc"}, {"text"}}
    MaxFaults = 4
CHECK_DEADLOCK FALSE
INVARIANTS
    DuplicatesAreExplained
    LossNeedsEveryAttemptToFail
    ExactlyOnceWithoutFaults
    OverAtTheDeadline
    ResultIsHonest
PROPERTIES
    NothingSentAfterReturn
    Returns
