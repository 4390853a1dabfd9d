SPECIFICATION FairSpec
CONSTANTS
    Slots = {r1, r2}
    Requests <- AllRequests
    NoRequest = NoRequest
    Settings <- AllSettings
CHECK_DEADLOCK FALSE
INVARIANTS
    EffectIsAPrefix
    AnswerTellsTheEffect
    OutsiderIsInvisible
    GrpcBatchIsAtomic
    AcknowledgedIsFound
PROPERTIES
    Answered
