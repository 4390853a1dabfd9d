SPECIFICATION Spec
CONSTANTS
    Slots = {r1}
    Requests <- AllRequests
    NoRequest = NoRequest
    Settings <- ProductionSettings
CHECK_DEADLOCK FALSE
INVARIANTS
    DocumentedUpdateIsAccepted
