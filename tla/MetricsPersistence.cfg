SPECIFICATION FairSpec
CONSTANTS
    c1 = c1
    c2 = c2
    c3 = c3
    g1 = g1
    nan = nan
    h1 = h1
    h2 = h2
    Updates = {c1, c2, c3, g1, nan}
    GaugeUpdates = {g1, nan}
    NaNUpdates = {nan}
    GrpcUpdates = {c3}
    BatchUpdates = {c2}
    HttpHandlers = {h1, h2}
    NoUpdate = NoUpdate
    Settings <- AllSettings
INVARIANTS
    CountedOnce
    FileReadableAlone
    AckedDurable
PROPERTIES
    CountersOnlyGrow
    GracefulExitSaves
    CheckpointSpec
    EventuallySaved
