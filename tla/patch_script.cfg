SPECIFICATION FairSpec
CONSTANTS
    Devices <- UpdateDevices
    C = 3
    Jobs <- UpdateScript
    Tool = FALSE
    Capacity = 12
    ImageSize = 4
    CacheFiles <- SomeFiles
    Open <- OpenFiles
    Leftover <- SomeLeftovers
    FaultKinds = {"kill", "power", "io", "badflash"}
    MaxFaults = 3
INVARIANTS
    TypeOK
    Resumable
    PatchedMeansTarget
    CheckedMeansPatchable
    PatchedMeansWritten
    NewestLogsLast
PROPERTIES
    PatchedStays
    EventuallyPatched
