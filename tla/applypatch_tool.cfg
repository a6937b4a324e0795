SPECIFICATION FairSpec
CONSTANTS
    Devices <- ToolDevices
    C = 3
    Jobs <- ToolRuns
    Tool = TRUE
    Capacity = 7
    ImageSize = 2
    CacheFiles <- NoFiles
    Open <- NoFiles
    Leftover <- NoLeftover
    FaultKinds = {"kill", "power", "io", "badflash"}
    MaxFaults = 3
INVARIANTS
    PatchedMeansTarget
