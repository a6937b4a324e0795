SPECIFICATION FairSpec
CONSTANTS
    Block <- FullBlocks
    Content = {"old", "new"}
    Garbage = Garbage
    StashId = {"a", "b", "c"}
    None = None
    N = 9
    Cmd <- FullList
    InitialImages <- FullSource
    StaleLastCmd <- NoStale
    Faults = {"kill", "io", "abort"}
    MaxFaults = 2
INVARIANTS
    TypeOK
    SuccessMeansTarget
    SavedIndexSound
    Resumable
PROPERTIES
    VerifyReadOnly
    EventuallyUpdated
