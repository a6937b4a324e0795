SPECIFICATION Spec
CONSTANTS
    Block <- TestBlocks
    Content = {"old", "new"}
    Garbage = Garbage
    StashId = {"a", "b", "c", "e", "bdc", "abcd"}
    None = None
    N = 13
    Cmd <- TestList
    InitialImages <- TestSource
    StaleLastCmd <- NoStale
    Faults = {"abort"}
    MaxFaults = 2
INVARIANTS
    VerifiedMeansResumable
