SPECIFICATION Spec
CONSTANTS
    Block <- DisjointBlocks
    Content = {"old", "new"}
    Garbage = Garbage
    StashId = {"a", "b", "c"}
    None = None
    N = 7
    Cmd <- DisjointList
    InitialImages <- DisjointAnything
    StaleLastCmd <- NoStale
    Faults = {"power", "kill", "io"}
    MaxFaults = 2
INVARIANTS
    VerifiedMeansResumable
