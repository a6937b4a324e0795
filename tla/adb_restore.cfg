SPECIFICATION Spec
CONSTANTS
    Size <- MCSize
    M = 4
    PipeSize = 2
    Failures = TRUE
INVARIANTS
    TypeOK
    RestoredIntact
    DigestsMatch
PROPERTIES
    RestoreEnds
