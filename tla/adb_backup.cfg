SPECIFICATION Spec
CONSTANTS
    Files <- MCFiles
    R = 2
    M = 6
    PipeSize = 4
    MaxStray = 1
INVARIANTS
    TypeOK
    BackupRestorable
    StreamFormat
PROPERTIES
    BothEnd
