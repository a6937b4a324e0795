CONSTANTS
    Disk <- MCDisk
    Layouts <- MCLayouts
    MaxPackages = 2
    WINDOW_SIZE = 2
    MaxFailures = 1
    MaxRequests = 1
    MaxFaults = 3
SPECIFICATION Spec
CHECK_DEADLOCK FALSE
INVARIANTS
    TypeOK
    InstallReadsThePackage
    MapCompleteOrAbsent
    AtMostOnce
PROPERTIES
    RecoveryEnds
    NotLost
