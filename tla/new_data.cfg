SPECIFICATION FairSpec
CONSTANTS
    K = 3
    Need <- MCNeed
    StreamLen = 6
    MaxChunk = 3
    EmptyPieces = 2
    Errors = TRUE
INVARIANTS
    TypeOK
    ReceiverOwnsWriter
    NewDataInOrder
PROPERTIES
    ServesTheStream
