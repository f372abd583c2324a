CONSTANTS
    Size = 5
    ChunkSizes = {2, 3}
    MaxConns = 3
SPECIFICATION FairSpec
INVARIANTS
    TypeOK
    PartsAreWhole
    CommitsWholeFile
    OneWorkerPerChunk
    ProgressIsAcknowledged
    IInv
PROPERTIES
    ImplementsChunkTransfer
    UploadEnds
    ProgressEnds
\* A goroutine that waits for ever is what UploadEnds is about.
CHECK_DEADLOCK FALSE
