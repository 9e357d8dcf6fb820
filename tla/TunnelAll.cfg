SPECIFICATION MCSpec
CONSTANTS
    MaxChunks <- MCChunk
    MaxDrops = 1
    Faults <- FaultKinds
INVARIANTS
    EndMeansAll
    IInv
    CompleteUnlessLost
PROPERTIES
    StopIsFinal
    DownstreamIsPipe
    UpstreamIsPipe
CHECK_DEADLOCK FALSE
