SPECIFICATION MCSpec
CONSTANTS
    u = u
    v = v
    Threads <- TwoThreads
    MaxMessages = 2
    MaxLosses = 2
    Throws = TRUE
    MaxChunks <- TwoUp
    Faults = {"reset", "refuse", "drop", "flush"}
INVARIANTS
    NoDataIsMissed
    ServedOnce
PROPERTIES
    StreamsArePipes
    OneMessageOnly
    EndClosesTunnel
    ServesAgain
CHECK_DEADLOCK FALSE
