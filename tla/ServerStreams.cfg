SPECIFICATION Spec
CONSTANTS
    v1 = v1
    v2 = v2
    Viewer <- TwoViewers
    Setups <- Sessions
SYMMETRY Viewers
INVARIANTS
    IInv
    OwnStream
    SplitOnlyByRestart
    HealthySessionKept
CHECK_DEADLOCK FALSE
