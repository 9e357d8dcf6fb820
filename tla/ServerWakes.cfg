SPECIFICATION Spec
CONSTANTS
    v1 = v1
    v2 = v2
    Viewer <- OneViewer
    Setups <- Resets
PROPERTIES
    WakesOnConnectionProblem
CHECK_DEADLOCK FALSE
