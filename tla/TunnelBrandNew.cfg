SPECIFICATION Spec
CONSTANTS
    MaxChunks <- ClientSends
    MaxDrops = 0
    Faults <- NoFaults
PROPERTIES
    OnlyBrandNewThreads
CHECK_DEADLOCK FALSE
