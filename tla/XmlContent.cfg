SPECIFICATION MCSpec
CONSTANTS
    Table <- MCTable
    Expand = TRUE
    MaxChunk = 2
    Setups <- MCSetups
    CONTEXT_BYTES = 2
    INIT_SIZE = 1
    Doublings = 4
    MaxLen = 3
    MaxBytes = 7
INVARIANTS
    ErrorsAreReal
    BufferSafe
PROPERTIES
    ToldAsWritten
    FinishesComplete
    ElementsWithinEntities
CHECK_DEADLOCK FALSE
