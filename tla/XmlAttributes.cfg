SPECIFICATION Spec
CONSTANTS
    Triplets = FALSE
    ElementNames <- MCElements
    AttributeNames <- MCAttributes
    PrefixNames <- MCPrefixNames
    Written <- MCWritten
    Tags <- MCTags
    Tokenized <- MCTokenized
    Hash <- MCHash
    INIT_ATTS_VERSION = 2
    Setups <- MCSetups
INVARIANTS
    RefusedRightly
    AttributesAsDeclared
    EndsAsItBegan
    NothingLeftBehind
CHECK_DEADLOCK FALSE
