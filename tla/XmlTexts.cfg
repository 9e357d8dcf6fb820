SPECIFICATION MCSpec
CONSTANTS
    CDATA_LSQB <- MC_LSQB
    XmlTarget <- MCTarget
    XmlMisspelt <- MCMisspelt
    Beginnings <- MCBeginnings
    Pieces <- MCPieces
    MaxPieces = 4
    Names <- MCNames
    Tables <- MCTables
    EntityPlaces <- MCEntityPlaces
    AttributePlaces <- MCAttributePlaces
    Predefined <- MCPredefined
    CharRefs <- MCCharRefs
INVARIANTS
    PiecesDoNotMatter
    LinesAddUp
    TokensAsSpelled
    ValuesAsSpelled
CHECK_DEADLOCK FALSE
