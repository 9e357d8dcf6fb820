SPECIFICATION DSpec
CONSTANTS
    MaxLevel = 3
    MaxInclude = 2
    Entities = {"e", "lt"}
    Predefined = {"lt"}
    Shared = {"e"}
    Setups <- MCSetups
INVARIANTS
    ModelsFit
    EventsAsSpelled
PROPERTIES
    TellsDeclarations
    ReportsTheDeclaration
    ConnectorsNotMixed
    FirstDeclarationBinds
    NothingAfterSkipped
CHECK_DEADLOCK FALSE
