SPECIFICATION DSpec
CONSTANTS
    MaxLevel = 3
    MaxInclude = 2
    Entities = {"e", "lt"}
    Predefined = {"lt"}
    Shared = {"e"}
    Setups <- DocumentSetups
INVARIANTS
    SystemIdGiven
CHECK_DEADLOCK FALSE
