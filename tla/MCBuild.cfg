CONSTANTS
    Paths <- MCPaths
    Entry = "main"
    Texts <- MCTexts
    ParamLists <- MCParamLists
    Starts <- MCStarts
    ScriptTarget = "vm"
SPECIFICATION Spec
INVARIANTS
    ImportsLoaded
    SuccessIsWhole
PROPERTIES
    WorkKept
CHECK_DEADLOCK FALSE
