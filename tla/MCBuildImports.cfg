CONSTANTS
    Paths <- MCPaths
    Entry = "main"
    Texts <- MCTexts
    ParamLists <- MCParamLists
    Starts <- Projects
    ScriptTarget = "vm"
SPECIFICATION Spec
INVARIANT NoStaleBuild
CHECK_DEADLOCK FALSE
