CONSTANTS
    Sources <- MCSources
    MaxCallDepth = 2
    MaxOutput = 3
SPECIFICATION Spec
INVARIANTS
    BooksBalance
    PayloadsTravel
    LoopControlIsLexical
    FoldedAsDeclared
PROPERTIES
    ParametersKept
    RunsEnd
CHECK_DEADLOCK FALSE
