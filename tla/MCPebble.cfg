SPECIFICATION Spec
CONSTANTS
    Texts <- MCTexts
    MaxDepth = 2
    MaxRuns = 2
INVARIANTS
    BooksClosed
    MeansWhatItSays
    DiagnosticsOnce
CHECK_DEADLOCK FALSE
