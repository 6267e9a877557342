SPECIFICATION FairSpec
CONSTANTS
    p1 = p1
    p2 = p2
    p3 = p3
    nil = nil
    Proc <- MCProc
    Slot <- MCSlot
    Live <- MCLive
    Num <- MCNum
    Other <- MCOther
    Nil = nil
    Bits <- MCNum
    ToBits <- MCToBits
    NOT_A_NUMBER_SLOT = 11
    MaxCalls = 4
INVARIANTS
    GuardsMatchThreads
    HeavyAuthoritative
PROPERTIES
    StoresAreAtomic
    CallsComplete
CHECK_DEADLOCK FALSE
