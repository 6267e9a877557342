SPECIFICATION Spec
CONSTANTS
    empty = empty
    word = word
    Text <- MCText
    EmptyText = empty
    OtherText = word
    Concat <- MCConcat
    Family = "sound"
    Texts <- MCTexts
    Reply <- MCReply
    MaxSlots = 3
    MAX_DEPTH = 4
    MAX_REGS = 12
INVARIANTS
    TwinsAgree
    CodeFits
    RunsAsWritten
CHECK_DEADLOCK FALSE
