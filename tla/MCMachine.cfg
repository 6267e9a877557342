SPECIFICATION FairSpec
CONSTANTS
    empty = empty
    text = text
    Text <- MCText
    EmptyText = empty
    OtherText = text
    Concat <- MCConcat
    Programs <- MCPrograms
    Slots <- MCSlots
    MAX_DEPTH = 3
    MAX_REGS = 3
    ExtValues <- MCExtValues
    Answers <- MCAnswers
    Foreign <- MCForeign
INVARIANTS
    TypeOK
    StackIsCalls
    NoStrayRegister
PROPERTIES
    CallersUntouched
    AnswerGoesToAsker
    FailureIsClean
    SliceEnds
