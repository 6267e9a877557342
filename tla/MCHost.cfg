SPECIFICATION FairSpec
CONSTANTS
    text = text
    Text <- MCText
    EmptyText = text
    OtherText = text
    Concat <- MCConcat
    Programs <- MCPrograms
    Slots <- MCSlots
    MAX_DEPTH = 2
    MAX_REGS = 2
    ExtValues <- MCAnswers
    Answers <- MCAnswers
    Foreign <- MCForeign
    MaxTasks = 3
INVARIANTS
    TasksConsistent
    RoundRobin
PROPERTIES
    ReturnsWhenAllFinished
    FinishedForGood
    EachTaskIsOneMachine
    RunReturns
CHECK_DEADLOCK FALSE
