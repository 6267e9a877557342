CONSTANTS
    Written <- MCWritten
    Programs <- MCPrograms
    MaxStack = 40
SPECIFICATION Spec
INVARIANTS
    LintsAreCertain
    OperatorsMunchMaximally
    DamageStaysLocal
PROPERTIES
    ParsesEnd
CHECK_DEADLOCK FALSE
