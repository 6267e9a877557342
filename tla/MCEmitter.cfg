SPECIFICATION Spec
CONSTANTS
    Names = {x, y}
    Value = {unit, a}
    Unit = unit
    Absent = absent
    MaxRegs = 3
    MaxPending = 3
    MaxArgs = 2
    MaxNesting = 2
    MaxBodies = 1
    Liberties = {}
SYMMETRY NameSymmetry
VIEW WithoutSlots
INVARIANTS
    OperandsKept
    VariablesKept
    ArgumentsInPlace
    FrameCovers
CHECK_DEADLOCK FALSE
