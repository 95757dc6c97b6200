SPECIFICATION Spec
CONSTANTS
    loc1 = loc1
    loc2 = loc2
    tmp1 = tmp1
    tmp2 = tmp2
    const1 = const1
    Locals <- MCLocals
    Temps <- MCTemps
    Consts <- MCConsts
    NULL = NULL
    SAVED_RBP = SAVED_RBP
    REGISTER_FILE_SIZE = 5
    MaxParams = 1
    Kinds <- CopyKinds
    Disciplines <- MayCopyLocals
SYMMETRY Symmetry
INVARIANTS
    OperandsCurrent
CHECK_DEADLOCK FALSE
