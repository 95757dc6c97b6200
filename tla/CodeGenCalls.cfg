SPECIFICATION Spec
CONSTANTS
    loc1 = loc1
    loc2 = loc2
    tmp1 = tmp1
    tmp2 = tmp2
    const1 = const1
    Locals <- MCLocals
    Temps <- MCTemps
    Consts <- MCConsts
    NULL = NULL
    SAVED_RBP = SAVED_RBP
    REGISTER_FILE_SIZE = 5
    MaxParams = 2
    Kinds <- CallKinds
    Disciplines <- AllDisciplines
SYMMETRY Symmetry
INVARIANTS
    OwnArgumentsOnly
    BalancedUntilGoto
    CleanEntry
CHECK_DEADLOCK FALSE
