SPECIFICATION Spec
CONSTANTS
    cond1 = cond1
    cond2 = cond2
    Atoms <- MCAtoms
    Workloads <- AllWorkloads
SYMMETRY Symmetry
INVARIANTS
    TypeOK
    TestsDecide
    ExpressionsDecide
    NothingDangling
    JumpsLeaveAtEnd
PROPERTIES
    FrozenAfterError
CHECK_DEADLOCK FALSE
