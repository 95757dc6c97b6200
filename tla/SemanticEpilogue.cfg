SPECIFICATION Spec
CONSTANTS
    cond1 = cond1
    cond2 = cond2
    Atoms <- MCAtoms
    Workloads <- OnlyUnreturned
SYMMETRY Symmetry
INVARIANTS
    EndsInEpilogue
CHECK_DEADLOCK FALSE
