SPECIFICATION Spec
CONSTANTS
    id1 = id1
    id2 = id2
    id3 = id3
    fun1 = fun1
    fun2 = fun2
    Workloads <- AllWorkloads
SYMMETRY Symmetry
INVARIANTS
    TypeOK
    ResolutionsStand
    SlotsDisjoint
    ArgumentsArrive
    FieldsAgree
    FrameHoldsOwnSlots
    CallsMatch
CHECK_DEADLOCK FALSE
