SPECIFICATION Spec
CONSTANTS
    nextinstr = 4
INVARIANTS
    TypeOK
    LeadersFit
    BlocksAreBasic
    NoNeedlessFlush
PROPERTIES
    FindsTheBlocks
    BlocksAreFound
CHECK_DEADLOCK FALSE
