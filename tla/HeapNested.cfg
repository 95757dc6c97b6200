SPECIFICATION Spec
CONSTANTS
    Definitions <- Types
    Variables <- MCVariables
    Type <- MCType
    Values <- MCValues
    Sizes <- MCSizes
    Stray <- MCStray
    Literals <- MCLiterals
    HeapSize = 24
    MaxBlocks = 2
    MaxSelectors = 2
VIEW WithoutAccess
INVARIANTS
    HeadersKept
CHECK_DEADLOCK FALSE
