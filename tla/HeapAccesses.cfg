SPECIFICATION Spec
CONSTANTS
    Definitions <- Types
    Variables <- MCVariables
    Type <- MCType
    Values <- MCValues
    Sizes <- MCSizes
    Stray <- MCStray
    Literals <- MCLiterals
    HeapSize = 24
    MaxBlocks = 2
    MaxSelectors = 1
VIEW WithoutAccess
INVARIANTS
    TypeOK
    ElementsApart
    HeadersKept
PROPERTIES
    ImplementsObjects
CHECK_DEADLOCK FALSE
