SPECIFICATION Spec
CONSTANTS
    CommandLines <- CommandLineSet
    Inputs <- MoreInputs
    InputLength = 3
    LineSize = 6
    ErrLines = 2
    TypeLines = 4
    MaxReports = 3
INVARIANTS
    TypeOK
    SourceCopied
    ErrorsAnnotated
    LostMessages
    CleanOutput
PROPERTIES
    Terminates
CHECK_DEADLOCK FALSE
