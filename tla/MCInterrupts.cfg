CONSTANTS
    Lines = {3, 4, 12}
    serialIRQ = 4
    softIRQ = 12
    MaxBytes = 3
    NULL = NULL
SPECIFICATION IrqSpec
INVARIANTS
    AnsweredByOwner
PROPERTIES
    BytesRead
CHECK_DEADLOCK FALSE
