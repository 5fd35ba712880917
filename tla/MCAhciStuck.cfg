CONSTANTS
    Slots <- MCSlots
    Requests = {identify, read}
    ErrorReleases = FALSE
SPECIFICATION Spec
PROPERTY FailureAnswered
CHECK_DEADLOCK FALSE
