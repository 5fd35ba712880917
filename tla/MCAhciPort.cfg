CONSTANTS
    Slots <- MCSlots
    Requests = {identify, read}
    ErrorReleases = TRUE
SPECIFICATION Spec
INVARIANTS
    TypeOK
    AnswerTrue
    AllReleased
PROPERTIES
    ListSettled
    PortComesUp
    CallsReturn
