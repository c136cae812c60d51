SPECIFICATION Spec
CHECK_DEADLOCK FALSE
CONSTANTS
    Actions = {"callback"}
    Limit <- MCLimit
    WindowSeconds = 2
    TicksPerSecond = 2
    MaxTime = 11
    PageSize = 2
    MaxRows = 5
INVARIANTS
    TypeOK
    RetrySuffices
    CallsBounded
    WalkComplete
