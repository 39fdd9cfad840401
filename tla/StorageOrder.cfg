SPECIFICATION Spec
CONSTANTS
    Capacity = 1
    MaxJobs = 4
    MaxPanics = 2
    MaxRefused = 1
INVARIANTS
    TypeOK
    OneAtATime
    EditsInOrder
    EditsKept
    RequestFailuresKnown
PROPERTY EditsBegin
CHECK_DEADLOCK FALSE
