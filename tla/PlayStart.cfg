SPECIFICATION FairSpec
CONSTANT MaxPresses = 4
INVARIANTS
    TypeOK
    OneNativeObject
    CleanExit
    EngineOnRouteButStray
    EngineOwned
    WishHonoured
PROPERTIES
    QueuedStartSettled
    AnswerIsItsOwn
    RefusedRestoreStays
    SlotKept
    QueuedStartEnds
    RestoreEnds
    StartEnds
    HeldPlays
    ExitEnds
CHECK_DEADLOCK FALSE
