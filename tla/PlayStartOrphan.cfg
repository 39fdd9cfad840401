SPECIFICATION Spec
CONSTANT MaxPresses = 4
INVARIANTS
    EngineOnRoute
CHECK_DEADLOCK FALSE
