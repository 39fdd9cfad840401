SPECIFICATION FairSpec
CONSTANT MaxPresses = 4
PROPERTIES
    ParkSavesWish
CHECK_DEADLOCK FALSE
