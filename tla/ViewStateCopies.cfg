SPECIFICATION Spec
CONSTANTS
    NoItem = NoItem
    a = a
    b = b
    sa = sa
    sb = sb
    u1 = u1
    u2 = u2
    Items <- MCTwo
    ShowOf <- MCNoParent
    SeasonOf <- MCNoParent
    ScopeOf <- MCLeafScope
    Servers = {sa, sb}
    ServerOf <- MCTwoServers
    Title <- MCOneTitle
    Users = {u1, u2}
    Pressable = {a, b}
    Writes = {"Watched", "Unwatched"}
    MaxPress = 3
    MaxRefusals = 1
    MaxFailures = 1
    MaxSwitches = 1
    RetryFrames = 1
    Routes = {FALSE}
INVARIANTS
    TypeOK
    PressOrder
    PerformedOnce
    OneWriteOut
    SentAsPresser
SYMMETRY Alike
CHECK_DEADLOCK FALSE
