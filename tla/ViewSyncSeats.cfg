SPECIFICATION SyncSpec
CONSTANTS
    NoItem = NoItem
    a = a
    b = b
    sa = sa
    sb = sb
    u1 = u1
    u2 = u2
    Items <- MCTwo
    ShowOf <- MCNoParent
    SeasonOf <- MCNoParent
    ScopeOf <- MCLeafScope
    Servers = {sa, sb}
    ServerOf <- MCTwoServers
    Title <- MCOneTitle
    Users = {u1, u2}
    Pressable = {a, b}
    Writes = {"Unwatched"}
    Routes = {FALSE}
    MaxPress = 1
    MaxRefusals = 0
    MaxFailures = 0
    MaxSwitches = 1
    RetryFrames = 1
    MaxReads = 0
    MaxStops = 1
    MaxUnread = 0
    MaxHints = 0
INVARIANT SentAsPresser
CHECK_DEADLOCK FALSE
