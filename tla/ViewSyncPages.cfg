SPECIFICATION SyncSpec
CONSTANTS
    NoItem = NoItem
    a = a
    b = b
    sa = sa
    sb = sb
    u1 = u1
    u2 = u2
    Items <- MCTwo
    ShowOf <- MCShow
    SeasonOf <- MCNoParent
    ScopeOf <- MCShowScope
    Servers = {sa}
    ServerOf <- MCOneServer
    Title <- MCTwoTitles
    Users = {u1}
    Pressable = {b}
    Writes = {"Watched", "Unwatched"}
    Routes = {FALSE}
    MaxPress = 2
    MaxRefusals = 1
    MaxFailures = 0
    MaxSwitches = 0
    RetryFrames = 1
    MaxReads = 2
    MaxStops = 0
    MaxUnread = 0
    MaxHints = 0
INVARIANTS
    ScreenAgrees
PROPERTIES
    ReadBackKeepsPress
CHECK_DEADLOCK FALSE
