SPECIFICATION SyncSpec
CONSTANTS
    NoItem = NoItem
    a = a
    b = b
    sa = sa
    sb = sb
    u1 = u1
    u2 = u2
    Items <- MCTwo
    ShowOf <- MCShow
    SeasonOf <- MCNoParent
    ScopeOf <- MCShowScope
    Servers = {sa}
    ServerOf <- MCOneServer
    Title <- MCTwoTitles
    Users = {u1}
    Pressable = {b}
    Writes = {"Watched", "Unwatched"}
    Routes = {FALSE}
    MaxPress = 2
    MaxRefusals = 0
    MaxFailures = 1
    MaxSwitches = 0
    RetryFrames = 1
    MaxReads = 0
    MaxStops = 1
    MaxUnread = 0
    MaxHints = 1
INVARIANTS
    ScreenAgrees
    ParentsAgree
PROPERTIES
    ReadBackKeepsPress
CHECK_DEADLOCK FALSE
