SPECIFICATION SyncSpec
CONSTANTS
    NoItem = NoItem
    a = a
    b = b
    sa = sa
    sb = sb
    u1 = u1
    u2 = u2
    Items <- MCTwo
    ShowOf <- MCShow
    SeasonOf <- MCNoParent
    ScopeOf <- MCShowScope
    Servers = {sa}
    ServerOf <- MCOneServer
    Title <- MCTwoTitles
    Users = {u1}
    Pressable = {b}
    Writes = {"Watched"}
    Routes = {TRUE, FALSE}
    MaxPress = 1
    MaxRefusals = 1
    MaxFailures = 0
    MaxSwitches = 1
    RetryFrames = 1
    MaxReads = 0
    MaxStops = 1
    MaxUnread = 1
    MaxHints = 0
INVARIANTS
    SyncTypeOK
    ReadsTracked
PROPERTIES
    BecomesQuiet
    Drains
    RefreshFollows
CHECK_DEADLOCK FALSE
