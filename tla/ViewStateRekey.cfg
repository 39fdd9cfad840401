SPECIFICATION Spec
CONSTANTS
    NoItem = NoItem
    a = a
    b = b
    sa = sa
    sb = sb
    u1 = u1
    u2 = u2
    Items <- MCTwo
    ShowOf <- MCNoParent
    SeasonOf <- MCNoParent
    ScopeOf <- MCLeafScope
    Servers = {sa}
    ServerOf <- MCOneServer
    Title <- MCTwoTitles
    Users = {u1}
    Pressable = {a, b}
    Writes = {"Watched", "Unwatched", "RemoveFromDeck"}
    MaxPress = 3
    MaxRefusals = 0
    MaxFailures = 0
    MaxSwitches = 1
    RetryFrames = 2
    Routes = {FALSE}
INVARIANT DisagreementIsOwed
CHECK_DEADLOCK FALSE
