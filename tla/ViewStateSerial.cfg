SPECIFICATION Spec
CONSTANTS
    NoItem = NoItem
    a = a
    b = b
    sa = sa
    sb = sb
    u1 = u1
    u2 = u2
    Items <- MCTwo
    ShowOf <- MCNoParent
    SeasonOf <- MCNoParent
    ScopeOf <- MCLeafScope
    Servers = {sa}
    ServerOf <- MCOneServer
    Title <- MCTwoTitles
    Users = {u1}
    Pressable = {a, b}
    Writes = {"Watched", "Unwatched", "RemoveFromDeck"}
    MaxPress = 3
    MaxRefusals = 1
    MaxFailures = 1
    MaxSwitches = 0
    RetryFrames = 2
    Routes = {TRUE, FALSE}
INVARIANTS
    EntryStands
    DisagreementIsOwed
CHECK_DEADLOCK FALSE
