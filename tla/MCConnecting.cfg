CONSTANTS
    Me = 1
    Homes = {2, 3}
    Addrs = {"a1", "a2", "a3", "dns"}
    HomeOf <- MCHomeOf
    Usable = {"a1", "a2", "a3"}
    InfoLen <- MCInfoLen
    MaxCuts = 1
    Nothing = Nothing
SPECIFICATION FairSpec
CHECK_DEADLOCK FALSE
INVARIANTS
    UsedIsServed
    GivesUpLast
PROPERTIES
    ConnectEnds
    OthersEnd
