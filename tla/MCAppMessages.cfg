CONSTANTS
    Hops = 2
    Messages = {frame, error}
    Capacity = 1
    MaxMessages = 3
    MaxCuts = 1
SPECIFICATION FairSpec
CHECK_DEADLOCK FALSE
INVARIANTS
    EndMeansAll
PROPERTIES
    AllDelivered
    EndIsSeen
