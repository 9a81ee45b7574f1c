CONSTANTS
    Connections = {c1, c2}
    Loads = {l1, l2}
    Subs = {f1, f2}
    MyProfiles = {p1, p2}
    Signers = {p1}
    Capacity = 1
    MaxOut = 2
    MaxPending = 1
    None = None
SPECIFICATION FairSpec
CHECK_DEADLOCK FALSE
INVARIANTS
    OneMyProfile
    Stoppable
PROPERTIES
    CancelledEnds
