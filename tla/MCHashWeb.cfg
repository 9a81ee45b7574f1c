CONSTANTS
    b1 = b1
    b2 = b2
    b3 = b3
    Blobs = {b1, b2, b3}
    Spaces = {"main", "other"}
    Default = "main"
    Words = {"", "main", "other", "m1", "m2", "m3", "x"}
    Base64 <- MCBase64
    Formats = {"json"}
    Attributes <- MCAttributes
    Addresses <- MCAddresses
    Resolutions = {r1}
    MaxFaults = 2
    Error = Error
SPECIFICATION WebSpec
CHECK_DEADLOCK FALSE
INVARIANTS
    ResolvedIsMeant
    StoredIsFound
