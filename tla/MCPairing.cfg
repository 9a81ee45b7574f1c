CONSTANTS
    Profiles = {1, 2}
    Types = {chat, pay}
    Requests = {r1, r2}
    Accepts = {a1, a2}
    Calls = {c1}
    None = None
SPECIFICATION Spec
SYMMETRY Symmetry
CHECK_DEADLOCK FALSE
INVARIANTS
    TypeOK
    NeverRefused
    SameProof
    NotOneSided
