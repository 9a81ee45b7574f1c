SPECIFICATION StoreSpec
CONSTANTS
  Profiles = {p1, p2}
  Contents = {c1, c2}
  Requests = {r1, r2}
  Faults = {"set", "clear"}
  Serialized = TRUE
  None = None
  Corrupt = Corrupt
SYMMETRY Symmetry
INVARIANTS
  StoresAgree
PROPERTIES
  NoResurrection
  NoOverwrite
