SPECIFICATION Spec
CONSTANTS
  Profiles = {p1, p2}
  Contents = {c1}
  Requests = {r1}
  Faults = {}
  Serialized = FALSE
  None = None
  Dangling = Dangling
  Corrupt = Corrupt
  Sessions = {s1, s2}
  Lookups = {k1, k2}
  Events = {e1}
SYMMETRY Symmetry
INVARIANTS
  TypeOK
  LiveIsReachable
  KeptByRecipient
PROPERTIES
  NoSilentDrop
