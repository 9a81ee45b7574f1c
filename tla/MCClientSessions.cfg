SPECIFICATION Spec
CONSTANTS
  Homes = {h1, h2}
  Joins = {j1, j2}
  Logins = {l1, l2, l3}
  Events = {e1}
  None = None
SYMMETRY Symmetry
CHECK_DEADLOCK FALSE
INVARIANTS
  CachedIsRouted
  CachedIsUsable
  StoredOnce
  HostedIsNamed
PROPERTIES
  NoEventMissed
