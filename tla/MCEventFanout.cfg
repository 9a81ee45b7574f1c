SPECIFICATION FairSpec
CONSTANTS
  Listeners = {l1, l2, l3}
  MaxEvents = 3
  Capacity = 1
CHECK_DEADLOCK FALSE
INVARIANTS
  NothingMissed
  ListenersKept
PROPERTIES
  AllInformed
