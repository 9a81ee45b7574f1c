SPECIFICATION FairSpec
CONSTANTS
  Calls = {c1, c2}
  MaxStreams = 2
  Capacity = 1
  None = None
INVARIANTS
  TypeOK
  ConnectedIsAccepted
  WaitingIsHeld
PROPERTIES
  EveryCallReturns
  LineMoves
