SPECIFICATION FairSpec
CONSTANTS
  Calls = {c1, c2}
  MaxStreams = 1
  Capacity = 1
  None = None
PROPERTIES
  OfferTimesOut
