SPECIFICATION FairSpec
CONSTANTS
  MaxItems = 5
  MaxStreams = 2
  Capacity = 1
  Warning = Warning
  None = None
CHECK_DEADLOCK FALSE
INVARIANTS
  ReceivedOnce
  HandoverInOrder
PROPERTIES
  MailboxSpec
  ChannelDrains
