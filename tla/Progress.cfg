SPECIFICATION FairSpec
CONSTANTS
  None = None
  Unread = Unread
  o1 = o1
PROPERTIES
  UrlSettles
  WaitingEnds
CHECK_DEADLOCK FALSE
