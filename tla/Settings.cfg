SPECIFICATION Spec
CONSTANTS
  None = None
  Unread = Unread
INVARIANTS
  TypeOK
  
  
  

  
CHECK_DEADLOCK FALSE
