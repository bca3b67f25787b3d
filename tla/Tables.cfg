SPECIFICATION Spec
CONSTANTS
  None = None
  Unread = Unread
INVARIANTS
  TypeOK
  
  
  ColumnsAreOnesOwn
  FinishedIsComplete
  

  
CHECK_DEADLOCK FALSE
