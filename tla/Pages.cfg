SPECIFICATION Spec
CONSTANTS
  None = None
INVARIANTS
  TypeOK
  
  WaitingHasRequest
  StopKeepsDisplay
  
PROPERTIES
  NothingLostUnasked
CHECK_DEADLOCK FALSE
