CONSTANTS
  Window = 1
  Chunks = 2
SPECIFICATION RelaySpec
CHECK_DEADLOCK FALSE
INVARIANT NothingLostInside
 
