CONSTANTS
  Sessions = 2
  Connections = 2
  expired_number = 1
  QUEUESIZE = 3
  InTurn = TRUE
  MaxSends = 3
SPECIFICATION FairSpec
CHECK_DEADLOCK FALSE
INVARIANTS
  
  InOrder
  QueueServed
PROPERTIES
  
  CacheKeepsRecent
  
