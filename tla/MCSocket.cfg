CONSTANTS
  Thread = {t1}
  MAX_SOCKET = 2
  PIPE = 2
  Tame = TRUE
  None = None
  MaxId = 3
  Opens <- MCOpens
  MaxSends = 2
SPECIFICATION FairSpec
INVARIANTS
  
  OwnPackets
PROPERTIES
  NothingAfterEnd
  CloseAnswered
CHECK_DEADLOCK FALSE
