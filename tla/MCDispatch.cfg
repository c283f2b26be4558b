CONSTANTS
  Worker = {w1, w2}
  Sender = {x1}
  Service = {s1, s2}
  Initial = {s1}
  single = w1
  Share <- MCShare
  None = None
  MaxSends = 3
SPECIFICATION FairSpec
INVARIANTS
  NoLostQueue
  NotReentrant
  InitBeforeDispatch
  RefCounted
  NoFreedQueue
PROPERTIES
  MessagesLeave
  RetiredReclaimed
CHECK_DEADLOCK FALSE
