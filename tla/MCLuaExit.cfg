CONSTANTS
  Co = {a, b, c}
  Peer = {p}
  timer = timer
  BREAK = BREAK
  None = None
  MaxSession = 3
  MaxRequest = 2
  MaxFork = 1
  MaxEnter = 3
SPECIFICATION Spec
CHECK_DEADLOCK FALSE
PROPERTY NoForkAfterExit
