CONSTANTS
  User = {u1}
  Gate = {g1, g2}
  Attempt = {c1, c2, c3}
  UserOf <- MCUserOf
  OneByOne = TRUE
  logind = logind
  beat = beat
  None = None
SPECIFICATION FairSpec
INVARIANTS
  OneSession
  OnlineAgrees
  LogoutHitsOwn
PROPERTY
  AttemptsEnd
CHECK_DEADLOCK FALSE
