CONSTANTS
  Thread = {t1, t2, t3, t4}
SPECIFICATION LockFairSpec
INVARIANT
  Exclusion
PROPERTY
  WriterEnters
CHECK_DEADLOCK FALSE
