CONSTANTS
  Worker = {w1, w2}
  Sender = {s1, s2}
  Queue = {q1, q2, q3, q4}
  NULL = NULL
  MAX_GLOBAL_MQ = 2
  Tame = TRUE
  MaxTicket = 8
SPECIFICATION Spec
SYMMETRY Symmetry
INVARIANTS
  OnePlace
  EmptyMeansPushing
CHECK_DEADLOCK FALSE
