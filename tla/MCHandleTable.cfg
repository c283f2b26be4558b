CONSTANTS
  Thread = {t1, t2}
  Registrar = {t1}
  Context = {c1, c2, c3}
  NULL = NULL
  Name = {1, 2}
  DEFAULT_SLOT_SIZE = 1
  Handles = 4
SPECIFICATION Spec
SYMMETRY Symmetry
INVARIANTS
  Findable
  RetireAllMissesNone
  NamesFound
PROPERTIES
  NamesFollowServices
CHECK_DEADLOCK FALSE
