CONSTANTS
  Node = {n1, n2}
  TIME_NEAR = 2
  TIME_LEVEL = 2
  MaxLag = 2
SPECIFICATION FairSpec
PROPERTY
  ImplementsClock
