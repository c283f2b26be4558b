CONSTANTS
  Message = {m1, m2}
  Garbage = Garbage
  DEFAULT_QUEUE_SIZE = 2
  MQ_OVERLOAD = 1
  MaxLength = 7
SPECIFICATION RingSpec
PROPERTIES
  ImplementsMailbox
  AlarmsEscalate
