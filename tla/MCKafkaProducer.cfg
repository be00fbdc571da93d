SPECIFICATION Spec
CONSTANTS
  Lines = 4
  QueueSize = 2
INVARIANT EveryMessageReported
CHECK_DEADLOCK FALSE
