SPECIFICATION FairSpec
CONSTANTS
  Last = 3
  MaxRuns = 3
  MaxSignals = 3
INVARIANTS ExactlyOnceIfClosed LossBounded
PROPERTIES StopEnds
CHECK_DEADLOCK FALSE
