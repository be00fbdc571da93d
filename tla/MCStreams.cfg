SPECIFICATION Spec
CONSTANTS
  Fds = {3, 4}
  Sizes = {1, 2, 3}
  BufSize = 2
  MaxBytes = 3
  ServerAnswers <- MCAnswers
  RequestLen = 3
  Chunk = 3
  PollSize = 4
INVARIANTS
  TransfersExact LineIsRestThenStream AnswersKept
PROPERTIES
  SocketCallsEnd
CHECK_DEADLOCK FALSE
