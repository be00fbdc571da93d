SPECIFICATION Spec
CONSTANTS
  c1 = c1
  c2 = c2
  c3 = c3
  Conns <- Three
  Mixes <- Mixed
  Fds = {3, 4}
  None = None
  MaxOpen = 2
  MaxFaulty = 0
INVARIANTS ReadsItsPeer
CHECK_DEADLOCK FALSE
