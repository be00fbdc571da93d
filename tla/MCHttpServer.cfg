SPECIFICATION FairSpec
CONSTANTS
  c1 = c1
  c2 = c2
  c3 = c3
  Conns <- Three
  Mixes <- Mixed
  Fds = {3, 4}
  None = None
  MaxOpen = 3
  MaxFaulty = 1
INVARIANTS OwnAnswer DescriptorsOwned
PROPERTIES Answered
CHECK_DEADLOCK FALSE
