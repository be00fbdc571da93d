SPECIFICATION JavaSpec
CONSTANTS
  t1 = t1
  t2 = t2
  t3 = t3
  s1 = s1
  s2 = s2
  s3 = s3
  Threads <- ThreeThreads
  Total = 6
  Capacity = 10
  MaxFruit = 60
  SizeLimit = 10
  MaxProducts = 12
  Callers <- TwoCallers
  Services <- ThreeServices
  ArrayLength = 2
INVARIANTS PrintedIsFinal WaitsForAReason OneProviderPerService
  ClosedUnlessRaced
PROPERTIES IsBoundedBuffer BasketKeepsTrading ProducerLeft
CHECK_DEADLOCK FALSE
