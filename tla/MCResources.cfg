SPECIFICATION ResourcesSpec
CONSTANTS
  MaxConnections = 3
  Handles = {h1, h2, h3, h4}
  Borrowers = {b1, b2}
  NoCon = NoCon
  EchoClients = {"c1", "c2"}
  MaxMessages = 2
  Lines = 4
  QueueSize = 2
INVARIANTS
  BusyCounts NoSharing PoolOwnsConnections RefusedOnlyWhenExhausted
  HeldByItsServer AnsweredBeforeEnd ProducedInOrder ReportedOnce
PROPERTIES
  Released RetryEnds
CHECK_DEADLOCK FALSE
