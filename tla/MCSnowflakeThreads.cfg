SPECIFICATION FairSpec
CONSTANTS
  g1 = g1
  g2 = g2
  g3 = g3
  t1 = t1
  t2 = t2
  Gens <- OneGen
  Threads = {t1, t2}
  WorkerOf <- OneWorkerOf
  DataCenterOf <- OneDataCenterOf
  SeqSize = 2
  WorkerSize = 2
  DataCenterSize = 2
  StartTime = 1
  NoThread = NoThread
  MaxClock = 4
  MaxBack = 1
  MaxIds = 4
  MaxEpoch = 2
INVARIANTS IncreasingIds
PROPERTIES CallsEnd
CHECK_DEADLOCK FALSE
