SPECIFICATION Spec
CONSTANTS
  g1 = g1
  g2 = g2
  g3 = g3
  t1 = t1
  t2 = t2
  Gens <- MCGens
  Threads = {t1}
  WorkerOf <- MCWorkerOf
  DataCenterOf <- MCDataCenterOf
  SeqSize = 2
  WorkerSize = 2
  DataCenterSize = 2
  StartTime = 1
  NoThread = NoThread
  MaxClock = 3
  MaxBack = 1
  MaxIds = 2
  MaxEpoch = 2
INVARIANTS CollisionOnlyAfterRestart
CHECK_DEADLOCK FALSE
