\* Two works of clients with different intervals and a stop at any moment;
\* writes take no time, sleeps are exact.
CONSTANTS
  worker = worker
  closer = closer
  Threads = {worker, closer}
  MainThreads = {}
  NoThread = NoThread
  Batches <- MCBatches
  Intervals = {0, 3}
  Delays = {0}
  MaxBatches = 2
SPECIFICATION OwnerSpec
INVARIANTS
  WorkIsTheBatch
  QuietStopRefusesNobody
  WorksSpaced
PROPERTIES
  AcceptedWorkEnds
CHECK_DEADLOCK FALSE
