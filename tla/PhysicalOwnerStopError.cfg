\* A work behind a long one when the gateway stops.
CONSTANTS
  worker = worker
  closer = closer
  Threads = {worker, closer}
  MainThreads = {}
  NoThread = NoThread
  Batches <- MCQueryOnly
  Intervals = {0}
  Delays = {0}
  MaxBatches = 2
SPECIFICATION OwnerSpec
INVARIANTS
  StopGivesNoInstrumentError
CHECK_DEADLOCK FALSE
