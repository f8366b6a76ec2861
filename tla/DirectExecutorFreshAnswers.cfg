\* One thread, two queries: the answer to the first comes after its timeout.
CONSTANTS
  one = one
  Threads = {one}
  MainThreads = {}
  NoThread = NoThread
  Batches <- MCQueryOnly
  Intervals = {0}
  Delays = {0}
  MaxBatches = 2
SPECIFICATION Spec
INVARIANTS
  FreshAnswers
CHECK_DEADLOCK FALSE
