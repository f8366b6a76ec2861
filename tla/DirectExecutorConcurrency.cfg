\* Two calls of two threads, one of them interruptible; writes take no time,
\* sleeps are exact.
CONSTANTS
  main = main
  other = other
  Threads = {main, other}
  MainThreads = {main}
  NoThread = NoThread
  Batches <- MCBatches
  Intervals = {0, 1}
  Delays = {0}
  MaxBatches = 2
SPECIFICATION Spec
INVARIANTS
  TypeOK
  OutcomeTellsWhatWasSent
  AnswersInOrder
  CommandSpacing
PROPERTIES
  CloseWaitsForTheBatch
  NothingAfterClose
  NothingFromAShutTransport
  BatchesTakeTurns
  LockIsReleased
CHECK_DEADLOCK FALSE
