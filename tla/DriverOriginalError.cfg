\* A verified CH3 output write on a driver whose executor refuses it.
CONSTANTS
  t1 = t1
  t2 = t2
  Threads = {t1}
  NoThread = NoThread
  Model = "SPD3303X"
  Used = {"ch3.output="}
  RawTexts = {TRUE}
  MaxDepth = 2
  MaxOps = 2
  MaxFaults = 0
SPECIFICATION Spec
INVARIANTS
  OriginalErrorPreserved
CHECK_DEADLOCK FALSE
