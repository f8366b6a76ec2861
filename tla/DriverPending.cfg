\* A batch with a read and a raw write of unacceptable text.
CONSTANTS
  t1 = t1
  t2 = t2
  Threads = {t1}
  NoThread = NoThread
  Model = "SPD3303X"
  Used = {"voltage", "scpi.write"}
  RawTexts = {TRUE, FALSE}
  MaxDepth = 2
  MaxOps = 2
  MaxFaults = 0
SPECIFICATION Spec
INVARIANTS
  NothingStaysPending
CHECK_DEADLOCK FALSE
