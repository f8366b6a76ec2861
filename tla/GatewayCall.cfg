\* Three calls of one session: limits of one command and of two bytes, with sizes
\* at and above them; heartbeats every three or four ticks and timeouts of six and
\* of ten, on a link that takes a tick at most.
CONSTANTS
  MaxCommands = 1
  MaxCommand = 2
  MaxMessage = 2
  MessageSizes = {2, 3}
  SendBuffer = 1
  Timeouts = {6, 10}
  MaxHeartbeat = 4
  Latency = 1
  MaxUnread = 1
  MaxCalls = 3
SPECIFICATION Spec
INVARIANTS
  SameAsDirect
  ProtocolErrorMeansNotRun
PROPERTIES
  HeardInTime
CHECK_DEADLOCK FALSE
