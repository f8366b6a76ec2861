\* A GatewayExecutor and a peer that sends what it likes share a gateway
\* that may be stopped.
CONSTANTS
  a = a
  b = b
  Clients = {a, b}
  Raw = {b}
  Interruptible = {}
  Impatient = {}
  MaxRequests = 3
  MaxInFlight = 1
SPECIFICATION Spec
INVARIANTS
  TypeOK
  AnswersAreHonest
  HandshakeFirst
CHECK_DEADLOCK FALSE
