\* One client that is interrupted and times out, and goes on sending.
CONSTANTS
  a = a
  b = b
  Clients = {a}
  Raw = {}
  Interruptible = {a}
  Impatient = {a}
  MaxRequests = 4
  MaxInFlight = 2
SPECIFICATION Spec
INVARIANTS
  RunOnceInOrder
  AnswersAreHonest
  UndisturbedClient
PROPERTIES
  RequestEnds
CHECK_DEADLOCK FALSE
