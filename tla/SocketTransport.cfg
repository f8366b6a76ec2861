\* A limit of three bytes and chunks of at most two.
CONSTANTS
  Bytes = {"a", "b"}
  LF = "LF"
  MaxResponse = 3
  Chunk = 2
  MaxInFlight = 3
SPECIFICATION Spec
INVARIANTS
  TypeOK
PROPERTIES
  ReadsTakeLines
  ReadEnds
CHECK_DEADLOCK FALSE
