\* Two inits, two signals and one work behind the one that runs.
CONSTANTS
  Inits = {i1, i2}
  MaxSignals = 2
  MaxQueued = 1
SPECIFICATION Spec
INVARIANTS
  FailedConnectClosesAll
  StopReleasesInstrument
PROPERTIES
  KeepsWhatItFound
  ServeEnds
CHECK_DEADLOCK FALSE
