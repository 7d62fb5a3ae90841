\* The clock and the session stop at their bounds.
CHECK_DEADLOCK FALSE
CONSTANTS
  PerMs = 1
  Reconnect = 2
  MaxMs = 36
  MaxQuotes = 3
  FirstWait = 3
  MostWait = 7
  FastRetries = 2
  Healthy = 2
SPECIFICATION Sessions
INVARIANTS NoSpin BacksOff
PROPERTIES GrowsAcrossSessions ImplementsNonces
