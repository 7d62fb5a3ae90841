CONSTANTS
  Nonces = {}
  MaxEpoch = 2
  MaxSends = 2
  NodeLag = TRUE
  Crashes = FALSE
SPECIFICATION FairSpec
PROPERTIES DarkEnds
CHECK_DEADLOCK FALSE
