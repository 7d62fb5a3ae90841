CONSTANTS
  Free = 2
  Targets = {0, 1}
  Senders = {a, b}
  MaxNonce = 1
  MaxCrashes = 1
  RemoveFails = FALSE
  NoChange = NoChange
SPECIFICATION FairSpec
INVARIANTS LowersCovered OneFloorChange OnFile RaiseKnown
PROPERTY Settles
\* Everything stops once the nonces are used and the restarts are over.
CHECK_DEADLOCK FALSE
