CONSTANTS
  Nonces = {n1}
  MaxEpoch = 2
  MaxSends = 2
  NodeLag = TRUE
  Crashes = TRUE
SPECIFICATION Spec
INVARIANTS OrdersClaimed DarkWhileClosing NoOrderIntoOwnClose OneClose
CHECK_DEADLOCK FALSE
