CONSTANTS
  Loops = {rfq, tick}
  Prices = {1000, 1008, 1055}
  Rates = {1055}
  MaxJumpBps = 500
  Settle = 2
  Staleness = 1
  MaxLossBps = 300
  SaveEvery = 2
  SaveOnMoveBps = 100
  MaxNow = 3
  MaxCrashes = 1
  MaxFailures = 1
  MaxSteps = 0
SYMMETRY Symmetry
SPECIFICATION Spec
INVARIANTS ServedInLine FileFollows
PROPERTIES ColdStart LevelHeld SignedInLine
\* The clock stops at its bound.
CHECK_DEADLOCK FALSE
