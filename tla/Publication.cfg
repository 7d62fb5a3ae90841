CONSTANTS
  Corridors = {a, b}
  a = a
  b = b
  Curved = {a}
  Interval = 3
  Coalesce = 1
  Budget = 3
  GapLimit = 8
  MaxUsed = 5
SPECIFICATION Spec
INVARIANTS TypeOK InBudget Prompt Cadence
