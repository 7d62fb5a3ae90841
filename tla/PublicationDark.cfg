\* No requests, so no signer to wait for: only notices of expired quotes.
CONSTANTS
  Corridors = {a, b}
  a = a
  b = b
  Curved = {}
  Interval = 3
  Coalesce = 2
  Budget = 3
  GapLimit = 15
  MaxUsed = 0
SPECIFICATION Spec
INVARIANT NoGap
