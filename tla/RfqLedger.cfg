CONSTANTS
  t1 = t1
  Rfqs = {r1, r2}
  Nonces = {n1, n2}
  Tokens <- OneToken
  Sizes = {1, 2}
  Funds <- TwoUnits
  Life = 1
  Skew = 2
  Ttl = 1
  ChainSkew = 0
  NodeLag = 1
  RpcMax = 0
  MaxWords = 2
  Ordered <- Batched
  PartialBatches = FALSE
  DiskFaults = FALSE
  RequireFlush = FALSE
  Crashes = FALSE
  MaxNow = 4
  NoOrder = NoOrder
  NoRow = NoRow
  NoReading = NoReading
SYMMETRY Symmetry
SPECIFICATION Spec
INVARIANTS LiveOrdersClaimed FillsCounted Solvent
