CONSTANTS
  t1 = t1
  Rfqs = {r1, r2}
  Nonces = {n1, n2}
  Tokens <- OneToken
  Sizes = {2}
  Funds <- TwoUnits
  Life = 1
  Skew = 2
  Ttl = 1
  ChainSkew = 0
  NodeLag = 0
  RpcMax = 0
  MaxWords = 2
  Ordered <- Either
  PartialBatches = FALSE
  DiskFaults = TRUE
  RequireFlush = TRUE
  Crashes = TRUE
  MaxNow = 3
  NoOrder = NoOrder
  NoRow = NoRow
  NoReading = NoReading
SYMMETRY Symmetry
SPECIFICATION Spec
INVARIANTS LiveOrdersClaimed FileCoversOrders
PROPERTY ImplementsEscrow
