CONSTANTS
  t1 = t1
  Rfqs = {r1, r2}
  Nonces = {n1, n2}
  Tokens <- OneToken
  Sizes = {1}
  Funds <- TwoUnits
  Life = 1
  Skew = 2
  Ttl = 1
  ChainSkew = 0
  NodeLag = 0
  RpcMax = 1
  MaxWords = 1
  Ordered <- Batched
  PartialBatches = TRUE
  DiskFaults = FALSE
  RequireFlush = FALSE
  Crashes = FALSE
  MaxNow = 1
  NoOrder = NoOrder
  NoRow = NoRow
  NoReading = NoReading
SPECIFICATION FairSpec
PROPERTY FilledClaimsReleased
