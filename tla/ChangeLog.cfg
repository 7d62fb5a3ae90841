CONSTANTS
  Values = {1}
  Comments = {0}
  Oversized = {1}
  MaxBatch = 2
  MaxKeys = 2
  MaxChanges = 1
  MaxFaults = 1
SPECIFICATION FairSpec
INVARIANTS NothingSkipped
PROPERTIES RunsRecorded FiledInTime Delivered
