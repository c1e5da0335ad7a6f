SPECIFICATION FairSpec
CONSTANTS
  G = 3
  BatchSize = 2
  MaxConcurrency = 0
  Clicks = {c1, c2}
  MaxFaults = 1
CHECK_DEADLOCK FALSE
INVARIANTS
  TypeOK
  EveryBatchWasApproved
  BatchesInOrder
  SuccessIsHonest
  CancelStopsTheRollout
PROPERTIES
  KeepsContract
  ApprovedGateOpens
  OrphanIsReaped
