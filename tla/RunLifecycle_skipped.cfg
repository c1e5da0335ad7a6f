SPECIFICATION Spec
CONSTANTS
  Deliveries = {d1, d2}
  N = 3
  Wave <- MCWave
  Parents <- MCParents
  NoDelivery = NoDelivery
  MaxFaults = 0
SYMMETRY DeliverySymmetry
CHECK_DEADLOCK FALSE
INVARIANT SkippedNeverExecuted
