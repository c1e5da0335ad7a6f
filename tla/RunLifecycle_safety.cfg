SPECIFICATION Spec
CONSTANTS
  Deliveries = {d1, d2}
  N = 3
  Wave <- MCWave
  Parents <- MCParents
  NoDelivery = NoDelivery
  MaxFaults = 1
SYMMETRY DeliverySymmetry
CHECK_DEADLOCK FALSE
INVARIANTS
  TypeOK
  AtMostOnce
  SuccessIsHonest
  CancelStopsWithinOneWave
  CancelledShowsNoRunningStep
  RowsTellTheTruth
PROPERTY KeepsContract
