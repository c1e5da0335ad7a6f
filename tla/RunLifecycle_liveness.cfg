SPECIFICATION FairSpec
CONSTANTS
  Deliveries = {d1, d2}
  N = 1
  Wave <- MCSingleWave
  Parents <- MCSingleParents
  NoDelivery = NoDelivery
  MaxFaults = 2
CHECK_DEADLOCK FALSE
PROPERTIES
  EveryRunEnds
  CancelledRowsClose
