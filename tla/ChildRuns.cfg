CONSTANTS
  MaxRuns = 3
  Workflows = {"a", "b", "c"}
  Root = "a"
  Calls <- MCCalls
  MaxDepth = 2
  MaxEvents = 2
SPECIFICATION Spec
INVARIANTS
  TypeOK
  NoChildLeftBehind
  ChainsAreBounded
PROPERTIES
  RunsKeepContract
  StopReachesChildren
CHECK_DEADLOCK FALSE
