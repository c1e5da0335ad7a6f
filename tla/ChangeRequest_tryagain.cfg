SPECIFICATION Spec
CONSTANTS
  Requests = {r1, r2}
  Reconcilers = {c1}
  Nodes = {n1}
  NoRun = NoRun
  MaxCrashes = 0
CHECK_DEADLOCK FALSE
INVARIANT TryAgainIsSafe
