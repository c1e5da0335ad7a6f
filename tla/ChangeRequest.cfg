SPECIFICATION FairSpec
CONSTANTS
  Requests = {r1, r2, r3}
  Reconcilers = {c1, c2}
  Nodes = {n1}
  NoRun = NoRun
  MaxCrashes = 1
CHECK_DEADLOCK FALSE
INVARIANTS
  TypeOK
  DeployedIsHonest
  OneOpenDeploy
  NoDeployBehindTheReviewer
  ApprovalMatchesStatus
PROPERTIES
  SettledStays
  RunsKeepContract
  DeployEnds
