CONSTANTS
  Users = {u1, u2}
  NoUser = NoUser
  Main = main
  TTL = 3
  MaxFaults = 1
SPECIFICATION Spec
PROPERTIES
  DeployIsPinned
