CONSTANTS
  Users = {u1, u2}
  Fires = {f1}
  MaxEntries = 3
  MaxRequests = 3
  MaxFaults = 1
SPECIFICATION Spec
SYMMETRY UserSymmetry
INVARIANTS
  TypeOK
  NothingRunsUnarmed
  EnabledCronIsRegistered
  NoRunWithoutRights
PROPERTY OnlyRequestsSwitchOn
