SPECIFICATION Spec
SYMMETRY Symmetry
CONSTANTS
  j1 = j1
  j2 = j2
  Jobs = {j1, j2}
  NumCompanions = 1
  BackupPolicies = {TRUE, FALSE}
  MaxFaults = 2
  MaxCrashes = 1
  MaxForeignEdits = 1
  MaxMishaps = 3
PROPERTIES
  OutcomeIsTrue
  ForeignKept
INVARIANTS
  TypeOK
  OldIsKept
  NothingLeftBehind
