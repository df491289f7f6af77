SPECIFICATION Spec
CONSTANTS
  p1 = p1
  p2 = p2
  a = a
  b = b
  Processes = {p1, p2}
  Drafts = {a, b}
  RevisionSteps = {1}
  MaxFaults = 1
  MaxCrashes = 0
  MaxForeignEdits = 0
  MaxMishaps = 1
INVARIANT FailedSaveKeepsOld
