\* Two items that are worked on side by side; one failed save.
SPECIFICATION Spec
CONSTANTS
  change = change
  report = report
  Items = {change, report}
  Answers = {}
  Needs <- Independent
  Calls <- OneCall
  Targets = {"cancelled"}
  MaxBatches = 2
  MaxOps = 2
  MaxRevision = 1
  MaxFaults = 1
  MaxCrashes = 0
INVARIANTS
  WorkOwnsResource
  SatisfiedIsBacked
PROPERTIES
  TerminalIsFinal
  RequestSpec
SYMMETRY Symmetry
\* A request that has ended, or waits for the user, may have no step left.
CHECK_DEADLOCK FALSE
