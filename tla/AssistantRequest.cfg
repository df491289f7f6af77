\* Two batches of one call, one amendment, one restart.
SPECIFICATION FairSpec
CONSTANTS
  change = change
  report = report
  Items = {change, report}
  Answers = {report}
  Needs <- ReportNeedsChange
  Calls <- OneCall
  Targets = {"cancelled"}
  MaxBatches = 2
  MaxOps = 2
  MaxRevision = 2
  MaxFaults = 0
  MaxCrashes = 1
INVARIANTS
  TypeOK
  TerminalMeansSettled
  WrittenOnce
PROPERTY
  StopSettles
\* A request that has ended, or waits for the user, may have no step left.
CHECK_DEADLOCK FALSE
