\* One operation that runs as a job; nothing fails.
SPECIFICATION FairSpec
CONSTANTS
  change = change
  report = report
  Items = {change}
  Answers = {}
  Needs <- ReportNeedsChange
  Calls <- OneCall
  Targets = {"cancelled"}
  MaxBatches = 1
  MaxOps = 1
  MaxRevision = 1
  MaxFaults = 0
  MaxCrashes = 0
PROPERTY EndedJobsAreRecorded
CHECK_DEADLOCK FALSE
