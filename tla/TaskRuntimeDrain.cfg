\* Two jobs share the only worker of a pool; the close attempt must still settle them.
CONSTANTS
  Jobs = {p1, p2}
  Nonces = {}
  ThreadJobs = {}
  PoolJobs = {p1, p2}
  PreparedJobs = {}
  PauseJobs = {}
  ResumeJobs = {}
  CancelJobs = {p1, p2}
  CheckpointJobs = {}
  MaxWorkers = 1
  ShutdownPolicies = {}
  MaxRevision = 0
SPECIFICATION FairSpec
PROPERTY DrainSettles
INVARIANTS ReadyMeansQuiet
\* A closed runtime whose jobs have ended has no step left.
CHECK_DEADLOCK FALSE
