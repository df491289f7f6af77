\* One externally driven job next to one on a prepared backend.
CONSTANTS
  Jobs = {d1, m1}
  Nonces = {n1}
  ThreadJobs = {}
  PoolJobs = {}
  PreparedJobs = {m1}
  PauseJobs = {d1}
  ResumeJobs = {d1}
  CancelJobs = {d1, m1}
  CheckpointJobs = {}
  MaxWorkers = 1
  ShutdownPolicies = {"cancel"}
  MaxRevision = 1
SPECIFICATION Spec

PROPERTY LifecycleSpec
\* A closed runtime whose jobs have ended has no step left.
CHECK_DEADLOCK FALSE
