\* One thread job that is cancelled while it ends.
CONSTANTS
  Jobs = {t1}
  Nonces = {}
  ThreadJobs = {t1}
  PoolJobs = {}
  PreparedJobs = {}
  PauseJobs = {}
  ResumeJobs = {}
  CancelJobs = {t1}
  CheckpointJobs = {}
  MaxWorkers = 1
  ShutdownPolicies = {}
  MaxRevision = 0
SPECIFICATION FairSpec
PROPERTY CancelSettles
\* A closed runtime whose jobs have ended has no step left.
CHECK_DEADLOCK FALSE
