\* One job on a native thread, with pause, checkpoints and two commit permits.
CONSTANTS
  Jobs = {t1}
  Nonces = {n1, n2}
  ThreadJobs = {t1}
  PoolJobs = {}
  PreparedJobs = {}
  PauseJobs = {t1}
  ResumeJobs = {t1}
  CancelJobs = {t1}
  CheckpointJobs = {t1}
  MaxWorkers = 1
  ShutdownPolicies = {"wait", "cancel", "checkpoint-and-cancel"}
  MaxRevision = 3
SPECIFICATION Spec
INVARIANTS ReadyMeansQuiet ReleasedMeansStopped TypeOK CancelBarrier PermitsLive OneEffectPerRevision FinishedOnce
PROPERTY TerminalIsFinal
\* A closed runtime whose jobs have ended has no step left.
CHECK_DEADLOCK FALSE
