CONSTANTS
  t1 = t1
  Jobs <- RestartJobs
  MaxRuns = 2
  Threads <- OneThread
  Limits <- TwoAttempts
  Keep = 1
  MaxSyncs = 2
  MaxFailures = 1
  EarlyRequests = FALSE
SPECIFICATION Spec
INVARIANTS TypeOK OneRunning AttemptsBounded SingleSync
PROPERTIES CancelIntentKept RotationSparesWanted DoneIsFinal NoLostWakeup
