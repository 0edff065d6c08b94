CONSTANTS
  t1 = t1
  Jobs <- SyncJobs
  MaxRuns = 1
  Threads <- OneThread
  Limits <- TwoAttempts
  Keep = 1
  MaxSyncs = 2
  MaxFailures = 0
  EarlyRequests = TRUE
SPECIFICATION Spec
INVARIANTS SingleSync
