CONSTANTS
  t1 = t1
  Jobs <- FairJobs
  MaxRuns = 1
  Threads <- OneThread
  Limits <- TwoAttempts
  Keep = 1
  MaxSyncs = 0
  MaxFailures = 1
  EarlyRequests = FALSE
SPECIFICATION FairSpec
INVARIANTS SucceededMeansDone
 
