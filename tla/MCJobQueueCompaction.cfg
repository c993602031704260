\* Two jobs, compaction at every second append.
SPECIFICATION QueueSpec
CONSTANTS
  j1 = j1
  j2 = j2
  j3 = j3
  Job <- Jobs2
  MaxDepth = 2
  MaxInflight = 2
  MaxFinished = 1
  CompactOps = 2
  WalEnabled = TRUE
  MaxVramRetries = 1
  MaxWorkerRetries = 0
  TtlExpires = TRUE
  MaxCrashes = 1
INVARIANTS LogHoldsLiveJobs
