\* Three jobs, compaction at every third append, one crash.
SPECIFICATION QueueSpec
CONSTANTS
  j1 = j1
  j2 = j2
  j3 = j3
  Job <- Jobs3
  MaxDepth = 2
  MaxInflight = 2
  MaxFinished = 1
  CompactOps = 3
  WalEnabled = TRUE
  MaxVramRetries = 1
  MaxWorkerRetries = 0
  TtlExpires = TRUE
  MaxCrashes = 1
SYMMETRY JobSymmetry
INVARIANTS TypeOK QueueConsistent CancelSticks NoResurrection NotifiedAtMostOnce
