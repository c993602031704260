\* No compaction within the run (CompactOps above any number of appends), a
\* queue long enough for every job, two crashes.
SPECIFICATION QueueSpec
CONSTANTS
  j1 = j1
  j2 = j2
  Job <- Jobs2
  MaxDepth = 2
  MaxInflight = 2
  MaxFinished = 2
  CompactOps = 100
  WalEnabled = TRUE
  MaxVramRetries = 0
  MaxWorkerRetries = 1
  TtlExpires = TRUE
  MaxCrashes = 2
INVARIANTS LogIsFaithful
PROPERTIES ImplementsLifecycle
SYMMETRY JobSymmetry
