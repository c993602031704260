\* Two threads, two jobs of one priority; the results that lead to retries, and success.
\* Two VRAM retries against one fruitless eviction, so that either may end them.
SPECIFICATION DispatcherSpec
CONSTANTS
  j1 = j1
  j2 = j2
  j3 = j3
  j4 = j4
  t1 = t1
  t2 = t2
  NoJob = NoJob
  Job = {j1, j2}
  Interactive = {}
  Worker = {t1, t2}
  Results = {"ok", "dead", "vram"}
  MaxDepth = 2
  MaxInflight = 2
  MaxFinished = 2
  CompactOps = 100
  WalEnabled = FALSE
  MaxVramRetries = 2
  MaxWorkerRetries = 1
  TtlExpires = FALSE
  MaxCrashes = 0
  MaxCuts = 1
  FlatMax = 1
  MaxFlushes = 0
INVARIANTS DispatcherConsistent FlatJobsAreNotRetried CutsWithinStaleMax
SYMMETRY Alike
PROPERTIES UsesQueue
CHECK_DEADLOCK FALSE
