\* One thread, two jobs, every result, one cancel_all: the thread serves all.
SPECIFICATION DispatcherSpec
CONSTANTS
  j1 = j1
  j2 = j2
  j3 = j3
  j4 = j4
  t1 = t1
  t2 = t2
  NoJob = NoJob
  Job = {j1, j2}
  Interactive = {j1}
  Worker = {t1}
  Results = {"ok", "error", "cancelError", "dead", "vram", "deadVram", "vramNever", "aborted"}
  MaxDepth = 2
  MaxInflight = 1
  MaxFinished = 2
  CompactOps = 100
  WalEnabled = FALSE
  MaxVramRetries = 1
  MaxWorkerRetries = 1
  TtlExpires = FALSE
  MaxCrashes = 0
  MaxCuts = 1
  FlatMax = 2
  MaxFlushes = 1
PROPERTIES EveryJobSettles CancelTakesEffect
CHECK_DEADLOCK FALSE
