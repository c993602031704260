\* The worker: unloads may be slow, and one of them raises.  The clients: a stream and a
\* waiter, or a poller, of one job.  The hooks: two threads that dispatch, one hook
\* threads, one tick before the shutdown.  The tool: two jobs, a supervisor that restarts.  The
\* agent: three lines, one of which waits for a job, two threads.
SPECIFICATION ConversationsSpec
CONSTANTS
  MaxJobs = 2
  MaxRaises = 1
  MaxCalls = 6
  stream1 = stream1
  waiter1 = waiter1
  poller1 = poller1
  Streams = {stream1}
  Waiters = {waiter1}
  Pollers = {poller1}
  Companies <- CompaniesTried
  MaxReports = 1
  MaxRequeues = 1
  MaxMoves = 1
  Documents <- DocumentsTried
  Dispatchers = {d1, d2}
  Runs = {1}
  MinInterval = 1
  MaxTime = 3
  KillJobs = {j1, j2}
  Spares = {"server", "desktop"}
  MaxServings = 2
  Pool = {t1, t2}
  MaxMessages = 3
  MaxWaits = 1
INVARIANTS AnswersMatch ProtocolConsistent ClientsAreServed HooksConsistent KillSpares AgentIsHeard
PROPERTIES AnswersFollow ConversationsEnd
CHECK_DEADLOCK FALSE
