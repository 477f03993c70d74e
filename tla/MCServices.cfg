SPECIFICATION MCSpec
CONSTANTS
  t1 = t1  t2 = t2  cap1 = cap1  default = default
  Clients = {k1, k2}
  ServerTools = {tool1}
  MaxRequests = 2
  MaxConnects = 2
  Tasks = {t1, t2}
  Workers = {w1, w2}
  Names = {cap1, default}
  Default = default
  NoTask = NoTask
  Needs <- MCNeeds
  CapIds = {1}
  ToolIds = {1}
  PluginIds = {1}
  MaxMessages = 3
  Components = {agent, other}
  Callers = {p1, p2}
  MaxEntries = 2
  MaxReplays = 2
  Replayers = {p1, p2}
  MaxObjects = 3
  MaxAttempts = 2
  MaxRestarts = 1
  Peers = {peer}
  Stoppers = {u1, u2}
  MaxLoops = 3
  SuspectAfter = 2
  UnhealthyAfter = 3
  Runners = {r1, r2}
  MaxSpans = 4
  SpansLimit = 2
  MetricsLimit = 2
  LogsLimit = 1
CHECK_DEADLOCK FALSE
INVARIANT SettledNotPending
INVARIANT HandledOnce
INVARIANT StartedLooksHealthy
INVARIANT ProbedByOneLoop
INVARIANT RecentSpansSettle
PROPERTY CallsAreAnswered
PROPERTY RunningEnds
PROPERTY RequestsAreServed
