CONSTANTS
  p1 = p1  c1 = c1  c2 = c2  i1 = i1  i2 = i2  a1 = a1
  cap1 = cap1  mcp1 = mcp1  star = star  None = None
  u1 = u1  v1 = v1  v2 = v2  t1 = t1  s1 = s1  s2 = s2  tool = tool  Absent = Absent
  x1 = x1  x2 = x2  y1 = y1  y2 = y2
  Packages = {p1}
  McpTools = {mcp1}
  Callers = {c1, c2}
  Installers = {i1, i2}
  Agents = {a1}
  Capabilities = {cap1, mcp1}
  McpCapabilities = {mcp1}
  Ops <- MCOps
  Policies <- MCPolicies
  Manifests <- MCManifests
  Skills <- MCSkills
  AnyResource = star
  Objs = {1, 2}
  AuditLimit = 1
  MaxAudit = 4
  MaxRestarts = 1
  MaxAttempts = 2
  Users = {c1, c2}
  Keys = {u1}
  Values = {v1, v2}
  MaxVersion = 2
  Servers = {u1}
  Tools = {tool}
  Tokens = {t1}
  SessionIds = {s1, s2}
  MaxRetries = 1
  MaxRuns = 2
  Nodes = {c1, c2, n3}
  Broadcasts = {b1}
  NoNode = NoNode
  NodeTimeout = 0
  MaxClock = 1
  Room <- DictRoom
  NoEvent = NoEvent
  Events = {c1, c2}
  Types = {"a", "b"}
  Subs = {x1, x2}
  SubType <- SameType
  Waiters = {y1, y2}
  WaitTypes <- OneTypeEach
  Pushers = {c1, c2}
  Streams = {s1, s2}
  MaxSeq = 3
  SseSessions = {1, 2}
  Posts = {q1, q2}
  Batches <- MCBatches
  MaxStarts = 2
SYMMETRY Symmetry
SPECIFICATION MCSpec
CHECK_DEADLOCK FALSE
INVARIANT OverrunBounded
INVARIANT ListedIsSandboxed
INVARIANT MarkerShowsSecret
INVARIANT ServerSessionIsOpen
INVARIANT ClusterLed
INVARIANT BroadcastReachesMembers
INVARIANT DeliveredExactlyOnce
INVARIANT BarrierAfterHandlers
INVARIANT NoLostWakeup
INVARIANT ResumeHasNoGap
INVARIANT StreamCarriesAnswers
