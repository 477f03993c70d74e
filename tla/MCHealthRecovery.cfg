SPECIFICATION HealthFairSpec
CHECK_DEADLOCK FALSE
CONSTANTS
  h1 = h1  h2 = h2  k1 = k1
  Handlers <- TwoHandlers
  Checkers <- OneChecker
  Kinds = {"agent", "workflow"}
  ProbeFailures = 2
  ProbeSuccesses = 1
  MaxRestarts = 2
  MaxRegs = 4
  MaxEvents = 2
INVARIANT UnhealthyIsHandled
INVARIANT RestartsBounded
PROPERTY BrokenIsEscalated
