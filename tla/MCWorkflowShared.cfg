SPECIFICATION FairSpec
CONSTANTS
  d1 = d1  d2 = d2  a = a  b = b  c = c  ca = ca  cc = cc
  NoStep = NoStep
  Drivers <- TwoDrivers
  StepSeq <- TinySeq
  Comp <- TinyComp
  MaxAttempts <- TinyMax
  NeedsApproval <- OnlyB
  McpSteps <- None
  Vaulted <- OnlyB
  LlmPlans = {1}
  Guarded <- None
  Wirings <- PlanWirings
  Modes <- AllModes
  RetryBudget = 3
  MaxCalls = 1
INVARIANT CompensationHasDriver
PROPERTY DriversTerminate
CHECK_DEADLOCK FALSE
