SPECIFICATION Spec
CONSTANTS
  d1 = d1  d2 = d2  a = a  b = b  c = c  ca = ca  cc = cc
  NoStep = NoStep
  Drivers <- OneDriver
  StepSeq <- ShortSeq
  Comp <- ShortComp
  MaxAttempts <- ShortMax
  NeedsApproval <- OnlyB
  McpSteps <- None
  Vaulted <- None
  LlmPlans <- None
  Guarded <- None
  Wirings <- NoWiring
  Modes <- PlanOnly
  RetryBudget = 3
  MaxCalls = 1
INVARIANT ApprovalRespected
CHECK_DEADLOCK FALSE
