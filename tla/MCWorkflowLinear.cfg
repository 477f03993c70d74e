SPECIFICATION Spec
CONSTANTS
  d1 = d1  d2 = d2  a = a  b = b  c = c  ca = ca  cc = cc
  NoStep = NoStep
  Drivers <- OneDriver
  StepSeq <- LongSeq
  Comp <- LongComp
  MaxAttempts <- LongMax
  NeedsApproval <- TwoGates
  McpSteps <- OnlyCc
  Vaulted <- OnlyB
  LlmPlans <- None
  Guarded <- OnlyC
  Wirings <- StepWirings
  Modes <- LoopOnly
  RetryBudget = 0
  MaxCalls = 3
CHECK_DEADLOCK FALSE
INVARIANT ApprovalRespected
INVARIANT NoStepSkipped
INVARIANT FailureIsUndone
INVARIANT NotAbandoned
