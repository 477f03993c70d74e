SPECIFICATION Spec
CONSTANTS
  c1 = c1  c2 = c2  c3 = c3
  Calls <- MCCalls
  FailureThreshold = 2
  SuccessThreshold = 2
  Outcomes <- OkOrFail
  MaxResets = 0
INVARIANT OneTestCallAtATime
