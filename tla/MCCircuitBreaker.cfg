SPECIFICATION FairSpec
CONSTANTS
  c1 = c1  c2 = c2  c3 = c3
  Calls <- MCCalls
  FailureThreshold = 2
  SuccessThreshold = 2
  Outcomes <- AllOutcomes
  MaxResets = 1
INVARIANT SlotHasOwner
PROPERTY KeepsPromise
PROPERTY EventuallyClosed
