SPECIFICATION FairSpec
CONSTANTS
  c1 = c1  c2 = c2  c3 = c3
  Calls <- ThreeCalls
  FailureThreshold = 2
  HalfOpenMaxCalls = 2
  Outcomes <- AllOutcomes
  MaxRegister = 2
INVARIANT RowMirrorsCircuit
INVARIANT TrialsAccounted
PROPERTY KeepsPromise
PROPERTY EventuallyClosed
