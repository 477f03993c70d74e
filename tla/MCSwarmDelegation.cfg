SPECIFICATION DSpec
CONSTANTS
  t1 = t1
  t2 = t2
  t3 = t3
  StepTask = step
  Agents = {1, 2}
  Mortal = {}
  LeaderWorker = FALSE
  Tasks = {t1, t2}
  Managers = {m1, m2}
  Capable <- AllCapable
  Loads = {0, 1}
  MaxDelegations = 2
SYMMETRY BatchSymmetry
INVARIANT RetryMovesOn
