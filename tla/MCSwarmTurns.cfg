SPECIFICATION QuietSpec
CONSTANTS
  t1 = t1
  t2 = t2
  t3 = t3
  StepTask = step
  Agents = {1, 2, 3}
  Mortal = {}
  LeaderWorker = FALSE
  Tasks = {t1, t2, t3}
  Managers = {m1}
  Capable <- AllCapable
  Loads = {0}
  MaxDelegations = 3
SYMMETRY BatchSymmetry
INVARIANT RoundRobinIsFair
