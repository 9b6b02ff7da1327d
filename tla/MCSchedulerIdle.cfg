CONSTANTS
  Task = {t1, t2}
  None = None
  PriorityMin = 0
  PriorityMax = 2
  Priority = {1, 2}
  Garbage = {0}
  PoolFails = FALSE
  UintSize = 8
  MaxNest = 1
SPECIFICATION Spec
PROPERTY IdleMeansEmpty
CHECK_DEADLOCK FALSE
