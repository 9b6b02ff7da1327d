\* A partition that is killed while two threads use it.
CONSTANTS
  Thread = {t1, t2}
  Ptr = {p1, p2}
  Size = {0, 1, 2}
  LocalMax = 1
  LocalBlocks = 1
  LocalUnits = 1
  SegUnits = 3
  Ceiling = 2
  Relock = {"blocks"}
  None = None
SPECIFICATION Spec
INVARIANT DestroyedWhenDone
CHECK_DEADLOCK FALSE
