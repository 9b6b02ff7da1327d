\* Two threads with a cache of one block each, in a heap that must grow for both of them.
CONSTANTS
  Thread = {t1, t2}
  Ptr = {p1, p2}
  Size = {0, 1, 2}
  LocalMax = 1
  LocalBlocks = 1
  LocalUnits = 1
  SegUnits = 3
  Ceiling = 2
  Relock = {"blocks", "fails"}
  None = None
SPECIFICATION Spec
INVARIANT AccountExact
PROPERTIES CallReturns DiesWhenDone
CHECK_DEADLOCK FALSE
