\* Three levels, with callers that ask for priorities within and beyond them, a pool that
\* may refuse a block and a counter that starts anywhere.  Two chunks of two blocks, of
\* which three are in use at most.
CONSTANTS
  Chunk = {c1, c2}
  ChunkSize = 2
  MaxTasks = 3
  Task <- MCTask
  None = None
  PriorityMin = 1
  PriorityMax = 3
  Priority = {0, 2, 4}
  Garbage = {0, 3}
  PoolFails = TRUE
  UintSize = 5
  MaxNest = 2
SPECIFICATION PSpec
INVARIANTS QueuesAreLists BlocksSound PendingExact PoolSound
PROPERTIES ScheduledRuns ImplementsTaskScheduler
CHECK_DEADLOCK FALSE
