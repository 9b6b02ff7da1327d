----------------------------- MODULE Scheduler -----------------------------
(***************************************************************************)
(* The task scheduler of contrib/lub: the counting and clamping done by    *)
(* scheduler.c, the queues and the choice of a task by scheduler_fifo.c,   *)
(* and the intrusive lists of fifo.c the queues are made of.               *)
(*                                                                         *)
(* There is one thread.  A task runs inside lub_scheduler_run_task and may *)
(* call any operation, lub_scheduler_run_task included, before it returns. *)
(* A client schedules a task it has registered once, as the type of the    *)
(* handle allows; tasks come from a block pool, which may refuse one.      *)
(***************************************************************************)
EXTENDS Naturals, Sequences, FiniteSets, SequencesExt, FiniteSetsExt

CONSTANTS
  Task,          \* the blocks of the task pool
  None,          \* a NULL pointer
  PriorityMin,   \* attr.priority_min
  PriorityMax,   \* attr.priority_max
  Priority,      \* the priorities clients ask for
  Garbage,       \* what malloc() may leave in the pending counter
  PoolFails,     \* whether lub_dblockpool_alloc may return NULL
  UintSize,      \* the number of values of an unsigned
  MaxNest        \* bound: the tasks being run inside one another

ASSUME SchedulerAssumption ==
  /\ None \notin Task /\ IsFiniteSet(Task)
  /\ PriorityMin \in Nat /\ PriorityMax \in Nat /\ PriorityMin <= PriorityMax
  /\ Priority \subseteq Nat
  /\ UintSize \in Nat /\ Cardinality(Task) < UintSize
  /\ Garbage \subseteq 0 .. UintSize - 1
  /\ PoolFails \in BOOLEAN
  /\ MaxNest \in Nat

(* The queues, numbered from 0. *)
Level == 0 .. PriorityMax - PriorityMin

Status == {"free", "registered", "queued", "running"}

VARIABLES
  head,      \* of each queue, its first task
  tail,      \* of each queue, its last task
  next,      \* of each task, fifo_node.next
  status,    \* of each task, what has been done with its block
  level,     \* of each task, task->priority less priority_min; 0 once it is deleted
  pending,   \* the counter of registered tasks
  excess,    \* history: what pending held at first, and the registrations refused
  nest,      \* the tasks being run, the innermost last
  idle       \* the last lub_scheduler_run_task returned BOOL_FALSE

lists == <<head, tail, next>>
vars == <<head, tail, next, status, level, pending, excess, nest, idle>>

(* lub_scheduler_init leaves the counter as malloc() returned it. *)
Init ==
  /\ head = [l \in Level |-> None]
  /\ tail = [l \in Level |-> None]
  /\ next = [t \in Task |-> None]
  /\ status = [t \in Task |-> "free"]
  /\ level = [t \in Task |-> 0]
  /\ pending \in Garbage
  /\ excess = pending
  /\ nest = <<>>
  /\ idle = FALSE
-----------------------------------------------------------------------------
(* The lists. *)

(* Mutant: the last node is not linked to the new one. *)
lub_fifo_push_unlinked(l, t) ==
  /\ next' = [next EXCEPT ![t] = None]
  /\ head' = IF head[l] = None THEN [head EXCEPT ![l] = t] ELSE head
  /\ tail' = [tail EXCEPT ![l] = t]

(* Mutant: the new node becomes the first. *)
lub_fifo_push_front(l, t) ==
  /\ next' = [next EXCEPT ![t] = head[l]]
  /\ tail' = IF head[l] = None THEN [tail EXCEPT ![l] = t] ELSE tail
  /\ head' = [head EXCEPT ![l] = t]

(* Add t at the tail. *)
lub_fifo_push(l, t) ==
  /\ tail' = [tail EXCEPT ![l] = t]
  /\ \/ /\ head[l] = None
        /\ head' = [head EXCEPT ![l] = t]
        /\ next' = [next EXCEPT ![t] = None]
     \/ /\ head[l] # None
        /\ next' = [next EXCEPT ![t] = None, ![tail[l]] = t]
        /\ UNCHANGED head

(* Mutant: the node removed keeps its link. *)
lub_fifo_pull_linked(l) ==
  /\ head' = [head EXCEPT ![l] = next[head[l]]]
  /\ tail' = IF next[head[l]] = None THEN [tail EXCEPT ![l] = None] ELSE tail
  /\ UNCHANGED next

(* Remove the task at the head of a list that is not empty. *)
lub_fifo_pull(l) ==
  /\ head' = [head EXCEPT ![l] = next[head[l]]]
  /\ next' = [next EXCEPT ![head[l]] = None]
  /\ tail' = IF next[head[l]] = None THEN [tail EXCEPT ![l] = None] ELSE tail
-----------------------------------------------------------------------------
(* Registration. *)

(* A priority out of bounds is limited to the bound it exceeds. *)
Clamp(p) ==
  CASE p < PriorityMin -> PriorityMin
    [] p > PriorityMax -> PriorityMax
    [] OTHER -> p

(* The queue that serves a priority. *)
Queue(p) == Clamp(p) - PriorityMin

(* The counter is an unsigned. *)
Count(n) == pending' = (pending + n + UintSize) % UintSize

(* The task pool hands out a block that is not in use. *)
FreeBlock(t) == status[t] = "free"

(* A task is made of the block t, with the node of a list not yet on one. *)
lub_scheduler_new_task(t, p, s) ==
  /\ FreeBlock(t)
  /\ status' = [status EXCEPT ![t] = s]
  /\ level' = [level EXCEPT ![t] = Queue(p)]

(* Register a task that will be scheduled later. *)
lub_scheduler_async_register_task(p) ==
  /\ \E t \in Task : /\ lub_scheduler_new_task(t, p, "registered")
                     /\ next' = [next EXCEPT ![t] = None]
  /\ Count(1)
  /\ UNCHANGED <<head, tail, excess, nest, idle>>

(* Register a task and schedule it. *)
lub_scheduler_register_task(p) ==
  /\ \E t \in Task : /\ lub_scheduler_new_task(t, p, "queued")
                     /\ lub_fifo_push(Queue(p), t)
  /\ Count(1)
  /\ UNCHANGED <<excess, nest, idle>>

(* No block can be had: either call returns without a task, and counts one. *)
RegisterFails ==
  /\ PoolFails
  /\ Count(1)
  /\ excess' = (excess + 1) % UintSize
  /\ UNCHANGED <<lists, status, level, nest, idle>>

(* Schedule a task registered before. *)
lub_scheduler_async_schedule_task(t) ==
  /\ status[t] = "registered"
  /\ status' = [status EXCEPT ![t] = "queued"]
  /\ lub_fifo_push(level[t], t)
  /\ UNCHANGED <<level, pending, excess, nest, idle>>
-----------------------------------------------------------------------------
(* Running. *)

(* The queues lub_scheduler_fifo_get_task looks into. *)
Searched == {l \in Level : l < PriorityMax - PriorityMin}

Ready == {l \in Searched : head[l] # None}

(* Mutant: the queues are searched from the other end. *)
First_last(l) == \A m \in Ready : m <= l

(* The queue it takes a task from. *)
First(l) == \A m \in Ready : l <= m

CanRun == Len(nest) < MaxNest

(* The task chosen leaves its queue and its function is called. *)
RunStarts ==
  /\ CanRun
  /\ \E l \in Ready :
       /\ First(l)
       /\ lub_fifo_pull(l)
       /\ status' = [status EXCEPT ![head[l]] = "running"]
       /\ nest' = Append(nest, head[l])
  /\ idle' = FALSE
  /\ UNCHANGED <<level, pending, excess>>

(* There is none to run. *)
RunFindsNone ==
  /\ CanRun /\ Ready = {}
  /\ idle' = TRUE
  /\ UNCHANGED <<lists, status, level, pending, excess, nest>>

(* Mutant: the tasks registered while this one ran are forgotten. *)
CountDown_stale == pending' = Len(nest) - 1

CountDown == Count(UintSize - 1)

(* The function returns, and its task is deleted: lub_scheduler_task_fini clears it. *)
RunReturns ==
  /\ nest # <<>>
  /\ status' = [status EXCEPT ![Last(nest)] = "free"]
  /\ level' = [level EXCEPT ![Last(nest)] = 0]
  /\ nest' = Front(nest)
  /\ CountDown
  /\ idle' = FALSE
  /\ UNCHANGED <<lists, excess>>

Next ==
  \/ \E p \in Priority : lub_scheduler_register_task(p) \/ lub_scheduler_async_register_task(p)
  \/ RegisterFails
  \/ \E t \in Task : lub_scheduler_async_schedule_task(t)
  \/ RunStarts \/ RunFindsNone \/ RunReturns

(* The client's main loop keeps running tasks, and tasks return. *)
Fairness == WF_vars(RunStarts /\ nest = <<>>) /\ WF_vars(RunReturns)

Spec == Init /\ [][Next]_vars /\ Fairness
-----------------------------------------------------------------------------
(* Properties. *)

(* The tasks on a list, read along its links. *)
Chain(l) ==
  LET after == [t \in Task \cup {None} |-> IF t = None THEN None ELSE next[t]]
      nth[n \in 0 .. Cardinality(Task)] == IF n = 0 THEN head[l] ELSE after[nth[n - 1]]
      len == Cardinality({n \in 0 .. Cardinality(Task) : nth[n] # None})
  IN [i \in 1 .. len |-> nth[i - 1]]

Has(s) == {t \in Task : status[t] = s}

(* Every variable has its type. *)
TypeOK ==
  /\ head \in [Level -> Task \cup {None}]
  /\ tail \in [Level -> Task \cup {None}]
  /\ next \in [Task -> Task \cup {None}]
  /\ status \in [Task -> Status]
  /\ level \in [Task -> Level]
  /\ pending \in 0 .. UintSize - 1 /\ excess \in 0 .. UintSize - 1
  /\ nest \in Seq(Task)
  /\ idle \in BOOLEAN

(* The queues are lists that end, at their tail, and between them hold each task
   scheduled once and no other, whatever is registered from within a task. *)
QueuesAreLists ==
  /\ \A l \in Level :
       LET c == Chain(l) IN
       /\ c = <<>> <=> tail[l] = None
       /\ c # <<>> => tail[l] = Last(c) /\ next[Last(c)] = None
       /\ IsInjective(c)
       /\ \A t \in ToSet(c) : level[t] = l
  /\ UNION {ToSet(Chain(l)) : l \in Level} = Has("queued")

(* A task not on a list has no link: lub_fifo_node_fini asserts it of a task that
   is deleted. *)
NodeUnlinked == \A t \in Task : status[t] # "queued" => next[t] = None

(* The tasks being run are distinct, and are exactly those whose blocks have left
   their queues and not been given back: a task that registers others is never
   given its own block. *)
NestedTasksDistinct == IsInjective(nest) /\ ToSet(nest) = Has("running")

(* The blocks of the tasks: no two users have one, and none is given back linked. *)
BlocksSound == NestedTasksDistinct /\ NodeUnlinked

(* The counter counts the tasks that are registered, scheduled or being run, whatever
   tasks do to each other, so that lub_scheduler_is_pending tells whether there are
   any ("BOOL_TRUE - if there are any tasks currently registered"); but for ever too
   high by what malloc() left in it and by the registrations that were refused. *)
PendingExact == pending = (Cardinality(Task \ Has("free")) + excess) % UintSize

(* A task scheduled at a level that is searched is run, once no more urgent ones
   keep coming, whatever is registered at its own level and below: the most urgent
   tasks are run always. *)
ScheduledRuns ==
  \A t \in Task, l \in Searched :
    <>[](\A m \in Level : m < l => head[m] = None)
      => ((status[t] = "queued" /\ level[t] = l) ~> status[t] = "running")

(* The scheduler implements its abstract specification. *)
Abstract == INSTANCE TaskScheduler WITH
  waiting <- [t \in Has("registered") |-> level[t]],
  queue <- [l \in Level |-> Chain(l)]

ImplementsTaskScheduler == Abstract!TSpec
-----------------------------------------------------------------------------
(* What the documentation says and the code does not do. *)

(* lub/scheduler.h says that lub_scheduler_run_task returns "BOOL_FALSE - if no
   tasks where found in the schedule queue": then no task is scheduled. *)
IdleMeansEmpty == [][RunFindsNone => Has("queued") = {}]_vars
=============================================================================
