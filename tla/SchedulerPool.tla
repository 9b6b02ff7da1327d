---------------------------- MODULE SchedulerPool ----------------------------
(***************************************************************************)
(* The scheduler with the pool its tasks come from: the blocks Scheduler   *)
(* takes for its tasks are those the pool hands out, and it can be deleted.*)
(***************************************************************************)
EXTENDS Scheduler

CONSTANTS
  Chunk, ChunkSize,   \* the chunks of the pool, and the blocks in each
  MaxTasks            \* bound: the tasks registered, scheduled or being run

ASSUME SchedulerPoolAssumption ==
  /\ Task = Chunk \X (1 .. ChunkSize) /\ ChunkSize \in Nat \ {0}
  /\ MaxTasks \in Nat

VARIABLES
  chunks, count, m_head, m_tail, m_next,   \* the pool, see BlockPool
  deleted                                  \* how lub_scheduler_delete ended

(* lub_scheduler_fifo_init sets no limit to the chunks. *)
Pool == INSTANCE BlockPool WITH MaxChunks <- 0

pvars == <<chunks, count, m_head, m_tail, m_next>>
allvars == <<vars, pvars, deleted>>

PInit == Init /\ Pool!Init /\ deleted = "no"

(* The step takes the block t for a task. *)
Takes(t) == status[t] = "free" /\ status'[t] # "free"

(* A task is registered, in a block of the pool. *)
Register ==
  /\ \E p \in Priority : lub_scheduler_register_task(p) \/ lub_scheduler_async_register_task(p)
  /\ Cardinality(Task \ Has("free")) < MaxTasks
  /\ \E t \in Task : Takes(t) /\ Pool!lub_dblockpool_alloc(t)

RegisterRefused == RegisterFails /\ Pool!lub_dblockpool_alloc_fails

(* The task that has run is deleted, and its block given back. *)
DeleteTask ==
  /\ RunReturns
  /\ Pool!lub_dblockpool_free(Last(nest))

Same == (\E t \in Task : lub_scheduler_async_schedule_task(t)) \/ RunStarts \/ RunFindsNone

(* The client deletes a scheduler that finds no task to run, outside any task.  The
   pool is released before the queues, one of which may be found to hold a task. *)
lub_scheduler_delete ==
  /\ nest = <<>> /\ Ready = {}
  /\ Pool!lub_dblockpool_fini
  /\ deleted' = IF \E l \in Level : head[l] # None THEN "aborted" ELSE "done"
  /\ UNCHANGED vars

PNext ==
  /\ deleted = "no"
  /\ \/ (Register \/ RegisterRefused \/ DeleteTask) /\ UNCHANGED deleted
     \/ Same /\ UNCHANGED <<pvars, deleted>>
     \/ lub_scheduler_delete

(* As in Scheduler, until the scheduler is deleted. *)
PFairness ==
  /\ WF_allvars(RunStarts /\ nest = <<>> /\ UNCHANGED <<pvars, deleted>>)
  /\ WF_allvars(DeleteTask /\ UNCHANGED deleted)

PSpec == PInit /\ [][PNext]_allvars /\ PFairness
-----------------------------------------------------------------------------
(* Until the scheduler is deleted the pool and the scheduler agree on which blocks
   are in use, however tasks register tasks from within a task, and every block that
   is not can be had again (lub_dblockpool_alloc, lub_dblockpool_free). *)
PoolSound == deleted = "no" => Pool!Sound(Task \ Has("free"))
=============================================================================
