--------------------------- MODULE TaskScheduler ---------------------------
(***************************************************************************)
(* What lub/scheduler.h promises its clients: a task is registered at a    *)
(* level, scheduled once, and run in its turn, the lowest level first and  *)
(* in the order of scheduling within a level.  A task may itself register, *)
(* schedule and run other tasks.                                           *)
(*                                                                         *)
(* Module Scheduler implements this specification with the linked lists of *)
(* lub_fifo.                                                               *)
(***************************************************************************)
EXTENDS Naturals, Sequences, SequencesExt, FiniteSetsExt

CONSTANTS Task,     \* the tasks a client can register
          Level     \* the levels of priority, the most urgent being the lowest

VARIABLES waiting,  \* the level of each task registered and not yet scheduled
          queue,    \* the tasks scheduled at each level, in order
          nest      \* the tasks being run, the innermost last

tvars == <<waiting, queue, nest>>

Scheduled == UNION {ToSet(queue[l]) : l \in Level}

InUse == DOMAIN waiting \cup Scheduled \cup ToSet(nest)

TInit == /\ waiting = <<>>
         /\ queue = [l \in Level |-> <<>>]
         /\ nest = <<>>

Register(t, l) == /\ t \notin InUse
                  /\ queue' = [queue EXCEPT ![l] = Append(@, t)]
                  /\ UNCHANGED <<waiting, nest>>

AsyncRegister(t, l) == /\ t \notin InUse
                       /\ waiting' = [u \in DOMAIN waiting \cup {t} |->
                                        IF u = t THEN l ELSE waiting[u]]
                       /\ UNCHANGED <<queue, nest>>

AsyncSchedule(t) == /\ t \in DOMAIN waiting
                    /\ waiting' = [u \in DOMAIN waiting \ {t} |-> waiting[u]]
                    /\ queue' = [queue EXCEPT ![waiting[t]] = Append(@, t)]
                    /\ UNCHANGED nest

Run == \E l \in Level :
         /\ queue[l] # <<>>
         /\ \A m \in Level : m < l => queue[m] = <<>>
         /\ nest' = Append(nest, Head(queue[l]))
         /\ queue' = [queue EXCEPT ![l] = Tail(@)]
         /\ UNCHANGED waiting

Return == /\ nest # <<>>
          /\ nest' = Front(nest)
          /\ UNCHANGED <<waiting, queue>>

TNext == \/ \E t \in Task, l \in Level : Register(t, l) \/ AsyncRegister(t, l)
         \/ \E t \in Task : AsyncSchedule(t)
         \/ Run \/ Return

TSpec == TInit /\ [][TNext]_tvars
=============================================================================
