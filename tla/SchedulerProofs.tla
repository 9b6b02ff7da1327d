-------------------------- MODULE SchedulerProofs --------------------------
(***************************************************************************)
(* Theorems about Scheduler, for every set of tasks and every range of     *)
(* priorities, and for tasks run inside one another to any depth; and, at  *)
(* the end, about SchedulerPool.  What holds of the scheduler for any pool *)
(* of blocks holds of it with its own: each step of the two together is    *)
(* one of the scheduler or changes nothing it keeps.  And what holds of    *)
(* the pool, for any number of chunks of any size: its lists and its       *)
(* counts agree with the tasks there are.                                  *)
(***************************************************************************)
EXTENDS SchedulerPool, SequenceLemmas, FiniteSetTheorems, SequenceTheorems, TLAPS

-----------------------------------------------------------------------------
(* Facts about the parts the scheduler is made of. *)

LEMMA LevelIsNat ==
  PriorityMax - PriorityMin \in Nat /\ Level \subseteq Nat /\ 0 \in Level
BY SchedulerAssumption DEF Level

(* A priority is clamped into the levels there are. *)
LEMMA QueueIsLevel == ASSUME NEW p \in Priority PROVE Queue(p) \in Level
  <1>1. p \in Nat /\ PriorityMin \in Nat /\ PriorityMax \in Nat /\ PriorityMin <= PriorityMax
    BY SchedulerAssumption
  <1>2. Clamp(p) \in PriorityMin .. PriorityMax
    BY <1>1 DEF Clamp
  <1> QED
    BY <1>1, <1>2 DEF Queue, Level

(* The tasks being run, as the innermost returns. *)
LEMMA PopNest ==
  ASSUME NEW s \in Seq(Task), s # <<>>
  PROVE  /\ Front(s) \in Seq(Task)
         /\ Last(s) \in Task
         /\ Last(s) \in ToSet(s)
         /\ IsInjective(s) => /\ IsInjective(Front(s))
                              /\ ToSet(Front(s)) = ToSet(s) \ {Last(s)}
  <1>1. Len(s) \in Nat \ {0} /\ DOMAIN s = 1 .. Len(s)
    BY EmptySeq
  <1> DEFINE n == Len(s) - 1
             f == SubSeq(s, 1, n)
  <1>2. n \in Nat /\ Len(s) = n + 1
    BY <1>1
  <1>3. \A i \in 1 .. n : s[i] \in Task
    BY <1>1, <1>2, ElementOfSeq
  <1>4. /\ f \in Seq(Task) /\ Len(f) = n
        /\ \A i \in 1 .. n : f[i] = s[i]
    <2> HIDE DEF n
    <2> QED BY <1>2, <1>3, SubSeqProperties
  <1>5. Front(s) = f /\ Last(s) = s[n + 1]
    BY <1>2 DEF Front, Last
  <1> HIDE DEF n, f
  <1>6. Last(s) \in Task
    BY <1>1, <1>2, <1>5, ElementOfSeq
  <1>7. DOMAIN f = 1 .. n
    BY <1>4
  <1>8. Last(s) \in ToSet(s)
    BY <1>1, <1>2, <1>5 DEF ToSet
  <1>9. ASSUME IsInjective(s) PROVE IsInjective(f) /\ ToSet(f) = ToSet(s) \ {Last(s)}
    BY <1>1, <1>2, <1>4, <1>5, <1>7, <1>9 DEF IsInjective, ToSet
  <1> QED
    BY <1>4, <1>5, <1>6, <1>8, <1>9

-----------------------------------------------------------------------------
(* Type correctness. *)

LEMMA CountType ==
  ASSUME TypeOK, NEW n \in Nat, Count(n) PROVE pending' \in 0 .. UintSize - 1
  <1>1. UintSize \in Nat /\ UintSize > 0
    BY SchedulerAssumption, FS_CardinalityType
  <1> QED
    BY <1>1 DEF TypeOK, Count

LEMMA PushType ==
  ASSUME TypeOK, NEW l \in Level, NEW t \in Task, lub_fifo_push(l, t)
  PROVE  /\ head' \in [Level -> Task \cup {None}]
         /\ tail' \in [Level -> Task \cup {None}]
         /\ next' \in [Task -> Task \cup {None}]
BY DEF TypeOK, lub_fifo_push

LEMMA PullType ==
  ASSUME TypeOK, NEW l \in Level, head[l] # None, lub_fifo_pull(l)
  PROVE  /\ head' \in [Level -> Task \cup {None}]
         /\ tail' \in [Level -> Task \cup {None}]
         /\ next' \in [Task -> Task \cup {None}]
BY DEF TypeOK, lub_fifo_pull

LEMMA TypeInit == Init => TypeOK
  <1> SUFFICES ASSUME Init PROVE TypeOK
    OBVIOUS
  <1>1. nest \in Seq(Task)
    BY DEF Init
  <1> QED
    BY <1>1, LevelIsNat, SchedulerAssumption DEF Init, TypeOK, Status

LEMMA TypeStep == TypeOK /\ [Next]_vars => TypeOK'
  <1> SUFFICES ASSUME TypeOK, [Next]_vars PROVE TypeOK'
    OBVIOUS
  <1>1. ASSUME NEW p \in Priority, lub_scheduler_register_task(p) PROVE TypeOK'
    <2>1. PICK t \in Task : /\ lub_scheduler_new_task(t, p, "queued")
                            /\ lub_fifo_push(Queue(p), t)
      BY <1>1 DEF lub_scheduler_register_task
    <2>2. pending' \in 0 .. UintSize - 1
      BY <1>1, CountType DEF lub_scheduler_register_task
    <2> QED
      BY <1>1, <2>1, <2>2, QueueIsLevel, PushType
      DEF lub_scheduler_register_task, lub_scheduler_new_task, TypeOK, Status
  <1>2. ASSUME NEW p \in Priority, lub_scheduler_async_register_task(p) PROVE TypeOK'
    <2>1. pending' \in 0 .. UintSize - 1
      BY <1>2, CountType DEF lub_scheduler_async_register_task
    <2> QED
      BY <1>2, <2>1, QueueIsLevel
      DEF lub_scheduler_async_register_task, lub_scheduler_new_task, TypeOK, Status
  <1>3. CASE RegisterFails
    <2>1. pending' \in 0 .. UintSize - 1
      BY <1>3, CountType DEF RegisterFails
    <2>2. excess' \in 0 .. UintSize - 1
      <3>1. UintSize \in Nat \ {0}
        BY SchedulerAssumption, FS_CardinalityType
      <3> QED
        BY <1>3, <3>1 DEF RegisterFails, TypeOK
    <2> QED
      BY <1>3, <2>1, <2>2 DEF RegisterFails, lists, TypeOK
  <1>4. ASSUME NEW t \in Task, lub_scheduler_async_schedule_task(t) PROVE TypeOK'
    <2>1. level[t] \in Level
      BY DEF TypeOK
    <2> QED
      BY <1>4, <2>1, PushType DEF lub_scheduler_async_schedule_task, TypeOK, Status
  <1>5. CASE RunStarts
    <2>1. PICK l \in Ready : /\ lub_fifo_pull(l)
                             /\ status' = [status EXCEPT ![head[l]] = "running"]
                             /\ nest' = Append(nest, head[l])
      BY <1>5 DEF RunStarts
    <2>3. l \in Level /\ head[l] # None
      BY DEF Ready, Searched
    <2>2. head[l] \in Task
      BY <2>3 DEF TypeOK
    <2>4. nest' \in Seq(Task)
      BY <2>1, <2>2, Appended DEF TypeOK
    <2>5. status' \in [Task -> Status]
      BY <2>1, <2>2 DEF TypeOK, Status
    <2>6. idle' \in BOOLEAN /\ UNCHANGED <<level, pending, excess>>
      BY <1>5 DEF RunStarts
    <2>7. /\ head' \in [Level -> Task \cup {None}]
          /\ tail' \in [Level -> Task \cup {None}]
          /\ next' \in [Task -> Task \cup {None}]
      BY <2>1, <2>3, PullType
    <2> QED
      BY <2>4, <2>5, <2>6, <2>7 DEF TypeOK
  <1>6. CASE RunFindsNone
    <2>1. idle' \in BOOLEAN /\ UNCHANGED <<head, tail, next, status, level, pending, excess, nest>>
      BY <1>6 DEF RunFindsNone, lists
    <2> QED
      BY <2>1 DEF TypeOK
  <1>7. CASE RunReturns
    <2>1. nest' \in Seq(Task) /\ Last(nest) \in Task
      BY <1>7, PopNest DEF RunReturns, TypeOK
    <2>2. UintSize - 1 \in Nat
      BY SchedulerAssumption, FS_CardinalityType
    <2>3. pending' \in 0 .. UintSize - 1
      BY <1>7, <2>2, CountType DEF RunReturns, CountDown
    <2>4. idle' \in BOOLEAN /\ UNCHANGED <<head, tail, next, excess>>
      BY <1>7 DEF RunReturns, lists
    <2>6. 0 \in Level /\ level' \in [Task -> Level]
      <3>1. 0 \in Level
        BY SchedulerAssumption DEF Level
      <3> QED
        BY <1>7, <2>1, <3>1 DEF RunReturns, TypeOK
    <2>5. status' \in [Task -> Status]
      BY <1>7, <2>1 DEF RunReturns, TypeOK, Status
    <2> QED
      BY <2>1, <2>3, <2>4, <2>5, <2>6 DEF TypeOK
  <1>8. CASE UNCHANGED vars
    BY <1>8 DEF vars, TypeOK
  <1> QED
    BY <1>1, <1>2, <1>3, <1>4, <1>5, <1>6, <1>7, <1>8 DEF Next

(* Every variable keeps its type: the level of a task is one of a queue there is,
   whatever priority a client asks for (lub_scheduler_async_register_task). *)
THEOREM TypeCorrect == Spec => []TypeOK
BY TypeInit, TypeStep, PTL DEF Spec

-----------------------------------------------------------------------------
(* The tasks being run.  NestedTasksDistinct is kept only because a task that   *)
(* starts comes off a list, and what is on a list is scheduled.  That a pull    *)
(* keeps it so takes the shape of the lists, stated of each link alone.         *)

(* The ends of each list are scheduled tasks of its level; the last has no link. *)
Ends ==
  \A l \in Level :
    /\ head[l] = None <=> tail[l] = None
    /\ head[l] # None => status[head[l]] = "queued" /\ level[head[l]] = l
    /\ tail[l] # None => /\ status[tail[l]] = "queued" /\ level[tail[l]] = l
                         /\ next[tail[l]] = None

(* A link joins two scheduled tasks of a level. *)
Links ==
  \A t \in Task :
    next[t] # None => /\ status[t] = "queued" /\ status[next[t]] = "queued"
                      /\ level[next[t]] = level[t]

(* No link leads to the first task of a list, nor do two to the same task. *)
OneWayIn ==
  \A t \in Task :
    next[t] # None => /\ \A l \in Level : head[l] # next[t]
                      /\ \A u \in Task : next[u] = next[t] => u = t

ListInv == Ends /\ Links /\ OneWayIn

Inv == TypeOK /\ ListInv /\ NestedTasksDistinct

(* A task that is not scheduled is put at the end of a list, and its block alone
   changes. *)
LEMMA PushLists ==
  ASSUME TypeOK, TypeOK', ListInv, NEW l \in Level, NEW t \in Task,
         status[t] # "queued", status'[t] = "queued", level'[t] = l,
         \A u \in Task \ {t} : status'[u] = status[u] /\ level'[u] = level[u],
         lub_fifo_push(l, t)
  PROVE  ListInv'
  <1>1. /\ tail' = [tail EXCEPT ![l] = t] /\ tail \in [Level -> Task \cup {None}]
        /\ head \in [Level -> Task \cup {None}] /\ next \in [Task -> Task \cup {None}]
        /\ None \notin Task
    BY SchedulerAssumption DEF lub_fifo_push, TypeOK
  <1>2. CASE head[l] = None
    <2>1. head' = [head EXCEPT ![l] = t] /\ next' = [next EXCEPT ![t] = None]
      BY <1>2 DEF lub_fifo_push
    <2>2. Ends'
      BY <1>1, <2>1 DEF ListInv, Ends, Links
    <2>3. Links'
      BY <1>1, <2>1 DEF ListInv, Links
    <2>4. OneWayIn'
      BY <1>1, <2>1 DEF ListInv, Links, OneWayIn
    <2> QED
      BY <2>2, <2>3, <2>4 DEF ListInv
  <1>3. CASE head[l] # None
    <2> DEFINE e == tail[l]
    <2>1. /\ e \in Task /\ e # t /\ status[e] = "queued" /\ level[e] = l
          /\ status'[e] = "queued" /\ level'[e] = l
      BY <1>1, <1>3 DEF ListInv, Ends
    <2>2. head' = head /\ next' = [next EXCEPT ![t] = None, ![e] = t]
      BY <1>3 DEF lub_fifo_push
    <2> HIDE DEF e
    <2>3. \A u \in Task : next'[u] = IF u = e THEN t ELSE IF u = t THEN None ELSE next[u]
      BY <1>1, <2>1, <2>2
    <2>4. \A u \in Task : next[u] # t
      BY <1>1 DEF ListInv, Links
    <2>5. \A m \in Level : head[m] # t
      BY <1>1 DEF ListInv, Ends
    <2>6. \A m \in Level \ {l} : tail[m] # e
      BY <2>1, <1>1 DEF ListInv, Ends
    <2>7. Ends'
      <3> SUFFICES ASSUME NEW m \in Level
                   PROVE  /\ head'[m] = None <=> tail'[m] = None
                          /\ head'[m] # None => status'[head'[m]] = "queued" /\ level'[head'[m]] = m
                          /\ tail'[m] # None => /\ status'[tail'[m]] = "queued" /\ level'[tail'[m]] = m
                                                /\ next'[tail'[m]] = None
        BY DEF Ends
      <3>1. CASE m = l
        BY <1>1, <1>3, <2>1, <2>2, <2>3, <2>5, <3>1 DEF ListInv, Ends
      <3>2. CASE m # l
        BY <1>1, <2>2, <2>3, <2>5, <2>6, <3>2 DEF ListInv, Ends
      <3> QED
        BY <3>1, <3>2
    <2>8. Links'
      BY <1>1, <2>1, <2>3, <2>4 DEF ListInv, Links
    <2>9. OneWayIn'
      BY <1>1, <2>1, <2>2, <2>3, <2>4, <2>5 DEF ListInv, OneWayIn
    <2> QED
      BY <2>7, <2>8, <2>9 DEF ListInv
  <1> QED
    BY <1>2, <1>3

(* The first task of a list leaves it, to be run. *)
LEMMA PullLists ==
  ASSUME TypeOK, TypeOK', ListInv, NEW l \in Level, head[l] # None,
         lub_fifo_pull(l), level' = level,
         status' = [status EXCEPT ![head[l]] = "running"]
  PROVE  ListInv'
  <1> DEFINE h == head[l]
             n == next[h]
  <1>1. /\ h \in Task /\ n \in Task \cup {None} /\ None \notin Task
        /\ status[h] = "queued" /\ level[h] = l
        /\ head \in [Level -> Task \cup {None}] /\ tail \in [Level -> Task \cup {None}]
        /\ next \in [Task -> Task \cup {None}] /\ status \in [Task -> Status]
    BY SchedulerAssumption DEF TypeOK, ListInv, Ends
  <1>2. /\ head' = [head EXCEPT ![l] = n]
        /\ next' = [next EXCEPT ![h] = None]
        /\ tail' = IF n = None THEN [tail EXCEPT ![l] = None] ELSE tail
        /\ status' = [status EXCEPT ![h] = "running"]
    BY DEF lub_fifo_pull
  <1>3. \A u \in Task : next[u] # h
    BY <1>1 DEF ListInv, OneWayIn
  <1>4. n # None => /\ n # h /\ status[n] = "queued" /\ level[n] = l
                    /\ \A m \in Level : head[m] # n
                    /\ \A u \in Task : next[u] = n => u = h
    BY <1>1, <1>3 DEF ListInv, Links, OneWayIn
  <1>5. n # None => tail[l] # h
    BY <1>1 DEF ListInv, Ends
  <1>6. \A m \in Level \ {l} : head[m] # h /\ tail[m] # h
    BY <1>1 DEF ListInv, Ends
  <1> HIDE DEF h, n
  <1>7. Ends'
    <2> SUFFICES ASSUME NEW m \in Level
                 PROVE  /\ head'[m] = None <=> tail'[m] = None
                        /\ head'[m] # None => status'[head'[m]] = "queued" /\ level'[head'[m]] = m
                        /\ tail'[m] # None => /\ status'[tail'[m]] = "queued" /\ level'[tail'[m]] = m
                                              /\ next'[tail'[m]] = None
      BY DEF Ends
    <2>1. CASE m # l
      BY <1>1, <1>2, <1>6, <2>1 DEF ListInv, Ends
    <2>2. CASE m = l /\ n = None
      BY <1>1, <1>2, <2>2
    <2>3. CASE m = l /\ n # None
      BY <1>1, <1>2, <1>4, <1>5, <2>3 DEF ListInv, Ends, h
    <2> QED
      BY <2>1, <2>2, <2>3
  <1>8. Links'
    BY <1>1, <1>2, <1>3 DEF ListInv, Links
  <1>9. OneWayIn'
    BY <1>1, <1>2, <1>4 DEF ListInv, OneWayIn
  <1> QED
    BY <1>7, <1>8, <1>9 DEF ListInv

(* The lists depend on the status of scheduled tasks alone. *)
LEMMA OtherLists ==
  ASSUME TypeOK, TypeOK', ListInv, NEW t \in Task, status[t] # "queued", status'[t] # "queued",
         \A u \in Task \ {t} : status'[u] = status[u] /\ level'[u] = level[u],
         head' = head, tail' = tail,
         next' = next \/ next' = [next EXCEPT ![t] = None]
  PROVE  ListInv'
  <1>1. /\ head \in [Level -> Task \cup {None}] /\ tail \in [Level -> Task \cup {None}]
        /\ next \in [Task -> Task \cup {None}] /\ None \notin Task
    BY SchedulerAssumption DEF TypeOK
  <1>2. next[t] = None
    BY DEF ListInv, Links
  <1>3. next' = next
    BY <1>1, <1>2
  <1>4. Ends'
    BY <1>1, <1>3 DEF ListInv, Ends
  <1>5. Links'
    BY <1>1, <1>3 DEF ListInv, Links
  <1>6. OneWayIn'
    BY <1>1, <1>3 DEF ListInv, OneWayIn
  <1> QED
    BY <1>4, <1>5, <1>6 DEF ListInv

LEMMA InvInit == Init => Inv
  <1> SUFFICES ASSUME Init PROVE Inv
    OBVIOUS
  <1>1. TypeOK
    BY TypeInit
  <1>2. ListInv
    BY DEF Init, ListInv, Ends, Links, OneWayIn
  <1>3. NestedTasksDistinct
    <2>1. DOMAIN nest = {} /\ Has("running") = {}
      BY DEF Init, Has
    <2> QED
      BY <2>1 DEF NestedTasksDistinct, IsInjective, ToSet
  <1> QED
    BY <1>1, <1>2, <1>3 DEF Inv

LEMMA InvStep == Inv /\ [Next]_vars => Inv'
  <1> SUFFICES ASSUME Inv, [Next]_vars PROVE Inv'
    OBVIOUS
  <1>0. TypeOK /\ TypeOK' /\ ListInv
    BY TypeStep DEF Inv
  <1>a. SUFFICES ListInv' /\ NestedTasksDistinct'
    BY <1>0 DEF Inv
  <1>b. nest' = nest /\ Has("running")' = Has("running") => NestedTasksDistinct'
    BY DEF Inv, NestedTasksDistinct
  <1>1. ASSUME NEW p \in Priority, lub_scheduler_register_task(p)
        PROVE  ListInv' /\ NestedTasksDistinct'
    <2>1. PICK t \in Task : /\ lub_scheduler_new_task(t, p, "queued")
                            /\ lub_fifo_push(Queue(p), t)
      BY <1>1 DEF lub_scheduler_register_task
    <2>2. /\ status[t] = "free"
          /\ status' = [status EXCEPT ![t] = "queued"] /\ level' = [level EXCEPT ![t] = Queue(p)]
      BY <2>1 DEF lub_scheduler_new_task, FreeBlock
    <2>3. ListInv'
      BY <1>0, <2>1, <2>2, QueueIsLevel, PushLists DEF TypeOK
    <2>4. nest' = nest /\ Has("running")' = Has("running")
      BY <1>0, <1>1, <2>2 DEF lub_scheduler_register_task, TypeOK, Has
    <2> QED
      BY <1>b, <2>3, <2>4
  <1>2. ASSUME NEW p \in Priority, lub_scheduler_async_register_task(p)
        PROVE  ListInv' /\ NestedTasksDistinct'
    <2>1. PICK t \in Task : /\ lub_scheduler_new_task(t, p, "registered")
                            /\ next' = [next EXCEPT ![t] = None]
      BY <1>2 DEF lub_scheduler_async_register_task
    <2>2. /\ status[t] = "free" /\ head' = head /\ tail' = tail
          /\ status' = [status EXCEPT ![t] = "registered"] /\ level' = [level EXCEPT ![t] = Queue(p)]
      BY <1>2, <2>1 DEF lub_scheduler_async_register_task, lub_scheduler_new_task, FreeBlock
    <2>3. ListInv'
      BY <1>0, <2>1, <2>2, OtherLists DEF TypeOK
    <2>4. nest' = nest /\ Has("running")' = Has("running")
      BY <1>0, <1>2, <2>2 DEF lub_scheduler_async_register_task, TypeOK, Has
    <2> QED
      BY <1>b, <2>3, <2>4
  <1>3. ASSUME NEW t \in Task, lub_scheduler_async_schedule_task(t)
        PROVE  ListInv' /\ NestedTasksDistinct'
    <2>1. /\ status[t] = "registered" /\ level[t] \in Level /\ lub_fifo_push(level[t], t)
          /\ status' = [status EXCEPT ![t] = "queued"] /\ level' = level
      BY <1>0, <1>3 DEF lub_scheduler_async_schedule_task, TypeOK
    <2>2. ListInv'
      BY <1>0, <2>1, PushLists DEF TypeOK
    <2>3. nest' = nest /\ Has("running")' = Has("running")
      BY <1>0, <1>3, <2>1 DEF lub_scheduler_async_schedule_task, TypeOK, Has
    <2> QED
      BY <1>b, <2>2, <2>3
  <1>4. CASE RunStarts
    <2>1. PICK l \in Ready : /\ lub_fifo_pull(l)
                             /\ status' = [status EXCEPT ![head[l]] = "running"]
                             /\ nest' = Append(nest, head[l])
                             /\ level' = level
      BY <1>4 DEF RunStarts
    <2>2. l \in Level /\ head[l] # None
      BY DEF Ready, Searched
    <2>3. ListInv'
      BY <1>0, <2>1, <2>2, PullLists
    <2>4. head[l] \in Task /\ status[head[l]] = "queued"
      BY <1>0, <2>2 DEF TypeOK, ListInv, Ends
    <2>5. head[l] \notin Has("running") /\ Has("running")' = Has("running") \cup {head[l]}
      BY <1>0, <2>1, <2>4 DEF TypeOK, Has
    <2>6. NestedTasksDistinct'
      <3>1. nest \in Seq(Task) /\ IsInjective(nest) /\ ToSet(nest) = Has("running")
        BY <1>0 DEF Inv, NestedTasksDistinct, TypeOK
      <3>2. /\ ToSet(nest') = ToSet(nest) \cup {head[l]}
            /\ head[l] \notin ToSet(nest) => IsInjective(nest')
        BY <2>1, <2>4, <3>1, Appended
      <3> QED
        BY <2>5, <3>1, <3>2 DEF NestedTasksDistinct
    <2> QED
      BY <2>3, <2>6
  <1>5. CASE RunReturns
    <2> DEFINE t == Last(nest)
    <2>1. /\ nest # <<>> /\ nest' = Front(nest) /\ status' = [status EXCEPT ![t] = "free"]
          /\ head' = head /\ tail' = tail /\ next' = next
          /\ level' = [level EXCEPT ![t] = 0]
      BY <1>5 DEF RunReturns, lists
    <2>2. t \in Task /\ status[t] = "running"
      BY <1>0, <2>1, PopNest DEF Inv, NestedTasksDistinct, TypeOK, Has
    <2>3. ListInv'
      <3> HIDE DEF t
      <3> QED BY <1>0, <2>1, <2>2, OtherLists DEF TypeOK
    <2>4. Has("running")' = Has("running") \ {t}
      BY <1>0, <2>1, <2>2 DEF TypeOK, Has
    <2>5. NestedTasksDistinct'
      BY <1>0, <2>1, <2>4, PopNest DEF Inv, NestedTasksDistinct, TypeOK
    <2> QED
      BY <2>3, <2>5
  <1>6. ASSUME UNCHANGED <<head, tail, next, status, level, nest>>
        PROVE  ListInv' /\ NestedTasksDistinct'
    <2>1. ListInv'
      BY <1>0, <1>6 DEF ListInv, Ends, Links, OneWayIn
    <2>2. Has("running")' = Has("running")
      BY <1>6 DEF Has
    <2> QED
      BY <1>6, <1>b, <2>1, <2>2
  <1>7. RegisterFails \/ RunFindsNone \/ UNCHANGED vars
          => UNCHANGED <<head, tail, next, status, level, nest>>
    BY DEF RegisterFails, RunFindsNone, vars, lists
  <1> QED
    BY <1>1, <1>2, <1>3, <1>4, <1>5, <1>6, <1>7 DEF Next

(* Whatever tasks register, schedule and run inside one another, no task runs twice
   at a time and the block of a task being run is not given to another
   (lub_scheduler_run_task). *)
THEOREM BlocksCorrect == Spec => []BlocksSound
  <1>1. Inv => BlocksSound
    BY DEF Inv, ListInv, Links, BlocksSound, NodeUnlinked
  <1> QED
    BY <1>1, InvInit, InvStep, PTL DEF Spec

-----------------------------------------------------------------------------
(* The counter.  It is an unsigned: what it counts, and what it has counted or    *)
(* held wrongly, are known up to the number of its values.                       *)

InUse == Task \ Has("free")

(* Sums of unsigned numbers. *)
LEMMA Wrap ==
  ASSUME NEW n \in Nat, NEW e \in Nat, n < UintSize, e < UintSize
  PROVE  /\ (n + e) % UintSize = IF n + e < UintSize THEN n + e ELSE n + e - UintSize
         /\ (n + e) % UintSize \in 0 .. UintSize - 1
  <1>1. UintSize \in Nat \ {0}
    BY SchedulerAssumption, FS_CardinalityType
  <1>2. CASE n + e < UintSize
    BY <1>1, <1>2
  <1>3. CASE n + e >= UintSize
    <2>1. PICK k \in Nat : k = n + e - UintSize
      BY <1>1, <1>3
    <2>2. k < UintSize /\ n + e = k + UintSize
      BY <1>1, <2>1
    <2>3. (k + UintSize) % UintSize = k
      BY <1>1, <2>1, <2>2
    <2> QED
      BY <1>1, <2>1, <2>2, <2>3
  <1> QED
    BY <1>1, <1>2, <1>3

(* The counter goes up and down with what it counts. *)
LEMMA Carry ==
  ASSUME NEW c \in 0 .. UintSize - 1
  PROVE  /\ (c + 1 + UintSize) % UintSize = IF c = UintSize - 1 THEN 0 ELSE c + 1
         /\ (c + (UintSize - 1) + UintSize) % UintSize = IF c = 0 THEN UintSize - 1 ELSE c - 1
         /\ (c + 1) % UintSize = IF c = UintSize - 1 THEN 0 ELSE c + 1
  <1>1. UintSize \in Nat \ {0}
    BY SchedulerAssumption, FS_CardinalityType
  <1>2. c + 1 + UintSize = (c + 1) + 1 * UintSize
    BY <1>1
  <1>3. CASE c = UintSize - 1
    BY <1>1, <1>3
  <1>4. CASE c # UintSize - 1
    BY <1>1, <1>4
  <1>5. (c + (UintSize - 1) + UintSize) % UintSize = IF c = 0 THEN UintSize - 1 ELSE c - 1
    <2>1. CASE c = 0
      BY <1>1, <2>1
    <2>2. CASE c # 0
      <3>1. c + (UintSize - 1) + UintSize = (c - 1) + 2 * UintSize
        BY <1>1
      <3> QED
        BY <1>1, <2>2, <3>1
    <2> QED
      BY <2>1, <2>2
  <1> QED
    BY <1>3, <1>4, <1>5

LEMMA InUseFits ==
  ASSUME NEW S \in SUBSET Task
  PROVE  IsFiniteSet(S) /\ Cardinality(S) \in Nat /\ Cardinality(S) < UintSize
  <1>1. Cardinality(Task) \in Nat
    BY SchedulerAssumption, FS_CardinalityType
  <1>2. IsFiniteSet(S) /\ Cardinality(S) \in Nat /\ Cardinality(S) <= Cardinality(Task)
    BY SchedulerAssumption, FS_Subset, FS_CardinalityType
  <1> QED
    BY <1>1, <1>2, SchedulerAssumption

(* A free block is taken and the counter goes up. *)
LEMMA CountUp ==
  ASSUME TypeOK, PendingExact, NEW t \in Task, t \notin InUse, InUse' = InUse \cup {t},
         Count(1), excess' = excess
  PROVE  PendingExact'
  <1> DEFINE n == Cardinality(InUse)
  <1>1. /\ n \in Nat /\ n < UintSize /\ n + 1 < UintSize
        /\ Cardinality(InUse') = n + 1
    <2>1. InUse \in SUBSET Task /\ InUse \cup {t} \in SUBSET Task
      BY DEF InUse
    <2>2. Cardinality(InUse \cup {t}) = n + 1
      BY <2>1, InUseFits, FS_AddElement
    <2> QED
      BY <2>1, <2>2, InUseFits
  <1>2. /\ UintSize \in Nat /\ excess \in Nat /\ excess < UintSize
        /\ pending \in 0 .. UintSize - 1
        /\ pending = (n + excess) % UintSize
        /\ pending' = (pending + 1 + UintSize) % UintSize
    BY SchedulerAssumption DEF TypeOK, PendingExact, InUse, Count
  <1> HIDE DEF n
  <1>3. pending' = ((n + 1) + excess) % UintSize
    <2>1. pending = IF n + excess < UintSize THEN n + excess ELSE n + excess - UintSize
      BY <1>1, <1>2, Wrap
    <2>2. ((n + 1) + excess) % UintSize
            = IF (n + 1) + excess < UintSize THEN (n + 1) + excess ELSE (n + 1) + excess - UintSize
      <3>1. n + 1 \in Nat
        BY <1>1
      <3> QED
        BY <1>1, <1>2, <3>1, Wrap
    <2>3. pending' = IF pending = UintSize - 1 THEN 0 ELSE pending + 1
      BY <1>2, Carry
    <2> QED
      BY <1>1, <1>2, <2>1, <2>2, <2>3
  <1> QED
    BY <1>1, <1>3 DEF PendingExact, InUse

(* A block is given back and the counter goes down. *)
LEMMA CountsDown ==
  ASSUME TypeOK, PendingExact, NEW t \in InUse, InUse' = InUse \ {t}, CountDown,
         excess' = excess
  PROVE  PendingExact'
  <1> DEFINE n == Cardinality(InUse)
  <1>1. /\ n \in Nat /\ n < UintSize /\ n - 1 \in Nat
        /\ Cardinality(InUse') = n - 1
    <2>1. InUse \in SUBSET Task /\ InUse \ {t} \in SUBSET Task
      BY DEF InUse
    <2>2. Cardinality(InUse \ {t}) = n - 1
      BY <2>1, InUseFits, FS_RemoveElement
    <2> QED
      BY <2>1, <2>2, InUseFits
  <1>2. /\ UintSize \in Nat /\ excess \in Nat /\ excess < UintSize
        /\ pending \in 0 .. UintSize - 1
        /\ pending = (n + excess) % UintSize
        /\ pending' = (pending + (UintSize - 1) + UintSize) % UintSize
    BY SchedulerAssumption DEF TypeOK, PendingExact, InUse, Count, CountDown
  <1> HIDE DEF n
  <1>3. pending' = ((n - 1) + excess) % UintSize
    <2>1. pending = IF n + excess < UintSize THEN n + excess ELSE n + excess - UintSize
      BY <1>1, <1>2, Wrap
    <2>2. ((n - 1) + excess) % UintSize
            = IF (n - 1) + excess < UintSize THEN (n - 1) + excess ELSE (n - 1) + excess - UintSize
      <3>1. n - 1 < UintSize
        BY <1>1, <1>2
      <3> QED
        BY <1>1, <1>2, <3>1, Wrap
    <2>3. pending' = IF pending = 0 THEN UintSize - 1 ELSE pending - 1
      BY <1>2, Carry
    <2> QED
      BY <1>1, <1>2, <2>1, <2>2, <2>3
  <1> QED
    BY <1>1, <1>3 DEF PendingExact, InUse

(* A registration is refused, and counted. *)
LEMMA CountsRefusal ==
  ASSUME TypeOK, PendingExact, RegisterFails PROVE PendingExact'
  <1> DEFINE n == Cardinality(InUse)
  <1>1. n \in Nat /\ n < UintSize
    BY InUseFits DEF InUse
  <1>2. /\ UintSize \in Nat /\ excess \in 0 .. UintSize - 1
        /\ pending \in 0 .. UintSize - 1
        /\ pending = (n + excess) % UintSize
        /\ pending' = (pending + 1 + UintSize) % UintSize
        /\ excess' = (excess + 1) % UintSize
        /\ Has("free")' = Has("free")
    BY SchedulerAssumption DEF TypeOK, PendingExact, InUse, Count, RegisterFails, Has
  <1> HIDE DEF n
  <1>3. pending' = (n + excess') % UintSize
    <2>1. excess' = IF excess = UintSize - 1 THEN 0 ELSE excess + 1
      BY <1>2, Carry
    <2>2. pending' = IF pending = UintSize - 1 THEN 0 ELSE pending + 1
      BY <1>2, Carry
    <2>3. pending = IF n + excess < UintSize THEN n + excess ELSE n + excess - UintSize
      BY <1>1, <1>2, Wrap
    <2>4. excess' \in Nat /\ excess' < UintSize
      BY <1>2, <2>1
    <2>5. (n + excess') % UintSize
            = IF n + excess' < UintSize THEN n + excess' ELSE n + excess' - UintSize
      BY <1>1, <2>4, Wrap
    <2> QED
      BY <1>1, <1>2, <2>1, <2>2, <2>3, <2>5
  <1> QED
    BY <1>2, <1>3 DEF PendingExact, InUse, n

LEMMA SameInUse ==
  ASSUME PendingExact, pending' = pending, excess' = excess, Has("free")' = Has("free")
  PROVE  PendingExact'
BY DEF PendingExact

PendingInv == Inv /\ PendingExact

LEMMA PendingInit == Init => PendingInv
  <1> SUFFICES ASSUME Init PROVE PendingExact
    BY InvInit DEF PendingInv
  <1>1. /\ pending = excess /\ Task \ Has("free") = {}
        /\ excess \in Nat /\ excess < UintSize /\ UintSize \in Nat
    BY SchedulerAssumption DEF Init, Has
  <1>2. Cardinality(Task \ Has("free")) = 0
    BY <1>1, FS_EmptySet
  <1>3. (0 + excess) % UintSize = excess
    BY <1>1
  <1> QED
    BY <1>1, <1>2, <1>3 DEF PendingExact

LEMMA PendingStep == PendingInv /\ [Next]_vars => PendingInv'
  <1> SUFFICES ASSUME PendingInv, [Next]_vars PROVE PendingExact'
    BY InvStep DEF PendingInv
  <1>0. PendingExact /\ TypeOK /\ NestedTasksDistinct /\ status \in [Task -> Status]
    BY DEF PendingInv, Inv, TypeOK
  <1>1. ASSUME NEW t \in Task, NEW p \in Priority, NEW s \in Status \ {"free"},
               lub_scheduler_new_task(t, p, s), Count(1), excess' = excess
        PROVE  PendingExact'
    <2>1. t \notin InUse /\ InUse' = InUse \cup {t}
      BY <1>0, <1>1 DEF lub_scheduler_new_task, FreeBlock, InUse, Has
    <2> QED
      BY <1>0, <1>1, <2>1, CountUp
  <1>2. ASSUME NEW p \in Priority,
               lub_scheduler_register_task(p) \/ lub_scheduler_async_register_task(p)
        PROVE  PendingExact'
    <2>1. "queued" \in Status \ {"free"} /\ "registered" \in Status \ {"free"}
      BY DEF Status
    <2> QED
      BY <1>1, <1>2, <2>1 DEF lub_scheduler_register_task, lub_scheduler_async_register_task
  <1>3. ASSUME NEW t \in Task, lub_scheduler_async_schedule_task(t) PROVE PendingExact'
    <2>1. pending' = pending /\ excess' = excess /\ Has("free")' = Has("free")
      BY <1>0, <1>3 DEF lub_scheduler_async_schedule_task, Has
    <2> QED
      BY <1>0, <2>1, SameInUse
  <1>4. CASE RunStarts
    <2>1. PICK l \in Ready : status' = [status EXCEPT ![head[l]] = "running"]
      BY <1>4 DEF RunStarts
    <2>2. head[l] \in Task /\ status[head[l]] = "queued"
      BY <1>0 DEF Ready, Searched, PendingInv, Inv, ListInv, Ends, TypeOK
    <2>3. pending' = pending /\ excess' = excess /\ Has("free")' = Has("free")
      BY <1>0, <1>4, <2>1, <2>2 DEF RunStarts, Has
    <2> QED
      BY <1>0, <2>3, SameInUse
  <1>5. CASE RunReturns
    <2> DEFINE t == Last(nest)
    <2>1. status' = [status EXCEPT ![t] = "free"] /\ nest # <<>> /\ CountDown /\ excess' = excess
      BY <1>5 DEF RunReturns
    <2>2. t \in Task /\ status[t] = "running"
      BY <1>0, <2>1, PopNest DEF NestedTasksDistinct, TypeOK, Has
    <2> HIDE DEF t
    <2>3. t \in InUse /\ InUse' = InUse \ {t}
      BY <1>0, <2>1, <2>2 DEF InUse, Has
    <2> QED
      BY <1>0, <2>1, <2>3, CountsDown
  <1>6. CASE RunFindsNone \/ UNCHANGED vars
    <2>1. pending' = pending /\ excess' = excess /\ Has("free")' = Has("free")
      BY <1>6 DEF RunFindsNone, vars, lists, Has
    <2> QED
      BY <1>0, <2>1, SameInUse
  <1>7. CASE RegisterFails
    BY <1>0, <1>7, CountsRefusal
  <1> QED
    BY <1>2, <1>3, <1>4, <1>5, <1>6, <1>7 DEF Next

(* Whatever malloc() left in the counter, however many registrations are refused and
   whatever tasks register, schedule and run from within each other, the counter is
   off by a number that only a refusal changes (lub_scheduler_is_pending). *)
THEOREM PendingCorrect == Spec => []PendingExact
  <1>1. Init => PendingInv
    BY PendingInit
  <1>2. PendingInv /\ [Next]_vars => PendingInv'
    BY PendingStep
  <1>3. PendingInv => PendingExact
    BY DEF PendingInv
  <1> QED
    BY <1>1, <1>2, <1>3, PTL DEF Spec

-----------------------------------------------------------------------------
(* The queues as sequences: what is read along the links, and what pushes and pulls do *)
(* to it.                                                                              *)


(* s reads the queue of a level from its head to its tail: the links between its tasks
   are those of the list, and no other task is scheduled at that level. *)
ListOf(l, s) ==
  /\ head[l] = IF s = <<>> THEN None ELSE s[1]
  /\ tail[l] = IF s = <<>> THEN None ELSE s[Len(s)]
  /\ \A i \in 1 .. Len(s) : next[s[i]] = IF i = Len(s) THEN None ELSE s[i + 1]
  /\ IsInjective(s)
  /\ \A t \in Task : status[t] = "queued" /\ level[t] = l <=> t \in ToSet(s)

QueueInv == \A l \in Level : Chain(l) \in Seq(Task) /\ ListOf(l, Chain(l))

(* It is read along the links. *)
ListsAreChains == \A l \in Level, s \in Seq(Task) : ListOf(l, s) => Chain(l) = s

LEMMA ChainOfList == ListsAreChains
  <1> SUFFICES ASSUME NEW l \in Level, NEW s \in Seq(Task), ListOf(l, s)
               PROVE  Chain(l) = s
    BY DEF ListsAreChains
  <1> DEFINE N == Cardinality(Task)
             after == [t \in Task \cup {None} |-> IF t = None THEN None ELSE next[t]]
             P(f) == IsWalk(f, N, head[l], after)
             c == CHOOSE f : P(f)
  <1>1. N \in Nat /\ Len(s) <= N
    BY InjectiveFits, SchedulerAssumption, FS_CardinalityType DEF ListOf
  <1>2. Joins(after, head[l], None, s) /\ None \notin Task
    <2>1. None \notin Task
      BY SchedulerAssumption
    <2>2. ASSUME NEW i \in 1 .. Len(s)
          PROVE  s[i] \in Task /\ s[i] # None /\ after[s[i]] = next[s[i]]
      <3>1. s[i] \in Task
        BY ElementsOf
      <3> QED
        BY <2>1, <3>1
    <2>3. after[None] = None
      OBVIOUS
    <2> HIDE DEF after
    <2> QED
      BY <2>1, <2>2, <2>3 DEF ListOf, Joins
  <1>3. Chain(l) = [i \in 1 .. Cardinality({n \in 0 .. N : c[n] # None}) |-> c[i - 1]]
    BY DEF Chain, IsWalk
  <1> HIDE DEF N, after
  <1>4. P(c)
    <2>1. \E f : P(f)
      BY <1>1, <1>2, WalkExists
    <2> HIDE DEF P
    <2> QED
      BY <2>1
  <1> HIDE DEF c
  <1> QED
    BY <1>1, <1>2, <1>3, <1>4, WalkReads

(* So a queue is a list as soon as some sequence reads it. *)
LEMMA QueueIsChain ==
  ASSUME NEW l \in Level, NEW s \in Seq(Task), ListOf(l, s)'
  PROVE  Chain(l)' = s /\ (Chain(l) \in Seq(Task) /\ ListOf(l, Chain(l)))'
  <1>1. ListsAreChains'
    BY ChainOfList, PTL
  <1>2. Chain(l)' = s
    BY <1>1 DEF ListsAreChains
  <1> QED
    BY <1>2

(* A task that is not scheduled is put at the end of a queue, and its block alone
   changes: the others keep theirs. *)
LEMMA PushQueues ==
  ASSUME TypeOK, TypeOK', QueueInv, NEW l \in Level, NEW t \in Task,
         status[t] # "queued", status'[t] = "queued", level'[t] = l,
         \A u \in Task \ {t} : status'[u] = status[u] /\ level'[u] = level[u],
         lub_fifo_push(l, t)
  PROVE  /\ QueueInv'
         /\ \A m \in Level : Chain(m)' = IF m = l THEN Append(Chain(l), t) ELSE Chain(m)
  <1>0. /\ tail' = [tail EXCEPT ![l] = t] /\ tail \in [Level -> Task \cup {None}]
        /\ head \in [Level -> Task \cup {None}] /\ next \in [Task -> Task \cup {None}]
        /\ None \notin Task
    BY SchedulerAssumption DEF lub_fifo_push, TypeOK
  <1>1. PICK s \in Seq(Task) : Chain(l) = s /\ ListOf(l, s)
    BY DEF QueueInv
  <1>2. t \notin ToSet(s)
    BY <1>1 DEF ListOf
  <1>3. /\ head' = [head EXCEPT ![l] = IF s = <<>> THEN t ELSE head[l]]
        /\ \A u \in Task : next'[u] = IF u = t THEN None
                                      ELSE IF s # <<>> /\ u = s[Len(s)] THEN t ELSE next[u]
    <2>1. CASE s = <<>>
      BY <1>0, <1>1, <2>1 DEF ListOf, lub_fifo_push
    <2>2. CASE s # <<>>
      <3>1. 1 \in 1 .. Len(s) /\ Len(s) \in 1 .. Len(s) /\ s[1] \in Task /\ s[Len(s)] \in Task
            /\ s[Len(s)] # t
        BY <1>2, <2>2, ElementsOf
      <3>2. head[l] = s[1] /\ tail[l] = s[Len(s)]
        BY <1>1, <2>2 DEF ListOf
      <3>3. next' = [next EXCEPT ![t] = None, ![s[Len(s)]] = t] /\ head' = head
        BY <1>0, <3>1, <3>2 DEF lub_fifo_push
      <3> QED
        BY <1>0, <2>2, <3>1, <3>3
    <2> QED
      BY <2>1, <2>2
  <1>4. ASSUME NEW m \in Level
        PROVE  \E q \in Seq(Task) : /\ q = IF m = l THEN Append(Chain(l), t) ELSE Chain(m)
                                    /\ ListOf(m, q)'
    <2>1. CASE m = l
      <3> DEFINE a == Append(s, t)
                 n == Len(s)
      <3>1. /\ a \in Seq(Task) /\ Len(a) = n + 1 /\ n \in Nat /\ ToSet(a) = ToSet(s) \cup {t}
            /\ \A i \in 1 .. n : a[i] = s[i] /\ s[i] \in Task /\ s[i] # t
            /\ a[n + 1] = t /\ a # <<>>
            /\ IsInjective(a)
        BY <1>1, <1>2, Appended, ElementsOf DEF ListOf
      <3>2. s = <<>> <=> n = 0
        BY ElementsOf
      <3>3. /\ head[l] = IF s = <<>> THEN None ELSE s[1]
            /\ \A i \in 1 .. n : next[s[i]] = IF i = n THEN None ELSE s[i + 1]
            /\ \A u \in Task : status[u] = "queued" /\ level[u] = l <=> u \in ToSet(s)
            /\ \A i, j \in 1 .. n : s[i] = s[j] => i = j
        BY <1>1, ElementsOf DEF ListOf, IsInjective
      <3> HIDE DEF a, n
      <3>4. head'[l] = a[1] /\ tail'[l] = a[n + 1]
        <4>1. CASE n = 0
          BY <1>0, <1>3, <3>1, <3>2, <4>1
        <4>2. CASE n # 0
          BY <1>0, <1>3, <3>1, <3>2, <3>3, <4>2
        <4> QED
          BY <4>1, <4>2
      <3>5. ASSUME NEW i \in 1 .. n + 1
            PROVE  next'[a[i]] = IF i = n + 1 THEN None ELSE a[i + 1]
        <4>1. CASE i = n + 1
          BY <1>3, <3>1, <4>1
        <4>2. CASE i = n /\ n # 0
          BY <1>3, <3>1, <3>2, <4>2 DEF n
        <4>3. CASE i \in 1 .. n /\ i # n
          <5>1. s[i] # s[n] /\ i + 1 \in 1 .. n /\ n \in 1 .. n
            BY <3>1, <3>3, <4>3
          <5>2. next'[s[i]] = next[s[i]]
            BY <1>3, <3>1, <4>3, <5>1 DEF n
          <5> QED
            BY <3>1, <3>3, <4>3, <5>1, <5>2
        <4> QED
          BY <3>1, <4>1, <4>2, <4>3
      <3>6. \A u \in Task : status'[u] = "queued" /\ level'[u] = l <=> u \in ToSet(a)
        BY <3>1, <3>3
      <3>7. ListOf(l, a)'
        BY SMTT(20), <3>1, <3>4, <3>5, <3>6 DEF ListOf
      <3> QED
        BY <1>1, <2>1, <3>1, <3>7 DEF a
    <2>2. CASE m # l
      <3>1. PICK q \in Seq(Task) : Chain(m) = q /\ ListOf(m, q)
        BY DEF QueueInv
      <3>2. \A i \in 1 .. Len(q) : q[i] \in Task /\ q[i] # t /\ level[q[i]] = m
        BY <3>1, ElementsOf DEF ListOf
      <3>3. s # <<>> => s[Len(s)] \in Task /\ level[s[Len(s)]] = l
        <4>1. s # <<>> => Len(s) \in 1 .. Len(s)
          BY ElementsOf
        <4> QED
          BY <1>1, <4>1, ElementsOf DEF ListOf
      <3>4. \A i \in 1 .. Len(q) : next'[q[i]] = next[q[i]]
        BY <1>3, <2>2, <3>2, <3>3
      <3>5. head'[m] = head[m] /\ tail'[m] = tail[m]
        BY <1>0, <1>3, <2>2
      <3>6. \A u \in Task : status'[u] = "queued" /\ level'[u] = m <=> u \in ToSet(q)
        BY <2>2, <3>1 DEF ListOf
      <3>7. ListOf(m, q)'
        BY <3>1, <3>4, <3>5, <3>6 DEF ListOf
      <3> QED
        BY <2>2, <3>1, <3>7
    <2> QED
      BY <2>1, <2>2
  <1>5. ASSUME NEW m \in Level
        PROVE  /\ Chain(m)' = IF m = l THEN Append(Chain(l), t) ELSE Chain(m)
               /\ (Chain(m) \in Seq(Task) /\ ListOf(m, Chain(m)))'
    <2>1. PICK q \in Seq(Task) : q = (IF m = l THEN Append(Chain(l), t) ELSE Chain(m))
                                 /\ ListOf(m, q)'
      BY <1>4
    <2> QED
      BY <2>1, QueueIsChain
  <1> QED
    BY <1>5 DEF QueueInv

(* The first task of a queue leaves it, to be run. *)
LEMMA PullQueues ==
  ASSUME TypeOK, TypeOK', QueueInv, NEW l \in Level, head[l] # None,
         lub_fifo_pull(l), level' = level,
         status' = [status EXCEPT ![head[l]] = "running"]
  PROVE  /\ QueueInv'
         /\ Chain(l) # <<>> /\ head[l] = Head(Chain(l))
         /\ \A m \in Level : Chain(m)' = IF m = l THEN Tail(Chain(l)) ELSE Chain(m)
  <1>0. /\ tail \in [Level -> Task \cup {None}]
        /\ head \in [Level -> Task \cup {None}] /\ next \in [Task -> Task \cup {None}]
        /\ status \in [Task -> Status] /\ None \notin Task
    BY SchedulerAssumption DEF TypeOK
  <1>1. PICK s \in Seq(Task) : Chain(l) = s /\ ListOf(l, s)
    BY DEF QueueInv
  <1> DEFINE n == Len(s)
             a == Tail(s)
  <1>2. /\ s # <<>> /\ n \in Nat \ {0} /\ s[1] = head[l] /\ s[1] = Head(s)
        /\ 1 \in 1 .. n /\ s[1] \in Task
    BY <1>1, ElementsOf DEF ListOf
  <1>3. /\ \A i \in 1 .. n : next[s[i]] = IF i = n THEN None ELSE s[i + 1]
        /\ \A u \in Task : status[u] = "queued" /\ level[u] = l <=> u \in ToSet(s)
        /\ \A i, j \in 1 .. n : s[i] = s[j] => i = j
        /\ \A i \in 1 .. n : s[i] \in Task /\ s[i] # None
        /\ tail[l] = s[n]
    BY <1>0, <1>1, <1>2, ElementsOf DEF ListOf, IsInjective
  <1>4. /\ a \in Seq(Task) /\ Len(a) = n - 1
        /\ \A i \in 1 .. n - 1 : a[i] = s[i + 1]
        /\ a = <<>> <=> n = 1
        /\ ToSet(a) = ToSet(s) \ {s[1]}
        /\ IsInjective(a)
    BY <1>1, <1>2, TailOf DEF ListOf
  <1> HIDE DEF a, n
  <1>5. next[s[1]] = IF n = 1 THEN None ELSE s[2]
    BY <1>2, <1>3
  <1>6. /\ head' = [head EXCEPT ![l] = IF n = 1 THEN None ELSE s[2]]
        /\ next' = [next EXCEPT ![s[1]] = None]
        /\ tail' = IF n = 1 THEN [tail EXCEPT ![l] = None] ELSE tail
        /\ status' = [status EXCEPT ![s[1]] = "running"]
    <2>1. n # 1 => s[2] # None
      BY <1>2, <1>3
    <2> QED
      BY <1>2, <1>5, <2>1 DEF lub_fifo_pull
  <1>7. ListOf(l, a)'
    <2>1. /\ head'[l] = IF a = <<>> THEN None ELSE a[1]
          /\ tail'[l] = IF a = <<>> THEN None ELSE a[Len(a)]
      <3>1. CASE n = 1
        BY <1>0, <1>4, <1>6, <3>1
      <3>2. CASE n # 1
        <4>1. 1 \in 1 .. n - 1 /\ n - 1 \in 1 .. n - 1 /\ (n - 1) + 1 = n
          BY <1>2, <3>2
        <4>2. a[1] = s[2] /\ a[n - 1] = s[n]
          BY <1>2, <1>4, <4>1
        <4> QED
          BY <1>0, <1>3, <1>4, <1>6, <3>2, <4>2
      <3> QED
        BY <3>1, <3>2
    <2>2. ASSUME NEW i \in 1 .. n - 1
          PROVE  next'[a[i]] = IF i = n - 1 THEN None ELSE a[i + 1]
      <3>1. a[i] = s[i + 1] /\ i + 1 \in 1 .. n /\ i + 1 # 1
        BY <1>2, <1>4
      <3>2. s[i + 1] \in Task /\ s[i + 1] # s[1]
        BY <1>2, <1>3, <3>1
      <3>3. next'[a[i]] = next[s[i + 1]]
        BY <1>0, <1>6, <3>1, <3>2
      <3>4. next[s[i + 1]] = IF i + 1 = n THEN None ELSE s[(i + 1) + 1]
        BY <1>3, <3>1
      <3>5. CASE i = n - 1
        BY <1>2, <3>3, <3>4, <3>5
      <3>6. CASE i # n - 1
        <4>1. i + 1 \in 1 .. n - 1 /\ i + 1 # n
          BY <1>2, <3>6
        <4> QED
          BY <1>4, <3>3, <3>4, <3>6, <4>1
      <3> QED
        BY <3>5, <3>6
    <2>4. \A u \in Task : status'[u] = "queued" /\ level'[u] = l <=> u \in ToSet(a)
      BY <1>0, <1>2, <1>3, <1>4, <1>6
    <2> QED
      BY <1>4, <2>1, <2>2, <2>4 DEF ListOf
  <1>9. ASSUME NEW m \in Level
        PROVE  \E q \in Seq(Task) : /\ q = IF m = l THEN Tail(Chain(l)) ELSE Chain(m)
                                    /\ ListOf(m, q)'
    <2>1. CASE m = l
      BY <1>1, <1>4, <1>7, <2>1 DEF a
    <2>2. CASE m # l
      <3>1. PICK q \in Seq(Task) : Chain(m) = q /\ ListOf(m, q)
        BY DEF QueueInv
      <3>2. s[1] \notin ToSet(q) /\ level[s[1]] = l
        BY <1>1, <1>2, <2>2, <3>1, ElementsOf DEF ListOf
      <3>3. \A i \in 1 .. Len(q) : q[i] \in Task /\ q[i] # s[1]
        BY <3>2, ElementsOf
      <3>4. \A i \in 1 .. Len(q) : next'[q[i]] = next[q[i]]
        BY <1>0, <1>6, <3>3
      <3>5. head'[m] = head[m] /\ tail'[m] = tail[m]
        BY <1>0, <1>6, <2>2
      <3>6. \A u \in Task : status'[u] = "queued" /\ level'[u] = m <=> u \in ToSet(q)
        BY <1>0, <1>2, <1>6, <2>2, <3>1, <3>2 DEF ListOf
      <3>7. ListOf(m, q)'
        BY <3>1, <3>4, <3>5, <3>6 DEF ListOf
      <3> QED
        BY <2>2, <3>1, <3>7
    <2> QED
      BY <2>1, <2>2
  <1>10. ASSUME NEW m \in Level
         PROVE  /\ Chain(m)' = IF m = l THEN Tail(Chain(l)) ELSE Chain(m)
                /\ (Chain(m) \in Seq(Task) /\ ListOf(m, Chain(m)))'
    <2>1. PICK q \in Seq(Task) : q = (IF m = l THEN Tail(Chain(l)) ELSE Chain(m))
                                 /\ ListOf(m, q)'
      BY <1>9
    <2> QED
      BY <2>1, QueueIsChain
  <1> QED
    BY <1>1, <1>2, <1>10 DEF QueueInv

(* The queues depend on the status of scheduled tasks alone. *)
LEMMA OtherQueues ==
  ASSUME TypeOK, TypeOK', ListInv, QueueInv, head' = head, tail' = tail,
         \A u \in Task : \/ status'[u] = status[u] /\ level'[u] = level[u] /\ next'[u] = next[u]
                         \/ status[u] # "queued" /\ status'[u] # "queued"
  PROVE  QueueInv' /\ \A m \in Level : Chain(m)' = Chain(m)
  <1>1. ASSUME NEW m \in Level
        PROVE  /\ Chain(m)' = Chain(m)
               /\ (Chain(m) \in Seq(Task) /\ ListOf(m, Chain(m)))'
    <2>1. PICK q \in Seq(Task) : Chain(m) = q /\ ListOf(m, q)
      BY DEF QueueInv
    <2>2. \A i \in 1 .. Len(q) : q[i] \in Task /\ status[q[i]] = "queued"
      BY <2>1, ElementsOf DEF ListOf
    <2>3. \A i \in 1 .. Len(q) : next'[q[i]] = next[q[i]]
      BY <2>2
    <2>4. \A u \in Task : status'[u] = "queued" /\ level'[u] = m <=> u \in ToSet(q)
      BY <2>1 DEF ListOf
    <2>5. ListOf(m, q)'
      BY <2>1, <2>3, <2>4 DEF ListOf
    <2> QED
      BY <2>1, <2>5, QueueIsChain
  <1> QED
    BY <1>1 DEF QueueInv

-----------------------------------------------------------------------------
(* The refinement of TaskScheduler. *)

FullInv == Inv /\ QueueInv

(* What the sequences say of the queues. *)
LEMMA ChainFacts ==
  ASSUME FullInv
  PROVE  /\ \A l \in Level : /\ Chain(l) \in Seq(Task)
                             /\ Chain(l) = <<>> <=> head[l] = None
         /\ \A t \in Task : status[t] = "queued" <=> \E l \in Level : t \in ToSet(Chain(l))
         /\ \A l \in Level : ToSet(Chain(l)) \subseteq Task
  <1>1. ASSUME NEW l \in Level
        PROVE  /\ Chain(l) \in Seq(Task) /\ (Chain(l) = <<>> <=> head[l] = None)
               /\ ToSet(Chain(l)) \subseteq Task
    <2>1. PICK s \in Seq(Task) : Chain(l) = s /\ ListOf(l, s)
      BY DEF FullInv, QueueInv
    <2>2. s # <<>> => s[1] \in Task
      BY ElementsOf
    <2> QED
      BY <2>1, <2>2, ElementsOf, SchedulerAssumption DEF ListOf
  <1>2. ASSUME NEW t \in Task
        PROVE  status[t] = "queued" <=> \E l \in Level : t \in ToSet(Chain(l))
    <2>1. level[t] \in Level
      BY DEF FullInv, Inv, TypeOK
    <2> QED
      BY <2>1 DEF FullInv, QueueInv, ListOf
  <1> QED
    BY <1>1, <1>2

LEMMA QueueInit == Init => FullInv
  <1> SUFFICES ASSUME Init PROVE QueueInv
    BY InvInit DEF FullInv
  <1>1. ASSUME NEW l \in Level PROVE Chain(l) \in Seq(Task) /\ ListOf(l, Chain(l))
    <2> DEFINE s == <<>>
    <2>1. s \in Seq(Task) /\ Len(s) = 0 /\ ToSet(s) = {} /\ DOMAIN s = {}
      BY DEF ToSet
    <2>2. ListOf(l, s)
      BY <2>1 DEF Init, ListOf, IsInjective
    <2> HIDE DEF s
    <2>3. Chain(l) = s
      BY <2>1, <2>2, ChainOfList DEF ListsAreChains
    <2> QED
      BY <2>1, <2>2, <2>3
  <1> QED
    BY <1>1 DEF QueueInv

(* The variables of the abstract specification. *)
Waiting == [t \in Has("registered") |-> level[t]]
Queues == [l \in Level |-> Chain(l)]

(* A block that is free is in no use the abstract specification knows. *)
LEMMA FreeIsUnused ==
  ASSUME FullInv, NEW t \in Task, status[t] = "free"
  PROVE  t \notin Abstract!InUse
  <1>1. t \notin DOMAIN Waiting
    BY DEF Waiting, Has
  <1>2. t \notin Abstract!Scheduled
    BY ChainFacts DEF Abstract!Scheduled, Abstract!ToSet, ToSet
  <1>3. t \notin ToSet(nest)
    BY DEF FullInv, Inv, NestedTasksDistinct, Has
  <1> QED
    BY <1>1, <1>2, <1>3 DEF Abstract!InUse, Abstract!ToSet, ToSet, Waiting

(* A scheduled task goes to the end of its queue. *)
LEMMA QueuesPushed ==
  ASSUME NEW l \in Level, NEW t \in Task,
         \A m \in Level : Chain(m)' = IF m = l THEN Append(Chain(l), t) ELSE Chain(m)
  PROVE  Queues' = [Queues EXCEPT ![l] = Append(@, t)]
BY DEF Queues

LEMMA RefinesInit == Init => Abstract!TInit
  <1> SUFFICES ASSUME Init PROVE Abstract!TInit
    OBVIOUS
  <1>1. Has("registered") = {}
    BY DEF Init, Has
  <1>2. Waiting = <<>>
    BY <1>1 DEF Waiting
  <1>3. Queues = [l \in Level |-> <<>>]
    <2>1. \A l \in Level : Chain(l) = <<>>
      BY QueueInit, ChainFacts DEF Init
    <2> QED
      BY <2>1 DEF Queues
  <1> QED
    BY <1>2, <1>3 DEF Init, Abstract!TInit, Waiting, Queues

LEMMA RefinesStep ==
  FullInv /\ [Next]_vars => FullInv' /\ [Abstract!TNext]_(Abstract!tvars)
  <1> SUFFICES ASSUME FullInv, [Next]_vars
               PROVE  QueueInv' /\ [Abstract!TNext]_(Abstract!tvars)
    BY InvStep DEF FullInv
  <1>0. TypeOK /\ TypeOK' /\ ListInv /\ QueueInv
    BY TypeStep DEF FullInv, Inv
  <1>1. ASSUME NEW p \in Priority, lub_scheduler_register_task(p)
        PROVE  QueueInv' /\ Abstract!TNext
    <2> DEFINE l == Queue(p)
    <2>1. PICK t \in Task : /\ lub_scheduler_new_task(t, p, "queued")
                            /\ lub_fifo_push(l, t)
      BY <1>1 DEF lub_scheduler_register_task
    <2>2. /\ status[t] = "free" /\ nest' = nest /\ l \in Level
          /\ status' = [status EXCEPT ![t] = "queued"] /\ level' = [level EXCEPT ![t] = l]
      BY <1>1, <2>1, QueueIsLevel
      DEF lub_scheduler_register_task, lub_scheduler_new_task, FreeBlock
    <2> HIDE DEF l
    <2>3. /\ QueueInv'
          /\ \A m \in Level : Chain(m)' = IF m = l THEN Append(Chain(l), t) ELSE Chain(m)
      BY <1>0, <2>1, <2>2, PushQueues DEF TypeOK
    <2>4. Waiting' = Waiting
      <3>1. Has("registered")' = Has("registered") /\ t \notin Has("registered")
        BY <1>0, <2>2 DEF TypeOK, Has
      <3>2. \A u \in Has("registered") : level'[u] = level[u]
        BY <1>0, <2>2, <3>1 DEF TypeOK, Has
      <3> QED
        BY <3>1, <3>2 DEF Waiting
    <2>5. Abstract!Register(t, l)
      BY <2>2, <2>3, <2>4, FreeIsUnused, QueuesPushed DEF Abstract!Register, Waiting, Queues
    <2> QED
      BY <2>2, <2>3, <2>5 DEF Abstract!TNext
  <1>2. ASSUME NEW p \in Priority, lub_scheduler_async_register_task(p)
        PROVE  QueueInv' /\ Abstract!TNext
    <2> DEFINE l == Queue(p)
    <2>1. PICK t \in Task : /\ lub_scheduler_new_task(t, p, "registered")
                            /\ next' = [next EXCEPT ![t] = None]
      BY <1>2 DEF lub_scheduler_async_register_task
    <2>2. /\ status[t] = "free" /\ nest' = nest /\ l \in Level /\ head' = head /\ tail' = tail
          /\ status' = [status EXCEPT ![t] = "registered"] /\ level' = [level EXCEPT ![t] = l]
      BY <1>2, <2>1, QueueIsLevel
      DEF lub_scheduler_async_register_task, lub_scheduler_new_task, FreeBlock
    <2> HIDE DEF l
    <2>3. QueueInv' /\ \A m \in Level : Chain(m)' = Chain(m)
      <3>1. \A u \in Task : \/ status'[u] = status[u] /\ level'[u] = level[u] /\ next'[u] = next[u]
                            \/ status[u] # "queued" /\ status'[u] # "queued"
        BY <1>0, <2>1, <2>2 DEF TypeOK
      <3> QED
        BY <1>0, <2>2, <3>1, OtherQueues
    <2>4. Waiting' = [u \in DOMAIN Waiting \cup {t} |-> IF u = t THEN l ELSE Waiting[u]]
      <3>1. Has("registered")' = Has("registered") \cup {t}
        BY <1>0, <2>2 DEF TypeOK, Has
      <3>2. \A u \in Has("registered") \cup {t} : level'[u] = IF u = t THEN l ELSE level[u]
        BY <1>0, <2>2 DEF TypeOK, Has
      <3> QED
        BY <3>1, <3>2 DEF Waiting
    <2>5. Queues' = Queues
      BY <2>3 DEF Queues
    <2>6. Abstract!AsyncRegister(t, l)
      BY <2>2, <2>4, <2>5, FreeIsUnused DEF Abstract!AsyncRegister, Waiting, Queues
    <2> QED
      BY <2>2, <2>3, <2>6 DEF Abstract!TNext
  <1>3. ASSUME NEW t \in Task, lub_scheduler_async_schedule_task(t)
        PROVE  QueueInv' /\ Abstract!TNext
    <2> DEFINE l == level[t]
    <2>1. /\ status[t] = "registered" /\ l \in Level /\ lub_fifo_push(l, t)
          /\ status' = [status EXCEPT ![t] = "queued"] /\ level' = level /\ nest' = nest
      BY <1>0, <1>3 DEF lub_scheduler_async_schedule_task, TypeOK
    <2>2. PICK k \in Level : k = l
      BY <2>1
    <2>3. /\ QueueInv'
          /\ \A m \in Level : Chain(m)' = IF m = k THEN Append(Chain(k), t) ELSE Chain(m)
      BY <1>0, <2>1, <2>2, PushQueues DEF TypeOK
    <2>4. t \in DOMAIN Waiting /\ Waiting[t] = k
      BY <2>1, <2>2 DEF Waiting, Has
    <2>5. Waiting' = [u \in DOMAIN Waiting \ {t} |-> Waiting[u]]
      <3>1. Has("registered")' = Has("registered") \ {t}
        BY <1>0, <2>1 DEF TypeOK, Has
      <3> QED
        BY <2>1, <3>1 DEF Waiting
    <2>6. Queues' = [Queues EXCEPT ![k] = Append(@, t)]
      BY <2>3, QueuesPushed
    <2>7. Abstract!AsyncSchedule(t)
      BY <2>1, <2>4, <2>5, <2>6 DEF Abstract!AsyncSchedule, Waiting, Queues
    <2> QED
      BY <2>3, <2>7 DEF Abstract!TNext
  <1>4. CASE RunStarts
    <2>1. PICK l \in Ready : /\ First(l)
                             /\ lub_fifo_pull(l)
                             /\ status' = [status EXCEPT ![head[l]] = "running"]
                             /\ nest' = Append(nest, head[l])
                             /\ level' = level
      BY <1>4 DEF RunStarts
    <2>2. l \in Level /\ head[l] # None
      BY DEF Ready, Searched
    <2>3. /\ QueueInv' /\ Chain(l) # <<>> /\ head[l] = Head(Chain(l))
          /\ \A m \in Level : Chain(m)' = IF m = l THEN Tail(Chain(l)) ELSE Chain(m)
      BY <1>0, <2>1, <2>2, PullQueues
    <2>4. \A m \in Level : m < l => Chain(m) = <<>>
      <3> SUFFICES ASSUME NEW m \in Level, m < l PROVE Chain(m) = <<>>
        OBVIOUS
      <3>1. m \in Searched
        BY LevelIsNat DEF Ready, Searched
      <3>2. m \notin Ready
        BY <2>1, LevelIsNat, <2>2 DEF First
      <3> QED
        BY <3>1, <3>2, ChainFacts DEF Ready
    <2>5. Waiting' = Waiting
      <3>1. status[head[l]] = "queued" /\ head[l] \in Task
        BY <1>0, <2>2 DEF ListInv, Ends, TypeOK
      <3>2. Has("registered")' = Has("registered")
        BY <1>0, <2>1, <3>1 DEF TypeOK, Has
      <3> QED
        BY <2>1, <3>2 DEF Waiting
    <2>6. Queues' = [Queues EXCEPT ![l] = Tail(@)]
      BY <2>3 DEF Queues
    <2>7. Queues[l] = Chain(l) /\ \A m \in Level : Queues[m] = Chain(m)
      BY <2>2 DEF Queues
    <2>8. Abstract!Run
      BY <2>1, <2>2, <2>3, <2>4, <2>5, <2>6, <2>7 DEF Abstract!Run, Waiting, Queues
    <2> QED
      BY <2>3, <2>8 DEF Abstract!TNext
  <1>5. CASE RunReturns
    <2> DEFINE t == Last(nest)
    <2>1. /\ nest # <<>> /\ nest' = Front(nest) /\ status' = [status EXCEPT ![t] = "free"]
          /\ head' = head /\ tail' = tail /\ next' = next
          /\ level' = [level EXCEPT ![t] = 0]
      BY <1>5 DEF RunReturns, lists
    <2>2. t \in Task /\ status[t] = "running"
      BY <1>0, <2>1, PopNest DEF FullInv, Inv, NestedTasksDistinct, TypeOK, Has
    <2>3. QueueInv' /\ \A m \in Level : Chain(m)' = Chain(m)
      <3>1. \A u \in Task : \/ status'[u] = status[u] /\ level'[u] = level[u] /\ next'[u] = next[u]
                            \/ status[u] # "queued" /\ status'[u] # "queued"
        BY <1>0, <2>1, <2>2 DEF TypeOK
      <3> QED
        BY <1>0, <2>1, <3>1, OtherQueues
    <2>4. Waiting' = Waiting
      <3>1. Has("registered")' = Has("registered") /\ t \notin Has("registered")
        BY <1>0, <2>1, <2>2 DEF TypeOK, Has
      <3>2. \A u \in Has("registered") : level'[u] = level[u]
        BY <1>0, <2>1, <2>2, <3>1 DEF TypeOK, Has
      <3> QED
        BY <3>1, <3>2 DEF Waiting
    <2>5. Queues' = Queues
      BY <2>3 DEF Queues
    <2>6. Abstract!Return
      BY <2>1, <2>4, <2>5 DEF Abstract!Return, Waiting, Queues, Front, Abstract!Front
    <2> QED
      BY <2>3, <2>6 DEF Abstract!TNext
  <1>6. ASSUME UNCHANGED <<head, tail, next, status, level, nest>>
        PROVE  QueueInv' /\ UNCHANGED Abstract!tvars
    <2>1. QueueInv' /\ \A m \in Level : Chain(m)' = Chain(m)
      BY <1>0, <1>6, OtherQueues
    <2>2. Queues' = Queues
      BY <2>1 DEF Queues
    <2>3. Has("registered")' = Has("registered")
      BY <1>6 DEF Has
    <2>4. Waiting' = Waiting
      BY <1>6, <2>3 DEF Waiting
    <2> QED
      BY <1>6, <2>1, <2>2, <2>4 DEF Abstract!tvars, Waiting, Queues
  <1>7. RegisterFails \/ RunFindsNone \/ UNCHANGED vars
          => UNCHANGED <<head, tail, next, status, level, nest>>
    BY DEF RegisterFails, RunFindsNone, vars, lists
  <1> QED
    BY <1>1, <1>2, <1>3, <1>4, <1>5, <1>6, <1>7 DEF Next

(* Whatever tasks register, schedule and run inside one another, the linked lists are
   the queues the promise speaks of: tasks are run the lowest level first and, within
   one, in the order in which they were scheduled, each once (lub_scheduler_run_task,
   lub_scheduler_fifo_get_task, lub_fifo_push and lub_fifo_pull). *)
THEOREM Implements == Spec => ImplementsTaskScheduler
  <1>1. Init => Abstract!TInit
    BY RefinesInit
  <1>2. FullInv /\ [Next]_vars => FullInv' /\ [Abstract!TNext]_(Abstract!tvars)
    BY RefinesStep
  <1> QED
    BY <1>1, <1>2, QueueInit, PTL DEF Spec, ImplementsTaskScheduler, Abstract!TSpec

LEMMA QueuesListed == FullInv => QueuesAreLists
  <1> SUFFICES ASSUME FullInv PROVE QueuesAreLists
    OBVIOUS
  <1>1. ASSUME NEW l \in Level
        PROVE  LET c == Chain(l) IN
               /\ c = <<>> <=> tail[l] = None
               /\ c # <<>> => tail[l] = Last(c) /\ next[Last(c)] = None
               /\ IsInjective(c)
               /\ \A t \in ToSet(c) : level[t] = l
    <2>1. PICK s \in Seq(Task) : Chain(l) = s /\ ListOf(l, s)
      BY DEF FullInv, QueueInv
    <2>2. s # <<>> => Len(s) \in 1 .. Len(s) /\ s[Len(s)] \in Task /\ Last(s) = s[Len(s)]
      BY ElementsOf DEF Last
    <2> QED
      BY <2>1, <2>2, ElementsOf, SchedulerAssumption DEF ListOf
  <1>2. UNION {ToSet(Chain(l)) : l \in Level} = Has("queued")
    BY ChainFacts DEF Has
  <1> QED
    BY <1>1, <1>2 DEF QueuesAreLists

(* The queues are lists that end at their tails, and a task is on one exactly while it
   is scheduled, at its own level and once (lub_fifo_push and lub_fifo_pull). *)
THEOREM ListsCorrect == Spec => []QueuesAreLists
BY QueueInit, RefinesStep, QueuesListed, PTL DEF Spec
-----------------------------------------------------------------------------
(* The scheduler with its pool. *)

(* SchedulerPool is put together from the steps of Scheduler, so that what is inductive
   there is inductive here. *)
LEMMA PoolStep == [PNext]_allvars => [Next]_vars
  <1> SUFFICES ASSUME [PNext]_allvars PROVE Next \/ UNCHANGED vars
    OBVIOUS
  <1>1. CASE Register
    BY <1>1 DEF Register, Next
  <1>2. CASE RegisterRefused
    BY <1>2 DEF RegisterRefused, Next
  <1>3. CASE DeleteTask
    BY <1>3 DEF DeleteTask, Next
  <1>4. CASE Same
    BY <1>4 DEF Same, Next
  <1>5. CASE lub_scheduler_delete
    BY <1>5 DEF lub_scheduler_delete
  <1>6. CASE UNCHANGED allvars
    BY <1>6 DEF allvars
  <1> QED
    BY <1>1, <1>2, <1>3, <1>4, <1>5, <1>6 DEF PNext

(* With its pool, too, no task runs twice at a time, the block of a task being run is
   not given to another, and none is given back while it is on a list. *)
THEOREM BlocksCorrectInPool == PSpec => []BlocksSound
  <1>1. PInit => Inv
    BY InvInit DEF PInit
  <1>2. Inv /\ [PNext]_allvars => Inv'
    BY InvStep, PoolStep
  <1>3. Inv => BlocksSound
    BY DEF Inv, ListInv, Links, BlocksSound, NodeUnlinked
  <1> QED
    BY <1>1, <1>2, <1>3, PTL DEF PSpec

(* With its pool, too, the counter is off only by what it started with and by the
   registrations that were refused (lub_scheduler_is_pending). *)
THEOREM PendingCorrectInPool == PSpec => []PendingExact
  <1>1. PInit => PendingInv
    BY PendingInit DEF PInit
  <1>2. PendingInv /\ [PNext]_allvars => PendingInv'
    BY PendingStep, PoolStep
  <1>3. PendingInv => PendingExact
    BY DEF PendingInv
  <1> QED
    BY <1>1, <1>2, <1>3, PTL DEF PSpec

(* With its pool, too, the queues are lists that hold each scheduled task once. *)
THEOREM ListsCorrectInPool == PSpec => []QueuesAreLists
  <1>1. PInit => FullInv
    BY QueueInit DEF PInit
  <1>2. FullInv /\ [PNext]_allvars => FullInv'
    BY RefinesStep, PoolStep
  <1> QED
    BY <1>1, <1>2, QueuesListed, PTL DEF PSpec

(* With its pool, too, the scheduler runs tasks the lowest level first and in the order
   they were scheduled, as lub/scheduler.h promises. *)
THEOREM ImplementsInPool == PSpec => ImplementsTaskScheduler
  <1>1. PInit => FullInv /\ Abstract!TInit
    BY QueueInit, RefinesInit DEF PInit
  <1>2. FullInv /\ [PNext]_allvars => FullInv' /\ [Abstract!TNext]_(Abstract!tvars)
    BY RefinesStep, PoolStep
  <1> QED
    BY <1>1, <1>2, PTL DEF PSpec, ImplementsTaskScheduler, Abstract!TSpec

-----------------------------------------------------------------------------
(* The blocks of a chunk. *)

BlocksOf(c) == {b \in Task : b[1] = c}

LEMMA TaskIsBlock ==
  /\ Pool!Block = Task
  /\ ChunkSize \in Nat \ {0}
  /\ \A b \in Task : b[1] \in Chunk /\ b[2] \in 1 .. ChunkSize /\ b = <<b[1], b[2]>>
  /\ \A c \in Chunk, i \in 1 .. ChunkSize : <<c, i>> \in Task /\ <<c, i>>[1] = c /\ <<c, i>>[2] = i
  /\ None \notin Task
BY SchedulerPoolAssumption, SchedulerAssumption DEF Pool!Block

LEMMA ChunkHolds ==
  ASSUME NEW c \in Chunk
  PROVE  IsFiniteSet(BlocksOf(c)) /\ Cardinality(BlocksOf(c)) = ChunkSize
  <1> DEFINE B == BlocksOf(c)
             f == [i \in 1 .. ChunkSize |-> <<c, i>>]
  <1>1. f \in Injection(1 .. ChunkSize, B) /\ f \in Surjection(1 .. ChunkSize, B)
    BY TaskIsBlock DEF Injection, Surjection, IsInjective, BlocksOf
  <1>2. IsFiniteSet(1 .. ChunkSize) /\ Cardinality(1 .. ChunkSize) = ChunkSize
    <2>1. /\ IsFiniteSet(1 .. ChunkSize)
          /\ Cardinality(1 .. ChunkSize) = IF 1 > ChunkSize THEN 0 ELSE ChunkSize - 1 + 1
      BY TaskIsBlock, FS_Interval, 1 \in Int, ChunkSize \in Int
    <2> QED
      BY <2>1, TaskIsBlock
  <1> HIDE DEF f
  <1>3. IsFiniteSet(B) /\ Cardinality(B) = Cardinality(1 .. ChunkSize)
    BY <1>1, <1>2, FS_Surjection
  <1> QED
    BY <1>2, <1>3

(* A sequence of its blocks, none twice, has as many as there are, or leaves some out. *)
LEMMA ChunkFills ==
  ASSUME NEW c \in Chunk, NEW s \in Seq(Task), IsInjective(s), ToSet(s) \subseteq BlocksOf(c)
  PROVE  /\ Len(s) <= ChunkSize
         /\ Len(s) # ChunkSize => \E b \in BlocksOf(c) : b \notin ToSet(s)
         /\ Len(s) = ChunkSize - 1 =>
              \A b, d \in BlocksOf(c) : b \notin ToSet(s) /\ d \notin ToSet(s) => b = d
  <1> DEFINE B == BlocksOf(c)
  <1>1. IsFiniteSet(B) /\ Cardinality(B) = ChunkSize /\ ChunkSize \in Nat
    BY ChunkHolds, TaskIsBlock
  <1>2. s \in Seq(B)
    BY ElementsOf, SeqDef
  <1> HIDE DEF B
  <1>3. Cardinality(ToSet(s)) = Len(s) /\ Len(s) <= ChunkSize
    BY <1>1, <1>2, InjectiveFits
  <1>4. Len(s) # ChunkSize => \E b \in B : b \notin ToSet(s)
    <2>1. (\A b \in B : b \in ToSet(s)) => ToSet(s) = B
      BY DEF B
    <2> QED
      BY <1>1, <1>3, <2>1
  <1>5. ASSUME Len(s) = ChunkSize - 1, NEW b \in B, NEW d \in B,
               b \notin ToSet(s), d \notin ToSet(s), b # d
        PROVE  FALSE
    <2> DEFINE p == Append(s, b)
               q == Append(p, d)
    <2>1. p \in Seq(B) /\ Len(p) = ChunkSize /\ ToSet(p) = ToSet(s) \cup {b} /\ IsInjective(p)
      BY <1>1, <1>2, <1>5, Appended
    <2> HIDE DEF p
    <2>2. q \in Seq(B) /\ Len(q) = ChunkSize + 1 /\ IsInjective(q)
      BY <1>5, <2>1, Appended
    <2> HIDE DEF q
    <2>3. Len(q) <= ChunkSize
      BY <1>1, <2>2, InjectiveFits
    <2> QED
      BY <1>1, <2>2, <2>3
  <1> QED
    BY <1>3, <1>4, <1>5 DEF B

-----------------------------------------------------------------------------
(* s reads the free blocks of a chunk from the first to the last: the links between them
   are those of its pool, and they are the blocks of the chunk that have no user. *)
FreeOf(c, s) ==
  /\ m_head[c] = IF s = <<>> THEN None ELSE s[1]
  /\ m_tail[c] = IF s = <<>> THEN None ELSE s[Len(s)]
  /\ \A i \in 1 .. Len(s) : m_next[s[i]] = IF i = Len(s) THEN None ELSE s[i + 1]
  /\ IsInjective(s)
  /\ \A b \in Task : b \in ToSet(s) <=> b[1] = c /\ status[b] = "free"
  /\ Len(s) + count[c] = ChunkSize

PoolType ==
  /\ chunks \in Seq(Chunk)
  /\ count \in [Chunk -> Nat]
  /\ m_head \in [Chunk -> Task \cup {None}]
  /\ m_tail \in [Chunk -> Task \cup {None}]
  /\ m_next \in [Task -> Task \cup {None}]

PoolInv ==
  /\ PoolType
  /\ IsInjective(chunks)
  /\ \A b \in Task : status[b] # "free" => b[1] \in ToSet(chunks)
  /\ \A c \in ToSet(chunks) : count[c] # 0 /\ \E s \in Seq(Task) : FreeOf(c, s)

LEMMA FreeFits ==
  ASSUME NEW c \in Chunk, NEW s \in Seq(Task), FreeOf(c, s)
  PROVE  ToSet(s) \subseteq BlocksOf(c) /\ Len(s) <= ChunkSize
  <1>1. ToSet(s) \subseteq BlocksOf(c)
    BY ElementsOf DEF FreeOf, BlocksOf
  <1> QED
    BY <1>1, ChunkFills DEF FreeOf

LEMMA CardinalityIs == \A S : Pool!Cardinality(S) = Cardinality(S)
BY DEF Pool!Cardinality, Cardinality

(* What is read along the links. *)
LEMMA FreeListIs ==
  ASSUME NEW c \in Chunk, NEW s \in Seq(Task), FreeOf(c, s)
  PROVE  Pool!FreeList(c) = s
  <1> DEFINE after == [b \in Pool!Block \cup {None} |-> IF b = None THEN None ELSE m_next[b]]
             P(f) == IsWalk(f, ChunkSize, m_head[c], after)
             w == CHOOSE f : P(f)
  <1>1. ChunkSize \in Nat /\ Len(s) <= ChunkSize
    BY FreeFits, TaskIsBlock
  <1>2. Joins(after, m_head[c], None, s) /\ None \notin Task
    BY ElementsOf, TaskIsBlock DEF FreeOf, Joins
  <1>3. Pool!FreeList(c)
          = [i \in 1 .. Cardinality({n \in 0 .. ChunkSize : w[n] # None}) |-> w[i - 1]]
    BY CardinalityIs DEF Pool!FreeList, IsWalk
  <1> HIDE DEF after
  <1>4. P(w)
    <2>1. \E f : P(f)
      BY <1>1, <1>2, WalkExists
    <2> HIDE DEF P
    <2> QED
      BY <2>1
  <1> HIDE DEF w
  <1> QED
    BY <1>1, <1>2, <1>3, <1>4, WalkReads

LEMMA PoolInvSound == PoolInv => Pool!Sound(Task \ Has("free"))
  <1> SUFFICES ASSUME PoolInv PROVE Pool!Sound(Task \ Has("free"))
    OBVIOUS
  <1> DEFINE used == Task \ Has("free")
  <1>1. \A b \in Task : b \in used <=> status[b] # "free"
    BY DEF Has
  <1> HIDE DEF used
  <1>2. Pool!IsInjective(chunks) /\ Pool!ToSet(chunks) = ToSet(chunks)
    BY DEF PoolInv, Pool!IsInjective, IsInjective, Pool!ToSet, ToSet
  <1>3. \A b \in used : b[1] \in ToSet(chunks)
    BY <1>1 DEF PoolInv, used
  <1>4. ASSUME NEW c \in ToSet(chunks)
        PROVE  LET mine == {b \in used : b[1] = c}
                   free == Pool!FreeList(c)
               IN  /\ Pool!IsInjective(free) /\ Len(free) <= ChunkSize
                   /\ Pool!ToSet(free) = {b \in Pool!Block : b[1] = c} \ mine
                   /\ m_tail[c] = IF free = <<>> THEN None ELSE Pool!Last(free)
                   /\ Len(free) + count[c] = ChunkSize
                   /\ mine # {}
    <2>1. c \in Chunk /\ count[c] \in Nat \ {0}
      BY ElementsOf DEF PoolInv, PoolType
    <2>2. PICK s \in Seq(Task) : FreeOf(c, s)
      BY DEF PoolInv
    <2>3. Pool!FreeList(c) = s /\ ToSet(s) \subseteq BlocksOf(c) /\ Len(s) <= ChunkSize
      BY <2>1, <2>2, FreeListIs, FreeFits
    <2>4. Pool!IsInjective(s) /\ Pool!ToSet(s) = ToSet(s) /\ Pool!Last(s) = s[Len(s)]
      BY <2>2 DEF FreeOf, Pool!IsInjective, IsInjective, Pool!ToSet, ToSet, Pool!Last
    <2>5. ToSet(s) = {b \in Task : b[1] = c} \ {b \in used : b[1] = c}
      BY <1>1, <2>2, <2>3 DEF FreeOf, BlocksOf
    <2>6. {b \in used : b[1] = c} # {}
      <3>1. Len(s) # ChunkSize
        BY <2>1, <2>2, ElementsOf, TaskIsBlock DEF FreeOf
      <3>2. PICK b \in BlocksOf(c) : b \notin ToSet(s)
        BY <2>1, <2>2, <2>3, <3>1, ChunkFills DEF FreeOf
      <3> QED
        BY <1>1, <2>2, <3>2 DEF FreeOf, BlocksOf
    <2> QED
      BY <2>2, <2>3, <2>4, <2>5, <2>6, TaskIsBlock DEF FreeOf
  <1> QED
    BY <1>2, <1>3, <1>4 DEF Pool!Sound, used

(* The blocks whose use does not change keep their lists: of a chunk that is served
   by the step, the others. *)
LEMMA OtherChunk ==
  ASSUME PoolType, NEW d \in Chunk, NEW s \in Seq(Task), FreeOf(d, s),
         m_head'[d] = m_head[d], m_tail'[d] = m_tail[d], count'[d] = count[d],
         \A b \in Task : b[1] = d => /\ m_next'[b] = m_next[b]
                                     /\ status'[b] = "free" <=> status[b] = "free"
  PROVE  FreeOf(d, s)'
  <1>1. \A i \in 1 .. Len(s) : m_next'[s[i]] = m_next[s[i]]
    BY FreeFits, ElementsOf DEF BlocksOf
  <1>2. \A b \in Task : b \in ToSet(s) <=> b[1] = d /\ status'[b] = "free"
    BY DEF FreeOf
  <1> QED
    BY <1>1, <1>2 DEF FreeOf

(* A block is had from a chunk that has one: the first of its list. *)
LEMMA AllocFromChunkKeeps ==
  ASSUME PoolInv, NEW t \in Task, status[t] = "free", status'[t] # "free",
         \A u \in Task \ {t} : status'[u] = "free" <=> status[u] = "free",
         Pool!AllocFromChunk(t)
  PROVE  PoolInv'
  <1>0. /\ PoolType /\ IsInjective(chunks) /\ None \notin Task
        /\ count \in [Chunk -> Nat]
        /\ m_head \in [Chunk -> Task \cup {None}] /\ m_tail \in [Chunk -> Task \cup {None}]
        /\ m_next \in [Task -> Task \cup {None}]
    BY TaskIsBlock DEF PoolInv, PoolType
  <1>1. PICK n \in DOMAIN chunks :
          /\ m_head[chunks[n]] # None /\ t = m_head[chunks[n]]
          /\ Pool!Becomes(chunks[n], Pool!lub_blockpool_alloc(Pool!PoolOf(chunks[n])))
          /\ count' = [count EXCEPT ![chunks[n]] = @ + 1]
          /\ chunks' = chunks
    BY DEF Pool!AllocFromChunk, Pool!Serving
  <1>2. PICK c \in Chunk : c = chunks[n] /\ c \in ToSet(chunks)
    BY <1>0, ElementsOf DEF PoolType
  <1>3. PICK s \in Seq(Task) : FreeOf(c, s)
    BY <1>2 DEF PoolInv
  <1> DEFINE k == Len(s)
             a == Tail(s)
  <1>4. /\ s # <<>> /\ k \in Nat \ {0} /\ s[1] = t /\ 1 \in 1 .. k /\ k \in 1 .. k
        /\ m_tail[c] = s[k] /\ k + count[c] = ChunkSize
        /\ \A i \in 1 .. k : m_next[s[i]] = IF i = k THEN None ELSE s[i + 1]
        /\ \A i, j \in 1 .. k : s[i] = s[j] => i = j
        /\ \A i \in 1 .. k : s[i] \in Task
        /\ \A b \in Task : b \in ToSet(s) <=> b[1] = c /\ status[b] = "free"
        /\ t[1] = c
    <2>1. s # <<>>
      BY <1>1, <1>2, <1>3 DEF FreeOf
    <2>2. k \in Nat \ {0} /\ t \in ToSet(s) /\ s[1] = t
      BY <1>1, <1>2, <1>3, <2>1, ElementsOf DEF FreeOf
    <2> QED
      BY <1>3, <2>1, <2>2, ElementsOf DEF FreeOf, IsInjective
  <1>5. /\ a \in Seq(Task) /\ Len(a) = k - 1
        /\ \A i \in 1 .. k - 1 : a[i] = s[i + 1]
        /\ a = <<>> <=> k = 1
        /\ ToSet(a) = ToSet(s) \ {t}
        /\ IsInjective(a)
    BY <1>3, <1>4, TailOf DEF FreeOf
  <1> HIDE DEF a, k
  <1>6. /\ m_head' = [m_head EXCEPT ![c] = IF k = 1 THEN None ELSE s[2]]
        /\ m_tail' = [m_tail EXCEPT ![c] = IF k = 1 THEN None ELSE s[k]]
        /\ m_next' = [m_next EXCEPT ![t] = None]
        /\ count' = [count EXCEPT ![c] = @ + 1]
    <2>1. m_head[c] = m_tail[c] <=> k = 1
      BY <1>1, <1>2, <1>4
    <2>2. k # 1 => m_next[t] = s[2]
      BY <1>4
    <2> QED
      BY <1>1, <1>2, <1>4, <2>1, <2>2
      DEF Pool!Becomes, Pool!lub_blockpool_alloc, Pool!PoolOf, Pool!Lists
  <1>7. PoolType'
    <2>1. k # 1 => s[2] \in Task
      BY <1>4
    <2>2. s[k] \in Task /\ count[c] + 1 \in Nat
      BY <1>0, <1>4
    <2> QED
      BY <1>0, <1>1, <1>6, <2>1, <2>2 DEF PoolType
  <1>8. FreeOf(c, a)'
    <2>1. /\ m_head'[c] = IF a = <<>> THEN None ELSE a[1]
          /\ m_tail'[c] = IF a = <<>> THEN None ELSE a[Len(a)]
      <3>1. CASE k = 1
        BY <1>0, <1>5, <1>6, <3>1
      <3>2. CASE k # 1
        <4>1. 1 \in 1 .. k - 1 /\ k - 1 \in 1 .. k - 1 /\ (k - 1) + 1 = k
          BY <1>4, <3>2
        <4>2. a[1] = s[2] /\ a[k - 1] = s[k]
          BY <1>5, <4>1
        <4> QED
          BY <1>0, <1>5, <1>6, <3>2, <4>2
      <3> QED
        BY <3>1, <3>2
    <2>2. ASSUME NEW i \in 1 .. k - 1
          PROVE  m_next'[a[i]] = IF i = k - 1 THEN None ELSE a[i + 1]
      <3>1. a[i] = s[i + 1] /\ i + 1 \in 1 .. k /\ i + 1 # 1
        BY <1>4, <1>5
      <3>2. s[i + 1] \in Task /\ s[i + 1] # t
        BY <1>4, <3>1
      <3>3. m_next'[a[i]] = m_next[s[i + 1]]
        BY <1>0, <1>6, <3>1, <3>2
      <3>4. m_next[s[i + 1]] = IF i + 1 = k THEN None ELSE s[(i + 1) + 1]
        BY <1>4, <3>1
      <3>5. CASE i = k - 1
        BY <1>4, <3>3, <3>4, <3>5
      <3>6. CASE i # k - 1
        <4>1. i + 1 \in 1 .. k - 1 /\ i + 1 # k
          BY <1>4, <3>6
        <4> QED
          BY <1>5, <3>3, <3>4, <3>6, <4>1
      <3> QED
        BY <3>5, <3>6
    <2>3. \A b \in Task : b \in ToSet(a) <=> b[1] = c /\ status'[b] = "free"
      BY <1>4, <1>5
    <2>4. Len(a) + count'[c] = ChunkSize
      BY <1>0, <1>4, <1>5, <1>6, TaskIsBlock
    <2> QED
      BY <1>5, <2>1, <2>2, <2>3, <2>4 DEF FreeOf
  <1>9. ASSUME NEW d \in ToSet(chunks)
        PROVE  count'[d] # 0 /\ \E q \in Seq(Task) : FreeOf(d, q)'
    <2>1. d \in Chunk /\ count[d] # 0 /\ \E q \in Seq(Task) : FreeOf(d, q)
      BY <1>0, ElementsOf DEF PoolInv, PoolType
    <2>2. CASE d = c
      BY <1>0, <1>5, <1>6, <1>8, <2>1, <2>2
    <2>3. CASE d # c
      <3>1. PICK q \in Seq(Task) : FreeOf(d, q)
        BY <2>1
      <3>2. /\ m_head'[d] = m_head[d] /\ m_tail'[d] = m_tail[d] /\ count'[d] = count[d]
            /\ \A b \in Task : b[1] = d => /\ m_next'[b] = m_next[b]
                                           /\ status'[b] = "free" <=> status[b] = "free"
        BY <1>0, <1>4, <1>6, <2>1, <2>3
      <3>3. FreeOf(d, q)'
        BY <1>0, <2>1, <3>1, <3>2, OtherChunk
      <3> QED
        BY <2>1, <3>2, <3>3
    <2> QED
      BY <2>2, <2>3
  <1>10. \A b \in Task : status'[b] # "free" => b[1] \in ToSet(chunks)
    BY <1>2, <1>4 DEF PoolInv
  <1> QED
    BY <1>0, <1>1, <1>7, <1>9, <1>10 DEF PoolInv

(* No chunk has one: a new chunk has all its blocks on its list, but the first. *)
LEMMA AllocFromNewChunkKeeps ==
  ASSUME PoolInv, NEW t \in Task, status[t] = "free", status'[t] # "free",
         \A u \in Task \ {t} : status'[u] = "free" <=> status[u] = "free",
         Pool!AllocFromNewChunk(t)
  PROVE  PoolInv'
  <1>0. /\ PoolType /\ IsInjective(chunks) /\ None \notin Task
        /\ chunks \in Seq(Chunk) /\ count \in [Chunk -> Nat]
        /\ m_head \in [Chunk -> Task \cup {None}] /\ m_tail \in [Chunk -> Task \cup {None}]
        /\ m_next \in [Task -> Task \cup {None}]
    BY TaskIsBlock DEF PoolInv, PoolType
  <1>1. PICK c \in Chunk :
          /\ c \notin ToSet(chunks) /\ t = <<c, 1>>
          /\ Pool!Becomes(c, Pool!lub_blockpool_alloc(Pool!lub_blockpool_init(c)))
          /\ chunks' = <<c>> \o chunks
          /\ count' = [count EXCEPT ![c] = 1]
    BY DEF Pool!AllocFromNewChunk, Pool!ToSet, ToSet
  <1> DEFINE N == ChunkSize
             a == [i \in 1 .. N - 1 |-> <<c, i + 1>>]
             link == [b \in Task |-> CASE b[1] # c -> m_next[b]
                                       [] b = <<c, N>> -> None
                                       [] OTHER -> <<c, b[2] + 1>>]
  <1>2. /\ m_head' = [m_head EXCEPT ![c] = IF N = 1 THEN None ELSE <<c, 2>>]
        /\ m_tail' = [m_tail EXCEPT ![c] = IF N = 1 THEN None ELSE <<c, N>>]
        /\ m_next' = [link EXCEPT ![t] = None]
    <2>1. <<c, 1>> = <<c, N>> <=> N = 1
      OBVIOUS
    <2>2. N # 1 => link[t] = <<c, 2>>
      BY <1>1, TaskIsBlock
    <2>3. /\ Pool!lub_blockpool_init(c).head = <<c, 1>>
          /\ Pool!lub_blockpool_init(c).tail = <<c, N>>
          /\ Pool!lub_blockpool_init(c).next = link
      BY TaskIsBlock DEF Pool!lub_blockpool_init, Pool!Lists
    <2> HIDE DEF link
    <2> QED
      BY <1>1, <2>1, <2>2, <2>3
      DEF Pool!Becomes, Pool!lub_blockpool_alloc, Pool!Lists
  <1>3. \A b \in Task : /\ b[1] # c => m_next'[b] = m_next[b]
                        /\ b[1] = c /\ b[2] # 1 => m_next'[b] = IF b[2] = N THEN None ELSE <<c, b[2] + 1>>
    <2>1. \A b \in Task : b # t => m_next'[b] = link[b]
      BY <1>2
    <2>2. t[1] = c /\ t[2] = 1
      BY <1>1, TaskIsBlock
    <2> QED
      BY <2>1, <2>2, TaskIsBlock
  <1>4. PoolType'
    <2>1. N # 1 => <<c, 2>> \in Task
      BY TaskIsBlock
    <2>2. <<c, N>> \in Task
      BY TaskIsBlock
    <2>3. link \in [Task -> Task \cup {None}]
      <3>1. ASSUME NEW b \in Task PROVE link[b] \in Task \cup {None}
        <4>1. CASE b[1] # c
          BY <1>0, <4>1
        <4>2. CASE b[1] = c /\ b = <<c, N>>
          BY <4>2
        <4>3. CASE b[1] = c /\ b # <<c, N>>
          <5>1. b[2] + 1 \in 1 .. N
            BY <4>3, TaskIsBlock
          <5> QED
            BY <4>3, <5>1, TaskIsBlock
        <4> QED
          BY <4>1, <4>2, <4>3
      <3> QED
        BY <3>1
    <2>4. m_next' \in [Task -> Task \cup {None}]
      <3> HIDE DEF link
      <3> QED BY <1>2, <2>3
    <2>5. chunks' \in Seq(Chunk)
      BY <1>0, <1>1, Prepended
    <2> QED
      BY <1>0, <1>1, <1>2, <2>1, <2>2, <2>4, <2>5 DEF PoolType
  <1> HIDE DEF link
  <1>5. ToSet(chunks)' = ToSet(chunks) \cup {c} /\ IsInjective(chunks)'
    BY <1>0, <1>1, Prepended
  <1>6. /\ a \in Seq(Task) /\ Len(a) = N - 1
        /\ \A i \in 1 .. N - 1 : a[i] = <<c, i + 1>>
        /\ a = <<>> <=> N = 1
        /\ DOMAIN a = 1 .. N - 1
    <2>1. \A i \in 1 .. N - 1 : <<c, i + 1>> \in Task
      BY TaskIsBlock
    <2>2. N - 1 \in Nat
      BY TaskIsBlock
    <2>3. a \in Seq(Task) /\ Len(a) = N - 1
      BY <2>1, <2>2
    <2>4. \A i \in 1 .. N - 1 : a[i] = <<c, i + 1>>
      OBVIOUS
    <2> HIDE DEF a
    <2>5. DOMAIN a = 1 .. Len(a) /\ (a = <<>> <=> Len(a) = 0)
      BY <2>3, ElementsOf
    <2>6. N - 1 = 0 <=> N = 1
      BY TaskIsBlock
    <2> QED
      BY <2>3, <2>4, <2>5, <2>6
  <1> HIDE DEF a
  <1>7. FreeOf(c, a)'
    <2>1. /\ m_head'[c] = IF a = <<>> THEN None ELSE a[1]
          /\ m_tail'[c] = IF a = <<>> THEN None ELSE a[Len(a)]
      <3>1. CASE N = 1
        BY <1>0, <1>2, <1>6, <3>1
      <3>2. CASE N # 1
        <4>1. 1 \in 1 .. N - 1 /\ N - 1 \in 1 .. N - 1 /\ (N - 1) + 1 = N /\ 1 + 1 = 2
          BY <3>2, TaskIsBlock
        <4>2. a[1] = <<c, 2>> /\ a[N - 1] = <<c, N>>
          BY <1>6, <4>1
        <4> QED
          BY <1>0, <1>2, <1>6, <3>2, <4>2
      <3> QED
        BY <3>1, <3>2
    <2>2. ASSUME NEW i \in 1 .. N - 1
          PROVE  m_next'[a[i]] = IF i = N - 1 THEN None ELSE a[i + 1]
      <3>1. /\ a[i] = <<c, i + 1>> /\ a[i] \in Task /\ a[i][1] = c /\ a[i][2] = i + 1
            /\ i + 1 # 1
        BY <1>6, TaskIsBlock
      <3>2. m_next'[a[i]] = IF i + 1 = N THEN None ELSE <<c, (i + 1) + 1>>
        BY <1>3, <3>1
      <3>3. CASE i = N - 1
        BY <3>2, <3>3, TaskIsBlock
      <3>4. CASE i # N - 1
        <4>1. i + 1 \in 1 .. N - 1 /\ i + 1 # N
          BY <3>4, TaskIsBlock
        <4> QED
          BY <1>6, <3>2, <3>4, <4>1
      <3> QED
        BY <3>3, <3>4
    <2>3. IsInjective(a)
      BY <1>6 DEF IsInjective
    <2>4. ASSUME NEW b \in Task
          PROVE  b \in ToSet(a) <=> b[1] = c /\ status'[b] = "free"
      <3>1. b[1] = c /\ b # t => status'[b] = "free"
        BY <1>1 DEF PoolInv
      <3>2. b \in ToSet(a) <=> \E i \in 1 .. N - 1 : b = <<c, i + 1>>
        BY <1>6 DEF ToSet
      <3>3. (\E i \in 1 .. N - 1 : b = <<c, i + 1>>) <=> b[1] = c /\ b # t
        <4>1. ASSUME NEW i \in 1 .. N - 1, b = <<c, i + 1>> PROVE b[1] = c /\ b # t
          BY <1>1, <4>1, TaskIsBlock
        <4>2. ASSUME b[1] = c, b # t PROVE \E i \in 1 .. N - 1 : b = <<c, i + 1>>
          <5>1. b = <<c, b[2]>> /\ b[2] \in 1 .. N /\ b[2] # 1
            BY <1>1, <4>2, TaskIsBlock
          <5>2. b[2] - 1 \in 1 .. N - 1 /\ (b[2] - 1) + 1 = b[2]
            BY <5>1, TaskIsBlock
          <5> QED
            BY <5>1, <5>2
        <4> QED
          BY <4>1, <4>2
      <3> QED
        BY <3>1, <3>2, <3>3
    <2>5. Len(a) + count'[c] = ChunkSize
      BY <1>0, <1>1, <1>6, TaskIsBlock
    <2> QED
      BY <1>6, <2>1, <2>2, <2>3, <2>4, <2>5 DEF FreeOf
  <1>8. ASSUME NEW d \in ToSet(chunks) \cup {c}
        PROVE  count'[d] # 0 /\ \E q \in Seq(Task) : FreeOf(d, q)'
    <2>1. CASE d = c
      BY <1>0, <1>1, <1>6, <1>7, <2>1
    <2>2. CASE d # c
      <3>1. d \in Chunk /\ count[d] # 0
        BY <1>0, <2>2, ElementsOf DEF PoolInv
      <3>2. PICK q \in Seq(Task) : FreeOf(d, q)
        BY <2>2 DEF PoolInv
      <3>3. m_head'[d] = m_head[d] /\ m_tail'[d] = m_tail[d] /\ count'[d] = count[d]
        BY <1>0, <1>1, <1>2, <2>2, <3>1
      <3>4. \A b \in Task : b[1] = d => /\ m_next'[b] = m_next[b]
                                        /\ status'[b] = "free" <=> status[b] = "free"
        <4>1. t[1] = c
          BY <1>1, TaskIsBlock
        <4>2. \A b \in Task : b[1] = d => b # t
          BY <2>2, <4>1
        <4> QED
          BY <1>3, <2>2, <4>2
      <3>5. FreeOf(d, q)'
        BY <1>0, <3>1, <3>2, <3>3, <3>4, OtherChunk
      <3> QED
        BY <3>1, <3>3, <3>5
    <2> QED
      BY <2>1, <2>2
  <1>9. \A b \in Task : status'[b] # "free" => b[1] \in ToSet(chunks) \cup {c}
    BY <1>1, TaskIsBlock DEF PoolInv
  <1> QED
    BY <1>4, <1>5, <1>8, <1>9 DEF PoolInv

(* A block is given back: it goes to the end of the list of its chunk, which goes back to
   malloc() with its last block. *)
LEMMA FreeKeeps ==
  ASSUME PoolInv, NEW t \in Task, status[t] # "free", status'[t] = "free",
         \A u \in Task \ {t} : status'[u] = "free" <=> status[u] = "free",
         Pool!lub_dblockpool_free(t)
  PROVE  PoolInv'
  <1>0. /\ PoolType /\ IsInjective(chunks) /\ None \notin Task
        /\ chunks \in Seq(Chunk) /\ count \in [Chunk -> Nat]
        /\ m_head \in [Chunk -> Task \cup {None}] /\ m_tail \in [Chunk -> Task \cup {None}]
        /\ m_next \in [Task -> Task \cup {None}]
    BY TaskIsBlock DEF PoolInv, PoolType
  <1>1. PICK n \in 1 .. Len(chunks) :
          /\ chunks[n] = t[1]
          /\ Pool!Becomes(chunks[n], Pool!lub_blockpool_free(Pool!PoolOf(chunks[n]), t))
          /\ count' = [count EXCEPT ![chunks[n]] = @ - 1]
          /\ chunks' = IF count[chunks[n]] = 1 THEN RemoveAt(chunks, n) ELSE chunks
    <2>1. DOMAIN chunks = 1 .. Len(chunks)
      BY <1>0, ElementsOf
    <2>2. \A n \in 1 .. Len(chunks) : Pool!RemoveAt(chunks, n) = RemoveAt(chunks, n)
      BY DEF Pool!RemoveAt, RemoveAt
    <2>3. \E n \in 1 .. Len(chunks) :
            /\ chunks[n] = t[1]
            /\ Pool!Becomes(chunks[n], Pool!lub_blockpool_free(Pool!PoolOf(chunks[n]), t))
            /\ count' = [count EXCEPT ![chunks[n]] = @ - 1]
            /\ chunks' = IF count[chunks[n]] = 1 THEN Pool!RemoveAt(chunks, n) ELSE chunks
      BY <2>1 DEF Pool!lub_dblockpool_free, Pool!Spent
    <2> QED
      BY <2>2, <2>3
  <1>2. PICK c \in Chunk : c = chunks[n] /\ c \in ToSet(chunks) /\ count[c] \in Nat \ {0}
    BY <1>0, <1>1, ElementsOf DEF PoolInv
  <1>3. PICK s \in Seq(Task) : FreeOf(c, s)
    BY <1>2 DEF PoolInv
  <1> DEFINE k == Len(s)
             a == Append(s, t)
  <1>4. /\ k \in Nat /\ (s = <<>> <=> k = 0)
        /\ m_head[c] = IF k = 0 THEN None ELSE s[1]
        /\ m_tail[c] = IF k = 0 THEN None ELSE s[k]
        /\ k + count[c] = ChunkSize
        /\ \A i \in 1 .. k : m_next[s[i]] = IF i = k THEN None ELSE s[i + 1]
        /\ \A i, j \in 1 .. k : s[i] = s[j] => i = j
        /\ \A i \in 1 .. k : s[i] \in Task /\ s[i] # t /\ s[i][1] = c
        /\ \A b \in Task : b \in ToSet(s) <=> b[1] = c /\ status[b] = "free"
        /\ t[1] = c /\ t \notin ToSet(s)
    <2>1. t \notin ToSet(s)
      BY <1>3 DEF FreeOf
    <2> QED
      BY <1>1, <1>2, <1>3, <2>1, ElementsOf DEF FreeOf, IsInjective
  <1>5. /\ a \in Seq(Task) /\ Len(a) = k + 1 /\ a # <<>>
        /\ \A i \in 1 .. k : a[i] = s[i]
        /\ a[k + 1] = t
        /\ ToSet(a) = ToSet(s) \cup {t}
        /\ IsInjective(a)
    BY <1>3, <1>4, Appended DEF FreeOf
  <1> HIDE DEF a, k
  <1>6. /\ m_head' = [m_head EXCEPT ![c] = IF k = 0 THEN t ELSE m_head[c]]
        /\ m_tail' = [m_tail EXCEPT ![c] = t]
        /\ m_next' = IF k = 0 THEN [m_next EXCEPT ![t] = None]
                     ELSE [m_next EXCEPT ![t] = None, ![s[k]] = t]
        /\ count' = [count EXCEPT ![c] = @ - 1]
    <2>1. CASE k = 0
      <3>1. m_tail[c] = None
        BY <1>4, <2>1
      <3> QED
        BY <1>1, <1>2, <2>1, <3>1
        DEF Pool!Becomes, Pool!lub_blockpool_free, Pool!PoolOf, Pool!Lists
    <2>2. CASE k # 0
      <3>0. k \in 1 .. k
        BY <1>4, <2>2
      <3>1. m_tail[c] = s[k] /\ m_tail[c] # None
        BY <1>0, <1>4, <2>2, <3>0
      <3> QED
        BY <1>1, <1>2, <2>2, <3>1
        DEF Pool!Becomes, Pool!lub_blockpool_free, Pool!PoolOf, Pool!Lists
    <2> QED
      BY <2>1, <2>2
  <1>7. \A b \in Task : m_next'[b] = IF k # 0 /\ b = s[k] THEN t ELSE IF b = t THEN None ELSE m_next[b]
    <2>1. k # 0 => s[k] \in Task /\ s[k] # t
      BY <1>4
    <2> QED
      BY <1>0, <1>6, <2>1
  <1>8. /\ chunks' \in Seq(Chunk) /\ IsInjective(chunks')
        /\ ToSet(chunks') = IF count[c] = 1 THEN ToSet(chunks) \ {c} ELSE ToSet(chunks)
    <2>1. /\ RemoveAt(chunks, n) \in Seq(Chunk) /\ IsInjective(RemoveAt(chunks, n))
          /\ ToSet(RemoveAt(chunks, n)) = ToSet(chunks) \ {chunks[n]}
      BY <1>0, RemovedAt, RemovedElement
    <2>2. CASE count[c] = 1
      BY <1>1, <1>2, <2>1, <2>2
    <2>3. CASE count[c] # 1
      BY <1>0, <1>1, <1>2, <2>3
    <2> QED
      BY <2>2, <2>3
  <1>9. PoolType'
    <2>1. k # 0 => s[k] \in Task
      BY <1>4
    <2>2. count[c] - 1 \in Nat
      BY <1>2
    <2>3. m_next' \in [Task -> Task \cup {None}]
      BY <1>0, <1>6, <2>1
    <2> QED
      BY <1>0, <1>6, <1>8, <2>2, <2>3 DEF PoolType
  <1>10. FreeOf(c, a)'
    <2>1. m_head'[c] = a[1] /\ m_tail'[c] = a[k + 1]
      <3>1. CASE k = 0
        BY <1>0, <1>4, <1>5, <1>6, <3>1
      <3>2. CASE k # 0
        <4>1. 1 \in 1 .. k
          BY <1>4, <3>2
        <4> QED
          BY <1>0, <1>4, <1>5, <1>6, <3>2, <4>1
      <3> QED
        BY <3>1, <3>2
    <2>2. ASSUME NEW i \in 1 .. k + 1
          PROVE  m_next'[a[i]] = IF i = k + 1 THEN None ELSE a[i + 1]
      <3>1. CASE i = k + 1
        <4>1. k # 0 => s[k] # t
          BY <1>4
        <4> QED
          BY <1>5, <1>7, <3>1, <4>1
      <3>2. CASE i = k /\ k # 0
        <4>1. k \in 1 .. k /\ k # k + 1
          BY <1>4, <3>2
        <4>2. m_next'[a[k]] = t
          BY <1>4, <1>5, <1>7, <3>2, <4>1
        <4> QED
          BY <1>5, <3>2, <4>1, <4>2
      <3>3. CASE i \in 1 .. k /\ i # k
        <4>1. s[i] # s[k] /\ i + 1 \in 1 .. k /\ k \in 1 .. k /\ i # k + 1
          BY <1>4, <3>3
        <4>2. m_next'[s[i]] = m_next[s[i]]
          BY <1>4, <1>7, <3>3, <4>1
        <4> QED
          BY <1>4, <1>5, <3>3, <4>1, <4>2
      <3> QED
        BY <1>4, <3>1, <3>2, <3>3
    <2>3. \A b \in Task : b \in ToSet(a) <=> b[1] = c /\ status'[b] = "free"
      BY <1>4, <1>5
    <2>4. Len(a) + count'[c] = ChunkSize
      <3>1. count'[c] = count[c] - 1
        BY <1>0, <1>6
      <3>2. k \in Nat /\ count[c] \in Nat /\ k + count[c] = ChunkSize /\ Len(a) = k + 1
        BY <1>2, <1>4, <1>5
      <3> QED
        BY <3>1, <3>2
    <2> QED
      BY <1>5, <2>1, <2>2, <2>3, <2>4 DEF FreeOf
  <1>11. ASSUME NEW d \in ToSet(chunks')
         PROVE  count'[d] # 0 /\ \E q \in Seq(Task) : FreeOf(d, q)'
    <2>1. d \in ToSet(chunks) /\ (d = c => count[c] # 1)
      BY <1>8
    <2>2. d \in Chunk /\ count[d] # 0
      BY <1>0, <2>1, ElementsOf DEF PoolInv
    <2>3. CASE d = c
      <3>1. count'[c] = count[c] - 1
        BY <1>0, <1>6
      <3> QED
        BY <1>2, <1>5, <1>10, <2>1, <2>3, <3>1
    <2>4. CASE d # c
      <3>1. PICK q \in Seq(Task) : FreeOf(d, q)
        BY <2>1 DEF PoolInv
      <3>2. m_head'[d] = m_head[d] /\ m_tail'[d] = m_tail[d] /\ count'[d] = count[d]
        BY <1>0, <1>6, <2>2, <2>4
      <3>3. \A b \in Task : b[1] = d => b # t /\ (k # 0 => b # s[k])
        BY <1>4, <2>4
      <3>4. \A b \in Task : b[1] = d => /\ m_next'[b] = m_next[b]
                                        /\ status'[b] = "free" <=> status[b] = "free"
        BY <1>7, <3>3
      <3>5. FreeOf(d, q)'
        BY <1>0, <2>2, <3>1, <3>2, <3>4, OtherChunk
      <3> QED
        BY <2>2, <3>2, <3>5
    <2> QED
      BY <2>3, <2>4
  <1>12. ASSUME NEW b \in Task, status'[b] # "free" PROVE b[1] \in ToSet(chunks')
    <2>1. b # t /\ status[b] # "free" /\ b[1] \in ToSet(chunks)
      BY <1>12 DEF PoolInv
    <2>2. ASSUME count[c] = 1, b[1] = c PROVE FALSE
      <3>1. k = ChunkSize - 1
        BY <1>4, <2>2, TaskIsBlock
      <3>2. b \in BlocksOf(c) /\ t \in BlocksOf(c) /\ b \notin ToSet(s)
        BY <1>4, <2>1, <2>2 DEF BlocksOf
      <3>3. ToSet(s) \subseteq BlocksOf(c) /\ IsInjective(s)
        BY <1>3, FreeFits DEF FreeOf
      <3> QED
        BY <1>4, <2>1, <3>1, <3>2, <3>3, ChunkFills DEF k
    <2> QED
      BY <1>8, <2>1, <2>2
  <1> QED
    BY <1>8, <1>9, <1>11, <1>12 DEF PoolInv

PoolSafe == Inv /\ (deleted = "no" => PoolInv)

LEMMA PoolSafeInit == PInit => PoolSafe
  <1> SUFFICES ASSUME PInit PROVE PoolInv
    BY InvInit DEF PInit, PoolSafe
  <1>1. PoolType
    BY TaskIsBlock DEF PInit, Pool!Init, PoolType
  <1>2. DOMAIN chunks = {}
    BY DEF PInit, Pool!Init
  <1>3. ToSet(chunks) = {} /\ IsInjective(chunks)
    BY <1>2 DEF ToSet, IsInjective
  <1> QED
    BY <1>1, <1>3 DEF PoolInv, PInit, Init

LEMMA PoolSafeStep == PoolSafe /\ [PNext]_allvars => PoolSafe'
  <1> SUFFICES ASSUME PoolSafe, [PNext]_allvars, deleted' = "no", Inv' PROVE PoolInv'
    BY InvStep, PoolStep DEF PoolSafe
  <1>0. status \in [Task -> Status] /\ TypeOK /\ TypeOK' /\ Inv
    BY DEF PoolSafe, Inv, TypeOK
  <1>a. deleted = "no" /\ PoolInv
    BY DEF PoolSafe, PNext, allvars, lub_scheduler_delete
  <1>b. ASSUME UNCHANGED pvars, \A u \in Task : status'[u] = "free" <=> status[u] = "free"
        PROVE  PoolInv'
    <2>1. PoolType' /\ IsInjective(chunks)' /\ ToSet(chunks)' = ToSet(chunks)
      BY <1>a, <1>b DEF PoolInv, PoolType, pvars
    <2>2. ASSUME NEW d \in ToSet(chunks)
          PROVE  count'[d] # 0 /\ \E q \in Seq(Task) : FreeOf(d, q)'
      <3>1. PICK q \in Seq(Task) : FreeOf(d, q)
        BY <1>a DEF PoolInv
      <3>2. d \in Chunk /\ count[d] # 0 /\ PoolType
        BY <1>a, ElementsOf DEF PoolInv, PoolType
      <3>3. FreeOf(d, q)'
        BY <1>b, <3>1, <3>2, OtherChunk DEF pvars
      <3> QED
        BY <1>b, <3>2, <3>3 DEF pvars
    <2> QED
      BY <1>a, <1>b, <2>1, <2>2 DEF PoolInv
  <1>1. CASE Register
    <2>1. PICK t \in Task : Takes(t) /\ Pool!lub_dblockpool_alloc(t)
      BY <1>1 DEF Register
    <2>2. PICK u \in Task, v \in {"queued", "registered"} : status' = [status EXCEPT ![u] = v]
      BY <1>1 DEF Register, lub_scheduler_register_task, lub_scheduler_async_register_task,
                  lub_scheduler_new_task
    <2>3. status[t] = "free" /\ status'[t] # "free"
          /\ \A w \in Task \ {t} : status'[w] = "free" <=> status[w] = "free"
      BY <1>0, <2>1, <2>2 DEF Takes
    <2> QED
      BY <1>a, <2>1, <2>3, AllocFromChunkKeeps, AllocFromNewChunkKeeps
      DEF Pool!lub_dblockpool_alloc
  <1>2. CASE RegisterRefused
    BY <1>2, <1>b DEF RegisterRefused, RegisterFails, Pool!lub_dblockpool_alloc_fails,
                      Pool!dvars, pvars
  <1>3. CASE DeleteTask
    <2>1. PICK t \in Task : t = Last(nest) /\ status[t] = "running"
      BY <1>0, <1>3, PopNest DEF DeleteTask, RunReturns, Inv, NestedTasksDistinct, Has, TypeOK
    <2>2. status' = [status EXCEPT ![t] = "free"] /\ Pool!lub_dblockpool_free(t)
      BY <1>3, <2>1 DEF DeleteTask, RunReturns
    <2>3. status'[t] = "free" /\ \A w \in Task \ {t} : status'[w] = "free" <=> status[w] = "free"
      BY <1>0, <2>2
    <2> QED
      BY <1>a, <2>1, <2>2, <2>3, FreeKeeps
  <1>4. CASE Same /\ UNCHANGED pvars
    <2>1. ASSUME NEW t \in Task, lub_scheduler_async_schedule_task(t)
          PROVE  \A u \in Task : status'[u] = "free" <=> status[u] = "free"
      BY <1>0, <2>1 DEF lub_scheduler_async_schedule_task
    <2>2. CASE RunStarts
      <3>1. PICK l \in Ready : status' = [status EXCEPT ![head[l]] = "running"]
        BY <2>2 DEF RunStarts
      <3>2. head[l] \in Task /\ status[head[l]] = "queued"
        BY <1>0 DEF Ready, Searched, Inv, ListInv, Ends, TypeOK
      <3> QED
        BY <1>0, <1>4, <1>b, <3>1, <3>2
    <2>3. CASE RunFindsNone
      BY <1>4, <1>b, <2>3 DEF RunFindsNone
    <2> QED
      BY <1>4, <1>b, <2>1, <2>2, <2>3 DEF Same
  <1>5. CASE lub_scheduler_delete
    BY <1>5 DEF lub_scheduler_delete
  <1>6. CASE UNCHANGED allvars
    BY <1>6, <1>b DEF allvars, vars, pvars
  <1> QED
    BY <1>1, <1>2, <1>3, <1>4, <1>5, <1>6 DEF PNext

(* However tasks register and run one another, the chunks of the pool hold exactly the
   blocks of the tasks there are, each block that is not in use is once on the list of
   its chunk, and no chunk is kept without a task or given back with one, for any number
   of chunks of any size (lub_dblockpool_alloc, lub_dblockpool_free). *)
THEOREM PoolCorrect == PSpec => []PoolSound
  <1>1. PoolSafe => PoolSound
    BY PoolInvSound DEF PoolSafe, PoolSound
  <1> QED
    BY <1>1, PoolSafeInit, PoolSafeStep, PTL DEF PSpec
=============================================================================
