--------------------------- MODULE PartitionProofs ---------------------------
(***************************************************************************)
(* Proofs about a memory partition: whatever the threads do at once,       *)
(* everything taken of the caches and of the global heap is accounted for, *)
(* and two threads are in the global heap only after one has gone on       *)
(* without the mutex.                                                      *)
(*                                                                         *)
(* The step of one thread is looked at for that thread, and OthersLeft     *)
(* says that it leaves the rest of the others' state alone: their calls,   *)
(* their caches, and the blocks of the pointers in their calls.            *)
(***************************************************************************)
EXTENDS Partition, FiniteSetTheorems, TLAPS

(* Where a thread can be, and the sets the variables are in. *)
Where == Purpose \cup {"idle", "local", "check", "destroy"}

TypeInv ==
  /\ pc \in [Thread -> Where]
  /\ phase \in [Thread -> {"out", "in", "extend", "again"}]
  /\ call \in [Thread -> Call \cup {None}]
  /\ at \in [Ptr -> Block \cup {None}]
  /\ local \in [Thread -> Int \cup {None}]
  /\ global \in Nat \cup {None}
  /\ segs \in Nat
  /\ lost \in [Thread \cup {None} -> Nat]

(* What holds of a thread in a call: no other call has its pointer, whose block is
   its own; it has a local heap where the code uses one; and the pointer has no cache
   block any more when the global heap is asked for its data. *)
CallOk(t) ==
  /\ call[t] # None <=> pc[t] \in {"create", "key", "local", "data", "check"}
  /\ phase[t] # "out" => pc[t] \in Purpose
  /\ pc[t] \in {"create", "key"} => local[t] = None
  /\ pc[t] \in {"local", "fini", "exit"} => local[t] # None
  /\ call[t] # None =>
       /\ \A u \in Thread \ {t} : call[u] # None => call[u].ptr # call[t].ptr
       /\ at[call[t].ptr] # None => at[call[t].ptr].by = t
       /\ call[t].copies => pc[t] \in {"data", "check"}
       /\ pc[t] = "data" => ~InLocal(call[t].ptr)
       /\ pc[t] = "data" /\ call[t].copies => local[t] # None /\ at[call[t].ptr] = None

CallInv == \A t \in Thread : CallOk(t)

(* None is no block, no call and no number. *)
LEMMA NoneIs == /\ None \notin Block /\ None \notin Call /\ None \notin Int /\ None \notin Thread
                /\ \A n \in Nat : n # None
  BY PartitionAssumption

LEMMA ConstantsAre == /\ Size \subseteq Nat /\ LocalMax \in Nat /\ LocalBlocks \in Nat
                      /\ LocalUnits \in Nat /\ SegUnits \in Nat /\ Ceiling \in Nat
  BY PartitionAssumption

-----------------------------------------------------------------------------
(* The types. *)
LEMMA TypeInit == Init => TypeInv
  BY ConstantsAre DEF Init, TypeInv, Where, Purpose

LEMMA DieType ==
  ASSUME TypeInv, NEW t \in Thread, lub_partition_time_to_die(t)
  PROVE  pc' \in [Thread -> Where]
  BY DEF TypeInv, lub_partition_time_to_die, Goes, Where, Purpose

(* Only a creation, a key and a client's data can be refused: the rest gives back. *)
LEMMA NeedType ==
  ASSUME TypeInv, CallInv, NEW t \in Thread, pc[t] \in Purpose
  PROVE  /\ Need(t) \in Int
         /\ pc[t] \notin {"create", "key", "data"} => Need(t) <= 0
  <1>1. CASE pc[t] = "data"
    <2>1. call[t] \in Call
      BY <1>1 DEF TypeInv, CallInv, CallOk
    <2>2. Units(call[t].ptr) \in Nat
      BY <2>1 DEF TypeInv, Units, InGlobal, Block, Call
    <2> QED
      BY <1>1, <2>1, <2>2 DEF Need, Call
  <1>2. CASE pc[t] # "data"
    BY <1>2, ConstantsAre DEF Need, Purpose
  <1> QED
    BY <1>1, <1>2

LEMMA ServedType ==
  ASSUME TypeInv, CallInv, NEW t \in Thread, pc[t] \in Purpose, Served(t)
  PROVE  /\ pc' \in [Thread -> Where]
         /\ at' \in [Ptr -> Block \cup {None}]
         /\ local' \in [Thread -> Int \cup {None}]
         /\ lost' \in [Thread \cup {None} -> Nat]
  <1> USE DEF TypeInv, Where, Purpose
  <1>1. CASE pc[t] = "data"
    <2>1. call[t] \in Call
      BY <1>1 DEF CallInv, CallOk
    <2>2. DataServed(t)
      BY <1>1 DEF Served
    <2>3. [in |-> "global", by |-> t, units |-> call[t].size] \in Block
      BY <2>1 DEF Block, Call
    <2>4. at' \in [Ptr -> Block \cup {None}] /\ pc' \in [Thread -> Where] /\ lost' = lost
      BY <2>2, <2>3 DEF DataServed, Goes
    <2>5. local' \in [Thread -> Int \cup {None}]
      <3>1. CASE Copied(t)
        <4>1. local[t] \in Int
          BY <1>1, <3>1 DEF CallInv, CallOk, Copied
        <4> QED
          BY <2>2, <3>1, <4>1 DEF DataServed
      <3>2. CASE ~Copied(t)
        BY <2>2, <3>2 DEF DataServed
      <3> QED
        BY <3>1, <3>2
    <2> QED
      BY <2>4, <2>5
  <1>2. CASE pc[t] = "create"
    BY <1>2 DEF Served, Goes
  <1>3. CASE pc[t] = "key"
    BY <1>3 DEF Served, Goes
  <1>4. CASE pc[t] = "fini"
    BY <1>4 DEF Served, Goes, LocalGone
  <1>5. CASE pc[t] = "exit"
    BY <1>5 DEF Served, Goes, LocalGone
  <1>6. CASE pc[t] = "exit_key"
    BY <1>6 DEF Served, Goes
  <1> QED
    BY <1>1, <1>2, <1>3, <1>4, <1>5, <1>6

LEMMA RefusedType ==
  ASSUME TypeInv, CallInv, NEW t \in Thread, pc[t] \in {"create", "key", "data"}, Refused(t)
  PROVE  /\ pc' \in [Thread -> Where] /\ UNCHANGED <<at, local>>
         /\ lost' \in [Thread \cup {None} -> Nat]
  <1> USE DEF TypeInv, Where, Purpose
  <1>1. CASE pc[t] = "create"
    BY <1>1 DEF Refused, Goes
  <1>2. CASE pc[t] = "key"
    BY <1>2 DEF Refused
  <1>3. CASE pc[t] = "data"
    BY <1>3 DEF Refused, Goes, Loses
  <1> QED
    BY <1>1, <1>2, <1>3

LEMMA LocalType ==
  ASSUME TypeInv, CallInv, NEW t \in Thread, LocalRealloc(t)
  PROVE  TypeInv'
  <1> DEFINE p == call[t].ptr
             n == call[t].size
  <1>1. pc[t] = "local" /\ call[t] \in Call /\ p \in Ptr /\ n \in Nat /\ local[t] \in Int
    BY DEF LocalRealloc, TypeInv, CallInv, CallOk, Call
  <1>2. UNCHANGED <<phase, global, segs>>
    BY DEF LocalRealloc
  <1>3. [in |-> "local", by |-> t, units |-> 0] \in Block
    BY DEF Block
  <1>4. CASE LocalServes(t, p, n) /\ Goes(t, "check") /\ UNCHANGED <<call, lost>>
    <2> HIDE DEF p, n
    <2> QED BY <1>1, <1>2, <1>3, <1>4 DEF LocalServes, TypeInv, Goes, Where, Purpose
  <1>5. CASE LocalUnknown(t, p, n) /\ Goes(t, "data")
    <2> HIDE DEF p, n
    <2> QED BY <1>1, <1>2, <1>5 DEF LocalUnknown, Loses, TypeInv, Goes, Where, Purpose
  <1>6. CASE LocalFails(t, p, n) /\ Goes(t, "data")
    <2>1. InLocal(p) \in BOOLEAN
      BY DEF InLocal
    <2>2. call' = [call EXCEPT ![t].copies = InLocal(p)]
      BY <1>6 DEF LocalFails
    <2>3. [call[t] EXCEPT !.copies = InLocal(p)] \in Call
      BY <1>1, <2>1 DEF Call
    <2>4. call' \in [Thread -> Call \cup {None}]
      BY <2>2, <2>3 DEF TypeInv
    <2> HIDE DEF p, n
    <2> QED
      BY <1>1, <1>2, <1>6, <2>4 DEF LocalFails, TypeInv, Goes, Where, Purpose
  <1> QED
    BY <1>4, <1>5, <1>6 DEF LocalRealloc

LEMMA TypeStep == TypeInv /\ CallInv /\ [Next]_vars => TypeInv'
  <1> SUFFICES ASSUME TypeInv, CallInv, [Next]_vars PROVE TypeInv'
    OBVIOUS
  <1>1. ASSUME NEW t \in Thread, NEW p \in Ptr, NEW n \in Size, lub_partition_realloc(t, p, n)
        PROVE  TypeInv'
    <2>1. [ptr |-> p, size |-> IF m_dying THEN 0 ELSE n, copies |-> FALSE] \in Call
      BY ConstantsAre DEF Call
    <2>2. call' \in [Thread -> Call \cup {None}]
      BY <1>1, <2>1 DEF lub_partition_realloc, TypeInv
    <2>3. pc' \in [Thread -> Where]
      BY <1>1 DEF lub_partition_realloc, Goes, TypeInv, Where, Purpose
    <2> QED
      BY <1>1, <2>2, <2>3 DEF lub_partition_realloc, TypeInv
  <1>2. ASSUME NEW t \in Thread, LocalRealloc(t) PROVE TypeInv'
    BY <1>2, LocalType
  <1>3. ASSUME NEW t \in Thread, Return(t) PROVE TypeInv'
    BY <1>3, DieType DEF Return, TypeInv, Goes, Where, Purpose
  <1>4. ASSUME NEW t \in Thread, lub_partition_kill(t) PROVE TypeInv'
    BY <1>4, DieType DEF lub_partition_kill, TypeInv
  <1>5. ASSUME NEW t \in Thread, lub_posix_partition_destroy_key(t) PROVE TypeInv'
    BY <1>5 DEF lub_posix_partition_destroy_key, Goes, TypeInv, Where, Purpose
  <1>6. ASSUME NEW t \in Thread, lub_partition_lock(t) PROVE TypeInv'
    BY <1>6 DEF lub_partition_lock, TypeInv
  <1>7. ASSUME NEW t \in Thread, CreateGlobal(t) PROVE TypeInv'
    BY <1>7, ConstantsAre DEF CreateGlobal, TypeInv
  <1>8. ASSUME NEW t \in Thread, lub_heap_realloc(t) PROVE TypeInv'
    <2>1. pc[t] \in Purpose /\ global \in Nat
      BY <1>8 DEF lub_heap_realloc, CallInv, CallOk, TypeInv
    <2>2. UNCHANGED <<call, segs>> /\ phase' \in [Thread -> {"out", "in", "extend", "again"}]
      BY <1>8 DEF lub_heap_realloc, Leaves, TypeInv
    <2>3. CASE Need(t) <= global /\ global' = global - Need(t) /\ Served(t)
      <3>1. global' \in Nat
        BY <2>1, <2>3, NeedType
      <3> QED
        BY <2>1, <2>2, <2>3, <3>1, ServedType DEF TypeInv
    <2>4. CASE Need(t) > global /\ Refused(t) /\ UNCHANGED global
      <3>1. pc[t] \in {"create", "key", "data"}
        BY <2>1, <2>4, NeedType
      <3> QED
        BY <2>2, <2>4, <3>1, RefusedType DEF TypeInv
    <2> QED
      BY <1>8, <2>3, <2>4 DEF lub_heap_realloc
  <1>9. ASSUME NEW t \in Thread, lub_partition_extend_memory(t) PROVE TypeInv'
    <2>1. global \in Nat /\ segs' \in Nat
      BY <1>9 DEF lub_partition_extend_memory, TypeInv
    <2> QED
      BY <1>9, <2>1, ConstantsAre DEF lub_partition_extend_memory, TypeInv
  <1>10. ASSUME NEW t \in Thread, lub_partition_destroy(t) PROVE TypeInv'
    BY <1>10 DEF lub_partition_destroy, TypeInv
  <1>11. CASE UNCHANGED vars
    BY <1>11 DEF vars, TypeInv
  <1> QED
    BY <1>1, <1>2, <1>3, <1>4, <1>5, <1>6, <1>7, <1>8, <1>9, <1>10, <1>11
    DEF Next, Step, Lock, Client

-----------------------------------------------------------------------------
(* A step of a thread leaves the others alone: where they are, their calls and caches,
   and the blocks of the pointers that are not in its own call; its own pointer has a
   block of its own afterwards, if it has one. *)
StepBy(t) == Step(t) \/ Lock(t) \/ Client(t)

LEMMA OthersLeft ==
  ASSUME TypeInv, CallInv, NEW t \in Thread, StepBy(t)
  PROVE  /\ \A u \in Thread \ {t} : /\ pc'[u] = pc[u] /\ phase'[u] = phase[u] /\ call'[u] = call[u]
                                    /\ local'[u] = local[u] /\ lost'[u] = lost[u]
         /\ \A p \in Ptr : call[t] = None \/ p # call[t].ptr => at'[p] = at[p]
         /\ \A p \in Ptr : at'[p] # at[p] /\ at'[p] # None => at'[p].by = t
  <1>0. /\ pc \in [Thread -> Where] /\ phase \in [Thread -> {"out", "in", "extend", "again"}]
        /\ call \in [Thread -> Call \cup {None}] /\ at \in [Ptr -> Block \cup {None}]
        /\ local \in [Thread -> Int \cup {None}] /\ lost \in [Thread \cup {None} -> Nat]
    BY DEF TypeInv
  <1> DEFINE Goal ==
         /\ \A u \in Thread \ {t} : /\ pc'[u] = pc[u] /\ phase'[u] = phase[u] /\ call'[u] = call[u]
                                    /\ local'[u] = local[u] /\ lost'[u] = lost[u]
         /\ \A p \in Ptr : call[t] = None \/ p # call[t].ptr => at'[p] = at[p]
         /\ \A p \in Ptr : at'[p] # at[p] /\ at'[p] # None => at'[p].by = t
  <1>1. ASSUME NEW p \in Ptr, NEW n \in Size, lub_partition_realloc(t, p, n) PROVE Goal
    BY <1>0, <1>1 DEF lub_partition_realloc, Goes
  <1>2. CASE LocalRealloc(t)
    <2> DEFINE p == call[t].ptr
               n == call[t].size
    <2>1. UNCHANGED phase /\ call[t] # None /\ p \in Ptr
      BY <1>0, <1>2 DEF LocalRealloc, CallInv, CallOk, Call
    <2>2. CASE LocalServes(t, p, n) /\ Goes(t, "check") /\ UNCHANGED <<call, lost>>
      <3> HIDE DEF p, n
      <3>1. \/ UNCHANGED at
            \/ at' = [at EXCEPT ![p] = None]
            \/ at' = [at EXCEPT ![p] = [in |-> "local", by |-> t, units |-> 0]]
        BY <2>2 DEF LocalServes
      <3>2. UNCHANGED local \/ local' = [local EXCEPT ![t] = @ + 1] \/ local' = [local EXCEPT ![t] = @ - 1]
        BY <2>2 DEF LocalServes
      <3>3. /\ \A q \in Ptr : q # p => at'[q] = at[q]
            /\ \A q \in Ptr : at'[q] # at[q] /\ at'[q] # None => at'[q].by = t
        BY <1>0, <3>1
      <3> QED
        BY <1>0, <2>1, <2>2, <3>2, <3>3 DEF Goes, p
    <2>3. CASE LocalUnknown(t, p, n) /\ Goes(t, "data")
      <3> HIDE DEF p, n
      <3> QED BY <1>0, <2>1, <2>3 DEF LocalUnknown, Loses, Goes
    <2>4. CASE LocalFails(t, p, n) /\ Goes(t, "data")
      <3>1. /\ call' = [call EXCEPT ![t].copies = InLocal(p)]
            /\ at' = [at EXCEPT ![p] = None] /\ UNCHANGED <<local, lost>>
        BY <2>4 DEF LocalFails
      <3>2. \A u \in Thread \ {t} : call'[u] = call[u]
        BY <1>0, <3>1
      <3>3. /\ \A q \in Ptr : q # p => at'[q] = at[q]
            /\ \A q \in Ptr : at'[q] # at[q] /\ at'[q] # None => at'[q].by = t
        BY <1>0, <3>1
      <3> QED
        BY <1>0, <2>1, <2>4, <3>1, <3>2, <3>3 DEF Goes
    <2> QED
      BY <1>2, <2>2, <2>3, <2>4 DEF LocalRealloc
  <1>3. CASE Return(t)
    BY <1>0, <1>3 DEF Return, lub_partition_time_to_die, Goes
  <1>4. CASE lub_partition_kill(t) \/ lub_posix_partition_destroy_key(t)
    BY <1>0, <1>4 DEF lub_partition_kill, lub_posix_partition_destroy_key, lub_partition_time_to_die, Goes
  <1>5. CASE lub_partition_lock(t) \/ CreateGlobal(t) \/ lub_partition_extend_memory(t) \/ lub_partition_destroy(t)
    BY <1>0, <1>5 DEF lub_partition_lock, CreateGlobal, lub_partition_extend_memory, lub_partition_destroy
  <1>6. CASE lub_heap_realloc(t)
    <2>1. UNCHANGED call /\ phase' = [phase EXCEPT ![t] = "out"] /\ pc[t] \in Purpose
          /\ (Served(t) \/ (Refused(t) /\ Need(t) > global)) /\ global \in Nat
      BY <1>6 DEF lub_heap_realloc, Leaves, CallInv, CallOk, TypeInv
    <2>2. CASE Served(t)
      <3>1. CASE pc[t] = "data"
        <4>1. DataServed(t) /\ call[t] # None
          BY <2>2, <3>1 DEF Served, CallInv, CallOk
        <4>2. /\ pc' = [pc EXCEPT ![t] = "check"] /\ UNCHANGED lost
              /\ UNCHANGED local \/ local' = [local EXCEPT ![t] = @ - 1]
              /\ at' = [at EXCEPT ![call[t].ptr] = None] \/
                 at' = [at EXCEPT ![call[t].ptr] = [in |-> "global", by |-> t, units |-> call[t].size]]
          BY <4>1 DEF DataServed, Goes
        <4>3. /\ \A p \in Ptr : p # call[t].ptr => at'[p] = at[p]
              /\ \A p \in Ptr : at'[p] # at[p] /\ at'[p] # None => at'[p].by = t
          BY <1>0, <4>2
        <4> QED
          BY <1>0, <2>1, <4>1, <4>2, <4>3
      <3>2. CASE pc[t] \in {"create", "key", "exit_key"}
        BY <1>0, <2>1, <2>2, <3>2 DEF Served, Goes
      <3>3. CASE pc[t] \in {"fini", "exit"}
        <4>1. UNCHANGED at /\ local' = [local EXCEPT ![t] = None]
              /\ lost' = [lost EXCEPT ![t] = 0, ![None] = @ + 1]
              /\ (pc' = [pc EXCEPT ![t] = "destroy"] \/ pc' = [pc EXCEPT ![t] = "exit_key"])
          BY <2>2, <3>3 DEF Served, Goes, LocalGone
        <4>2. \A u \in Thread \ {t} : lost'[u] = lost[u]
          BY <1>0, <4>1, NoneIs
        <4> QED
          BY <1>0, <2>1, <4>1, <4>2
      <3> QED
        BY <2>1, <3>1, <3>2, <3>3 DEF Purpose
    <2>3. CASE Refused(t) /\ Need(t) > global
      <3>1. pc[t] \in {"create", "key", "data"}
        BY <2>1, <2>3, NeedType
      <3>2. UNCHANGED <<at, local>>
        BY <2>3 DEF Refused
      <3>3. UNCHANGED pc \/ pc' = [pc EXCEPT ![t] = "data"] \/ pc' = [pc EXCEPT ![t] = "check"]
        BY <2>3, <3>1 DEF Refused, Goes
      <3>4. UNCHANGED lost \/ lost' = [lost EXCEPT ![t] = @ + 1]
        BY <2>3, <3>1 DEF Refused, Loses
      <3> QED
        BY <1>0, <2>1, <3>2, <3>3, <3>4
    <2> QED
      BY <2>1, <2>2, <2>3
  <1> QED
    BY <1>1, <1>2, <1>3, <1>4, <1>5, <1>6 DEF StepBy, Step, Lock, Client

-----------------------------------------------------------------------------
(* Without a local heap there is no block of a cache, and none is lost; a thread that
   exits has given all its blocks back. *)
EmptyOk(t) ==
  /\ local[t] = None /\ pc[t] # "destroy" => LocalOf(t) = {} /\ lost[t] = 0
  /\ pc[t] = "exit" => LocalOf(t) = {}

EmptyLocal == \A t \in Thread : EmptyOk(t)

(* The blocks of the other threads' caches stay where they are. *)
LEMMA LocalOfLeft ==
  ASSUME TypeInv, CallInv, NEW t \in Thread, StepBy(t), NEW u \in Thread \ {t}
  PROVE  LocalOf(u)' = LocalOf(u)
  <1> SUFFICES ASSUME NEW p \in Ptr
               PROVE  (InLocal(p) /\ at[p].by = u)' <=> (InLocal(p) /\ at[p].by = u)
    BY DEF LocalOf
  <1>1. CASE at'[p] = at[p]
    BY <1>1 DEF InLocal
  <1>2. CASE at'[p] # at[p]
    <2>1. call[t] # None /\ p = call[t].ptr
      BY <1>2, OthersLeft
    <2>2. at[p] # None => at[p].by = t
      BY <2>1 DEF CallInv, CallOk
    <2>3. at'[p] # None => at'[p].by = t
      BY <1>2, OthersLeft
    <2> QED
      BY <2>2, <2>3 DEF InLocal
  <1> QED
    BY <1>1, <1>2

LEMMA CallLeft ==
  ASSUME TypeInv, CallInv, NEW t \in Thread, StepBy(t), CallOk(t)', NEW u \in Thread \ {t}
  PROVE  CallOk(u)'
  <1>1. /\ pc'[u] = pc[u] /\ phase'[u] = phase[u] /\ call'[u] = call[u] /\ local'[u] = local[u]
        /\ CallOk(u)
    BY OthersLeft DEF CallInv
  <1>2. ASSUME call[u] # None PROVE at'[call[u].ptr] = at[call[u].ptr]
    <2>1. call[u].ptr \in Ptr
      BY <1>2 DEF TypeInv, Call
    <2>2. call[t] # None => call[t].ptr # call[u].ptr
      BY <1>2 DEF CallInv, CallOk
    <2> QED
      BY <2>1, <2>2, OthersLeft
  <1>3. ASSUME call[u] # None, NEW w \in Thread \ {u}, call'[w] # None
        PROVE  call'[w].ptr # call[u].ptr
    <2>1. CASE w = t
      BY <1>1, <1>3, <2>1 DEF CallOk
    <2>2. CASE w # t
      <3>1. call'[w] = call[w]
        BY <2>2, OthersLeft
      <3> QED
        BY <1>1, <1>3, <3>1 DEF CallOk
    <2> QED
      BY <2>1, <2>2
  <1> QED
    BY <1>1, <1>2, <1>3 DEF CallOk, InLocal

LEMMA EmptyLeft ==
  ASSUME TypeInv, CallInv, EmptyLocal, NEW t \in Thread, StepBy(t), NEW u \in Thread \ {t}
  PROVE  EmptyOk(u)'
  BY OthersLeft, LocalOfLeft DEF EmptyLocal, EmptyOk

LEMMA OwnServed ==
  ASSUME TypeInv, CallInv, EmptyLocal, NEW t \in Thread, lub_heap_realloc(t), Served(t)
  PROVE  CallOk(t)' /\ EmptyOk(t)'
  <1>0. /\ pc \in [Thread -> Where] /\ phase \in [Thread -> {"out", "in", "extend", "again"}]
        /\ call \in [Thread -> Call \cup {None}] /\ at \in [Ptr -> Block \cup {None}]
        /\ local \in [Thread -> Int \cup {None}] /\ lost \in [Thread \cup {None} -> Nat]
    BY DEF TypeInv
  <1>1. /\ UNCHANGED call /\ phase'[t] = "out" /\ pc[t] \in Purpose /\ CallOk(t) /\ EmptyOk(t)
    BY <1>0 DEF lub_heap_realloc, Leaves, CallInv, CallOk, EmptyLocal
  <1>2. CASE pc[t] = "data"
    <2> DEFINE p == call[t].ptr
    <2>1. call[t] \in Call /\ p \in Ptr /\ call[t] # None /\ ~InLocal(p)
      BY <1>0, <1>1, <1>2 DEF CallOk, Call
    <2>2. /\ pc'[t] = "check" /\ UNCHANGED lost
          /\ at' = [at EXCEPT ![p] = None] \/
             at' = [at EXCEPT ![p] = [in |-> "global", by |-> t, units |-> call[t].size]]
          /\ local' = IF call[t].copies THEN [local EXCEPT ![t] = @ - 1] ELSE local
      BY <1>0, <1>2 DEF Served, DataServed, Goes, Copied
    <2>3. (at'[p] # None => at'[p].by = t) /\ ~InLocal(p)'
      BY <1>0, <1>1, <2>1, <2>2 DEF InLocal
    <2>4. LocalOf(t)' = LocalOf(t)
      <3> SUFFICES ASSUME NEW q \in Ptr
                   PROVE  (InLocal(q) /\ at[q].by = t)' <=> (InLocal(q) /\ at[q].by = t)
        BY DEF LocalOf
      <3>1. CASE q = p
        BY <1>1, <2>1, <2>3, <3>1 DEF InLocal
      <3>2. CASE q # p
        BY <1>0, <2>2, <3>2 DEF InLocal
      <3> QED
        BY <3>1, <3>2
    <2>5. local'[t] = None => local[t] = None
      <3>1. call[t].copies => local[t] \in Int /\ local[t] - 1 \in Int
        BY <1>0, <1>1, <1>2, <2>1 DEF CallOk
      <3> QED
        BY <1>0, <2>2, <3>1, NoneIs
    <2>6. CallOk(t)'
      BY <1>1, <1>2, <2>1, <2>2, <2>3 DEF CallOk
    <2>7. EmptyOk(t)'
      BY <1>1, <1>2, <2>2, <2>4, <2>5 DEF EmptyOk
    <2> QED
      BY <2>6, <2>7
  <1>3. CASE pc[t] = "create"
    <2>1. pc'[t] = "key" /\ UNCHANGED <<at, local, lost>>
      BY <1>0, <1>3 DEF Served, Goes
    <2> QED
      BY <1>1, <1>3, <2>1 DEF CallOk, EmptyOk, LocalOf, InLocal, Purpose
  <1>4. CASE pc[t] = "key"
    <2>1. pc'[t] = "local" /\ UNCHANGED <<at, lost>> /\ local'[t] = 0
      BY <1>0, <1>4 DEF Served, Goes
    <2> QED
      BY <1>1, <1>4, <2>1, NoneIs DEF CallOk, EmptyOk, LocalOf, InLocal, Purpose
  <1>5. CASE pc[t] = "fini"
    <2>1. pc'[t] = "destroy" /\ UNCHANGED at
      BY <1>0, <1>5 DEF Served, Goes
    <2> QED
      BY <1>1, <1>5, <2>1 DEF CallOk, EmptyOk
  <1>6. CASE pc[t] = "exit"
    <2>1. pc'[t] = "exit_key" /\ UNCHANGED at /\ lost'[t] = 0
      BY <1>0, <1>6, NoneIs DEF Served, Goes
    <2> QED
      BY <1>1, <1>6, <2>1 DEF CallOk, EmptyOk, LocalOf, InLocal
  <1>7. CASE pc[t] = "exit_key"
    <2>1. pc'[t] = "idle" /\ UNCHANGED <<at, local, lost>>
      BY <1>0, <1>7 DEF Served, Goes
    <2> QED
      BY <1>1, <1>7, <2>1 DEF CallOk, EmptyOk, LocalOf, InLocal, Purpose
  <1> QED
    BY <1>1, <1>2, <1>3, <1>4, <1>5, <1>6, <1>7 DEF Purpose

LEMMA OwnRefused ==
  ASSUME TypeInv, CallInv, EmptyLocal, NEW t \in Thread, lub_heap_realloc(t), Refused(t), Need(t) > global
  PROVE  CallOk(t)' /\ EmptyOk(t)'
  <1>0. /\ pc \in [Thread -> Where] /\ phase \in [Thread -> {"out", "in", "extend", "again"}]
        /\ lost \in [Thread \cup {None} -> Nat] /\ call \in [Thread -> Call \cup {None}]
    BY DEF TypeInv
  <1>1. /\ UNCHANGED <<call, at, local>> /\ phase'[t] = "out" /\ pc[t] \in Purpose /\ CallOk(t)
        /\ EmptyOk(t) /\ global \in Nat
    BY <1>0 DEF lub_heap_realloc, Leaves, CallInv, CallOk, EmptyLocal, Refused, TypeInv
  <1>2. pc[t] \in {"create", "key", "data"}
    BY <1>1, NeedType
  <1>3. CASE pc[t] = "create"
    <2>1. pc'[t] = "data" /\ UNCHANGED lost
      BY <1>0, <1>3 DEF Refused, Goes
    <2>2. call[t] # None => ~InLocal(call[t].ptr)
      <3> SUFFICES ASSUME call[t] # None, InLocal(call[t].ptr) PROVE FALSE
        OBVIOUS
      <3>1. call[t].ptr \in LocalOf(t)
        BY <1>0, <1>1 DEF CallOk, LocalOf, InLocal, Call
      <3> QED
        BY <1>1, <1>3, <3>1 DEF CallOk, EmptyOk
    <2> QED
      BY <1>1, <1>3, <2>1, <2>2 DEF CallOk, EmptyOk, LocalOf, InLocal
  <1>4. CASE pc[t] = "key"
    <2>1. UNCHANGED <<pc, lost>>
      BY <1>4 DEF Refused
    <2> QED
      BY <1>1, <1>4, <2>1 DEF CallOk, EmptyOk, LocalOf, InLocal
  <1>5. CASE pc[t] = "data"
    <2>1. pc'[t] = "check"
      BY <1>0, <1>5 DEF Refused, Goes
    <2>2. local[t] = None => UNCHANGED lost
      BY <1>1, <1>5 DEF Refused, CallOk
    <2> QED
      BY <1>1, <1>5, <2>1, <2>2 DEF CallOk, EmptyOk, LocalOf, InLocal
  <1> QED
    BY <1>2, <1>3, <1>4, <1>5

LEMMA OwnLocal ==
  ASSUME TypeInv, CallInv, EmptyLocal, NEW t \in Thread, LocalRealloc(t)
  PROVE  CallOk(t)' /\ EmptyOk(t)'
  <1> DEFINE p == call[t].ptr
             n == call[t].size
  <1>0. /\ pc \in [Thread -> Where] /\ call \in [Thread -> Call \cup {None}]
        /\ at \in [Ptr -> Block \cup {None}] /\ local \in [Thread -> Int \cup {None}]
        /\ lost \in [Thread \cup {None} -> Nat]
    BY DEF TypeInv
  <1>1. /\ pc[t] = "local" /\ call[t] \in Call /\ call[t] # None /\ p \in Ptr /\ n \in Nat
        /\ local[t] \in Int /\ local[t] # None
        /\ UNCHANGED phase /\ CallOk(t) /\ phase[t] = "out"
    BY <1>0 DEF LocalRealloc, CallInv, CallOk, Call, Purpose
  <1>2. CASE LocalServes(t, p, n) /\ Goes(t, "check") /\ UNCHANGED <<call, lost>>
    <2>1. pc'[t] = "check"
      BY <1>0, <1>2 DEF Goes
    <2>2. \/ UNCHANGED at
          \/ at' = [at EXCEPT ![p] = None]
          \/ at' = [at EXCEPT ![p] = [in |-> "local", by |-> t, units |-> 0]]
      <3> HIDE DEF p, n
      <3> QED BY <1>2 DEF LocalServes
    <2>3. local'[t] # None
      <3>1. local[t] + 1 \in Int /\ local[t] - 1 \in Int
        BY <1>1
      <3> HIDE DEF p, n
      <3> QED BY <1>0, <1>1, <1>2, <3>1, NoneIs DEF LocalServes
    <2>4. at'[p] # None => at'[p].by = t
      BY <1>0, <1>1, <2>2 DEF CallOk
    <2> QED
      BY <1>1, <1>2, <2>1, <2>3, <2>4 DEF CallOk, EmptyOk
  <1>3. CASE LocalUnknown(t, p, n) /\ Goes(t, "data")
    <2>1. pc'[t] = "data" /\ UNCHANGED <<at, call>> /\ InGlobal(p)
      BY <1>0, <1>3 DEF Goes, LocalUnknown
    <2>2. local'[t] # None
      <3>1. local[t] + 1 \in Int
        BY <1>1
      <3> HIDE DEF p, n
      <3> QED BY <1>0, <1>1, <1>3, <3>1, NoneIs DEF LocalUnknown
    <2>3. ~InLocal(p)'
      BY <2>1 DEF InLocal, InGlobal
    <2>4. ~call[t].copies
      BY <1>1 DEF CallOk
    <2> QED
      BY <1>1, <2>1, <2>2, <2>3, <2>4 DEF CallOk, EmptyOk, Purpose
  <1>4. CASE LocalFails(t, p, n) /\ Goes(t, "data")
    <2>1. /\ pc'[t] = "data" /\ UNCHANGED local /\ at'[p] = None
          /\ call' = [call EXCEPT ![t].copies = InLocal(p)]
      BY <1>0, <1>1, <1>4 DEF Goes, LocalFails
    <2>2. call'[t] # None /\ call'[t].ptr = p
      <3>1. InLocal(p) \in BOOLEAN
        BY DEF InLocal
      <3>2. [call[t] EXCEPT !.copies = InLocal(p)] \in Call
        BY <1>1, <3>1 DEF Call
      <3>3. call'[t] = [call[t] EXCEPT !.copies = InLocal(p)]
        BY <1>0, <2>1
      <3>4. [call[t] EXCEPT !.copies = InLocal(p)].ptr = p
        BY <1>1 DEF Call
      <3> QED
        BY <3>2, <3>3, <3>4, NoneIs
    <2>3. \A u \in Thread \ {t} : call'[u] = call[u]
      BY <1>0, <2>1
    <2> HIDE DEF p, n
    <2> QED
      BY <1>1, <2>1, <2>2, <2>3 DEF CallOk, EmptyOk, InLocal, Purpose, p
  <1> QED
    BY <1>2, <1>3, <1>4 DEF LocalRealloc

LEMMA OwnOther ==
  ASSUME TypeInv, CallInv, EmptyLocal, NEW t \in Thread, StepBy(t), ~LocalRealloc(t), ~lub_heap_realloc(t)
  PROVE  CallOk(t)' /\ EmptyOk(t)'
  <1>0. /\ pc \in [Thread -> Where] /\ call \in [Thread -> Call \cup {None}]
        /\ phase \in [Thread -> {"out", "in", "extend", "again"}] /\ CallOk(t) /\ EmptyOk(t)
    BY DEF TypeInv, CallInv, EmptyLocal
  <1>1. ASSUME NEW p \in Ptr, NEW n \in Size, lub_partition_realloc(t, p, n)
        PROVE  CallOk(t)' /\ EmptyOk(t)'
    <2> DEFINE c == [ptr |-> p, size |-> IF m_dying THEN 0 ELSE n, copies |-> FALSE]
    <2>1. c # None
      <3>1. c \in Call
        BY ConstantsAre DEF Call
      <3> QED
        BY <3>1, NoneIs
    <2>2. /\ pc[t] = "idle" /\ UNCHANGED <<at, local, lost, phase>> /\ call'[t] = c
          /\ (at[p] # None => at[p].by = t)
          /\ \A u \in Thread \ {t} : call'[u] = call[u] /\ (call[u] # None => call[u].ptr # p)
          /\ pc'[t] = IF local[t] # None THEN "local" ELSE IF m_dying THEN "data" ELSE "create"
      BY <1>0, <1>1 DEF lub_partition_realloc, Goes, Pointer
    <2>3. c.ptr = p /\ c.copies = FALSE
      OBVIOUS
    <2> HIDE DEF c
    <2>4. local[t] = None => ~InLocal(p)
      BY <1>0, <2>2 DEF EmptyOk, LocalOf, InLocal
    <2>5. EmptyOk(t)'
      BY <1>0, <2>2 DEF EmptyOk, LocalOf, InLocal
    <2>6. CallOk(t)'
      BY <1>0, <2>1, <2>2, <2>3, <2>4 DEF CallOk, InLocal, Purpose
    <2> QED
      BY <2>5, <2>6
  <1>2. CASE Return(t)
    BY <1>0, <1>2 DEF Return, lub_partition_time_to_die, Goes, CallOk, EmptyOk, LocalOf, InLocal, Purpose
  <1>3. CASE lub_partition_kill(t)
    BY <1>0, <1>3 DEF lub_partition_kill, lub_partition_time_to_die, Goes, CallOk, EmptyOk, Purpose
  <1>4. CASE lub_posix_partition_destroy_key(t)
    BY <1>0, <1>4 DEF lub_posix_partition_destroy_key, Goes, CallOk, EmptyOk, LocalOf, InLocal, Purpose
  <1>5. CASE lub_partition_lock(t) \/ CreateGlobal(t) \/ lub_partition_extend_memory(t) \/ lub_partition_destroy(t)
    <2>1. UNCHANGED <<pc, call, at, local, lost>> /\ (pc[t] \in Purpose \/ phase' = phase)
      BY <1>0, <1>5 DEF lub_partition_lock, CreateGlobal, lub_partition_extend_memory, lub_partition_destroy, CallOk
    <2> QED
      BY <1>0, <2>1 DEF CallOk, EmptyOk, LocalOf, InLocal
  <1> QED
    BY <1>1, <1>2, <1>3, <1>4, <1>5 DEF StepBy, Step, Lock, Client

LEMMA CallStep ==
  TypeInv /\ CallInv /\ EmptyLocal /\ [Next]_vars => CallInv' /\ EmptyLocal'
  <1> SUFFICES ASSUME TypeInv, CallInv, EmptyLocal, [Next]_vars PROVE CallInv' /\ EmptyLocal'
    OBVIOUS
  <1>1. ASSUME NEW t \in Thread, StepBy(t) PROVE CallInv' /\ EmptyLocal'
    <2>1. CallOk(t)' /\ EmptyOk(t)'
      BY <1>1, OwnLocal, OwnServed, OwnRefused, OwnOther DEF lub_heap_realloc
    <2>2. \A u \in Thread \ {t} : CallOk(u)' /\ EmptyOk(u)'
      BY <1>1, <2>1, CallLeft, EmptyLeft
    <2> QED
      BY <2>1, <2>2 DEF CallInv, EmptyLocal
  <1>2. CASE UNCHANGED vars
    BY <1>2 DEF vars, CallInv, CallOk, EmptyLocal, EmptyOk, LocalOf, InLocal
  <1> QED
    BY <1>1, <1>2 DEF Next, StepBy

-----------------------------------------------------------------------------
(* The caches. *)
LEMMA LocalOfFinite ==
  ASSUME NEW t \in Thread
  PROVE  IsFiniteSet(LocalOf(t)) /\ Cardinality(LocalOf(t)) \in Nat
  <1>1. LocalOf(t) \in SUBSET Ptr /\ IsFiniteSet(Ptr)
    BY PartitionAssumption DEF LocalOf
  <1>2. IsFiniteSet(LocalOf(t))
    BY <1>1, FS_Subset
  <1> QED
    BY <1>2, FS_CardinalityType

(* CacheExact, of one thread. *)
CacheOk(t) ==
  local[t] # None =>
    local[t] = Cardinality(LocalOf(t)) + lost[t] + (IF Copies(t) THEN 1 ELSE 0)

LEMMA CacheServed ==
  ASSUME TypeInv, CallInv, EmptyLocal, NEW t \in Thread, CacheOk(t), lub_heap_realloc(t), Served(t)
  PROVE  CacheOk(t)'
  <1>0. /\ pc \in [Thread -> Where] /\ local \in [Thread -> Int \cup {None}] /\ UNCHANGED call
        /\ at \in [Ptr -> Block \cup {None}] /\ lost \in [Thread \cup {None} -> Nat]
        /\ CallOk(t) /\ EmptyOk(t) /\ pc[t] \in Purpose
    BY DEF TypeInv, CallInv, CallOk, EmptyLocal, lub_heap_realloc
  <1>1. CASE pc[t] = "data"
    <2> DEFINE p == call[t].ptr
    <2>1. call[t] \in Call /\ p \in Ptr /\ call[t] # None /\ ~InLocal(p)
      BY <1>0, <1>1 DEF TypeInv, CallOk, Call
    <2>2. /\ pc'[t] = "check" /\ UNCHANGED lost
          /\ at' = [at EXCEPT ![p] = None] \/
             at' = [at EXCEPT ![p] = [in |-> "global", by |-> t, units |-> call[t].size]]
          /\ local' = IF call[t].copies THEN [local EXCEPT ![t] = @ - 1] ELSE local
      BY <1>0, <1>1 DEF Served, DataServed, Goes, Copied
    <2>3. LocalOf(t)' = LocalOf(t)
      <3> SUFFICES ASSUME NEW q \in Ptr
                   PROVE  (InLocal(q) /\ at[q].by = t)' <=> (InLocal(q) /\ at[q].by = t)
        BY DEF LocalOf
      <3>1. CASE q = p
        <4>1. at'[q] # None => at'[q].in = "global"
          BY <1>0, <2>2, <3>1
        <4> QED
          BY <2>1, <3>1, <4>1 DEF InLocal
      <3>2. CASE q # p
        BY <1>0, <2>2, <3>2 DEF InLocal
      <3> QED
        BY <3>1, <3>2
    <2>4. CASE call[t].copies
      <3>1. local[t] \in Int /\ local[t] # None /\ local'[t] = local[t] - 1
        BY <1>0, <1>1, <2>1, <2>2, <2>4 DEF CallOk
      <3>2. Copies(t) /\ ~Copies(t)'
        BY <1>1, <2>1, <2>2, <2>4 DEF Copies
      <3> QED
        BY <1>0, <2>2, <2>3, <3>1, <3>2, LocalOfFinite DEF CacheOk
    <2>5. CASE ~call[t].copies
      BY <1>0, <2>2, <2>3, <2>5 DEF CacheOk, Copies
    <2> QED
      BY <2>4, <2>5
  <1>2. CASE pc[t] \in {"create", "exit_key"}
    <2>1. UNCHANGED <<at, local, lost>> /\ pc'[t] # "data"
      BY <1>0, <1>2 DEF Served, Goes
    <2> QED
      BY <1>0, <1>2, <2>1 DEF CacheOk, Copies, LocalOf, InLocal
  <1>3. CASE pc[t] = "key"
    <2>1. local'[t] = 0 /\ UNCHANGED <<at, lost>> /\ pc'[t] = "local"
      BY <1>0, <1>3 DEF Served, Goes
    <2>2. LocalOf(t)' = {} /\ lost'[t] = 0 /\ ~Copies(t)'
      BY <1>0, <1>3, <2>1 DEF EmptyOk, CallOk, LocalOf, InLocal, Copies
    <2> QED
      BY <2>1, <2>2, FS_EmptySet DEF CacheOk
  <1>4. CASE pc[t] \in {"fini", "exit"}
    <2>1. local'[t] = None
      BY <1>0, <1>4 DEF Served, LocalGone
    <2> QED
      BY <2>1 DEF CacheOk
  <1> QED
    BY <1>0, <1>1, <1>2, <1>3, <1>4 DEF Purpose

LEMMA CacheRefused ==
  ASSUME TypeInv, CallInv, NEW t \in Thread, CacheOk(t), lub_heap_realloc(t), Refused(t), Need(t) > global
  PROVE  CacheOk(t)'
  <1>0. /\ pc \in [Thread -> Where] /\ local \in [Thread -> Int \cup {None}] /\ UNCHANGED <<call, at, local>>
        /\ lost \in [Thread \cup {None} -> Nat] /\ CallOk(t) /\ pc[t] \in Purpose /\ global \in Nat
        /\ LocalOf(t)' = LocalOf(t)
    BY DEF TypeInv, CallInv, CallOk, lub_heap_realloc, Refused, LocalOf, InLocal
  <1>1. pc[t] \in {"create", "key", "data"}
    BY <1>0, NeedType
  <1>2. CASE pc[t] = "create" \/ pc[t] = "key"
    <2>1. UNCHANGED lost
      BY <1>0, <1>2 DEF Refused
    <2>2. ~call[t].copies /\ call[t] # None
      BY <1>0, <1>2 DEF CallOk
    <2> QED
      BY <1>0, <2>1, <2>2 DEF CacheOk, Copies
  <1>3. CASE pc[t] = "data"
    <2>1. pc'[t] = "check"
      BY <1>0, <1>3 DEF Refused, Goes
    <2>2. CASE call[t].copies
      <3>1. lost'[t] = lost[t] + 1
        BY <1>0, <1>3, <2>2 DEF Refused, Loses
      <3>2. local[t] \in Int /\ local[t] # None /\ Copies(t) /\ ~Copies(t)'
        BY <1>0, <1>3, <2>1, <2>2 DEF CallOk, Copies
      <3> QED
        BY <1>0, <3>1, <3>2, LocalOfFinite DEF CacheOk
    <2>3. CASE ~call[t].copies
      BY <1>0, <1>3, <2>3 DEF Refused, CacheOk, Copies
    <2> QED
      BY <2>2, <2>3
  <1> QED
    BY <1>1, <1>2, <1>3

LEMMA CacheLocal ==
  ASSUME TypeInv, CallInv, NEW t \in Thread, CacheOk(t), LocalRealloc(t)
  PROVE  CacheOk(t)'
  <1> DEFINE p == call[t].ptr
             n == call[t].size
  <1>0. /\ pc \in [Thread -> Where] /\ local \in [Thread -> Int \cup {None}]
        /\ call \in [Thread -> Call \cup {None}] /\ LocalOf(t) \in SUBSET Ptr
        /\ at \in [Ptr -> Block \cup {None}] /\ lost \in [Thread \cup {None} -> Nat] /\ CallOk(t)
    BY DEF TypeInv, CallInv, LocalOf
  <1>1. /\ pc[t] = "local" /\ call[t] \in Call /\ call[t] # None /\ p \in Ptr
        /\ local[t] \in Int /\ local[t] # None /\ ~Copies(t)
        /\ (at[p] # None => at[p].by = t)
    BY <1>0 DEF LocalRealloc, CallOk, Call, Copies
  <1>2. local[t] = Cardinality(LocalOf(t)) + lost[t] /\ Cardinality(LocalOf(t)) \in Nat
        /\ IsFiniteSet(LocalOf(t)) /\ lost[t] \in Nat
    BY <1>0, <1>1, LocalOfFinite DEF CacheOk
  <1>3. p \in LocalOf(t) <=> InLocal(p)
    BY <1>1 DEF LocalOf, InLocal
  <1>4. ASSUME at' = [at EXCEPT ![p] = None] PROVE LocalOf(t)' = LocalOf(t) \ {p}
    BY <1>0, <1>1, <1>4 DEF LocalOf, InLocal
  <1>5. ASSUME at' = [at EXCEPT ![p] = [in |-> "local", by |-> t, units |-> 0]]
        PROVE  LocalOf(t)' = LocalOf(t) \cup {p}
    <2> DEFINE b == [in |-> "local", by |-> t, units |-> 0]
    <2>1. b # None
      <3>1. b \in Block
        BY DEF Block
      <3> QED
        BY <3>1, NoneIs
    <2>2. b.in = "local" /\ b.by = t
      OBVIOUS
    <2> HIDE DEF b
    <2>3. \A q \in Ptr : at'[q] = IF q = p THEN b ELSE at[q]
      BY <1>0, <1>5 DEF b
    <2>4. \A q \in Ptr : (InLocal(q) /\ at[q].by = t)' <=> (InLocal(q) /\ at[q].by = t) \/ q = p
      <3> SUFFICES ASSUME NEW q \in Ptr
                   PROVE  (InLocal(q) /\ at[q].by = t)' <=> (InLocal(q) /\ at[q].by = t) \/ q = p
        OBVIOUS
      <3>1. CASE q = p
        BY <2>1, <2>2, <2>3, <3>1 DEF InLocal
      <3>2. CASE q # p
        BY <2>3, <3>2 DEF InLocal
      <3> QED
        BY <3>1, <3>2
    <2>5. LocalOf(t)' = {q \in Ptr : (InLocal(q) /\ at[q].by = t)'}
      BY DEF LocalOf
    <2>6. LocalOf(t)' = {q \in Ptr : (InLocal(q) /\ at[q].by = t) \/ q = p}
      BY <2>4, <2>5
    <2> QED
      BY <1>1, <2>6 DEF LocalOf
  <1>6. CASE LocalServes(t, p, n) /\ Goes(t, "check") /\ UNCHANGED <<call, lost>>
    <2>1. ~Copies(t)'
      BY <1>0, <1>6 DEF Goes, Copies
    <2>2. CASE UNCHANGED <<at, local>>
      BY <1>1, <1>2, <1>6, <2>1, <2>2 DEF CacheOk, LocalOf, InLocal
    <2>3. CASE InLocal(p) /\ at' = [at EXCEPT ![p] = None] /\ local' = [local EXCEPT ![t] = @ - 1]
      <3>1. Cardinality(LocalOf(t) \ {p}) = Cardinality(LocalOf(t)) - 1
        BY <1>2, <1>3, <2>3, FS_RemoveElement
      <3>2. local'[t] = local[t] - 1
        BY <1>0, <2>3
      <3>3. LocalOf(t)' = LocalOf(t) \ {p}
        BY <1>4, <2>3
      <3>4. lost'[t] = lost[t]
        BY <1>6
      <3> HIDE DEF p, n
      <3> QED
        BY <1>1, <1>2, <2>1, <3>1, <3>2, <3>3, <3>4 DEF CacheOk
    <2>4. CASE at[p] = None /\ at' = [at EXCEPT ![p] = [in |-> "local", by |-> t, units |-> 0]]
               /\ local' = [local EXCEPT ![t] = @ + 1]
      <3>1. p \notin LocalOf(t)
        BY <1>3, <2>4 DEF InLocal
      <3>2. Cardinality(LocalOf(t) \cup {p}) = Cardinality(LocalOf(t)) + 1
        BY <1>2, <3>1, FS_AddElement
      <3>3. local'[t] = local[t] + 1
        BY <1>0, <2>4
      <3>4. LocalOf(t)' = LocalOf(t) \cup {p}
        BY <1>5, <2>4
      <3> QED
        BY <1>2, <1>6, <2>1, <3>2, <3>3, <3>4 DEF CacheOk
    <2> HIDE DEF p, n
    <2> QED
      BY <1>6, <2>2, <2>3, <2>4 DEF LocalServes
  <1>7. CASE LocalUnknown(t, p, n) /\ Goes(t, "data")
    <2>1. UNCHANGED <<at, call>> /\ ~Copies(t)'
      BY <1>1, <1>0, <1>7 DEF LocalUnknown, CallOk, Copies
    <2>2. LocalOf(t)' = LocalOf(t)
      BY <2>1 DEF LocalOf, InLocal
    <2>3. \/ UNCHANGED <<local, lost>>
          \/ local'[t] = local[t] + 1 /\ lost'[t] = lost[t] + 1
      <3> HIDE DEF p, n
      <3> QED BY <1>0, <1>7 DEF LocalUnknown, Loses
    <2> QED
      BY <1>1, <1>2, <2>1, <2>2, <2>3 DEF CacheOk
  <1>8. CASE LocalFails(t, p, n) /\ Goes(t, "data")
    <2>1. /\ pc'[t] = "data" /\ UNCHANGED <<local, lost>> /\ at' = [at EXCEPT ![p] = None]
          /\ call' = [call EXCEPT ![t].copies = InLocal(p)]
      BY <1>0, <1>8 DEF Goes, LocalFails
    <2>2. Copies(t)' <=> InLocal(p)
      <3>1. InLocal(p) \in BOOLEAN
        BY DEF InLocal
      <3>2. call'[t] = [call[t] EXCEPT !.copies = InLocal(p)]
        BY <1>0, <2>1
      <3>3. [call[t] EXCEPT !.copies = InLocal(p)] \in Call
        BY <1>1, <3>1 DEF Call
      <3>4. [call[t] EXCEPT !.copies = InLocal(p)].copies = InLocal(p)
        BY <1>1, <3>1 DEF Call
      <3>5. call'[t] # None /\ call'[t].copies = InLocal(p)
        BY <3>2, <3>3, <3>4, NoneIs
      <3> QED
        BY <2>1, <3>5 DEF Copies
    <2>3. LocalOf(t)' = LocalOf(t) \ {p}
      BY <1>4, <2>1
    <2>4. Cardinality(LocalOf(t) \ {p}) = IF InLocal(p) THEN Cardinality(LocalOf(t)) - 1 ELSE Cardinality(LocalOf(t))
      BY <1>2, <1>3, FS_RemoveElement
    <2> HIDE DEF p, n
    <2>5. local'[t] = local[t] /\ lost'[t] = lost[t]
      BY <2>1
    <2>6. CASE InLocal(p)
      BY <1>2, <2>2, <2>3, <2>4, <2>5, <2>6 DEF CacheOk
    <2>7. CASE ~InLocal(p)
      BY <1>2, <2>2, <2>3, <2>4, <2>5, <2>7 DEF CacheOk
    <2> QED
      BY <2>6, <2>7
  <1> QED
    BY <1>6, <1>7, <1>8 DEF LocalRealloc

LEMMA CacheOther ==
  ASSUME TypeInv, CallInv, NEW t \in Thread, CacheOk(t), StepBy(t), ~LocalRealloc(t), ~lub_heap_realloc(t)
  PROVE  CacheOk(t)'
  <1>0. pc \in [Thread -> Where] /\ call \in [Thread -> Call \cup {None}] /\ CallOk(t)
    BY DEF TypeInv, CallInv
  <1>1. UNCHANGED <<at, local, lost>>
    BY DEF StepBy, Step, Lock, Client, lub_partition_realloc, Return, lub_partition_kill,
           lub_posix_partition_destroy_key, lub_partition_lock, CreateGlobal,
           lub_partition_extend_memory, lub_partition_destroy
  <1>2. Copies(t)' <=> Copies(t)
    <2>1. ASSUME NEW p \in Ptr, NEW n \in Size, lub_partition_realloc(t, p, n)
          PROVE  ~Copies(t) /\ ~Copies(t)'
      <3>1. pc[t] = "idle" /\ call'[t] = [ptr |-> p, size |-> IF m_dying THEN 0 ELSE n, copies |-> FALSE]
        BY <1>0, <2>1 DEF lub_partition_realloc
      <3> QED
        BY <3>1 DEF Copies
    <2>2. CASE Return(t)
      BY <1>0, <2>2 DEF Return, Copies
    <2>3. CASE lub_partition_kill(t) \/ lub_posix_partition_destroy_key(t)
      BY <1>0, <2>3 DEF lub_partition_kill, lub_posix_partition_destroy_key, Copies, CallOk
    <2>4. CASE UNCHANGED <<pc, call>>
      BY <2>4 DEF Copies
    <2> QED
      BY <2>1, <2>2, <2>3, <2>4
      DEF StepBy, Step, Lock, Client, lub_partition_lock, CreateGlobal, lub_partition_extend_memory,
          lub_partition_destroy
  <1> QED
    BY <1>1, <1>2 DEF CacheOk, LocalOf, InLocal

LEMMA CacheStep ==
  TypeInv /\ CallInv /\ EmptyLocal /\ CacheExact /\ [Next]_vars => CacheExact'
  <1> SUFFICES ASSUME TypeInv, CallInv, EmptyLocal, CacheExact, [Next]_vars PROVE CacheExact'
    OBVIOUS
  <1>1. CacheExact = \A t \in Thread : CacheOk(t)
    BY DEF CacheExact, CacheOk
  <1>2. ASSUME NEW t \in Thread, StepBy(t) PROVE \A u \in Thread : CacheOk(u)'
    <2>1. CacheOk(t)'
      BY <1>1, <1>2, CacheServed, CacheRefused, CacheLocal, CacheOther DEF lub_heap_realloc
    <2>2. ASSUME NEW u \in Thread \ {t} PROVE CacheOk(u)'
      <3>1. CacheOk(u) /\ local'[u] = local[u] /\ lost'[u] = lost[u] /\ LocalOf(u)' = LocalOf(u)
            /\ call'[u] = call[u] /\ pc'[u] = pc[u]
        BY <1>1, <1>2, OthersLeft, LocalOfLeft
      <3> QED
        BY <3>1 DEF CacheOk, Copies
    <2> QED
      BY <2>1, <2>2
  <1>3. CASE UNCHANGED vars
    BY <1>3 DEF vars, CacheExact, Copies, LocalOf, InLocal
  <1>4. (\A u \in Thread : CacheOk(u)') => CacheExact'
    BY DEF CacheExact, CacheOk
  <1> QED
    BY <1>2, <1>3, <1>4 DEF Next, StepBy

-----------------------------------------------------------------------------
(* The units of the clients' blocks: a change at one pointer adds the difference. *)
UnitsOf(f) == UNION {{p} \X (1 .. f[p]) : p \in Ptr}

LEMMA UnitsChange ==
  ASSUME NEW f \in [Ptr -> Nat], NEW g \in [Ptr -> Nat], IsFiniteSet(UnitsOf(f)),
         NEW p \in Ptr, \A q \in Ptr \ {p} : g[q] = f[q]
  PROVE  /\ IsFiniteSet(UnitsOf(g))
         /\ Cardinality(UnitsOf(g)) = Cardinality(UnitsOf(f)) + g[p] - f[p]
  <1> DEFINE Old == {p} \X (1 .. f[p])
             New == {p} \X (1 .. g[p])
             Rest == UnitsOf(f) \ Old
  <1>1. /\ IsFiniteSet(Old) /\ Cardinality(Old) = f[p]
        /\ IsFiniteSet(New) /\ Cardinality(New) = g[p]
    <2>1. ASSUME NEW n \in Nat
          PROVE  IsFiniteSet({p} \X (1 .. n)) /\ Cardinality({p} \X (1 .. n)) = n
      <3>1. IsFiniteSet({p}) /\ Cardinality({p}) = 1
        BY FS_Singleton
      <3>2. IsFiniteSet(1 .. n) /\ Cardinality(1 .. n) = n
        <4>1. IsFiniteSet(1 .. n) /\ Cardinality(1 .. n) = IF 1 > n THEN 0 ELSE n - 1 + 1
          BY FS_Interval, n \in Int, 1 \in Int
        <4> QED
          BY <4>1
      <3>3. IsFiniteSet({p} \X (1 .. n)) /\ Cardinality({p} \X (1 .. n)) = Cardinality({p}) * Cardinality(1 .. n)
        BY <3>1, <3>2, FS_Product
      <3> QED
        BY <3>1, <3>2, <3>3
    <2> QED
      BY <2>1
  <1>2. UnitsOf(f) \cap Old = Old /\ Rest \cap New = {}
    BY DEF UnitsOf
  <1>3. UnitsOf(g) = Rest \cup New
    BY DEF UnitsOf
  <1> HIDE DEF Old, New
  <1>4. IsFiniteSet(Rest) /\ Cardinality(Rest) = Cardinality(UnitsOf(f)) - Cardinality(Old)
    BY ZenonT(30), <1>2, FS_Difference
  <1>5. Cardinality(UnitsOf(f)) \in Nat
    BY FS_CardinalityType
  <1> HIDE DEF Rest
  <1>6. /\ IsFiniteSet(Rest \cup New)
        /\ Cardinality(Rest \cup New) = Cardinality(Rest) + Cardinality(New) - Cardinality(Rest \cap New)
    BY <1>1, <1>4, FS_Union
  <1>7. Cardinality(Rest \cap New) = 0
    BY <1>2, FS_EmptySet
  <1> QED
    BY <1>1, <1>3, <1>4, <1>5, <1>6, <1>7

(* Before there is a global heap, nothing has been given to anyone. *)
Virgin ==
  global = None =>
    /\ \A t \in Thread : /\ local[t] = None /\ phase[t] \in {"out", "in"}
                         /\ pc[t] \notin {"key", "local", "fini", "exit", "exit_key"}
    /\ \A p \in Ptr : at[p] = None
    /\ segs = Ceiling /\ lost[None] = 0

LEMMA VirginStep == TypeInv /\ CallInv /\ Virgin /\ [Next]_vars => Virgin'
  <1> SUFFICES ASSUME TypeInv, CallInv, Virgin, [Next]_vars PROVE Virgin'
    OBVIOUS
  <1>0. /\ pc \in [Thread -> Where] /\ phase \in [Thread -> {"out", "in", "extend", "again"}]
        /\ call \in [Thread -> Call \cup {None}] /\ at \in [Ptr -> Block \cup {None}]
        /\ local \in [Thread -> Int \cup {None}] /\ lost \in [Thread \cup {None} -> Nat]
        /\ global \in Nat \cup {None}
    BY DEF TypeInv
  <1>1. ASSUME NEW t \in Thread, NEW p \in Ptr, NEW n \in Size, lub_partition_realloc(t, p, n)
        PROVE  Virgin'
    BY <1>0, <1>1 DEF lub_partition_realloc, Goes, Virgin
  <1>2. ASSUME NEW t \in Thread, LocalRealloc(t) PROVE Virgin'
    <2>1. global # None /\ UNCHANGED global
      BY <1>2 DEF LocalRealloc, Virgin
    <2> QED
      BY <2>1 DEF Virgin
  <1>3. ASSUME NEW t \in Thread, Return(t) \/ lub_partition_kill(t) \/ lub_posix_partition_destroy_key(t)
        PROVE  Virgin'
    BY <1>0, <1>3
    DEF Return, lub_partition_kill, lub_posix_partition_destroy_key, lub_partition_time_to_die, Goes, Virgin
  <1>4. ASSUME NEW t \in Thread, lub_partition_lock(t) \/ lub_partition_destroy(t) PROVE Virgin'
    BY <1>0, <1>4 DEF lub_partition_lock, lub_partition_destroy, Virgin
  <1>5. ASSUME NEW t \in Thread, CreateGlobal(t) PROVE Virgin'
    <2>1. global' # None \/ UNCHANGED <<global, segs>>
      BY <1>5, ConstantsAre, NoneIs DEF CreateGlobal
    <2> QED
      BY <1>5, <2>1 DEF CreateGlobal, Virgin
  <1>6. ASSUME NEW t \in Thread, lub_heap_realloc(t) PROVE Virgin'
    <2>1. global' # None
      <3>1. pc[t] \in Purpose /\ global \in Nat
        BY <1>0, <1>6 DEF lub_heap_realloc, CallInv, CallOk
      <3>2. Need(t) \in Int
        BY <3>1, NeedType
      <3>3. global' \in Int
        BY <1>6, <3>1, <3>2 DEF lub_heap_realloc
      <3> QED
        BY <3>3, NoneIs
    <2> QED
      BY <2>1 DEF Virgin
  <1>7. ASSUME NEW t \in Thread, lub_partition_extend_memory(t) PROVE Virgin'
    <2>1. global' # None
      <3>1. global \in Nat /\ global # None
        BY <1>0, <1>7 DEF lub_partition_extend_memory
      <3>2. global' \in Int
        BY <1>7, <3>1, ConstantsAre DEF lub_partition_extend_memory
      <3> QED
        BY <3>2, NoneIs
    <2> QED
      BY <2>1 DEF Virgin
  <1>8. CASE UNCHANGED vars
    BY <1>8 DEF vars, Virgin
  <1> QED
    BY <1>1, <1>2, <1>3, <1>4, <1>5, <1>6, <1>7, <1>8 DEF Next, Step, Lock, Client

-----------------------------------------------------------------------------
(* The threads that hold a heap or a key: a step changes the counts by one at most. *)
OneIf(b) == IF b THEN 1 ELSE 0

LEMMA CountChange ==
  ASSUME NEW S, NEW T, NEW t, IsFiniteSet(S), \A u : u # t => (u \in S <=> u \in T)
  PROVE  /\ IsFiniteSet(T)
         /\ Cardinality(T) = Cardinality(S) + OneIf(t \in T) - OneIf(t \in S)
  <1>1. Cardinality(S) \in Nat
    BY FS_CardinalityType
  <1>2. CASE t \in T
    <2>1. T = S \cup {t}
      BY <1>2
    <2> QED
      BY <1>1, <1>2, <2>1, FS_AddElement DEF OneIf
  <1>3. CASE t \notin T
    <2>1. T = S \ {t}
      BY <1>3
    <2> QED
      BY <1>1, <1>3, <2>1, FS_RemoveElement DEF OneIf
  <1> QED
    BY <1>2, <1>3

LEMMA HoldersFinite ==
  /\ IsFiniteSet(HeapHolders) /\ IsFiniteSet(KeyHolders) /\ IsFiniteSet(Adding)
  /\ Cardinality(HeapHolders) \in Nat /\ Cardinality(KeyHolders) \in Nat /\ Cardinality(Adding) \in Nat
  <1>1. /\ HeapHolders \in SUBSET Thread /\ KeyHolders \in SUBSET Thread /\ Adding \in SUBSET Thread
        /\ IsFiniteSet(Thread)
    BY PartitionAssumption DEF HeapHolders, KeyHolders, Adding
  <1>2. IsFiniteSet(HeapHolders) /\ IsFiniteSet(KeyHolders) /\ IsFiniteSet(Adding)
    BY <1>1, FS_Subset
  <1> QED
    BY <1>2, FS_CardinalityType

LEMMA HoldersChange ==
  ASSUME TypeInv, CallInv, NEW t \in Thread, StepBy(t)
  PROVE  /\ Cardinality(HeapHolders)' = Cardinality(HeapHolders)
              + OneIf(local'[t] # None \/ pc'[t] = "key") - OneIf(local[t] # None \/ pc[t] = "key")
         /\ Cardinality(KeyHolders)' = Cardinality(KeyHolders)
              + OneIf(local'[t] # None) - OneIf(local[t] # None)
         /\ Cardinality(Adding)' = Cardinality(Adding)
              + OneIf(phase'[t] = "extend") - OneIf(phase[t] = "extend")
  <1>1. \A u \in Thread \ {t} : pc'[u] = pc[u] /\ phase'[u] = phase[u] /\ local'[u] = local[u]
    BY OthersLeft
  <1>2. Cardinality(HeapHolders') = Cardinality(HeapHolders) + OneIf(t \in HeapHolders') - OneIf(t \in HeapHolders)
    <2>1. \A u : u # t => (u \in HeapHolders <=> u \in HeapHolders')
      BY <1>1 DEF HeapHolders
    <2> QED
      BY <2>1, HoldersFinite, CountChange
  <1>3. Cardinality(KeyHolders') = Cardinality(KeyHolders) + OneIf(t \in KeyHolders') - OneIf(t \in KeyHolders)
    <2>1. \A u : u # t => (u \in KeyHolders <=> u \in KeyHolders')
      BY <1>1 DEF KeyHolders
    <2> QED
      BY <2>1, HoldersFinite, CountChange
  <1>4. Cardinality(Adding') = Cardinality(Adding) + OneIf(t \in Adding') - OneIf(t \in Adding)
    <2>1. \A u : u # t => (u \in Adding <=> u \in Adding')
      BY <1>1 DEF Adding
    <2> QED
      BY <2>1, HoldersFinite, CountChange
  <1> QED
    BY <1>2, <1>3, <1>4 DEF HeapHolders, KeyHolders, Adding, OneIf

UnitsAt == [p \in Ptr |-> Units(p)]

LEMMA ClientUnitsAre ==
  ASSUME TypeInv
  PROVE  ClientUnits = UnitsOf(UnitsAt) /\ UnitsAt \in [Ptr -> Nat]
  BY DEF TypeInv, ClientUnits, UnitsOf, UnitsAt, Units, InGlobal, Block

LEMMA UnitsSame ==
  ASSUME \A p \in Ptr : Units(p)' = Units(p)
  PROVE  ClientUnits' = ClientUnits
  BY DEF ClientUnits

Times == \A a, b \in Int : a * (b + 1) = a * b + a /\ a * (b - 1) = a * b - a

LEMMA TimesHolds == Times
  BY DEF Times

-----------------------------------------------------------------------------
(* The global heap. *)
HeapInv == IsFiniteSet(ClientUnits) /\ HeapExact

LEMMA HeapServed ==
  ASSUME TypeInv, TypeInv', CallInv, HeapInv, NEW t \in Thread, StepBy(t), lub_heap_realloc(t),
         global' = global - Need(t), Served(t)
  PROVE  HeapInv'
  <1> DEFINE H == Cardinality(HeapHolders)
             K == Cardinality(KeyHolders)
             A == Cardinality(Adding)
             C == Cardinality(ClientUnits)
  <1>0. /\ pc \in [Thread -> Where] /\ phase \in [Thread -> {"out", "in", "extend", "again"}]
        /\ call \in [Thread -> Call \cup {None}] /\ at \in [Ptr -> Block \cup {None}]
        /\ local \in [Thread -> Int \cup {None}] /\ lost \in [Thread \cup {None} -> Nat]
        /\ global \in Nat /\ global # None /\ segs' = segs /\ call' = call /\ segs \in Nat
        /\ CallOk(t) /\ pc[t] \in Purpose /\ global' # None
    BY NoneIs DEF TypeInv, CallInv, CallOk, lub_heap_realloc
  <1>1. H \in Nat /\ K \in Nat /\ A \in Nat /\ C \in Nat
    BY HoldersFinite, FS_CardinalityType DEF HeapInv
  <1>2. A' = A
    BY <1>0, <1>1, HoldersChange DEF lub_heap_realloc, Leaves, OneIf
  <1>3. global + LocalUnits * H + K + C + lost[None] = SegUnits * (Ceiling - segs - A)
    BY <1>0 DEF HeapInv, HeapExact
  <1>4. LocalUnits * (H + 1) = LocalUnits * H + LocalUnits /\ LocalUnits * (H - 1) = LocalUnits * H - LocalUnits
    BY <1>1, ConstantsAre, TimesHolds DEF Times
  <1>5. LocalUnits \in Nat /\ LocalUnits * H \in Nat
    BY <1>1, ConstantsAre
  <1>6. SUFFICES IsFiniteSet(ClientUnits)' /\ global' + LocalUnits * H' + K' + C' + lost'[None] = SegUnits * (Ceiling - segs - A)
    BY <1>0, <1>2 DEF HeapInv, HeapExact
  <1>7. CASE pc[t] = "create"
    <2>1. UNCHANGED <<at, local, lost>> /\ pc'[t] = "key" /\ global' = global - LocalUnits /\ local[t] = None
      BY <1>0, <1>7 DEF Served, Goes, Need, CallOk
    <2>2. H' = H + 1 /\ K' = K
      BY <1>1, <1>7, <2>1, HoldersChange DEF OneIf
    <2>3. ClientUnits' = ClientUnits
      BY <2>1, UnitsSame DEF Units, InGlobal
    <2> HIDE DEF H, K, A
    <2> QED
      BY <1>0, <1>1, <1>3, <1>4, <1>5, <2>1, <2>2, <2>3 DEF HeapInv
  <1>8. CASE pc[t] = "key"
    <2>1. UNCHANGED <<at, lost>> /\ pc'[t] = "local" /\ local'[t] = 0 /\ global' = global - 1 /\ local[t] = None
      BY <1>0, <1>8 DEF Served, Goes, Need, CallOk
    <2>2. local'[t] # None
      BY <2>1, NoneIs
    <2>3. H' = H /\ K' = K + 1
      BY <1>1, <1>8, <2>1, <2>2, HoldersChange DEF OneIf
    <2>4. ClientUnits' = ClientUnits
      BY <2>1, UnitsSame DEF Units, InGlobal
    <2> HIDE DEF H, K, A
    <2> QED
      BY <1>0, <1>1, <1>3, <1>4, <1>5, <2>1, <2>3, <2>4 DEF HeapInv
  <1>9. CASE pc[t] = "data"
    <2>1. PICK p \in Ptr, n \in Nat : p = call[t].ptr /\ n = call[t].size
      BY <1>0, <1>9 DEF CallOk, Call
    <2>2. /\ pc'[t] = "check" /\ UNCHANGED lost
          /\ at' = [at EXCEPT ![p] = IF n = 0 THEN None ELSE [in |-> "global", by |-> t, units |-> n]]
          /\ local' = IF Copied(t) THEN [local EXCEPT ![t] = @ - 1] ELSE local
      BY <1>0, <1>9, <2>1 DEF Served, DataServed, Goes
    <2>3. local'[t] # None <=> local[t] # None
      <3>1. CASE Copied(t)
        <4>1. local[t] \in Int /\ local'[t] = local[t] - 1 /\ local[t] # None
          BY <1>0, <1>9, <2>2, <2>1, <3>1 DEF Copied, CallOk
        <4> QED
          BY <4>1, NoneIs
      <3> QED
        BY <2>2, <3>1
    <2>4. H' = H /\ K' = K
      BY <1>1, <1>9, <2>2, <2>3, HoldersChange DEF OneIf
    <2>5. global' = global - (n - Units(p))
      BY <1>9, <2>1 DEF Need
    <2>6. Units(p)' = n /\ \A q \in Ptr \ {p} : UnitsAt'[q] = UnitsAt[q]
      <3> SUFFICES /\ (IF at'[p] # None /\ at'[p].in = "global" THEN at'[p].units ELSE 0) = n
                   /\ \A q \in Ptr \ {p} : at'[q] = at[q]
        BY DEF UnitsAt, Units, InGlobal
      <3>1. \A q \in Ptr \ {p} : at'[q] = at[q]
        BY <1>0, <2>1, <2>2
      <3>2. [in |-> "global", by |-> t, units |-> n] # None
        <4>1. [in |-> "global", by |-> t, units |-> n] \in Block
          BY <2>1 DEF Block
        <4> QED
          BY <4>1, NoneIs
      <3>3. at'[p] = IF n = 0 THEN None ELSE [in |-> "global", by |-> t, units |-> n]
        BY <1>0, <2>1, <2>2
      <3> QED
        BY <3>1, <3>2, <3>3
    <2>9. /\ ClientUnits = UnitsOf(UnitsAt) /\ ClientUnits' = UnitsOf(UnitsAt')
          /\ UnitsAt \in [Ptr -> Nat] /\ UnitsAt' \in [Ptr -> Nat]
      <3>1. ClientUnits = UnitsOf(UnitsAt) /\ UnitsAt \in [Ptr -> Nat]
        BY ClientUnitsAre
      <3>2. (ClientUnits = UnitsOf(UnitsAt) /\ UnitsAt \in [Ptr -> Nat])'
        BY ClientUnitsAre, PTL
      <3>3. UnitsOf(UnitsAt)' = UnitsOf(UnitsAt')
        BY DEF UnitsOf
      <3> QED
        BY <3>1, <3>2, <3>3
    <2>7. /\ IsFiniteSet(UnitsOf(UnitsAt'))
          /\ Cardinality(UnitsOf(UnitsAt')) = Cardinality(UnitsOf(UnitsAt)) + UnitsAt'[p] - UnitsAt[p]
      <3>1. UnitsAt \in [Ptr -> Nat] /\ UnitsAt' \in [Ptr -> Nat] /\ IsFiniteSet(UnitsOf(UnitsAt))
        BY <2>9 DEF HeapInv
      <3> QED
        BY <2>1, <2>6, <3>1, UnitsChange
    <2>8. UnitsAt'[p] = n /\ UnitsAt[p] = Units(p) /\ Units(p) \in Nat
      BY <1>0, <2>1, <2>6 DEF UnitsAt, Units, InGlobal, Block
    <2>10. IsFiniteSet(ClientUnits') /\ C' = C + n - Units(p)
      BY <2>7, <2>8, <2>9
    <2> HIDE DEF H, K, A, C
    <2> QED
      BY <1>0, <1>1, <1>3, <1>5, <2>1, <2>2, <2>4, <2>5, <2>8, <2>10
  <1>10. CASE pc[t] \in {"fini", "exit"}
    <2>1. /\ UNCHANGED at /\ pc'[t] # "key" /\ local'[t] = None /\ global' = global + LocalUnits /\ local[t] # None
          /\ lost'[None] = lost[None] + 1 /\ lost[None] \in Nat
      <3>1. UNCHANGED at /\ LocalGone(t) /\ lost' = [lost EXCEPT ![t] = 0, ![None] = @ + 1] /\ pc'[t] # "key"
        BY <1>0, <1>10 DEF Served, Goes
      <3>2. lost'[None] = lost[None] + 1 /\ lost[None] \in Nat
        BY <1>0, <3>1, NoneIs
      <3>3. local'[t] = None /\ local[t] # None
        BY <1>0, <1>10, <3>1 DEF LocalGone, CallOk
      <3>4. Need(t) = -LocalUnits
        BY <1>10 DEF Need
      <3> QED
        BY <1>0, <1>5, <3>1, <3>2, <3>3, <3>4
    <2>2. H' = H - 1 /\ K' = K - 1
      BY <1>1, <1>10, <2>1, HoldersChange DEF OneIf
    <2>3. ClientUnits' = ClientUnits
      BY <2>1, UnitsSame DEF Units, InGlobal
    <2>4. C' = C /\ IsFiniteSet(ClientUnits')
      BY <2>3 DEF HeapInv
    <2>5. LocalUnits * H' = LocalUnits * H - LocalUnits
      BY <1>4, <2>2
    <2> HIDE DEF H, K, A, C
    <2> QED
      BY <1>0, <1>1, <1>3, <1>5, <2>1, <2>2, <2>4, <2>5
  <1>11. CASE pc[t] = "exit_key"
    <2>1. UNCHANGED <<at, local, lost>> /\ pc'[t] = "idle" /\ global' = global
      BY <1>0, <1>11 DEF Served, Goes, Need
    <2>2. H' = H /\ K' = K
      BY <1>1, <1>11, <2>1, HoldersChange DEF OneIf
    <2>3. ClientUnits' = ClientUnits
      BY <2>1, UnitsSame DEF Units, InGlobal
    <2> HIDE DEF H, K, A
    <2> QED
      BY <1>0, <1>1, <1>3, <2>1, <2>2, <2>3 DEF HeapInv
  <1> QED
    BY <1>0, <1>7, <1>8, <1>9, <1>10, <1>11 DEF Purpose

(* Most steps take nothing of the global heap and give nothing back. *)
LEMMA HeapQuiet ==
  ASSUME TypeInv, TypeInv', CallInv, HeapInv, NEW t \in Thread, StepBy(t), UNCHANGED <<global, segs>>,
         lost'[None] = lost[None],
         local'[t] # None <=> local[t] # None, pc'[t] = "key" <=> pc[t] = "key",
         phase'[t] = "extend" <=> phase[t] = "extend",
         \A p \in Ptr : at'[p] = at[p] \/ (~InGlobal(p) /\ ~InGlobal(p)')
  PROVE  HeapInv'
  <1>1. /\ Cardinality(HeapHolders) \in Nat /\ Cardinality(KeyHolders) \in Nat
        /\ Cardinality(Adding) \in Nat
    BY HoldersFinite
  <1>2. /\ Cardinality(HeapHolders)' = Cardinality(HeapHolders)
        /\ Cardinality(KeyHolders)' = Cardinality(KeyHolders)
        /\ Cardinality(Adding)' = Cardinality(Adding)
    BY <1>1, HoldersChange DEF OneIf
  <1>3. ClientUnits' = ClientUnits
    BY UnitsSame DEF Units, InGlobal
  <1> QED
    BY <1>2, <1>3 DEF HeapInv, HeapExact

LEMMA HeapLocal ==
  ASSUME TypeInv, TypeInv', CallInv, HeapInv, NEW t \in Thread, StepBy(t), LocalRealloc(t)
  PROVE  HeapInv'
  <1>0. /\ pc \in [Thread -> Where] /\ at \in [Ptr -> Block \cup {None}]
        /\ local \in [Thread -> Int \cup {None}] /\ lost \in [Thread \cup {None} -> Nat]
        /\ UNCHANGED <<global, segs, phase>>
    BY DEF TypeInv, LocalRealloc
  <1>1. PICK p \in Ptr, n \in Nat : p = call[t].ptr /\ n = call[t].size
    BY DEF TypeInv, CallInv, CallOk, Call, LocalRealloc
  <1>2. pc[t] = "local" /\ local[t] \in Int /\ local[t] # None
    BY <1>0 DEF LocalRealloc, CallInv, CallOk
  <1>3. \/ LocalServes(t, p, n) /\ Goes(t, "check") /\ UNCHANGED lost
        \/ (LocalUnknown(t, p, n) \/ LocalFails(t, p, n)) /\ Goes(t, "data")
    BY <1>1 DEF LocalRealloc
  <1>4. pc'[t] # "key" /\ lost'[None] = lost[None]
    BY <1>0, <1>2, <1>3, NoneIs DEF Goes, LocalUnknown, LocalFails, Loses
  <1>5. local'[t] # None
    <2>1. \/ UNCHANGED local
          \/ local' = [local EXCEPT ![t] = @ + 1]
          \/ local' = [local EXCEPT ![t] = @ - 1]
      BY <1>3 DEF LocalServes, LocalUnknown, LocalFails
    <2>2. local'[t] \in Int
      BY <1>0, <1>2, <2>1
    <2> QED
      BY <2>2, NoneIs
  <1>6. \A q \in Ptr : at'[q] = at[q] \/ (~InGlobal(q) /\ ~InGlobal(q)')
    <2>1. \/ UNCHANGED at
          \/ ~InGlobal(p) /\ at' = [at EXCEPT ![p] = None]
          \/ ~InGlobal(p) /\ at' = [at EXCEPT ![p] = [in |-> "local", by |-> t, units |-> 0]]
      BY <1>3 DEF LocalServes, LocalUnknown, LocalFails, InLocal, InGlobal
    <2> QED
      BY <1>0, <2>1 DEF InGlobal
  <1> QED
    BY <1>0, <1>2, <1>4, <1>5, <1>6, HeapQuiet

LEMMA HeapRefused ==
  ASSUME TypeInv, TypeInv', CallInv, HeapInv, NEW t \in Thread, StepBy(t), lub_heap_realloc(t),
         Need(t) > global, Refused(t), UNCHANGED global
  PROVE  HeapInv'
  <1>1. /\ pc \in [Thread -> Where] /\ lost \in [Thread \cup {None} -> Nat] /\ UNCHANGED <<at, local, segs>>
        /\ pc[t] \in Purpose /\ global \in Nat /\ phase[t] # "extend" /\ phase'[t] # "extend"
    BY DEF TypeInv, CallInv, CallOk, lub_heap_realloc, Refused, Leaves
  <1>2. pc[t] \in {"create", "key", "data"}
    BY <1>1, NeedType
  <1>3. (pc'[t] = "key" <=> pc[t] = "key") /\ lost'[None] = lost[None]
    BY <1>1, <1>2, NoneIs DEF Refused, Goes, Loses
  <1> QED
    BY <1>1, <1>3, HeapQuiet

LEMMA HeapCreate ==
  ASSUME TypeInv, TypeInv', CallInv, HeapInv, Virgin, NEW t \in Thread, StepBy(t), CreateGlobal(t)
  PROVE  HeapInv'
  <1>1. CASE UNCHANGED <<global, segs>>
    BY <1>1, HeapQuiet DEF CreateGlobal
  <1>2. CASE global' = SegUnits /\ segs' = segs - 1
    <2>1. /\ UNCHANGED <<pc, phase, at, local, lost>> /\ global = None
      BY DEF CreateGlobal
    <2>2. HeapHolders' = {} /\ KeyHolders' = {} /\ Adding' = {}
      BY <2>1 DEF Virgin, HeapHolders, KeyHolders, Adding
    <2>3. ClientUnits' = {}
      BY <2>1 DEF Virgin, ClientUnits, Units, InGlobal
    <2>4. lost'[None] = 0 /\ segs' = Ceiling - 1
      BY <1>2, <2>1 DEF Virgin
    <2>5. LocalUnits * 0 = 0 /\ SegUnits * 1 = SegUnits /\ SegUnits \in Nat /\ Ceiling \in Nat
      BY ConstantsAre
    <2>6. Ceiling - segs' - 0 = 1
      BY <2>4, <2>5
    <2> QED
      BY <1>2, <2>2, <2>3, <2>4, <2>5, <2>6, FS_EmptySet DEF HeapInv, HeapExact
  <1> QED
    BY <1>1, <1>2 DEF CreateGlobal

LEMMA HeapExtends ==
  ASSUME TypeInv, TypeInv', CallInv, HeapInv, NEW t \in Thread, StepBy(t), lub_partition_extend_memory(t)
  PROVE  HeapInv'
  <1> DEFINE H == Cardinality(HeapHolders)
             K == Cardinality(KeyHolders)
             A == Cardinality(Adding)
             C == Cardinality(ClientUnits)
  <1>0. /\ UNCHANGED <<pc, at, local, lost>> /\ segs' = segs - 1 /\ segs \in Nat /\ global \in Nat
        /\ phase \in [Thread -> {"out", "in", "extend", "again"}] /\ phase[t] = "in"
        /\ lost \in [Thread \cup {None} -> Nat] /\ global' # None /\ global # None
    <2>1. global' \in Nat \cup {None} /\ global \in Nat /\ global # None
      BY DEF TypeInv, lub_partition_extend_memory
    <2>2. global' \in Int
      BY <2>1, ConstantsAre DEF lub_partition_extend_memory
    <2> QED
      BY <2>1, <2>2, NoneIs DEF TypeInv, lub_partition_extend_memory
  <1>1. H \in Nat /\ K \in Nat /\ A \in Nat /\ C \in Nat /\ SegUnits \in Nat /\ Ceiling \in Nat
    BY HoldersFinite, ConstantsAre, FS_CardinalityType DEF HeapInv
  <1>2. H' = H /\ K' = K
    BY <1>0, <1>1, HoldersChange DEF OneIf
  <1>3. C' = C /\ IsFiniteSet(ClientUnits')
    BY <1>0, UnitsSame DEF Units, InGlobal, HeapInv
  <1>4. global + LocalUnits * H + K + C + lost[None] = SegUnits * (Ceiling - segs - A)
    BY <1>0 DEF HeapInv, HeapExact
  <1>5. LocalUnits * H \in Int /\ lost[None] \in Int
    BY <1>0, <1>1, ConstantsAre
  <1>6. SUFFICES global' + LocalUnits * H' + K' + C' + lost'[None] = SegUnits * (Ceiling - segs' - A')
    BY <1>3 DEF HeapInv, HeapExact
  <1>7. CASE phase'[t] = "extend" /\ UNCHANGED global
    <2>1. A' = A + 1
      BY <1>0, <1>1, <1>7, HoldersChange DEF OneIf
    <2>2. Ceiling - segs' - A' = Ceiling - segs - A
      BY <1>0, <1>1, <2>1
    <2> HIDE DEF H, K, A, C
    <2> QED
      BY <1>0, <1>2, <1>3, <1>4, <1>7, <2>2
  <1>8. CASE phase'[t] = "again" /\ global' = global + SegUnits
    <2>1. A' = A
      BY <1>0, <1>1, <1>8, HoldersChange DEF OneIf
    <2>2. Ceiling - segs' - A' = (Ceiling - segs - A) + 1
      BY <1>0, <1>1, <2>1
    <2>3. SegUnits * ((Ceiling - segs - A) + 1) = SegUnits * (Ceiling - segs - A) + SegUnits
      BY <1>0, <1>1, TimesHolds DEF Times
    <2> HIDE DEF H, K, A, C
    <2> QED
      BY <1>0, <1>1, <1>2, <1>3, <1>4, <1>5, <1>8, <2>2, <2>3
  <1> QED
    BY <1>0, <1>7, <1>8 DEF lub_partition_extend_memory

LEMMA HeapOther ==
  ASSUME TypeInv, TypeInv', CallInv, HeapInv, NEW t \in Thread, StepBy(t),
         ~LocalRealloc(t), ~lub_heap_realloc(t), ~CreateGlobal(t), ~lub_partition_extend_memory(t)
  PROVE  HeapInv'
  <1>1. UNCHANGED <<at, local, lost, global, segs>>
    BY DEF StepBy, Step, Lock, Client, lub_partition_realloc, Return, lub_partition_kill,
           lub_posix_partition_destroy_key, lub_partition_lock, lub_partition_destroy
  <1>2. pc'[t] = "key" <=> pc[t] = "key"
    BY DEF TypeInv, StepBy, Step, Lock, Client, lub_partition_realloc, Return, lub_partition_kill, Goes,
           lub_partition_time_to_die, lub_posix_partition_destroy_key, lub_partition_lock, lub_partition_destroy
  <1>3. phase'[t] = "extend" <=> phase[t] = "extend"
    BY DEF TypeInv, StepBy, Step, Lock, Client, lub_partition_realloc, Return, lub_partition_kill,
           lub_posix_partition_destroy_key, lub_partition_lock, lub_partition_destroy
  <1> QED
    BY <1>1, <1>2, <1>3, HeapQuiet

LEMMA HeapStep ==
  TypeInv /\ TypeInv' /\ CallInv /\ Virgin /\ HeapInv /\ [Next]_vars => HeapInv'
  <1> SUFFICES ASSUME TypeInv, TypeInv', CallInv, Virgin, HeapInv, [Next]_vars PROVE HeapInv'
    OBVIOUS
  <1>1. ASSUME NEW t \in Thread, StepBy(t) PROVE HeapInv'
    BY <1>1, HeapLocal, HeapServed, HeapRefused, HeapCreate, HeapExtends, HeapOther DEF lub_heap_realloc
  <1>2. CASE UNCHANGED vars
    BY <1>2 DEF vars, HeapInv, HeapExact, HeapHolders, KeyHolders, Adding, ClientUnits, Units, InGlobal
  <1> QED
    BY <1>1, <1>2 DEF Next, StepBy

-----------------------------------------------------------------------------
(* The inductive invariant: the accounts are exact only because of what holds of the
   calls, of the threads without a heap and of a partition not used yet. *)
AccountInv == TypeInv /\ CallInv /\ EmptyLocal /\ Virgin /\ CacheExact /\ HeapInv

LEMMA AccountInit == Init => AccountInv
  <1> SUFFICES ASSUME Init PROVE AccountInv
    OBVIOUS
  <1>1. ClientUnits = {}
    BY DEF Init, ClientUnits, Units, InGlobal
  <1>2. HeapInv
    BY <1>1, FS_EmptySet DEF Init, HeapInv, HeapExact
  <1>3. CallInv /\ EmptyLocal /\ Virgin /\ CacheExact
    BY DEF Init, CallInv, CallOk, EmptyLocal, EmptyOk, LocalOf, InLocal, Virgin, CacheExact
  <1> QED
    BY <1>2, <1>3, TypeInit DEF AccountInv

(* Every block of a cache and every unit of the global heap is free, with a client or
   a local heap, or lost in a way the code has: through the cache that is tried before
   the global heap, the copy that finds no room, the key data that is never released,
   and the segments below the ceiling that a thread has not added yet. *)
THEOREM AccountCorrect == Spec => []AccountExact
  <1>1. AccountInv /\ [Next]_vars => AccountInv'
    BY TypeStep, CallStep, VirginStep, CacheStep, HeapStep DEF AccountInv
  <1>2. AccountInv => AccountExact
    BY DEF AccountInv, HeapInv, AccountExact
  <1> QED
    BY AccountInit, <1>1, <1>2, PTL DEF Spec

-----------------------------------------------------------------------------
(* The mutex. *)
InHeap(t) == phase[t] # "out"

(* Two threads are in the global heap at once only after one has gone on without the
   mutex, when locking it twice failed. *)
OneInHeap == ~raced => \A t, u \in Thread : InHeap(t) /\ InHeap(u) => t = u

(* Who is in the heap has the mutex, unless its second lock failed. *)
OneInv ==
  /\ mutex \in Thread \cup {None}
  /\ \A t \in Thread : phase[t] \in {"in", "extend"} => mutex = t
  /\ OneInHeap

LEMMA OneStep == TypeInv /\ OneInv /\ [Next]_vars => OneInv'
  <1> SUFFICES ASSUME TypeInv, OneInv, [Next]_vars PROVE OneInv'
    OBVIOUS
  <1>0. phase \in [Thread -> {"out", "in", "extend", "again"}]
    BY DEF TypeInv
  <1>1. ASSUME NEW t \in Thread, lub_partition_lock(t) PROVE OneInv'
    BY <1>0, <1>1, NoneIs DEF lub_partition_lock, OneInv, OneInHeap, InHeap
  <1>2. ASSUME NEW t \in Thread, lub_heap_realloc(t) PROVE OneInv'
    BY <1>0, <1>2, NoneIs DEF lub_heap_realloc, Leaves, OneInv, OneInHeap, InHeap
  <1>3. ASSUME NEW t \in Thread, lub_partition_extend_memory(t) PROVE OneInv'
    BY <1>0, <1>3, NoneIs DEF lub_partition_extend_memory, OneInv, OneInHeap, InHeap
  <1>4. CASE UNCHANGED <<phase, mutex, raced>>
    BY <1>4 DEF OneInv, OneInHeap, InHeap
  <1> QED
    BY <1>1, <1>2, <1>3, <1>4
    DEF Next, Step, Lock, Client, vars, lub_partition_realloc, LocalRealloc, Return, lub_partition_kill,
        lub_posix_partition_destroy_key, CreateGlobal, lub_partition_destroy

(* The types and the mutex, in every state that is reached. *)
LEMMA OneAlways == Spec => [](TypeInv /\ OneInv)
  <1>1. Init => OneInv
    BY DEF Init, OneInv, OneInHeap, InHeap
  <1>2. AccountInv /\ [Next]_vars => AccountInv'
    BY TypeStep, CallStep, VirginStep, CacheStep, HeapStep DEF AccountInv
  <1>3. AccountInv => TypeInv
    BY DEF AccountInv
  <1>4. TypeInv /\ OneInv /\ [Next]_vars => OneInv'
    BY OneStep
  <1> QED
    BY AccountInit, <1>1, <1>2, <1>3, <1>4, PTL DEF Spec

(* The mutex keeps the global heap to one thread at a time, for as long as locking it
   twice has not failed (lub_partition_lock). *)
THEOREM MutexCorrect == Spec => []OneInHeap
  <1>1. OneInv => OneInHeap
    BY DEF OneInv
  <1> QED
    BY OneAlways, <1>1, PTL

(* With a mutex that blocks when its owner locks it, no two threads are ever in the
   global heap at once: the partition dies of a lock, and not of a race. *)
THEOREM NeverRaces ==
  ASSUME "fails" \notin Relock
  PROVE  Spec => [](~raced /\ \A t, u \in Thread : InHeap(t) /\ InHeap(u) => t = u)
  <1> DEFINE Quiet == ~raced /\ \A t \in Thread : phase[t] # "again"
  <1>1. Init => Quiet
    BY DEF Init
  <1>2. TypeInv /\ OneInv /\ Quiet /\ [Next]_vars => Quiet'
    <2> SUFFICES ASSUME TypeInv, OneInv, Quiet, [Next]_vars PROVE Quiet'
      OBVIOUS
    <2>0. phase \in [Thread -> {"out", "in", "extend", "again"}]
      BY DEF TypeInv
    <2>1. ASSUME NEW t \in Thread, lub_partition_lock(t) PROVE Quiet'
      BY <2>0, <2>1 DEF lub_partition_lock
    <2>2. ASSUME NEW t \in Thread, lub_heap_realloc(t) PROVE Quiet'
      BY <2>0, <2>2 DEF lub_heap_realloc, Leaves
    <2>3. ASSUME NEW t \in Thread, lub_partition_extend_memory(t) PROVE Quiet'
      BY <2>0, <2>3 DEF lub_partition_extend_memory
    <2>4. CASE UNCHANGED <<phase, raced>>
      BY <2>4
    <2> QED
      BY <2>1, <2>2, <2>3, <2>4
      DEF Next, Step, Lock, Client, vars, lub_partition_realloc, LocalRealloc, Return, lub_partition_kill,
          lub_posix_partition_destroy_key, CreateGlobal, lub_partition_destroy
  <1>3. OneInv /\ Quiet => ~raced /\ \A t, u \in Thread : InHeap(t) /\ InHeap(u) => t = u
    BY DEF OneInv, OneInHeap
  <1> HIDE DEF Quiet
  <1> QED
    BY OneAlways, <1>1, <1>2, <1>3, PTL DEF Spec
=============================================================================
