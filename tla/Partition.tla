----------------------------- MODULE Partition -----------------------------
(***************************************************************************)
(* A memory partition of contrib/lub/partition: threads allocate from a    *)
(* heap of their own, a cache of small blocks, and what that cannot serve  *)
(* from a global heap behind a mutex, which grows by segments of the       *)
(* system's memory up to a ceiling.  A partition that is killed hands out  *)
(* nothing more and is to destroy itself when all has been given back.     *)
(*                                                                         *)
(* How a heap divides its memory is in module Heap: the global heap is a   *)
(* number of units here, and so is a block.  A thread gives back what it   *)
(* has been given itself.                                                  *)
(***************************************************************************)
EXTENDS Integers, FiniteSets

CONSTANTS
  Thread,
  Ptr,         \* the pointers of the clients
  Size,        \* the sizes they ask for; 0 gives the block back
  LocalMax,    \* the greatest size the cache of a local heap serves
  LocalBlocks, \* the blocks in that cache
  LocalUnits,  \* what a local heap takes of the global one
  SegUnits,    \* the units of a segment
  Ceiling,     \* bound: the segments the system can give
  Relock,      \* what locking a mutex twice can do: it "blocks" or "fails"
  None         \* no thread, no heap, no block

(* A client's block, and a call of lub_partition_realloc. *)
Block == [in : {"local", "global"}, by : Thread, units : Nat]
Call == [ptr : Ptr, size : Nat, copies : BOOLEAN]

ASSUME PartitionAssumption ==
  /\ IsFiniteSet(Thread) /\ IsFiniteSet(Ptr)
  /\ Size \subseteq Nat
  /\ {LocalMax, LocalBlocks, LocalUnits, SegUnits, Ceiling} \subseteq Nat
  /\ Relock \subseteq {"blocks", "fails"} /\ Relock # {}
  /\ None \notin Thread \cup Int \cup Block \cup Call

(* What lub_partition_global_realloc is called for. *)
Purpose == {"create", "key", "data", "fini", "exit", "exit_key"}

VARIABLES
  pc,         \* where each thread is in its call; "idle" if in none
  phase,      \* in lub_partition_global_realloc: "out", "in", "extend", "again"
  call,       \* the pointer, the size, and whether a local block is to be copied
  at,         \* where the block of each pointer is
  local,      \* of each thread, the blocks in use of its local heap
  global,     \* the free units of m_global_heap
  segs,       \* the segments that m_partition_ceiling still allows
  mutex,      \* the thread that has m_mutex
  m_dying,
  destroyed,  \* the partition has been freed
  lost,       \* history: cache blocks of a thread and units that nobody refers to
  raced,      \* history: two threads have been in the global heap at once
  crashed     \* the process has been ended by an assertion or a bad access

vars == <<pc, phase, call, at, local, global, segs, mutex, m_dying, destroyed, lost, raced, crashed>>

Init ==
  /\ pc = [t \in Thread |-> "idle"]
  /\ phase = [t \in Thread |-> "out"]
  /\ call = [t \in Thread |-> None]
  /\ at = [p \in Ptr |-> None]
  /\ local = [t \in Thread |-> None]
  /\ global = None
  /\ segs = Ceiling
  /\ mutex = None
  /\ m_dying = FALSE
  /\ destroyed = FALSE
  /\ lost = [t \in Thread \cup {None} |-> 0]
  /\ raced = FALSE
  /\ crashed = FALSE
-----------------------------------------------------------------------------
Small(n) == n \in 1 .. LocalMax
InLocal(p) == at[p] # None /\ at[p].in = "local"
InGlobal(p) == at[p] # None /\ at[p].in = "global"
Pointer(t) == IF call[t] = None THEN None ELSE call[t].ptr
Units(p) == IF InGlobal(p) THEN at[p].units ELSE 0

Goes(t, where) == pc' = [pc EXCEPT ![t] = where]
Loses(t) == lost' = [lost EXCEPT ![t] = @ + 1]

(* Mutant: a thread without a local heap leaves the partition to the others. *)
lub_partition_time_to_die_left(t) == Goes(t, IF local[t] # None THEN "fini" ELSE "idle")

(* lub_partition_time_to_die and lub_partition_destroy: what is asked is whether the
   calling thread has no local heap, or one whose statistics count no block.  They
   never do: what a cache has handed out is not among them.  So the partition is
   destroyed, beginning with the thread's own local heap. *)
lub_partition_time_to_die(t) == Goes(t, IF local[t] # None THEN "fini" ELSE "destroy")
-----------------------------------------------------------------------------
(* lub_partition_realloc. *)

(* The call reads m_dying for the first time. *)
lub_partition_realloc(t, p, n) ==
  /\ pc[t] = "idle"
  /\ at[p] # None => at[p].by = t
  /\ \A u \in Thread : Pointer(u) # p
  /\ n > 0 \/ at[p] # None
  /\ call' = [call EXCEPT ![t] = [ptr |-> p, size |-> IF m_dying THEN 0 ELSE n, copies |-> FALSE]]
  /\ Goes(t, IF local[t] # None THEN "local" ELSE IF m_dying THEN "data" ELSE "create")
  /\ UNCHANGED <<phase, at, local, global, segs, mutex, m_dying, lost, raced>>

(* The local heap is tried first: it keeps, gives and takes back blocks of its cache.
   One it does not know it refuses, after it has taken a block of the cache for it. *)
LocalServes(t, p, n) ==
  \/ /\ InLocal(p) /\ Small(n)
     /\ UNCHANGED <<at, local>>
  \/ /\ InLocal(p) /\ n = 0
     /\ at' = [at EXCEPT ![p] = None]
     /\ local' = [local EXCEPT ![t] = @ - 1]
  \/ /\ at[p] = None /\ n = 0
     /\ UNCHANGED <<at, local>>
  \/ /\ at[p] = None /\ Small(n) /\ local[t] < LocalBlocks
     /\ at' = [at EXCEPT ![p] = [in |-> "local", by |-> t, units |-> 0]]
     /\ local' = [local EXCEPT ![t] = @ + 1]

(* Refused as LUB_HEAP_INVALID_POINTER. *)
LocalUnknown(t, p, n) ==
  /\ InGlobal(p)
  /\ IF Small(n) /\ local[t] < LocalBlocks
     THEN local' = [local EXCEPT ![t] = @ + 1] /\ Loses(t)
     ELSE UNCHANGED <<local, lost>>
  /\ UNCHANGED <<at, call>>

(* Refused as LUB_HEAP_FAILED: the block is to be copied to the global heap, and the
   client's pointer is cleared already. *)
LocalFails(t, p, n) ==
  /\ \/ InLocal(p) /\ n > LocalMax
     \/ at[p] = None /\ n > 0 /\ ~(Small(n) /\ local[t] < LocalBlocks)
  /\ call' = [call EXCEPT ![t].copies = InLocal(p)]
  /\ at' = [at EXCEPT ![p] = None]
  /\ UNCHANGED <<local, lost>>

LocalRealloc(t) ==
  /\ pc[t] = "local"
  /\ LET p == call[t].ptr  n == call[t].size
     IN  \/ LocalServes(t, p, n) /\ Goes(t, "check") /\ UNCHANGED <<call, lost>>
         \/ (LocalUnknown(t, p, n) \/ LocalFails(t, p, n)) /\ Goes(t, "data")
  /\ UNCHANGED <<phase, global, segs, mutex, m_dying, raced>>

(* The call reads m_dying for the second time, and returns unless it is set. *)
Return(t) ==
  /\ pc[t] = "check"
  /\ IF m_dying THEN lub_partition_time_to_die(t) ELSE Goes(t, "idle")
  /\ call' = [call EXCEPT ![t] = None]
  /\ UNCHANGED <<phase, at, local, global, segs, mutex, m_dying, lost, raced>>

lub_partition_kill(t) ==
  /\ pc[t] = "idle" /\ ~m_dying
  /\ m_dying' = TRUE
  /\ lub_partition_time_to_die(t)
  /\ UNCHANGED <<phase, call, at, local, global, segs, mutex, lost, raced>>

(* A thread that has used the partition exits: its key is destroyed, and with it the
   local heap. *)
lub_posix_partition_destroy_key(t) ==
  /\ pc[t] = "idle" /\ local[t] # None
  /\ \A p \in Ptr : InLocal(p) => at[p].by # t
  /\ Goes(t, "exit")
  /\ UNCHANGED <<phase, call, at, local, global, segs, mutex, m_dying, lost, raced>>
-----------------------------------------------------------------------------
(* lub_partition_global_realloc. *)

(* What a thread takes of the global heap, or gives back to it. *)
Need(t) ==
  CASE pc[t] = "create" -> LocalUnits
    [] pc[t] = "key" -> 1
    [] pc[t] = "data" -> call[t].size - Units(call[t].ptr)
    [] pc[t] \in {"fini", "exit"} -> -LocalUnits
    [] OTHER -> 0

lub_partition_lock(t) ==
  /\ pc[t] \in Purpose /\ phase[t] = "out" /\ mutex = None
  /\ mutex' = t
  /\ phase' = [phase EXCEPT ![t] = "in"]
  /\ raced' = (raced \/ \E u \in Thread : phase[u] = "again")
  /\ UNCHANGED <<pc, call, at, local, global, segs, m_dying, lost>>

(* Mutant: the local block is not released after it has been copied. *)
Copied_kept(t) == FALSE

Copied(t) == call[t].copies

(* A client's block has been moved, resized or released. *)
DataServed(t) ==
  LET p == call[t].ptr  n == call[t].size
  IN  /\ at' = [at EXCEPT ![p] = IF n = 0 THEN None ELSE [in |-> "global", by |-> t, units |-> n]]
      /\ local' = IF Copied(t) THEN [local EXCEPT ![t] = @ - 1] ELSE local
      /\ Goes(t, "check") /\ UNCHANGED <<lost, crashed>>

(* Its local heap is gone, and the blocks of its cache with it. *)
LocalGone(t) == local' = [local EXCEPT ![t] = None]

(* What follows when the global heap has done what it was asked for.  The key data of
   a thread is never released: when its key is destroyed, the pointer that is passed
   is the partition's, and refused; and before a destruction it is not passed at all. *)
Served(t) ==
  CASE pc[t] = "create" -> Goes(t, "key") /\ UNCHANGED <<at, local, lost, crashed>>
    [] pc[t] = "key" -> Goes(t, "local") /\ local' = [local EXCEPT ![t] = 0]
                        /\ UNCHANGED <<at, lost, crashed>>
    [] pc[t] = "data" -> DataServed(t)
    [] pc[t] = "fini" -> Goes(t, "destroy") /\ LocalGone(t)
                         /\ lost' = [lost EXCEPT ![t] = 0, ![None] = @ + 1]
                         /\ UNCHANGED <<at, crashed>>
    [] pc[t] = "exit" -> Goes(t, "exit_key") /\ LocalGone(t)
                         /\ lost' = [lost EXCEPT ![t] = 0, ![None] = @ + 1]
                         /\ UNCHANGED <<at, crashed>>
    [] pc[t] = "exit_key" -> Goes(t, "idle") /\ UNCHANGED <<at, local, lost, crashed>>

(* There is no room.  Without a local heap a call goes on; without a place for its
   key data it fails an assertion; a block that was to be copied is lost. *)
Refused(t) ==
  /\ UNCHANGED <<at, local>>
  /\ CASE pc[t] = "create" -> Goes(t, "data") /\ UNCHANGED <<lost, crashed>>
       [] pc[t] = "key" -> crashed' = TRUE /\ UNCHANGED <<pc, lost>>
       [] pc[t] = "data" -> /\ IF call[t].copies THEN Loses(t) ELSE UNCHANGED lost
                            /\ Goes(t, "check") /\ UNCHANGED crashed

(* Mutant: the mutex is released by those who hold none. *)
Leaves_locked(t) ==
  /\ phase' = [phase EXCEPT ![t] = "out"]
  /\ UNCHANGED mutex

(* A thread that has gone on without the mutex finds nothing to unlock. *)
Leaves(t) ==
  /\ phase' = [phase EXCEPT ![t] = "out"]
  /\ mutex' = IF mutex = t THEN None ELSE mutex

(* The global heap is made of a first segment; it is not asked whether the system
   gave one, which it may not do even below the ceiling. *)
CreateGlobal(t) ==
  /\ phase[t] = "in" /\ global = None
  /\ \/ crashed' = TRUE /\ UNCHANGED <<global, segs>>
     \/ segs > 0 /\ global' = SegUnits /\ segs' = segs - 1 /\ UNCHANGED crashed
  /\ UNCHANGED <<pc, phase, call, at, local, mutex, m_dying, lost, raced>>

(* The heap is tried, for the first time or again; there may be no segment to add. *)
lub_heap_realloc(t) ==
  /\ phase[t] \in {"in", "again"} /\ global # None
  /\ \/ Need(t) <= global /\ global' = global - Need(t) /\ Served(t)
     \/ Need(t) > global /\ Refused(t) /\ UNCHANGED global
  /\ Leaves(t)
  /\ UNCHANGED <<call, segs, m_dying, raced>>

(* There is no room, and the system gives another segment.  The mutex is then locked
   by the thread that holds it.  If that fails, the segment is added, the mutex
   unlocked, and the heap tried again without it. *)
lub_partition_extend_memory(t) ==
  /\ phase[t] = "in" /\ global # None /\ Need(t) > global /\ segs > 0
  /\ segs' = segs - 1
  /\ \/ /\ "blocks" \in Relock
        /\ phase' = [phase EXCEPT ![t] = "extend"]
        /\ UNCHANGED <<global, mutex>>
     \/ /\ "fails" \in Relock
        /\ phase' = [phase EXCEPT ![t] = "again"]
        /\ global' = global + SegUnits
        /\ mutex' = None
  /\ UNCHANGED <<pc, call, at, local, m_dying, lost, raced>>

(* The rest of lub_partition_fini, and the end of the partition; a global heap that
   was never made is not looked out for. *)
lub_partition_destroy(t) ==
  /\ pc[t] = "destroy" /\ mutex = None
  /\ IF global = None THEN crashed' = TRUE /\ UNCHANGED destroyed
     ELSE destroyed' = TRUE /\ UNCHANGED crashed
  /\ UNCHANGED <<pc, phase, call, at, local, global, segs, mutex, m_dying, lost, raced>>

(* Nothing is known of the memory of a partition that is gone, nor of a heap in which
   two threads have been at once. *)
Alive == ~destroyed /\ ~crashed /\ ~raced

(* The steps of a thread in a call of its own accord. *)
Step(t) ==
  /\ Alive
  /\ \/ (LocalRealloc(t) \/ Return(t)) /\ UNCHANGED <<destroyed, crashed>>
     \/ (CreateGlobal(t) \/ lub_heap_realloc(t)) /\ UNCHANGED destroyed
     \/ lub_partition_extend_memory(t) /\ UNCHANGED <<destroyed, crashed>>

(* Those that wait for the mutex. *)
Lock(t) ==
  /\ Alive
  /\ \/ lub_partition_lock(t) /\ UNCHANGED <<destroyed, crashed>>
     \/ lub_partition_destroy(t)

Client(t) ==
  /\ Alive
  /\ \/ \E p \in Ptr, n \in Size : lub_partition_realloc(t, p, n)
     \/ lub_partition_kill(t)
     \/ lub_posix_partition_destroy_key(t)
  /\ UNCHANGED <<destroyed, crashed>>

Next == \E t \in Thread : Step(t) \/ Lock(t) \/ Client(t)

(* A thread in a call is scheduled, and is given a mutex that is unlocked again and
   again. *)
Fairness == \A t \in Thread : WF_vars(Step(t)) /\ SF_vars(Lock(t))

Spec == Init /\ [][Next]_vars /\ Fairness
-----------------------------------------------------------------------------
(* Properties. *)

LocalOf(t) == {p \in Ptr : InLocal(p) /\ at[p].by = t}
Copies(t) == call[t] # None /\ call[t].copies /\ pc[t] = "data"

(* The threads with a local heap, or with one that has been made but not found yet;
   those that have their key data; those whose segment is not added; and the units
   of the clients' blocks. *)
HeapHolders == {t \in Thread : local[t] # None \/ pc[t] = "key"}
KeyHolders == {t \in Thread : local[t] # None}
Adding == {t \in Thread : phase[t] = "extend"}
ClientUnits == UNION {{p} \X (1 .. Units(p)) : p \in Ptr}

(* A block of a cache is a client's, is being copied, or was lost in one of the ways
   the code has (the block is in the global heap already, or the copy was refused). *)
CacheExact ==
  \A t \in Thread : local[t] # None =>
    local[t] = Cardinality(LocalOf(t)) + lost[t] + (IF Copies(t) THEN 1 ELSE 0)

(* A unit of the global heap is free, a client's, a local heap's with its key data, or
   was lost (with the key of a thread that has gone). *)
HeapExact ==
  global # None =>
    global + LocalUnits * Cardinality(HeapHolders) + Cardinality(KeyHolders)
           + Cardinality(ClientUnits) + lost[None]
      = SegUnits * (Ceiling - segs - Cardinality(Adding))

(* Everything that has been taken is accounted for: the blocks of the caches and the
   units of the global heap, whatever the threads do at once, as long as the
   partition lives. *)
AccountExact == Alive => CacheExact /\ HeapExact

(* A thread waits for the mutex it holds. *)
SelfLocked == \E t \in Thread : phase[t] = "extend"

(* A call returns, unless the partition or the process is gone, or a thread has locked
   the mutex twice, or went on without it: none of the others is left with the mutex. *)
CallReturns ==
  \A t \in Thread : pc[t] # "idle" ~> pc[t] = "idle" \/ ~Alive \/ SelfLocked

(* No memory is outstanding, and no call is under way that may be given some. *)
HandedBack == /\ \A p \in Ptr : at[p] = None
              /\ \A t \in Thread : call[t] # None => call[t].size = 0

(* Once all the memory of a partition that has been killed is handed back, it destroys
   itself, with the same exceptions and without being called again: the thread that
   kills it and the clients that return to it do not leave that to one another
   (partition.h: "When the final outstanding piece of memory is handed back the
   partition will destroy itself"). *)
DiesWhenDone == m_dying /\ HandedBack ~> ~Alive \/ SelfLocked

(* partition.h, of lub_partition_kill: "When the final outstanding piece of memory is
   handed back the partition will destroy itself."  No block is outstanding then, and
   no other thread in a call. *)
DestroyedWhenDone ==
  destroyed => /\ \A p \in Ptr : at[p] = None
               /\ \A t \in Thread : pc[t] \in {"idle", "destroy"}
=============================================================================
