------------------------------ MODULE BlockPool ------------------------------
(***************************************************************************)
(* The dynamic pool of blocks of contrib/lub/dblockpool: chunks of memory  *)
(* from malloc(), each a pool of contrib/lub/blockpool whose free blocks   *)
(* are a list through the blocks themselves.                               *)
(*                                                                         *)
(* A pool knows a block by its address only, here the chunk it lies in and *)
(* its place there.  The statistics a pool gathers are left out.           *)
(***************************************************************************)
EXTENDS Naturals, Sequences, FiniteSets, SequencesExt

CONSTANTS
  Chunk,       \* the addresses malloc() may return for a chunk
  ChunkSize,   \* the number of blocks in a chunk
  MaxChunks,   \* the greatest number of chunks, 0 for no limit
  None         \* a NULL pointer

Block == Chunk \X (1 .. ChunkSize)

VARIABLES
  chunks,   \* the chunks, from first_chunk along their links
  count,    \* of each chunk, the number of its blocks that are in use
  m_head,   \* of each chunk, its first free block
  m_tail,   \* of each chunk, its last free block
  m_next    \* of each block, the next free block, while it is free

pool == <<m_head, m_tail, m_next>>
dvars == <<chunks, count, m_head, m_tail, m_next>>

Init ==
  /\ chunks = <<>>
  /\ count = [c \in Chunk |-> 0]
  /\ m_head = [c \in Chunk |-> None]
  /\ m_tail = [c \in Chunk |-> None]
  /\ m_next = [b \in Block |-> None]

(* What the memory of a pool holds: its first and last free block, and the links. *)
Lists(head, tail, next) == [head |-> head, tail |-> tail, next |-> next]

(* A new chunk: all its blocks are put into its list, in the order of their addresses. *)
lub_blockpool_init(c) ==
  Lists(<<c, 1>>, <<c, ChunkSize>>,
        [b \in Block |-> CASE b[1] # c -> m_next[b]
                           [] b = <<c, ChunkSize>> -> None
                           [] OTHER -> <<c, b[2] + 1>>])

(* Mutant: the tail still points to the last block when that is handed out. *)
lub_blockpool_alloc_tail(p) ==
  Lists(p.next[p.head], p.tail, [p.next EXCEPT ![p.head] = None])

(* The first free block is handed out.  The client writes over its link. *)
lub_blockpool_alloc(p) ==
  Lists(IF p.head = p.tail THEN None ELSE p.next[p.head],
        IF p.head = p.tail THEN None ELSE p.tail,
        [p.next EXCEPT ![p.head] = None])

(* A block is put at the end of the list of free ones. *)
lub_blockpool_free(p, b) ==
  IF p.tail = None
  THEN Lists(b, b, [p.next EXCEPT ![b] = None])
  ELSE Lists(p.head, b, [p.next EXCEPT ![b] = None, ![p.tail] = b])

PoolOf(c) == Lists(m_head[c], m_tail[c], m_next)

Becomes(c, p) ==
  /\ m_head' = [m_head EXCEPT ![c] = p.head]
  /\ m_tail' = [m_tail EXCEPT ![c] = p.tail]
  /\ m_next' = p.next

(* The chunks that can serve a request. *)
Serving == {n \in DOMAIN chunks : m_head[chunks[n]] # None}

(* The first chunk with a free block serves. *)
AllocFromChunk(b) ==
  \E n \in Serving :
    LET c == chunks[n] IN
    /\ \A m \in Serving : n <= m
    /\ b = m_head[c]
    /\ Becomes(c, lub_blockpool_alloc(PoolOf(c)))
    /\ count' = [count EXCEPT ![c] = @ + 1]
    /\ UNCHANGED chunks

MayGrow == MaxChunks = 0 \/ Len(chunks) < MaxChunks

(* There is none: a chunk is made, put first, and serves. *)
AllocFromNewChunk(b) ==
  \E c \in Chunk \ ToSet(chunks) :
    /\ Serving = {} /\ MayGrow
    /\ b = <<c, 1>>
    /\ Becomes(c, lub_blockpool_alloc(lub_blockpool_init(c)))
    /\ chunks' = <<c>> \o chunks
    /\ count' = [count EXCEPT ![c] = 1]

(* The block b is handed out. *)
lub_dblockpool_alloc(b) == AllocFromChunk(b) \/ AllocFromNewChunk(b)

(* There is none, and no chunk can be made for want of memory, or by the limit. *)
lub_dblockpool_alloc_fails ==
  /\ Serving = {}
  /\ UNCHANGED dvars

(* The last of n blocks in use is given back. *)
Spent(n) == n = 1

(* The block b is given back to the chunk it lies in, and that to malloc() if the block
   was the last in use. *)
lub_dblockpool_free(b) ==
  \E n \in DOMAIN chunks :
    LET c == chunks[n] IN
    /\ c = b[1]
    /\ Becomes(c, lub_blockpool_free(PoolOf(c), b))
    /\ count' = [count EXCEPT ![c] = @ - 1]
    /\ chunks' = IF Spent(count[c]) THEN RemoveAt(chunks, n) ELSE chunks

(* The pool is released, whatever of it is in use. *)
lub_dblockpool_fini ==
  /\ chunks' = <<>>
  /\ UNCHANGED <<count, pool>>
-----------------------------------------------------------------------------
(* The free blocks of a chunk, along their links. *)
FreeList(c) ==
  LET after == [b \in Block \cup {None} |-> IF b = None THEN None ELSE m_next[b]]
      nth[n \in 0 .. ChunkSize] == IF n = 0 THEN m_head[c] ELSE after[nth[n - 1]]
      len == Cardinality({n \in 0 .. ChunkSize : nth[n] # None})
  IN  [n \in 1 .. len |-> nth[n - 1]]

(* When the blocks of used are the clients', every other block of a chunk is once on
   its list, which ends at its tail; the counts are exact; no chunk is kept without
   a block in use, and none is gone with one. *)
Sound(used) ==
  /\ IsInjective(chunks)
  /\ \A b \in used : b[1] \in ToSet(chunks)
  /\ \A c \in ToSet(chunks) :
       LET mine == {b \in used : b[1] = c}
           free == FreeList(c)
       IN  /\ IsInjective(free) /\ Len(free) <= ChunkSize
           /\ ToSet(free) = {b \in Block : b[1] = c} \ mine
           /\ m_tail[c] = IF free = <<>> THEN None ELSE Last(free)
           /\ Len(free) + count[c] = ChunkSize
           /\ mine # {}
=============================================================================
