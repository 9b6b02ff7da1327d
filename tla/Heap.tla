-------------------------------- MODULE Heap --------------------------------
(***************************************************************************)
(* The heap of contrib/lub/heap, word by word: a segment is a row of       *)
(* blocks, each with a tag in its first and in its last word that tells    *)
(* whether it is free, whether the segment ends there, and how many words  *)
(* it has.  A block finds its neighbours by these tags alone.              *)
(*                                                                         *)
(* Memory is tainted as lub_heap_taint(BOOL_TRUE) has it, so what a client *)
(* finds in a block is what it wrote there, or Taint.  Cached blocks,      *)
(* alignments other than the native one and leak detection are left out.   *)
(***************************************************************************)
EXTENDS Naturals, FiniteSets, Sequences

CONSTANTS
  Client,      \* who holds a pointer
  Size,        \* the sizes asked for, in words; 0 gives the block back
  StaticSize,  \* likewise of static memory
  MinWords,    \* sizeof(lub_heap_free_block_t) in words
  SegWords,    \* the words of the first segment
  MoreWords,   \* the words of the segment that is added
  None         \* nobody

ASSUME HeapAssumption ==
  /\ None \notin Client
  /\ Size \subseteq Nat /\ StaticSize \subseteq Nat \ {0}
  /\ MinWords \in Nat \ 0 .. 2 /\ SegWords \in Nat /\ SegWords > MinWords
  /\ MoreWords \in Nat /\ MoreWords > MinWords

(* The second segment follows the first one directly, or with its control block
   in between. *)
Addr == 1 .. SegWords + 1 + MoreWords
NULL == 0

(* What a word can hold. *)
Tag(free, segment, words) == [free |-> free, segment |-> segment, words |-> words]
Data(c, i) == [by |-> c, at |-> i]
Taint == [by |-> None, at |-> 0]
Static == [by |-> None, at |-> 1]
IsTag(w) == "words" \in DOMAIN w

VARIABLES
  mem,          \* the words of memory
  free_tree,    \* the blocks in the tree of free blocks
  free_blocks,  \* stats.free_blocks
  segments,     \* the segments in the order of their list, as their first address and their words
  static,       \* the addresses given away as static memory
  ptr,          \* the block each client holds
  size,         \* the words it asked for
  broken        \* what has gone wrong, after which nothing is known of the memory

vars == <<mem, free_tree, free_blocks, segments, static, ptr, size, broken>>

(* The functions of the heap take it apart and put it together in steps: they map
   a record of these three variables to another one. *)
this == [mem |-> mem, tree |-> free_tree, free_blocks |-> free_blocks]
-----------------------------------------------------------------------------
(* Blocks. *)

Larger(m, n) == IF m > n THEN m ELSE n

lub_heap_block__get_tail(h, b) == b + h.mem[b].words - 1

lub_heap_block_getnext(h, b) ==
  LET tail == lub_heap_block__get_tail(h, b)
  IN  IF h.mem[tail].segment THEN NULL ELSE tail + 1

lub_heap_block_getprevious(h, b) ==
  IF h.mem[b].segment THEN NULL ELSE b - h.mem[b - 1].words

IsFree(h, b) == b # NULL /\ h.mem[b].free

lub_heap_block_check(h, b) ==
  LET tail == lub_heap_block__get_tail(h, b)
  IN  tail \in Addr /\ IsTag(h.mem[tail]) /\ h.mem[tail].words = h.mem[b].words

(* The words of f are written over those of memory m. *)
Written(m, f) == [a \in DOMAIN m |-> IF a \in DOMAIN f THEN f[a] ELSE m[a]]

(* A block whose inside is tainted. *)
Block(m, b, words, free, seg_start, seg_end) ==
  Written(m, [a \in b .. b + words - 1 |-> CASE a = b             -> Tag(free, seg_start, words)
                                             [] a = b + words - 1 -> Tag(free, seg_end, words)
                                             [] OTHER             -> Taint])

lub_heap_init_free_block(h, start, words, seg_start, seg_end) ==
  [mem |-> Block(h.mem, start, words, TRUE, seg_start, seg_end),
   tree |-> h.tree \cup {start},
   free_blocks |-> h.free_blocks + 1]

(* What is left of a free block is one if there is room for it, and otherwise
   goes with what is taken. *)
LeavesBlock(words) == words > MinWords

(* Take words from the bottom of a free block.  Here and below the block has been
   removed from the tree, and what is left of it is put back. *)
lub_heap_slice_from_bottom(h, b, words) ==
  LET left == h.mem[b].words - words
      tail == lub_heap_block__get_tail(h, b)
  IN  IF LeavesBlock(left)
      THEN [h |-> [h EXCEPT !.mem = [@ EXCEPT ![tail].words = left,
                                              ![b + words] = Tag(TRUE, FALSE, left)],
                            !.tree = (@ \ {b}) \cup {b + words}],
            block |-> b, words |-> words, whole |-> FALSE]
      ELSE [h |-> [h EXCEPT !.tree = @ \ {b}, !.free_blocks = @ - 1],
            block |-> b, words |-> h.mem[b].words, whole |-> TRUE]

lub_heap_slice_from_top(h, b, words, seg_end) ==
  LET left == h.mem[b].words - words
  IN  IF LeavesBlock(left)
      THEN [h |-> [h EXCEPT !.mem = [@ EXCEPT ![b].words = left,
                                              ![b + left - 1] = Tag(TRUE, seg_end, left)]],
            block |-> b + left, words |-> words, whole |-> FALSE]
      ELSE [h |-> [h EXCEPT !.tree = @ \ {b}, !.free_blocks = @ - 1],
            block |-> b, words |-> h.mem[b].words, whole |-> TRUE]

(* The words from p on, which end where block b begins, join it. *)
lub_heap_graft_to_bottom(h, b, p, words, seg_start) ==
  [h EXCEPT !.mem = Block(@, p, words + h.mem[b].words, TRUE, seg_start,
                          h.mem[lub_heap_block__get_tail(h, b)].segment),
            !.tree = (@ \ {b}) \cup {p}]

(* The words after block b join it. *)
lub_heap_graft_to_top(h, b, words, seg_end) ==
  [h EXCEPT !.mem = Block(@, b, h.mem[b].words + words, TRUE, h.mem[b].segment, seg_end)]
-----------------------------------------------------------------------------
(* Releasing a block. *)

lub_heap_merge_with_next(h, b) ==
  lub_heap_graft_to_bottom(h, lub_heap_block_getnext(h, b), b, h.mem[b].words, h.mem[b].segment)

(* Mutant: the block merged into its predecessor is still counted. *)
lub_heap_merge_with_previous_counted(h, b) ==
  lub_heap_graft_to_top([h EXCEPT !.tree = @ \ {b}], lub_heap_block_getprevious(h, b),
                        h.mem[b].words, h.mem[lub_heap_block__get_tail(h, b)].segment)

(* The block may have been merged with the next one, and be free itself. *)
lub_heap_merge_with_previous(h, b) ==
  LET removed == IF h.mem[b].free THEN [h EXCEPT !.tree = @ \ {b}, !.free_blocks = @ - 1]
                                  ELSE h
  IN  lub_heap_graft_to_top(removed, lub_heap_block_getprevious(h, b), h.mem[b].words,
                            h.mem[lub_heap_block__get_tail(h, b)].segment)

lub_heap_new_free_block(h, b) ==
  lub_heap_init_free_block(h, b, h.mem[b].words, h.mem[b].segment,
                           h.mem[lub_heap_block__get_tail(h, b)].segment)

Released(h, b) ==
  LET next == IsFree(h, lub_heap_block_getnext(h, b))
      prev == IsFree(h, lub_heap_block_getprevious(h, b))
      up == IF next THEN lub_heap_merge_with_next(h, b) ELSE h
      down == IF prev THEN lub_heap_merge_with_previous(up, b) ELSE up
  IN  IF next \/ prev THEN down ELSE lub_heap_new_free_block(h, b)
-----------------------------------------------------------------------------
(* Finding and extending blocks.  A result is the heap, the block, and whether
   there is one. *)

(* The tree is ordered by size, and among equals by address. *)
Before(h, a, b) == h.mem[a].words < h.mem[b].words \/ (h.mem[a].words = h.mem[b].words /\ a <= b)

(* The first free block in that order that is large enough and satisfies P. *)
FindNext(h, words, P(_)) ==
  {b \in h.tree : /\ h.mem[b].words >= words /\ P(b)
                  /\ \A a \in h.tree : h.mem[a].words >= words /\ P(a) => Before(h, b, a)}

lub_heap_new_alloc_block(h, words) ==
  LET fit == FindNext(h, words, LAMBDA b : TRUE)
      b == CHOOSE f \in fit : TRUE
      s == lub_heap_slice_from_bottom(h, b, words)
      seg_end == s.whole /\ h.mem[lub_heap_block__get_tail(h, b)].segment
  IN  IF fit = {} THEN [h |-> h, block |-> NULL, ok |-> FALSE]
      ELSE [h |-> [s.h EXCEPT !.mem = Block(@, b, s.words, FALSE, h.mem[b].segment, seg_end)],
            block |-> b, ok |-> TRUE]

(* The number of words wanted is unsigned: one that is below what the block has
   is too great. *)
lub_heap_extend_upwards(h, b, words) ==
  LET next == lub_heap_block_getnext(h, b)
      s == lub_heap_slice_from_bottom(h, next, words - h.mem[b].words)
      all == h.mem[b].words + s.words
      old == lub_heap_block__get_tail(h, b)
      seg_end == s.whole /\ h.mem[lub_heap_block__get_tail(h, next)].segment
  IN  IF IsFree(h, next) /\ h.mem[b].words <= words /\ words - h.mem[b].words <= h.mem[next].words
      THEN [h |-> [s.h EXCEPT !.mem =
                     Written(@, [a \in {b} \cup (old .. b + all - 1) |->
                                   CASE a = b           -> Tag(FALSE, @[b].segment, all)
                                     [] a = b + all - 1 -> Tag(FALSE, seg_end, all)
                                     [] OTHER           -> Taint])],
            block |-> b, ok |-> TRUE]
      ELSE [h |-> h, block |-> b, ok |-> FALSE]

(* Mutant: the words stay where they were. *)
Moved_not(m, a, by) == m[a]

(* The word that comes to a when a block is moved down. *)
Moved(m, a, by) == m[a + by]

lub_heap_extend_downwards(h, b, words) ==
  LET prev == lub_heap_block_getprevious(h, b)
      s == lub_heap_slice_from_top(h, prev, words - h.mem[b].words, FALSE)
      old == h.mem[b].words
      all == old + s.words
      new == s.block
      tail == lub_heap_block__get_tail(h, b)
      seg_start == s.whole /\ h.mem[prev].segment
  IN  IF IsFree(h, prev) /\ old <= words /\ words - old <= h.mem[prev].words
      THEN [h |-> [s.h EXCEPT !.mem =
                     Written(@, [a \in new .. tail |->
                                   CASE a = new         -> Tag(FALSE, seg_start, all)
                                     [] a = tail        -> Tag(FALSE, @[tail].segment, all)
                                     [] a \in new + 1 .. new + old - 2 -> Moved(@, a, s.words)
                                     [] OTHER           -> Taint])],
            block |-> new, ok |-> TRUE]
      ELSE [h |-> h, block |-> b, ok |-> FALSE]

(* When neither neighbour is enough and the two of them are, or are thought to
   be: the words the block has are not counted, the extension downwards stops
   short, the one upwards is given the words of the next block as a total, and
   the caller's block is not moved. *)
lub_heap_extend_both_ways(h, b, words) ==
  LET next == lub_heap_block_getnext(h, b)
      prev == lub_heap_block_getprevious(h, b)
      down == lub_heap_extend_downwards(h, b, words - h.mem[next].words)
      up == lub_heap_extend_upwards(down.h, down.block, h.mem[next].words)
  IN  IF /\ IsFree(h, next) /\ IsFree(h, prev)
         /\ words <= h.mem[prev].words + h.mem[next].words
      THEN [h |-> up.h, block |-> b, ok |-> TRUE, asserted |-> ~(down.ok /\ up.ok)]
      ELSE [h |-> h, block |-> b, ok |-> FALSE, asserted |-> FALSE]
-----------------------------------------------------------------------------
(* The check of the whole heap, which every call makes when it is enabled. *)

(* The block of a segment that its loop has come to is checked, and the free ones are
   counted.  After the last one, or a bad one, there is none. *)
CheckedBlock(h, first, w) ==
  LET checked == IsTag(h.mem[w.block]) /\ lub_heap_block_check(h, w.block)
      good    == checked /\ h.mem[w.block].segment = (w.block = first)
  IN  IF w.block = NULL THEN w
      ELSE [block  |-> IF good THEN lub_heap_block_getnext(h, w.block) ELSE NULL,
            result |-> good,
            free   |-> IF checked /\ h.mem[w.block].free THEN w.free + 1 ELSE w.free]

(* A walk from block to block to the end of a segment, to the count of free blocks so
   far.  There are no more blocks than words. *)
process_segment(h, first, free) ==
  LET arg[n \in 0 .. SegWords + 1 + MoreWords] ==
        IF n = 0 THEN [block |-> first, result |-> TRUE, free |-> free]
        ELSE CheckedBlock(h, first, arg[n - 1])
  IN  arg[SegWords + 1 + MoreWords]

(* The result of one segment replaces that of those before it. *)
lub_heap_check_memory(h) ==
  LET arg[i \in 0 .. Len(segments)] ==
        IF i = 0 THEN [block |-> NULL, result |-> TRUE, free |-> 0]
        ELSE process_segment(h, segments[i].first, arg[i - 1].free)
  IN  \/ h.free_blocks = 0 /\ \A c \in Client : ptr[c] = NULL
      \/ arg[Len(segments)].result /\ h.free_blocks = arg[Len(segments)].free
-----------------------------------------------------------------------------
(* lub_heap_raw_realloc. *)

(* The words of a block for a request of n: its tags, and room to be free in. *)
Words(n) == IF n = 0 THEN 0 ELSE Larger(n + 2, MinWords)

(* Mutant: the shortened block still ends the segment if it did. *)
Cut_ends(h, b, words) ==
  [h EXCEPT !.mem = [@ EXCEPT ![b].words = words,
                              ![b + words - 1] =
                                Tag(FALSE, h.mem[lub_heap_block__get_tail(h, b)].segment, words)]]

(* Block b is shortened; something follows it in any case. *)
Cut(h, b, words) ==
  [h EXCEPT !.mem = [@ EXCEPT ![b].words = words,
                              ![b + words - 1] = Tag(FALSE, FALSE, words)]]

(* The block is larger than what is asked for: the rest joins a free block after
   it, or becomes one if there is room. *)
Shrunk(h, b, words) ==
  LET delta == h.mem[b].words - words
      next == lub_heap_block_getnext(h, b)
      tail == lub_heap_block__get_tail(h, b)
  IN  IF delta > 0 /\ IsFree(h, next)
      THEN lub_heap_graft_to_bottom(Cut(h, b, words), next, b + words, delta, FALSE)
      ELSE IF delta >= MinWords
      THEN lub_heap_init_free_block(Cut(h, b, words), b + words, delta, FALSE, h.mem[tail].segment)
      ELSE h

(* The contents of block b are copied to block c. *)
Copied(h, b, c) ==
  [h EXCEPT !.mem = Written(@, [a \in c + 1 .. c + h.mem[b].words - 2 |-> @[b + (a - c)]])]

(* Each case is the heap that results, the client's block, and the outcome. *)
lub_heap_raw_realloc(h, b, words) ==
  LET up == lub_heap_extend_upwards(h, b, words)
      down == lub_heap_extend_downwards(h, b, words)
      both == lub_heap_extend_both_ways(h, b, words)
      new == lub_heap_new_alloc_block(h, words)
      Result(g, p, outcome) == [h |-> g, ptr |-> p, result |-> outcome]
  IN  IF ~lub_heap_check_memory(h) THEN Result(h, b, "CORRUPTED")
      ELSE IF words = 0 THEN Result(IF b = NULL THEN h ELSE Released(h, b), NULL, "OK")
      ELSE IF b # NULL /\ h.mem[b].words >= words THEN Result(Shrunk(h, b, words), b, "OK")
      ELSE IF b # NULL /\ up.ok THEN Result(up.h, b, "OK")
      ELSE IF b # NULL /\ down.ok THEN Result(down.h, down.block, "OK")
      ELSE IF b # NULL /\ both.ok
           THEN IF both.asserted THEN Result(h, b, "ASSERTED") ELSE Result(both.h, b, "BOTH_WAYS")
      ELSE IF ~new.ok THEN Result(h, b, "FAILED")
      ELSE IF b = NULL THEN Result(new.h, new.block, "OK")
      ELSE Result(Released(Copied(new.h, b, new.block), b), new.block, "OK")

HeapIs(h) ==
  /\ free_tree' = h.tree
  /\ free_blocks' = h.free_blocks

(* A client asks for n words, or gives its block back.  What is new to it of a
   block it then fills; the rest must be as it left it.  An extension both ways
   leaves it with a pointer into its old block, where it writes nothing; or fails an
   assertion and ends the process. *)
lub_heap_realloc(c, n) ==
  LET r == lub_heap_raw_realloc(this, ptr[c], Words(n))
      granted == r.result \in {"OK", "BOTH_WAYS"}
      filled == IF r.result = "OK" THEN size[c] + 1 .. n ELSE {}
  IN  /\ broken = "no"
      /\ n > 0 \/ ptr[c] # NULL
      /\ mem' = Written(r.h.mem, [a \in {r.ptr + i : i \in filled} |-> Data(c, a - r.ptr)])
      /\ HeapIs(r.h)
      /\ ptr' = [ptr EXCEPT ![c] = IF granted THEN r.ptr ELSE @]
      /\ size' = [size EXCEPT ![c] = IF granted THEN n ELSE @]
      /\ broken' = IF r.result \in {"BOTH_WAYS", "ASSERTED"} THEN r.result ELSE broken
      /\ UNCHANGED <<segments, static>>

(* Static memory is taken from a block at the end of a segment. *)
EndsSegment(b) == mem[lub_heap_block__get_tail(this, b)].segment

(* Static memory is taken from the top of such a block.  If it is all taken, the
   block before it, or the segment, goes on to say that a block begins there. *)
lub_heap_static_alloc(n) ==
  /\ broken = "no"
  /\ \E b \in FindNext(this, n, EndsSegment) :
       LET s == lub_heap_slice_from_top(this, b, n, TRUE)
           given == s.block .. s.block + s.words - 1
       IN  /\ mem' = Written(s.h.mem, [a \in given |-> Static])
           /\ HeapIs(s.h)
           /\ static' = static \cup given
           /\ broken' = IF s.whole THEN "STATIC" ELSE broken
  /\ UNCHANGED <<segments, ptr, size>>

(* Memory is added right behind the first segment, which it then extends.  That
   the last word there is a tag is taken for granted. *)
AddAdjacent ==
  LET start == SegWords + 1
      joined == [this EXCEPT !.mem = [@ EXCEPT ![start - 1].segment = FALSE]]
      added == lub_heap_init_free_block(joined, start, MoreWords, FALSE, TRUE)
      merged == IF IsFree(added, lub_heap_block_getprevious(added, start))
                THEN lub_heap_merge_with_previous(added, start) ELSE added
  IN  /\ segments' = <<[first |-> 1, words |-> SegWords + MoreWords]>>
      /\ IF IsTag(mem[start - 1])
         THEN mem' = merged.mem /\ HeapIs(merged) /\ UNCHANGED broken
         ELSE broken' = "STATIC" /\ UNCHANGED <<mem, free_tree, free_blocks>>

(* Memory is added elsewhere, and begins with its control block. *)
AddElsewhere ==
  LET start == SegWords + 2
      added == lub_heap_init_free_block(this, start, MoreWords, TRUE, TRUE)
  IN  /\ segments' = Append(segments, [first |-> start, words |-> MoreWords])
      /\ mem' = added.mem /\ HeapIs(added)
      /\ UNCHANGED broken

lub_heap_add_segment ==
  /\ broken = "no"
  /\ segments = <<[first |-> 1, words |-> SegWords]>>
  /\ AddAdjacent \/ AddElsewhere
  /\ UNCHANGED <<static, ptr, size>>

(* lub_heap_create: one segment, one free block. *)
Init ==
  /\ mem = Block([a \in Addr |-> Taint], 1, SegWords, TRUE, TRUE, TRUE)
  /\ free_tree = {1}
  /\ free_blocks = 1
  /\ segments = <<[first |-> 1, words |-> SegWords]>>
  /\ static = {}
  /\ ptr = [c \in Client |-> NULL]
  /\ size = [c \in Client |-> 0]
  /\ broken = "no"

Next ==
  \/ \E c \in Client, n \in Size : lub_heap_realloc(c, n)
  \/ \E n \in StaticSize : lub_heap_static_alloc(n)
  \/ lub_heap_add_segment

Spec == Init /\ [][Next]_vars
-----------------------------------------------------------------------------
(* Properties. *)

Held == {ptr[c] : c \in Client} \ {NULL}
Covers(b, a) == b <= a /\ a < b + mem[b].words
SegmentOf(a) == {i \in DOMAIN segments : segments[i].first <= a
                                         /\ a < segments[i].first + segments[i].words}

(* The blocks free and held tile the segments without a gap or an overlap, next to
   static memory; both tags of a block agree; the ends of the rows of blocks, and
   only they, are marked; no client shares a block; the free blocks are in the tree,
   and counted; and no two of them are neighbours.  All of it is what
   lub_heap_block_getnext and lub_heap_block_getprevious rely on. *)
BlocksTile ==
  broken = "no" =>
    LET blocks == free_tree \cup Held
    IN  /\ \A a \in Addr :
             Cardinality({b \in blocks : Covers(b, a)})
               = IF SegmentOf(a) = {} \/ a \in static THEN 0 ELSE 1
        /\ \A b \in blocks :
             LET tail == lub_heap_block__get_tail(this, b)
                 ends == SegmentOf(tail + 1) # SegmentOf(b) \/ tail + 1 \in static
             IN  /\ mem[b] = Tag(b \in free_tree, \A i \in SegmentOf(b) : segments[i].first = b,
                                 mem[b].words)
                 /\ mem[tail] = Tag(b \in free_tree, ends, mem[b].words)
                 /\ ~ends /\ b \in free_tree => tail + 1 \notin free_tree
        /\ free_tree \cap Held = {}
        /\ \A c, d \in Client : ptr[c] = ptr[d] /\ c # d => ptr[c] = NULL
        /\ free_blocks = Cardinality(free_tree)

(* Each client finds in its block what it wrote there, however the block has been
   moved and its neighbours split and merged: heap.h, of lub_heap_realloc, "The
   contents will be unchanged up to the minimum of the old and new sizes." *)
ContentsUnchanged ==
  /\ \A c \in Client : \A i \in 1 .. size[c] : mem[ptr[c] + i] = Data(c, i)
  /\ \A a \in static : mem[a] = Static

(* The same, unless the code has failed in one of the ways that broken records. *)
ContentsKept == broken = "no" => ContentsUnchanged

(* The heap's own check passes whenever nothing is wrong, so that no call is
   refused as LUB_HEAP_CORRUPTED. *)
CheckPasses == broken = "no" => lub_heap_check_memory(this)
=============================================================================
