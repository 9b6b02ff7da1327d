----------------------------- MODULE HeapProofs -----------------------------
(***************************************************************************)
(* Theorems about Heap, for every size of its segments, of its smallest    *)
(* block and of what clients ask for.                                      *)
(*                                                                         *)
(* What the functions of the heap do to the blocks is shown for any heap   *)
(* h, any blocks H that are held and any words R of memory that blocks are *)
(* made of, and only then used for the heap there is.                      *)
(***************************************************************************)
EXTENDS Heap, SequenceLemmas, FiniteSetTheorems, SequenceTheorems, TLAPS

-----------------------------------------------------------------------------
(* Blocks that tile R. *)

(* The last word of a block. *)
Top(m, b) == b + m[b].words - 1

(* A tag of block b tells whether it is free, whether R ends at word a, and its words. *)
Tells(tag, T, b, R, a, words) == tag = Tag(b \in T, a \notin R, words)

(* Both tags of a block tell this. *)
Sound(m, T, R, b) ==
  /\ m[b].words \in Nat /\ m[b].words >= MinWords
  /\ Tells(m[b], T, b, R, b - 1, m[b].words)
  /\ Tells(m[Top(m, b)], T, b, R, Top(m, b) + 1, m[b].words)

Tiling(m, T, H, R) ==
  /\ DOMAIN m = Addr /\ R \subseteq Addr /\ T \cap H = {}
  /\ \A b \in T \cup H : b \in Addr /\ Sound(m, T, R, b) /\ b .. Top(m, b) \subseteq R
  /\ \A a \in R : \E b \in T \cup H : a \in b .. Top(m, b)
  /\ \A b, c \in T \cup H : b < c => Top(m, b) < c

(* No two free blocks are neighbours. *)
NoPairs(m, T) == \A b \in T : Top(m, b) + 1 \notin T

Counted(h) == IsFiniteSet(h.tree) /\ h.free_blocks = Cardinality(h.tree)

IsHeap(h) == h = [mem |-> h.mem, tree |-> h.tree, free_blocks |-> h.free_blocks]

Sane(h, H, R) ==
  IsHeap(h) /\ Tiling(h.mem, h.tree, H, R) /\ NoPairs(h.mem, h.tree) /\ Counted(h)

(* The words of some blocks, and those no block is made of, are left alone. *)
Kept(m, n, H, R) ==
  \A a \in Addr : (a \notin R \/ \E c \in H : a \in c .. Top(m, c)) => n[a] = m[a]

(* What a tag says. *)
LEMMA TagIs ==
  ASSUME NEW tag, NEW T, NEW b, NEW R, NEW a, NEW words, Tells(tag, T, b, R, a, words)
  PROVE  /\ tag.free <=> b \in T
         /\ tag.segment <=> a \notin R
         /\ tag.words = words
         /\ tag.free \in BOOLEAN /\ tag.segment \in BOOLEAN
  <1>1. (tag.free <=> b \in T) /\ (tag.segment <=> a \notin R) /\ tag.words = words
    BY DEF Tells, Tag
  <1>2. tag.free = (b \in T)
    BY Zenon DEF Tells, Tag
  <1>3. tag.segment = (a \notin R)
    BY Zenon DEF Tells, Tag
  <1> QED
    BY <1>1, <1>2, <1>3

(* A tag that says it tells it. *)
LEMMA TellsIf ==
  ASSUME NEW free \in BOOLEAN, NEW segment \in BOOLEAN, NEW words, NEW T, NEW b, NEW R, NEW a,
         free <=> b \in T, segment <=> a \notin R
  PROVE  Tells(Tag(free, segment, words), T, b, R, a, words)
  <1>1. free = (b \in T) /\ segment = (a \notin R)
    BY Zenon
  <1> QED
    BY <1>1, Zenon DEF Tells

(* The tag of a block that is held. *)
LEMMA HeldTag ==
  ASSUME NEW segment \in BOOLEAN, NEW words, NEW T, NEW b, NEW R, NEW a,
         b \notin T, segment <=> a \notin R
  PROVE  Tells(Tag(FALSE, segment, words), T, b, R, a, words)
  <1> DEFINE free == FALSE
  <1>1. free \in BOOLEAN /\ (free <=> b \in T)
    OBVIOUS
  <1> HIDE DEF free
  <1>2. Tells(Tag(free, segment, words), T, b, R, a, words)
    BY <1>1, TellsIf
  <1> QED
    BY <1>2 DEF free

(* And of a free one. *)
LEMMA FreeTag ==
  ASSUME NEW segment \in BOOLEAN, NEW words, NEW T, NEW b, NEW R, NEW a,
         b \in T, segment <=> a \notin R
  PROVE  Tells(Tag(TRUE, segment, words), T, b, R, a, words)
  <1> DEFINE free == TRUE
  <1>1. free \in BOOLEAN /\ (free <=> b \in T)
    OBVIOUS
  <1> HIDE DEF free
  <1>2. Tells(Tag(free, segment, words), T, b, R, a, words)
    BY <1>1, TellsIf
  <1> QED
    BY <1>2 DEF free

(* A tag inside R. *)
LEMMA InnerTag ==
  ASSUME NEW words, NEW T, NEW b, NEW R, NEW a, a \in R
  PROVE  /\ b \notin T => Tells(Tag(FALSE, FALSE, words), T, b, R, a, words)
         /\ b \in T => Tells(Tag(TRUE, FALSE, words), T, b, R, a, words)
  <1> DEFINE segment == FALSE
  <1>1. segment \in BOOLEAN /\ (segment <=> a \notin R)
    OBVIOUS
  <1> HIDE DEF segment
  <1>2. /\ b \notin T => Tells(Tag(FALSE, segment, words), T, b, R, a, words)
        /\ b \in T => Tells(Tag(TRUE, segment, words), T, b, R, a, words)
    BY <1>1, HeldTag, FreeTag
  <1> QED
    BY <1>2 DEF segment

(* A block has room for its tags, and no block is at NULL. *)
LEMMA AddrIs == MinWords \in Nat /\ MinWords > 2 /\ Addr \subseteq Nat \ {0}
  BY HeapAssumption DEF Addr

(* What is known of a block of a tiling. *)
LEMMA BlockOf ==
  ASSUME NEW m, NEW T, NEW H, NEW R, Tiling(m, T, H, R), NEW b \in T \cup H
  PROVE  /\ b \in Nat /\ b > 0 /\ m[b].words \in Nat /\ m[b].words >= MinWords
         /\ Top(m, b) \in Nat /\ b < Top(m, b)
         /\ b \in R /\ Top(m, b) \in R /\ b .. Top(m, b) \subseteq R
         /\ (m[b].free <=> b \in T) /\ (m[b].segment <=> b - 1 \notin R)
         /\ (m[Top(m, b)].free <=> b \in T) /\ (m[Top(m, b)].segment <=> Top(m, b) + 1 \notin R)
         /\ m[Top(m, b)].words = m[b].words
         /\ m[b].segment \in BOOLEAN /\ m[Top(m, b)].segment \in BOOLEAN /\ m[b].free \in BOOLEAN
  <1>1. /\ b \in Addr /\ Sound(m, T, R, b) /\ b .. Top(m, b) \subseteq R
    BY DEF Tiling
  <1>2. /\ b \in Nat /\ b > 0 /\ m[b].words \in Nat /\ m[b].words > 2
    BY <1>1, AddrIs DEF Sound
  <1>3. Top(m, b) \in Nat /\ b < Top(m, b)
    BY <1>2 DEF Top
  <1>4. b \in b .. Top(m, b) /\ Top(m, b) \in b .. Top(m, b)
    BY <1>2, <1>3
  <1>5. Tells(m[b], T, b, R, b - 1, m[b].words) /\ Tells(m[Top(m, b)], T, b, R, Top(m, b) + 1, m[b].words)
    BY <1>1 DEF Sound
  <1>6. /\ (m[b].free <=> b \in T) /\ (m[b].segment <=> b - 1 \notin R)
        /\ (m[Top(m, b)].free <=> b \in T) /\ (m[Top(m, b)].segment <=> Top(m, b) + 1 \notin R)
        /\ m[Top(m, b)].words = m[b].words
        /\ m[b].segment \in BOOLEAN /\ m[Top(m, b)].segment \in BOOLEAN /\ m[b].free \in BOOLEAN
    BY <1>5, TagIs
  <1> QED
    BY <1>1, <1>2, <1>3, <1>4, <1>6 DEF Sound

(* Two blocks of a tiling that share a word are one. *)
LEMMA Apart ==
  ASSUME NEW m, NEW T, NEW H, NEW R, Tiling(m, T, H, R), NEW b \in T \cup H, NEW c \in T \cup H,
         NEW a \in b .. Top(m, b), a \in c .. Top(m, c)
  PROVE  b = c
  <1>1. b \in Nat /\ c \in Nat /\ Top(m, b) \in Nat /\ Top(m, c) \in Nat
    BY BlockOf
  <1>2. (b < c => Top(m, b) < c) /\ (c < b => Top(m, c) < b)
    BY DEF Tiling
  <1> QED
    BY <1>1, <1>2

(* The neighbours of a block are where its tags say. *)
LEMMA NextIs ==
  ASSUME NEW h, NEW H, NEW R, Tiling(h.mem, h.tree, H, R), NEW b \in h.tree \cup H
  PROVE  /\ Top(h.mem, b) + 1 \in R =>
              Top(h.mem, b) + 1 \in h.tree \cup H
                /\ lub_heap_block_getnext(h, b) = Top(h.mem, b) + 1
         /\ Top(h.mem, b) + 1 \notin R => lub_heap_block_getnext(h, b) = NULL
         /\ IsFree(h, lub_heap_block_getnext(h, b)) <=> Top(h.mem, b) + 1 \in h.tree
  <1> DEFINE m == h.mem
             t == Top(m, b)
  <1>1. /\ b \in Nat /\ t \in Nat /\ b < t /\ t \in R
        /\ (m[t].segment <=> t + 1 \notin R)
    BY BlockOf
  <1>2. lub_heap_block_getnext(h, b) = IF t + 1 \notin R THEN NULL ELSE t + 1
    BY <1>1 DEF lub_heap_block_getnext, lub_heap_block__get_tail, Top
  <1>3. ASSUME t + 1 \in R PROVE t + 1 \in h.tree \cup H
    <2>1. PICK c \in h.tree \cup H : t + 1 \in c .. Top(m, c)
      BY <1>3 DEF Tiling
    <2>2. c \in Nat /\ Top(m, c) \in Nat
      BY BlockOf
    <2>3. ASSUME c # t + 1 PROVE FALSE
      <3>1. t \in c .. Top(m, c) /\ t \in b .. Top(m, b)
        BY <1>1, <2>1, <2>2, <2>3
      <3>2. b = c
        BY <3>1, Apart
      <3> QED
        BY <1>1, <2>1, <2>2, <3>2
    <2> QED
      BY <2>1, <2>3
  <1>4. ASSUME t + 1 \in h.tree PROVE t + 1 \in R
    BY <1>4, BlockOf
  <1>5. IsFree(h, NULL) <=> FALSE
    BY DEF IsFree
  <1>6. ASSUME t + 1 \in R PROVE IsFree(h, t + 1) <=> t + 1 \in h.tree
    <2>1. m[t + 1].free <=> t + 1 \in h.tree
      BY <1>3, <1>6, BlockOf
    <2> QED
      BY <1>1, <2>1 DEF IsFree, NULL
  <1> QED
    BY <1>2, <1>3, <1>4, <1>5, <1>6

(* Likewise of the block before. *)
LEMMA PreviousIs ==
  ASSUME NEW h, NEW H, NEW R, Tiling(h.mem, h.tree, H, R), NEW b \in h.tree \cup H
  PROVE  /\ b - 1 \in R =>
              /\ lub_heap_block_getprevious(h, b) \in h.tree \cup H
              /\ Top(h.mem, lub_heap_block_getprevious(h, b)) = b - 1
         /\ b - 1 \notin R => lub_heap_block_getprevious(h, b) = NULL
         /\ IsFree(h, lub_heap_block_getprevious(h, b)) <=>
              lub_heap_block_getprevious(h, b) \in h.tree
         /\ \A p \in h.tree \cup H : Top(h.mem, p) = b - 1 => lub_heap_block_getprevious(h, b) = p
  <1> DEFINE m == h.mem
             q == lub_heap_block_getprevious(h, b)
  <1>1. b \in Nat /\ b > 0 /\ (m[b].segment <=> b - 1 \notin R) /\ b < Top(m, b)
        /\ Top(m, b) \in Nat
    BY BlockOf
  <1>2. q = IF b - 1 \notin R THEN NULL ELSE b - m[b - 1].words
    BY <1>1 DEF lub_heap_block_getprevious
  <1>3. ASSUME NEW p \in h.tree \cup H, Top(m, p) = b - 1 PROVE q = p /\ b - 1 \in R
    <2>1. p \in Nat /\ m[p].words \in Nat /\ m[b - 1].words = m[p].words /\ b - 1 \in R
      BY <1>3, BlockOf
    <2> QED
      BY <1>1, <1>2, <1>3, <2>1 DEF Top
  <1>4. ASSUME b - 1 \in R PROVE \E p \in h.tree \cup H : Top(m, p) = b - 1
    <2>1. PICK p \in h.tree \cup H : b - 1 \in p .. Top(m, p)
      BY <1>4 DEF Tiling
    <2>2. p \in Nat /\ Top(m, p) \in Nat
      BY BlockOf
    <2>3. ASSUME Top(m, p) # b - 1 PROVE FALSE
      <3>1. b \in p .. Top(m, p) /\ b \in b .. Top(m, b)
        BY <1>1, <2>1, <2>2, <2>3
      <3>2. b = p
        BY <3>1, Apart
      <3> QED
        BY <1>1, <2>1, <2>2, <3>2
    <2> QED
      BY <2>3
  <1>5. NULL \notin h.tree \cup H
    BY AddrIs DEF Tiling, NULL
  <1>6. q \in h.tree \cup H => (m[q].free <=> q \in h.tree)
    BY BlockOf
  <1>7. b - 1 \notin R => q = NULL
    BY <1>2
  <1>8. q \in h.tree => q # NULL /\ h.mem[q].free
    BY <1>5, <1>6
  <1>9. q # NULL /\ h.mem[q].free => q \in h.tree
    BY <1>3, <1>4, <1>6, <1>7
  <1> QED
    BY <1>3, <1>4, <1>7, <1>8, <1>9 DEF IsFree

-----------------------------------------------------------------------------
(* What a change of some words does to a tiling. *)

(* The blocks between lo and hi are replaced by others, which tile what R2 has between
   lo and hi, while nothing else changes.  The neighbours of the replaced blocks still
   have R, or its end, next to them. *)
Replaces(m, T, H, R, m2, T2, H2, R2, lo, hi) ==
  /\ lo \in Nat /\ hi \in Nat /\ R2 \subseteq Addr /\ DOMAIN m2 = Addr
  /\ \A b \in T \cup H : Top(m, b) < lo \/ hi < b \/ (lo <= b /\ Top(m, b) <= hi)
  /\ \A a \in Int : a < lo \/ hi < a =>
       /\ a \in R2 <=> a \in R
       /\ a \in T2 <=> a \in T
       /\ a \in H2 <=> a \in H
       /\ a \in Addr => m2[a] = m[a]
  /\ lo - 1 \in R => (lo \in R2 <=> lo \in R)
  /\ hi + 1 \in R => (hi \in R2 <=> hi \in R)

Fills(m2, T2, H2, R2, lo, hi) ==
  /\ T2 \cap H2 \cap lo .. hi = {}
  /\ \A n \in lo .. hi : n \in T2 \cup H2 =>
       n \in Addr /\ Sound(m2, T2, R2, n) /\ Top(m2, n) <= hi /\ n .. Top(m2, n) \subseteq R2
  /\ \A a \in R2 \cap (lo .. hi) : \E n \in T2 \cup H2 : lo <= n /\ a \in n .. Top(m2, n)
  /\ \A n, k \in lo .. hi : n \in T2 \cup H2 /\ k \in T2 \cup H2 /\ n < k => Top(m2, n) < k

(* What takes the place of some blocks tiles memory as they did. *)
LEMMA Retile ==
  ASSUME NEW m, NEW T, NEW H, NEW R, NEW m2, NEW T2, NEW H2, NEW R2, NEW lo, NEW hi,
         Tiling(m, T, H, R), Replaces(m, T, H, R, m2, T2, H2, R2, lo, hi),
         Fills(m2, T2, H2, R2, lo, hi), T2 \cup H2 \subseteq Int
  PROVE  Tiling(m2, T2, H2, R2)
  <1> DEFINE B == T \cup H
             B2 == T2 \cup H2
  <1>1. /\ lo \in Nat /\ hi \in Nat /\ R2 \subseteq Addr /\ DOMAIN m2 = Addr /\ R \subseteq Addr
        /\ Addr \subseteq Nat
    BY AddrIs DEF Replaces, Tiling
  <1>0. ASSUME NEW a \in Int, a \notin lo .. hi
        PROVE  /\ a \in R2 <=> a \in R
               /\ a \in T2 <=> a \in T
               /\ a \in H2 <=> a \in H
               /\ a \in Addr => m2[a] = m[a]
    <2>1. a < lo \/ hi < a
      BY <1>0, <1>1
    <2> QED
      BY <2>1 DEF Replaces
  (* The blocks outside are what they were. *)
  <1>2. ASSUME NEW b \in B2, b \notin lo .. hi
        PROVE  /\ b \in B /\ b \in Nat /\ Top(m, b) \in Nat /\ Top(m2, b) = Top(m, b)
               /\ b \in Addr /\ b < Top(m, b) /\ Sound(m2, T2, R2, b)
               /\ b .. Top(m, b) \subseteq R2
               /\ Top(m, b) < lo \/ hi < b
    <2>1. b \in Int /\ b \in B /\ (b \in T2 <=> b \in T)
      BY <1>0, <1>1, <1>2
    <2>2. /\ b \in Nat /\ b > 0 /\ b \in R /\ Top(m, b) \in R /\ Top(m, b) \in Nat /\ b < Top(m, b)
          /\ b .. Top(m, b) \subseteq R /\ m[b].words \in Nat /\ m[b].words >= MinWords
      BY <2>1, BlockOf
    <2>3. Top(m, b) < lo \/ hi < b
      BY <1>0, <1>1, <1>2, <2>1, <2>2 DEF Replaces
    <2>4. m2[b] = m[b] /\ m2[Top(m, b)] = m[Top(m, b)] /\ b .. Top(m, b) \subseteq R2
      BY <1>0, <1>1, <2>2, <2>3
    <2>5. Top(m2, b) = Top(m, b)
      BY <2>4 DEF Top
    <2>6. (b - 1 \in R2 <=> b - 1 \in R) /\ (Top(m, b) + 1 \in R2 <=> Top(m, b) + 1 \in R)
      <3>1. lo - 1 \in R => (lo \in R2 <=> lo \in R)
        BY DEF Replaces
      <3>2. hi + 1 \in R => (hi \in R2 <=> hi \in R)
        BY DEF Replaces
      <3>3. b - 1 \in Int /\ Top(m, b) + 1 \in Int
        BY <2>2
      <3>4. CASE Top(m, b) < lo
        <4>1. b - 1 \notin lo .. hi
          BY <1>0, <1>1, <2>2, <3>4
        <4>2. CASE Top(m, b) + 1 = lo
          BY <1>0, <1>1, <2>2, <3>1, <3>3, <4>1, <4>2
        <4>3. CASE Top(m, b) + 1 # lo
          BY <1>0, <1>1, <2>2, <3>3, <3>4, <4>1, <4>3
        <4> QED BY <4>2, <4>3
      <3>5. CASE hi < b
        <4>1. Top(m, b) + 1 \notin lo .. hi
          BY <1>0, <1>1, <2>2, <3>5
        <4>2. CASE b - 1 = hi
          BY <1>0, <1>1, <2>2, <3>2, <3>3, <4>1, <4>2
        <4>3. CASE b - 1 # hi
          BY <1>0, <1>1, <2>2, <3>3, <3>5, <4>1, <4>3
        <4> QED BY <4>2, <4>3
      <3> QED
        BY <2>3, <3>4, <3>5
    <2>7. /\ Tells(m[b], T, b, R, b - 1, m[b].words)
          /\ Tells(m[Top(m, b)], T, b, R, Top(m, b) + 1, m[b].words)
          /\ b \in Addr
      BY <2>1 DEF Tiling, Sound
    <2>8. \A tag, a, w : (a \in R2 <=> a \in R) /\ Tells(tag, T, b, R, a, w) => Tells(tag, T2, b, R2, a, w)
      BY <2>1 DEF Tells
    <2>9. /\ Tells(m2[b], T2, b, R2, b - 1, m2[b].words)
          /\ Tells(m2[Top(m2, b)], T2, b, R2, Top(m2, b) + 1, m2[b].words)
      BY <2>4, <2>5, <2>6, <2>7, <2>8
    <2>10. Sound(m2, T2, R2, b)
      BY <2>2, <2>4, <2>9 DEF Sound
    <2> QED
      BY <2>1, <2>2, <2>3, <2>4, <2>5, <2>7, <2>10
  (* And those inside fill it. *)
  <1>3. ASSUME NEW n \in B2, n \in lo .. hi
        PROVE  /\ n \in Addr /\ Sound(m2, T2, R2, n) /\ Top(m2, n) <= hi
               /\ n .. Top(m2, n) \subseteq R2 /\ Top(m2, n) \in Nat /\ n <= Top(m2, n)
    <2>1. n \in Addr /\ Sound(m2, T2, R2, n) /\ Top(m2, n) <= hi /\ n .. Top(m2, n) \subseteq R2
      BY <1>3 DEF Fills
    <2>2. m2[n].words \in Nat /\ m2[n].words > 2
      BY <2>1, AddrIs DEF Sound
    <2> QED
      BY <1>1, <1>3, <2>1, <2>2 DEF Top
  <1>4. \A b \in B2 : b \in Addr /\ Sound(m2, T2, R2, b) /\ b .. Top(m2, b) \subseteq R2
    BY <1>2, <1>3
  <1>5. T2 \cap H2 = {}
    <2> SUFFICES ASSUME NEW b \in T2 \cap H2 PROVE FALSE
      OBVIOUS
    <2>1. CASE b \in lo .. hi
      BY <2>1 DEF Fills
    <2>2. CASE b \notin lo .. hi
      BY <1>0, <1>1, <2>2 DEF Tiling
    <2> QED
      BY <2>1, <2>2
  <1>6. ASSUME NEW a \in R2 PROVE \E b \in B2 : a \in b .. Top(m2, b)
    <2>1. CASE a \in lo .. hi
      BY <2>1 DEF Fills
    <2>2. CASE a \notin lo .. hi
      <3>1. a \in Nat /\ a \in R
        BY <1>0, <1>1, <2>2
      <3>2. PICK b \in B : a \in b .. Top(m, b)
        BY <3>1 DEF Tiling
      <3>3. b \in Nat /\ Top(m, b) \in Nat /\ b < Top(m, b)
        BY BlockOf
      <3>4. Top(m, b) < lo \/ hi < b \/ (lo <= b /\ Top(m, b) <= hi)
        BY DEF Replaces
      <3>5. b \notin lo .. hi
        BY <1>0, <1>1, <2>2, <3>1, <3>2, <3>3, <3>4
      <3>6. b \in B2
        BY <1>0, <1>1, <3>3, <3>5
      <3>7. Top(m2, b) = Top(m, b)
        BY <1>2, <3>5, <3>6
      <3> QED
        BY <3>2, <3>6, <3>7
    <2> QED
      BY <2>1, <2>2
  <1>7. ASSUME NEW b \in B2, NEW c \in B2, b < c PROVE Top(m2, b) < c
    <2>0. b \in Nat /\ c \in Nat /\ Top(m2, b) \in Nat
      BY <1>0, <1>1, <1>2, <1>3
    <2>1. CASE b \in lo .. hi /\ c \in lo .. hi
      BY <1>7, <2>1 DEF Fills
    <2>2. CASE b \in lo .. hi /\ c \notin lo .. hi
      BY <1>0, <1>1, <1>2, <1>3, <1>7, <2>0, <2>2
    <2>3. CASE b \notin lo .. hi /\ c \in lo .. hi
      BY <1>0, <1>1, <1>2, <1>3, <1>7, <2>0, <2>3
    <2>4. CASE b \notin lo .. hi /\ c \notin lo .. hi
      <3>1. b \in B /\ c \in B /\ Top(m2, b) = Top(m, b)
        BY <1>2, <2>4
      <3> QED
        BY <1>7, <3>1 DEF Tiling
    <2> QED
      BY <2>1, <2>2, <2>3, <2>4
  <1> QED
    BY <1>1, <1>4, <1>5, <1>6, <1>7 DEF Tiling

(* What is outside is left alone. *)
LEMMA KeptOutside ==
  ASSUME NEW m, NEW T, NEW H, NEW R, NEW m2, NEW T2, NEW H2, NEW R2, NEW lo, NEW hi,
         Tiling(m, T, H, R), Replaces(m, T, H, R, m2, T2, H2, R2, lo, hi),
         \A a \in lo .. hi : a \in R,
         NEW G, \A c \in G : c \in T \cup H /\ c \notin lo .. hi
  PROVE  Kept(m, m2, G, R)
  <1>1. lo \in Nat /\ hi \in Nat /\ Addr \subseteq Nat
    BY AddrIs DEF Replaces
  <1> SUFFICES ASSUME NEW a \in Addr, a \notin R \/ \E c \in G : a \in c .. Top(m, c)
               PROVE  m2[a] = m[a]
    BY DEF Kept
  <1>2. ASSUME NEW c \in G, a \in c .. Top(m, c) PROVE a \notin lo .. hi
    <2>1. c \in Nat /\ Top(m, c) \in Nat /\ c < Top(m, c)
      BY BlockOf
    <2>2. Top(m, c) < lo \/ hi < c \/ (lo <= c /\ Top(m, c) <= hi)
      BY DEF Replaces
    <2> QED
      BY <1>1, <1>2, <2>1, <2>2
  <1>3. a < lo \/ hi < a
    BY <1>1, <1>2
  <1> QED
    BY <1>1, <1>3 DEF Replaces

(* No two free blocks become neighbours if none do where something changed. *)
LEMMA StillNoPairs ==
  ASSUME NEW m, NEW T, NEW H, NEW R, NEW m2, NEW T2, NEW H2, NEW R2, NEW lo, NEW hi,
         Tiling(m, T, H, R), Replaces(m, T, H, R, m2, T2, H2, R2, lo, hi), Tiling(m2, T2, H2, R2),
         NoPairs(m, T),
         lo \in T2 => \A b \in T : Top(m, b) + 1 # lo,
         \A n \in lo .. hi : n \in T2 => Top(m2, n) + 1 \notin T2
  PROVE  NoPairs(m2, T2)
  <1> SUFFICES ASSUME NEW b \in T2, Top(m2, b) + 1 \in T2 PROVE FALSE
    BY DEF NoPairs
  <1>1. lo \in Nat /\ hi \in Nat
    BY DEF Replaces
  <1>2. b \in Nat /\ Top(m2, b) \in Nat /\ b \notin lo .. hi /\ b \in Addr
    <2>1. b \in T2 \cup H2
      OBVIOUS
    <2>2. b \in Addr
      BY <2>1 DEF Tiling
    <2> QED
      BY <2>1, <2>2, BlockOf
  <1>3. b \in T /\ m2[b] = m[b]
    BY <1>1, <1>2 DEF Replaces
  <1>4. Top(m2, b) = Top(m, b) /\ b < Top(m, b)
    BY <1>3, BlockOf DEF Top
  <1>5. Top(m, b) < lo \/ hi < b
    <2>1. Top(m, b) < lo \/ hi < b \/ (lo <= b /\ Top(m, b) <= hi)
      BY <1>3 DEF Replaces
    <2> QED
      BY <1>1, <1>2, <1>4, <2>1
  <1>6. Top(m, b) + 1 # lo
    BY <1>3, <1>4
  <1>7. Top(m, b) + 1 \in Int /\ (Top(m, b) + 1 < lo \/ hi < Top(m, b) + 1)
    BY <1>1, <1>2, <1>4, <1>5, <1>6
  <1>8. Top(m, b) + 1 \in T
    BY <1>4, <1>7 DEF Replaces
  <1> QED
    BY <1>3, <1>8 DEF NoPairs

(* The blocks from lo to e become one, or two. *)
Spans(m, T, H, R, lo, e, hi) ==
  /\ lo \in T \cup H /\ e \in T \cup H /\ lo <= e /\ hi = Top(m, e)
  /\ \A a \in lo .. hi : a \in R

Outside(m, T, H, m2, T2, H2, lo, hi) ==
  /\ DOMAIN m2 = Addr /\ T2 \cup H2 \subseteq Int
  /\ \A a \in Int : a < lo \/ hi < a =>
       /\ a \in T2 <=> a \in T
       /\ a \in H2 <=> a \in H
       /\ a \in Addr => m2[a] = m[a]

(* When the words that blocks are made of stay the same. *)
LEMMA ReplacesIf ==
  ASSUME NEW m, NEW T, NEW H, NEW R, NEW m2, NEW T2, NEW H2, NEW lo, NEW e, NEW hi,
         Tiling(m, T, H, R), Spans(m, T, H, R, lo, e, hi), Outside(m, T, H, m2, T2, H2, lo, hi)
  PROVE  Replaces(m, T, H, R, m2, T2, H2, R, lo, hi)
  <1>1. /\ lo \in Nat /\ e \in Nat /\ hi \in Nat /\ e < hi /\ lo <= e /\ hi = Top(m, e)
        /\ lo \in T \cup H /\ e \in T \cup H
    BY BlockOf DEF Spans
  <1>2. ASSUME NEW b \in T \cup H PROVE Top(m, b) < lo \/ hi < b \/ (lo <= b /\ Top(m, b) <= hi)
    <2>1. b \in Nat /\ Top(m, b) \in Nat
      BY BlockOf
    <2>2. (b < lo => Top(m, b) < lo) /\ (e < b => hi < b) /\ (b < e => Top(m, b) < e)
      BY <1>1 DEF Tiling
    <2> QED
      BY <1>1, <2>1, <2>2
  <1>3. R \subseteq Addr
    BY DEF Tiling
  <1> QED
    BY <1>1, <1>2, <1>3 DEF Outside, Replaces

(* Some blocks become one. *)
LEMMA OneBlock ==
  ASSUME NEW m, NEW T, NEW H, NEW R, NEW m2, NEW T2, NEW H2, NEW lo, NEW e, NEW hi,
         Tiling(m, T, H, R), Spans(m, T, H, R, lo, e, hi), Outside(m, T, H, m2, T2, H2, lo, hi),
         \A n \in lo .. hi : n \in T2 \cup H2 <=> n = lo, lo \notin T2 \cap H2,
         Tells(m2[lo], T2, lo, R, lo - 1, (hi - lo) + 1), Tells(m2[hi], T2, lo, R, hi + 1, (hi - lo) + 1)
  PROVE  Tiling(m2, T2, H2, R) /\ Top(m2, lo) = hi
  <1>1. /\ lo \in Nat /\ hi \in Nat /\ lo \in Addr /\ (hi - lo) + 1 >= MinWords
    <2>1. /\ lo \in T \cup H /\ e \in T \cup H /\ lo <= e /\ hi = Top(m, e)
      BY DEF Spans
    <2>2. lo \in Nat /\ e \in Nat /\ m[e].words >= MinWords /\ m[e].words \in Nat /\ hi \in Nat
      BY <2>1, BlockOf
    <2>3. lo \in Addr
      BY <2>1 DEF Tiling
    <2> QED
      BY <2>1, <2>2, <2>3, AddrIs DEF Top
  <1>2. m2[lo].words = (hi - lo) + 1
    BY TagIs
  <1>3. Top(m2, lo) = hi
    BY <1>1, <1>2 DEF Top
  <1>4. Sound(m2, T2, R, lo)
    BY <1>1, <1>2, <1>3, AddrIs DEF Sound
  <1>5. \A a \in lo .. hi : a \in R
    BY DEF Spans
  <1>6. Fills(m2, T2, H2, R, lo, hi)
    BY <1>1, <1>3, <1>4, <1>5 DEF Fills
  <1>7. T2 \cup H2 \subseteq Int
    BY DEF Outside
  <1> QED
    BY <1>3, <1>6, <1>7, ReplacesIf, Retile

(* Some blocks become two. *)
LEMMA TwoBlocks ==
  ASSUME NEW m, NEW T, NEW H, NEW R, NEW m2, NEW T2, NEW H2, NEW lo, NEW e, NEW hi, NEW k \in Nat,
         Tiling(m, T, H, R), Spans(m, T, H, R, lo, e, hi), Outside(m, T, H, m2, T2, H2, lo, hi),
         \A n \in lo .. hi : n \in T2 \cup H2 <=> n \in {lo, k},
         lo \notin T2 \cap H2, k \notin T2 \cap H2,
         k - lo >= MinWords, (hi - k) + 1 >= MinWords,
         Tells(m2[lo], T2, lo, R, lo - 1, k - lo), Tells(m2[k - 1], T2, lo, R, k, k - lo),
         Tells(m2[k], T2, k, R, k - 1, (hi - k) + 1), Tells(m2[hi], T2, k, R, hi + 1, (hi - k) + 1)
  PROVE  Tiling(m2, T2, H2, R) /\ Top(m2, lo) = k - 1 /\ Top(m2, k) = hi
  <1>1. /\ lo \in Nat /\ hi \in Nat /\ lo \in Addr /\ MinWords \in Nat /\ MinWords > 2
    <2>1. /\ lo \in T \cup H /\ e \in T \cup H /\ lo <= e /\ hi = Top(m, e)
      BY DEF Spans
    <2>2. lo \in Nat /\ e \in Nat /\ hi \in Nat
      BY <2>1, BlockOf
    <2>3. lo \in Addr
      BY <2>1 DEF Tiling
    <2> QED
      BY <2>1, <2>2, <2>3, AddrIs
  <1>2. m2[lo].words = k - lo /\ m2[k].words = (hi - k) + 1
    BY TagIs
  <1>3. Top(m2, lo) = k - 1 /\ Top(m2, k) = hi
    BY <1>1, <1>2 DEF Top
  <1>4. Sound(m2, T2, R, lo)
    BY <1>1, <1>2, <1>3 DEF Sound
  <1>5. Sound(m2, T2, R, k)
    BY <1>1, <1>2, <1>3 DEF Sound
  <1>6. \A a \in lo .. hi : a \in R /\ a \in Addr
    BY DEF Spans, Tiling
  <1>7. Fills(m2, T2, H2, R, lo, hi)
    BY <1>1, <1>3, <1>4, <1>5, <1>6 DEF Fills
  <1>8. T2 \cup H2 \subseteq Int
    BY DEF Outside
  <1> QED
    BY <1>3, <1>7, <1>8, ReplacesIf, Retile

(* A block ends before the next one begins. *)
LEMMA InOrder ==
  ASSUME NEW m, NEW T, NEW H, NEW R, Tiling(m, T, H, R)
  PROVE  \A x, y \in T \cup H : x \in Nat /\ (y < x => Top(m, y) < x)
  <1> SUFFICES ASSUME NEW x \in T \cup H, NEW y \in T \cup H
               PROVE  x \in Nat /\ (y < x => Top(m, y) < x)
    OBVIOUS
  <1>1. x \in Nat
    BY BlockOf
  <1>2. y < x => Top(m, y) < x
    BY DEF Tiling
  <1> QED
    BY <1>1, <1>2

(* Block c follows block b. *)
Adjoins(m, b, c) == Top(m, b) + 1 = c

(* A block alone, two in a row, and three in a row, and the words they span. *)
LEMMA Alone ==
  ASSUME NEW m, NEW T, NEW H, NEW R, Tiling(m, T, H, R), NEW b \in T \cup H
  PROVE  /\ Spans(m, T, H, R, b, b, Top(m, b))
         /\ \A x \in T \cup H : x \in b .. Top(m, b) => x = b
  <1>1. b \in Nat /\ Top(m, b) \in Nat /\ b < Top(m, b) /\ b .. Top(m, b) \subseteq R
    BY BlockOf
  <1>2. \A x, y \in T \cup H : x \in Nat /\ (y < x => Top(m, y) < x)
    BY InOrder
  <1> QED
    BY <1>1, <1>2 DEF Spans

(* What two neighbours span. *)
LEMMA Pair ==
  ASSUME NEW m, NEW T, NEW H, NEW R, Tiling(m, T, H, R),
         NEW b \in T \cup H, NEW c \in T \cup H, Adjoins(m, b, c)
  PROVE  /\ Spans(m, T, H, R, b, c, Top(m, c)) /\ b < c
         /\ Top(m, c) = b + (m[b].words + m[c].words) - 1
         /\ \A x \in T \cup H : x \in b .. Top(m, c) => x = b \/ x = c
  <1>1. /\ b \in Nat /\ Top(m, b) \in Nat /\ b < Top(m, b) /\ b .. Top(m, b) \subseteq R
        /\ c \in Nat /\ Top(m, c) \in Nat /\ c < Top(m, c) /\ c .. Top(m, c) \subseteq R
        /\ m[b].words \in Nat /\ m[c].words \in Nat
    BY BlockOf
  <1>0. Top(m, b) + 1 = c
    BY DEF Adjoins
  <1>2. \A x, y \in T \cup H : x \in Nat /\ (y < x => Top(m, y) < x)
    BY InOrder
  <1>3. \A a \in b .. Top(m, c) : a \in b .. Top(m, b) \/ a \in c .. Top(m, c)
    BY <1>0, <1>1
  <1>4. Top(m, c) = b + (m[b].words + m[c].words) - 1
    BY <1>0, <1>1 DEF Top
  <1> QED
    BY <1>0, <1>1, <1>2, <1>3, <1>4 DEF Spans

(* What three neighbours span. *)
LEMMA Row ==
  ASSUME NEW m, NEW T, NEW H, NEW R, Tiling(m, T, H, R),
         NEW b \in T \cup H, NEW c \in T \cup H, NEW d \in T \cup H,
         Adjoins(m, b, c), Adjoins(m, c, d)
  PROVE  /\ Spans(m, T, H, R, b, d, Top(m, d))
         /\ \A x \in T \cup H : x \in b .. Top(m, d) => x = b \/ x = c \/ x = d
  <1>1. /\ b \in Nat /\ Top(m, b) \in Nat /\ b < Top(m, b) /\ b .. Top(m, b) \subseteq R
        /\ c \in Nat /\ Top(m, c) \in Nat /\ c < Top(m, c) /\ c .. Top(m, c) \subseteq R
        /\ d \in Nat /\ Top(m, d) \in Nat /\ d < Top(m, d) /\ d .. Top(m, d) \subseteq R
    BY BlockOf
  <1>2. \A x, y \in T \cup H : x \in Nat /\ (y < x => Top(m, y) < x)
    BY InOrder
  <1>0. Top(m, b) + 1 = c /\ Top(m, c) + 1 = d
    BY DEF Adjoins
  <1>3. \A a \in b .. Top(m, d) : a \in b .. Top(m, b) \/ a \in c .. Top(m, c) \/ a \in d .. Top(m, d)
    BY <1>0, <1>1
  <1> QED
    BY <1>0, <1>1, <1>2, <1>3 DEF Spans

-----------------------------------------------------------------------------
(* Writing a block. *)

(* The words from lo to hi are a block with these tags. *)
Framed(m, lo, hi, head, tail) ==
  Written(m, [a \in lo .. hi |-> CASE a = lo -> head
                                   [] a = hi -> tail
                                   [] OTHER  -> Taint])

(* What is read where such a block was written. *)
LEMMA FramedIs ==
  ASSUME NEW m, NEW lo \in Nat, NEW hi \in Nat, NEW head, NEW tail,
         lo < hi, DOMAIN m = Addr, \A a \in lo .. hi : a \in Addr
  PROVE  /\ DOMAIN Framed(m, lo, hi, head, tail) = Addr
         /\ Framed(m, lo, hi, head, tail)[lo] = head
         /\ Framed(m, lo, hi, head, tail)[hi] = tail
         /\ \A a \in Addr : a < lo \/ hi < a => Framed(m, lo, hi, head, tail)[a] = m[a]
  <1> DEFINE f == [a \in lo .. hi |-> CASE a = lo -> head
                                        [] a = hi -> tail
                                        [] OTHER  -> Taint]
             M == Framed(m, lo, hi, head, tail)
  <1>1. M = [a \in Addr |-> IF a \in lo .. hi THEN f[a] ELSE m[a]]
    BY DEF Framed, Written
  <1>2. lo \in lo .. hi /\ hi \in lo .. hi
    OBVIOUS
  <1>3. f[lo] = head /\ f[hi] = tail
    BY <1>2
  <1>4. lo \in Addr /\ hi \in Addr /\ Addr \subseteq Nat
    BY <1>2, AddrIs
  <1> HIDE DEF f, M
  <1>5. /\ DOMAIN M = Addr /\ M[lo] = head /\ M[hi] = tail
        /\ \A a \in Addr : a < lo \/ hi < a => M[a] = m[a]
    BY <1>1, <1>2, <1>3, <1>4
  <1> QED
    BY <1>5 DEF M

(* The tags of a block that is longer now, and the words that join it. *)
Stretched(m, lo, old, hi, head, tail) ==
  Written(m, [a \in {lo} \cup (old .. hi) |-> CASE a = lo -> head
                                               [] a = hi -> tail
                                               [] OTHER  -> Taint])

(* What is read where a block was extended upwards. *)
LEMMA StretchedIs ==
  ASSUME NEW m, NEW lo \in Nat, NEW old \in Nat, NEW hi \in Nat, NEW head, NEW tail,
         lo < old, old < hi, DOMAIN m = Addr, lo \in Addr, \A a \in old .. hi : a \in Addr
  PROVE  /\ DOMAIN Stretched(m, lo, old, hi, head, tail) = Addr
         /\ Stretched(m, lo, old, hi, head, tail)[lo] = head
         /\ Stretched(m, lo, old, hi, head, tail)[hi] = tail
         /\ \A a \in Addr : a < lo \/ hi < a \/ (lo < a /\ a < old) =>
              Stretched(m, lo, old, hi, head, tail)[a] = m[a]
  <1> DEFINE D == {lo} \cup (old .. hi)
             f == [a \in D |-> CASE a = lo -> head
                                 [] a = hi -> tail
                                 [] OTHER  -> Taint]
             M == Stretched(m, lo, old, hi, head, tail)
  <1>1. M = [a \in Addr |-> IF a \in D THEN f[a] ELSE m[a]]
    BY DEF Stretched, Written
  <1>2. lo \in D /\ hi \in D
    OBVIOUS
  <1>3. f[lo] = head /\ f[hi] = tail
    BY <1>2
  <1>4. lo \in Addr /\ hi \in Addr /\ Addr \subseteq Nat
    BY AddrIs
  <1>5. \A a \in Addr : a < lo \/ hi < a \/ (lo < a /\ a < old) => a \notin D
    BY <1>4
  <1> HIDE DEF f, M, D
  <1>6. /\ DOMAIN M = Addr /\ M[lo] = head /\ M[hi] = tail
        /\ \A a \in Addr : a < lo \/ hi < a \/ (lo < a /\ a < old) => M[a] = m[a]
    BY <1>1, <1>2, <1>3, <1>4, <1>5
  <1> QED
    BY <1>6 DEF M

(* The words of a block from lo to hi, the contents of which come from further up. *)
Shifted(m, lo, hi, head, tail, w, by) ==
  Written(m, [a \in lo .. hi |-> CASE a = lo -> head
                                   [] a = hi -> tail
                                   [] a \in lo + 1 .. lo + w - 2 -> Moved(m, a, by)
                                   [] OTHER  -> Taint])

ShiftsTo(m, lo, hi, head, tail, w, by, M) ==
  /\ DOMAIN M = Addr /\ M[lo] = head /\ M[hi] = tail
  /\ \A a \in Addr : a < lo \/ hi < a => M[a] = m[a]
  /\ \A i \in 1 .. w - 2 : M[lo + i] = m[(lo + i) + by]

(* What is read where a block was moved down. *)
LEMMA ShiftedIs ==
  ASSUME NEW m, NEW lo \in Nat, NEW hi \in Nat, NEW head, NEW tail, NEW w \in Nat, NEW by \in Nat,
         lo < hi, w > 2, lo + w <= hi, DOMAIN m = Addr, \A a \in lo .. hi : a \in Addr
  PROVE  ShiftsTo(m, lo, hi, head, tail, w, by, Shifted(m, lo, hi, head, tail, w, by))
  <1> DEFINE f == [a \in lo .. hi |-> CASE a = lo -> head
                                        [] a = hi -> tail
                                        [] a \in lo + 1 .. lo + w - 2 -> Moved(m, a, by)
                                        [] OTHER  -> Taint]
             M == Shifted(m, lo, hi, head, tail, w, by)
  <1>1. M = [a \in Addr |-> IF a \in lo .. hi THEN f[a] ELSE m[a]]
    <2>1. M = [a \in DOMAIN m |-> IF a \in DOMAIN f THEN f[a] ELSE m[a]]
      BY Zenon DEF Shifted, Written
    <2>2. DOMAIN f = lo .. hi
      BY Zenon
    <2> QED
      BY <2>1, <2>2, Zenon
  <1>2. lo \in lo .. hi /\ hi \in lo .. hi
    OBVIOUS
  <1>3. f[lo] = head
    BY <1>2
  <1>4. f[hi] = tail
    BY <1>2
  <1>5. ASSUME NEW i \in 1 .. w - 2 PROVE lo + i \in lo .. hi /\ f[lo + i] = m[(lo + i) + by]
    <2> DEFINE j == lo + i
    <2>1. j \in lo .. hi /\ j # lo /\ j # hi /\ j \in lo + 1 .. lo + w - 2
      OBVIOUS
    <2> HIDE DEF j
    <2>2. f[j] = Moved(m, j, by)
      BY <2>1
    <2> QED
      BY <2>1, <2>2 DEF j, Moved
  <1>6. lo \in Addr /\ hi \in Addr /\ Addr \subseteq Nat
    BY <1>2, AddrIs
  <1> HIDE DEF f, M
  <1>7. /\ DOMAIN M = Addr /\ M[lo] = head /\ M[hi] = tail
        /\ \A a \in Addr : a < lo \/ hi < a => M[a] = m[a]
    BY <1>1, <1>2, <1>3, <1>4, <1>6
  <1>8. \A i \in 1 .. w - 2 : M[lo + i] = m[(lo + i) + by]
    BY <1>1, <1>5
  <1> QED
    BY <1>7, <1>8 DEF M, ShiftsTo

(* The same starts outside lo to hi. *)
-----------------------------------------------------------------------------
(* Releasing a block. *)

(* A free block more. *)
LEMMA CountAdd ==
  ASSUME NEW h, NEW g, NEW x, Counted(h), x \notin h.tree,
         g.tree = h.tree \cup {x}, g.free_blocks = h.free_blocks + 1
  PROVE  Counted(g)
  BY FS_AddElement DEF Counted

(* A free block less. *)
LEMMA CountRemove ==
  ASSUME NEW h, NEW g, NEW x, Counted(h), x \in h.tree,
         g.tree = h.tree \ {x}, g.free_blocks = h.free_blocks - 1
  PROVE  Counted(g)
  BY FS_RemoveElement DEF Counted

(* A free block for another. *)
LEMMA CountSwap ==
  ASSUME NEW h, NEW g, NEW x, NEW y, Counted(h), x \in h.tree, y \notin h.tree,
         g.tree = (h.tree \ {x}) \cup {y}, g.free_blocks = h.free_blocks
  PROVE  Counted(g)
  <1>1. /\ IsFiniteSet(h.tree \ {x}) /\ Cardinality(h.tree \ {x}) = Cardinality(h.tree) - 1
        /\ Cardinality(h.tree) \in Nat
    BY FS_RemoveElement, FS_CardinalityType DEF Counted
  <1>2. IsFiniteSet(g.tree) /\ Cardinality(g.tree) = Cardinality(h.tree \ {x}) + 1
    BY <1>1, FS_AddElement
  <1> QED
    BY <1>1, <1>2 DEF Counted

(* The same of two heaps. *)
Changes(h, H, R, g, H2, R2, lo, hi) ==
  /\ Tiling(g.mem, g.tree, H2, R2)
  /\ Replaces(h.mem, h.tree, H, R, g.mem, g.tree, H2, R2, lo, hi)

(* A heap is sane after a change that is sound where it happened. *)
LEMMA SaneIf ==
  ASSUME NEW h, NEW H, NEW R, NEW g, NEW H2, NEW R2, NEW lo, NEW hi, Sane(h, H, R), IsHeap(g), Counted(g),
         Changes(h, H, R, g, H2, R2, lo, hi),
         lo \in g.tree => \A b \in h.tree : Top(h.mem, b) + 1 # lo,
         \A n \in lo .. hi : n \in g.tree => Top(g.mem, n) + 1 \notin g.tree
  PROVE  Sane(g, H2, R2)
  <1>1. Tiling(h.mem, h.tree, H, R) /\ NoPairs(h.mem, h.tree)
    BY DEF Sane
  <1>2. NoPairs(g.mem, g.tree)
    BY <1>1, StillNoPairs DEF Changes
  <1> QED
    BY <1>2 DEF Sane, Changes

(* Block b is freed, and with its free neighbours is one block then, from lo on. *)
LEMMA Freed ==
  ASSUME NEW h, NEW H, NEW R, NEW b, NEW g, NEW lo, NEW e, NEW hi,
         Sane(h, H, R), b \in H, IsHeap(g), Counted(g),
         Spans(h.mem, h.tree, H, R, lo, e, hi),
         \A x \in h.tree \cup H : x \in lo .. hi => x = b \/ x \in h.tree, b \in lo .. hi,
         DOMAIN g.mem = Addr, \A a \in Addr : a < lo \/ hi < a => g.mem[a] = h.mem[a],
         \A a : a \in g.tree <=> a = lo \/ (a \in h.tree /\ a \notin lo .. hi),
         Tells(g.mem[lo], g.tree, lo, R, lo - 1, (hi - lo) + 1),
         Tells(g.mem[hi], g.tree, lo, R, hi + 1, (hi - lo) + 1),
         \A x \in h.tree : Top(h.mem, x) + 1 # lo, hi + 1 \notin h.tree
  PROVE  Sane(g, H \ {b}, R) /\ Kept(h.mem, g.mem, H \ {b}, R)
  <1> DEFINE m == h.mem
             T == h.tree
  <1>1. Tiling(m, T, H, R)
    BY DEF Sane
  <1>2. lo \in Nat /\ hi \in Nat /\ T \cup H \subseteq Nat /\ lo < hi /\ \A a \in lo .. hi : a \in R
    BY <1>1, BlockOf DEF Spans
  <1>3. T \cap H = {}
    BY <1>1 DEF Tiling
  <1>4. Outside(m, T, H, g.mem, g.tree, H \ {b}, lo, hi)
    BY <1>2 DEF Outside
  <1>6. \A n \in lo .. hi : n \in g.tree \cup (H \ {b}) <=> n = lo
    BY <1>2, <1>3
  <1>7. lo \notin g.tree \cap (H \ {b})
    BY <1>2, <1>3
  <1>8. /\ Tiling(g.mem, g.tree, H \ {b}, R) /\ Top(g.mem, lo) = hi
        /\ Replaces(m, T, H, R, g.mem, g.tree, H \ {b}, R, lo, hi)
        /\ Changes(h, H, R, g, H \ {b}, R, lo, hi)
    BY <1>1, <1>4, <1>6, <1>7, OneBlock, ReplacesIf DEF Changes
  <1>9. \A n \in lo .. hi : n \in g.tree => Top(g.mem, n) + 1 \notin g.tree
    BY <1>2, <1>8
  <1>10. Sane(g, H \ {b}, R)
    <2>1. lo \in g.tree => \A x \in T : Top(m, x) + 1 # lo
      OBVIOUS
    <2> QED
      BY ONLY Sane(h, H, R), IsHeap(g), Counted(g), <1>8, <1>9, <2>1, SaneIf
  <1>11. \A c \in H \ {b} : c \in T \cup H /\ c \notin lo .. hi
    BY <1>3
  <1>12. Kept(m, g.mem, H \ {b}, R)
    BY <1>1, <1>2, <1>8, <1>11, KeptOutside
  <1> QED
    BY <1>10, <1>12

(* A block is given back: it joins its free neighbours, and no other block changes. *)
LEMMA ReleasedIs ==
  ASSUME NEW h, NEW H, NEW R, NEW b, Sane(h, H, R), b \in H
  PROVE  Sane(Released(h, b), H \ {b}, R) /\ Kept(h.mem, Released(h, b).mem, H \ {b}, R)
  <1> DEFINE m == h.mem
             T == h.tree
             w == m[b].words
             t == Top(m, b)
             n == lub_heap_block_getnext(h, b)
             p == lub_heap_block_getprevious(h, b)
             next == IsFree(h, n)
             prev == IsFree(h, p)
             g == Released(h, b)
  <1>1. Tiling(m, T, H, R) /\ IsHeap(h) /\ NoPairs(m, T) /\ Counted(h) /\ b \in T \cup H
        /\ b \notin T /\ DOMAIN m = Addr
    BY DEF Sane, Tiling
  <1>2. /\ b \in Nat /\ t \in Nat /\ b < t /\ w \in Nat /\ w > 2 /\ t = b + w - 1
        /\ (m[b].segment <=> b - 1 \notin R) /\ (m[t].segment <=> t + 1 \notin R)
        /\ (m[b].free <=> b \in T) /\ m[b].segment \in BOOLEAN /\ m[t].segment \in BOOLEAN
    BY <1>1, AddrIs, BlockOf DEF Top
  <1>3. (next <=> t + 1 \in T) /\ (next => n \in T /\ n \in T \cup H /\ Adjoins(m, b, n))
    <2>1. t + 1 \in T => t + 1 \in R
      BY <1>1, BlockOf
    <2> QED
      BY <1>1, <2>1, NextIs DEF Adjoins
  <1>4. prev => p \in T /\ p \in T \cup H /\ Adjoins(m, p, b)
    <2>1. /\ b - 1 \in R => Top(m, p) = b - 1
          /\ b - 1 \notin R => p = NULL
          /\ prev <=> p \in T
      <3>1. Tiling(h.mem, h.tree, H, R) /\ b \in h.tree \cup H
        BY <1>1
      <3>2. /\ b - 1 \in R => Top(h.mem, lub_heap_block_getprevious(h, b)) = b - 1
            /\ b - 1 \notin R => lub_heap_block_getprevious(h, b) = NULL
            /\ IsFree(h, lub_heap_block_getprevious(h, b)) <=>
                 lub_heap_block_getprevious(h, b) \in h.tree
        BY ONLY <3>1, PreviousIs
      <3> QED
        BY ONLY <3>2
    <2>2. NULL \notin T
      BY <1>1, AddrIs DEF Tiling, NULL
    <2> QED
      BY <1>2, <2>1, <2>2 DEF Adjoins
  <1>5. ASSUME ~prev, NEW x \in T PROVE Top(m, x) + 1 # b
    <2>1. x \in T \cup H /\ (Top(m, x) = b - 1 => p = x) /\ (prev <=> p \in T)
      <3>1. Tiling(h.mem, h.tree, H, R) /\ b \in h.tree \cup H /\ x \in h.tree \cup H
        BY <1>1, <1>5
      <3>2. /\ Top(h.mem, x) = b - 1 => lub_heap_block_getprevious(h, b) = x
            /\ IsFree(h, lub_heap_block_getprevious(h, b)) <=>
                 lub_heap_block_getprevious(h, b) \in h.tree
        BY ONLY <3>1, PreviousIs
      <3> QED
        BY ONLY <3>1, <3>2
    <2>2. Top(m, x) \in Nat
      BY <1>1, <2>1, BlockOf
    <2> QED
      BY <1>2, <1>5, <2>1, <2>2
  <1>6. CASE ~next /\ ~prev
    <2> DEFINE head == Tag(TRUE, m[b].segment, w)
               tail == Tag(TRUE, m[t].segment, w)
               M == Framed(m, b, t, head, tail)
    <2>1. g = [mem |-> M, tree |-> T \cup {b}, free_blocks |-> h.free_blocks + 1]
      <3>1. g = [mem |-> Framed(m, b, b + w - 1, head, tail), tree |-> T \cup {b},
                 free_blocks |-> h.free_blocks + 1]
        BY <1>6, Zenon DEF Released, lub_heap_new_free_block, lub_heap_init_free_block, Block, Framed,
                           lub_heap_block__get_tail, Top
      <3> QED
        BY <1>2, <3>1, Zenon
    <2> HIDE DEF M, g, T
    <2>2. g.mem = M /\ g.tree = T \cup {b} /\ g.free_blocks = h.free_blocks + 1 /\ IsHeap(g)
      BY <2>1 DEF IsHeap
    <2> HIDE DEF m, w, t, n, p, next, prev
    <2>3. (t - b) + 1 = w
      BY <1>2
    <2>4. Tells(head, g.tree, b, R, b - 1, (t - b) + 1) /\ Tells(tail, g.tree, b, R, t + 1, (t - b) + 1)
      BY <1>2, <2>2, <2>3 DEF Tells, Tag
    <2> HIDE DEF head, tail
    <2>5. Spans(m, T, H, R, b, b, t) /\ \A x \in T \cup H : x \in b .. t => x = b
      BY <1>1, Alone DEF t
    <2>6. Counted(g)
      BY <1>1, <2>2, CountAdd DEF T
    <2>7. \A a : a \in g.tree <=> a = b \/ (a \in T /\ a \notin b .. t)
      BY <1>1, <2>2, <2>5
    <2>8. b \in b .. t
      BY <1>2
    <2>9. \A x \in T \cup H : x \in b .. t => x = b \/ x \in T
      BY <2>5
    <2>10. (\A x \in T : Top(m, x) + 1 # b) /\ t + 1 \notin T
      BY <1>3, <1>5, <1>6
    <2>11. Sane(g, H \ {b}, R) /\ Kept(m, g.mem, H \ {b}, R)
      <3>1. \A a \in b .. t : a \in Addr
        BY <1>1, <2>5 DEF Spans, Tiling
      <3>2. b \in Nat /\ t \in Nat /\ b < t
        BY <1>2
      <3>3. /\ DOMAIN M = Addr /\ M[b] = head /\ M[t] = tail
            /\ \A a \in Addr : a < b \/ t < a => M[a] = m[a]
        BY <1>1, <3>1, <3>2, FramedIs DEF M
      <3>4. /\ DOMAIN g.mem = Addr /\ \A a \in Addr : a < b \/ t < a => g.mem[a] = m[a]
            /\ Tells(g.mem[b], g.tree, b, R, b - 1, (t - b) + 1)
            /\ Tells(g.mem[t], g.tree, b, R, t + 1, (t - b) + 1)
            /\ IsHeap(g)
        BY <2>2, <2>4, <3>3
      <3> QED
        BY <1>1, <2>5, <2>6, <2>7, <2>8, <2>9, <2>10, <3>4, Freed DEF m, T
    <2> QED
      BY <2>11 DEF g, m
  <1>7. CASE next /\ ~prev
    <2> DEFINE hi == Top(m, n)
               words == w + m[n].words
               head == Tag(TRUE, m[b].segment, words)
               tail == Tag(TRUE, m[hi].segment, words)
               M == Framed(m, b, hi, head, tail)
    <2>0. n \in T \cup H /\ n \in T /\ Adjoins(m, b, n)
      BY <1>3, <1>7
    <2>1. /\ Spans(m, T, H, R, b, n, hi) /\ b < n /\ hi = b + words - 1
          /\ \A x \in T \cup H : x \in b .. hi => x = b \/ x = n
      <3> HIDE DEF m, T, t, n, p, next, prev, g
      <3> QED
        BY <1>1, <2>0, Pair
    <2>2. g = [h EXCEPT !.mem = M, !.tree = (T \ {n}) \cup {b}]
      <3>1. g = [h EXCEPT !.mem = Framed(m, b, b + words - 1, head, tail), !.tree = (T \ {n}) \cup {b}]
        BY <1>7, Zenon DEF Released, lub_heap_merge_with_next, lub_heap_graft_to_bottom,
                           lub_heap_block__get_tail, Top, Block, Framed
      <3> QED
        BY <2>1, <3>1, Zenon
    <2> HIDE DEF M, g, n
    <2>3. g.mem = M /\ g.tree = (T \ {n}) \cup {b} /\ g.free_blocks = h.free_blocks /\ IsHeap(g)
      BY <1>1, <2>2 DEF IsHeap
    <2> HIDE DEF m, T, w, t, p, next, prev
    <2>4. /\ hi \in Nat /\ n < hi /\ m[n].words \in Nat /\ m[hi].segment \in BOOLEAN
          /\ (m[hi].segment <=> hi + 1 \notin R) /\ n \in Nat
      BY <1>1, <2>0, BlockOf
    <2>5. (hi - b) + 1 = words
      BY <1>2, <2>1, <2>4
    <2>6. Tells(head, g.tree, b, R, b - 1, (hi - b) + 1) /\ Tells(tail, g.tree, b, R, hi + 1, (hi - b) + 1)
      BY <1>2, <2>3, <2>4, <2>5 DEF Tells, Tag
    <2>7. hi + 1 \notin T
      BY <1>1, <2>0 DEF NoPairs
    <2> HIDE DEF head, tail, hi, words
    <2>8. Counted(g)
      BY <1>1, <2>0, <2>3, CountSwap DEF T
    <2>9. n \in b .. hi /\ b \in b .. hi
      BY <1>2, <2>1, <2>4
    <2>10. \A a : a \in g.tree <=> a = b \/ (a \in T /\ a \notin b .. hi)
      BY <1>1, <2>0, <2>1, <2>3, <2>9
    <2>11. \A x \in T \cup H : x \in b .. hi => x = b \/ x \in T
      BY <2>0, <2>1
    <2>12. \A x \in T : Top(m, x) + 1 # b
      BY <1>5, <1>7
    <2>13. Sane(g, H \ {b}, R) /\ Kept(m, g.mem, H \ {b}, R)
      <3>1. \A a \in b .. hi : a \in Addr
        BY <1>1, <2>1 DEF Spans, Tiling
      <3>2. b \in Nat /\ hi \in Nat /\ b < hi
        BY <1>2, <2>1, <2>4
      <3>3. /\ DOMAIN M = Addr /\ M[b] = head /\ M[hi] = tail
            /\ \A a \in Addr : a < b \/ hi < a => M[a] = m[a]
        BY <1>1, <3>1, <3>2, FramedIs DEF M
      <3>4. /\ DOMAIN g.mem = Addr /\ \A a \in Addr : a < b \/ hi < a => g.mem[a] = m[a]
            /\ Tells(g.mem[b], g.tree, b, R, b - 1, (hi - b) + 1)
            /\ Tells(g.mem[hi], g.tree, b, R, hi + 1, (hi - b) + 1)
            /\ IsHeap(g)
        BY <2>3, <2>6, <3>3
      <3> QED
        BY <1>1, <2>1, <2>7, <2>8, <2>9, <2>10, <2>11, <2>12, <3>4, Freed DEF m, T
    <2> QED
      BY <2>13 DEF g, m
  <1>8. CASE ~next /\ prev
    <2> DEFINE words == m[p].words + w
               head == Tag(TRUE, m[p].segment, words)
               tail == Tag(TRUE, m[t].segment, words)
               M == Framed(m, p, t, head, tail)
    <2>0. p \in T \cup H /\ p \in T /\ Adjoins(m, p, b)
      BY <1>4, <1>8
    <2>1. /\ Spans(m, T, H, R, p, b, t) /\ p < b /\ t = p + words - 1
          /\ \A x \in T \cup H : x \in p .. t => x = p \/ x = b
      <3> HIDE DEF m, T, n, p, next, prev, g
      <3> QED
        BY <1>1, <2>0, Pair
    <2>2. g = [h EXCEPT !.mem = M]
      <3>1. g = lub_heap_merge_with_previous(h, b)
        BY <1>8, Zenon DEF Released
      <3>2. lub_heap_merge_with_previous(h, b)
              = lub_heap_graft_to_top(IF m[b].free THEN [h EXCEPT !.tree = @ \ {b}, !.free_blocks = @ - 1]
                                                   ELSE h, p, w, m[t].segment)
        BY Zenon DEF lub_heap_merge_with_previous, lub_heap_block__get_tail, Top
      <3>3. g = lub_heap_graft_to_top(h, p, w, m[t].segment)
        BY <1>1, <1>2, <3>1, <3>2, Zenon
      <3>4. g = [h EXCEPT !.mem = Framed(m, p, p + words - 1, head, tail)]
        BY <3>3, Zenon DEF lub_heap_graft_to_top, Block, Framed
      <3> QED
        BY <2>1, <3>4, Zenon
    <2> HIDE DEF M, g
    <2>3. g.mem = M /\ g.tree = T /\ g.free_blocks = h.free_blocks /\ IsHeap(g)
      BY <1>1, <2>2 DEF IsHeap
    <2> HIDE DEF m, T, w, t, p, n, next, prev
    <2>4. /\ p \in Nat /\ m[p].words \in Nat /\ m[p].segment \in BOOLEAN
          /\ (m[p].segment <=> p - 1 \notin R)
      BY <1>1, <2>0, BlockOf
    <2>5. (t - p) + 1 = words
      BY <1>2, <2>1, <2>4
    <2>6. Tells(head, g.tree, p, R, p - 1, (t - p) + 1) /\ Tells(tail, g.tree, p, R, t + 1, (t - p) + 1)
      BY <1>2, <2>0, <2>3, <2>4, <2>5 DEF Tells, Tag
    <2>7. \A x \in T : Top(m, x) + 1 # p
      BY <1>1, <2>0 DEF NoPairs
    <2> HIDE DEF head, tail, words
    <2>8. Counted(g)
      BY <1>1, <2>3 DEF T, Counted
    <2>9. p \in p .. t /\ b \in p .. t
      BY <1>2, <2>1, <2>4
    <2>10. \A a : a \in g.tree <=> a = p \/ (a \in T /\ a \notin p .. t)
      BY <1>1, <2>0, <2>1, <2>3, <2>9
    <2>11. \A x \in T \cup H : x \in p .. t => x = b \/ x \in T
      BY <2>0, <2>1
    <2>12. t + 1 \notin T
      BY <1>3, <1>8
    <2>13. Sane(g, H \ {b}, R) /\ Kept(m, g.mem, H \ {b}, R)
      <3>1. \A a \in p .. t : a \in Addr
        BY <1>1, <2>1 DEF Spans, Tiling
      <3>2. p \in Nat /\ t \in Nat /\ p < t
        BY <1>2, <2>1, <2>4
      <3>3. /\ DOMAIN M = Addr /\ M[p] = head /\ M[t] = tail
            /\ \A a \in Addr : a < p \/ t < a => M[a] = m[a]
        BY <1>1, <3>1, <3>2, FramedIs DEF M
      <3>4. /\ DOMAIN g.mem = Addr /\ \A a \in Addr : a < p \/ t < a => g.mem[a] = m[a]
            /\ Tells(g.mem[p], g.tree, p, R, p - 1, (t - p) + 1)
            /\ Tells(g.mem[t], g.tree, p, R, t + 1, (t - p) + 1)
            /\ IsHeap(g)
        BY <2>3, <2>6, <3>3
      <3> QED
        BY <1>1, <2>1, <2>7, <2>8, <2>9, <2>10, <2>11, <2>12, <3>4, Freed DEF m, T
    <2> QED
      BY <2>13 DEF g, m
  <1>9. CASE next /\ prev
    <2> DEFINE hi == Top(m, n)
               above == w + m[n].words
               lower == Tag(TRUE, m[b].segment, above)
               upper == Tag(TRUE, m[hi].segment, above)
               U == Framed(m, b, hi, lower, upper)
               up == lub_heap_merge_with_next(h, b)
               words == m[p].words + above
               head == Tag(TRUE, m[p].segment, words)
               tail == Tag(TRUE, m[hi].segment, words)
               M == Framed(U, p, hi, head, tail)
    <2>0. /\ n \in T \cup H /\ n \in T /\ Adjoins(m, b, n)
          /\ p \in T \cup H /\ p \in T /\ Adjoins(m, p, b)
      BY <1>3, <1>4, <1>9
    <2>1. /\ b < n /\ hi = b + above - 1 /\ p < b /\ \A a \in b .. hi : a \in R
      <3> HIDE DEF m, T, t, n, p, next, prev, g
      <3>1. /\ Spans(m, T, H, R, b, n, hi) /\ b < n /\ hi = b + above - 1
        BY <1>1, <2>0, Pair
      <3>2. p < b
        BY <1>1, <2>0, Pair
      <3> QED
        BY <3>1, <3>2 DEF Spans
    <2>2. /\ Spans(m, T, H, R, p, n, hi)
          /\ \A x \in T \cup H : x \in p .. hi => x = p \/ x = b \/ x = n
      <3> HIDE DEF m, T, t, n, p, next, prev, g
      <3> QED
        BY <1>1, <2>0, Row
    <2>3. up = [h EXCEPT !.mem = U, !.tree = (T \ {n}) \cup {b}]
      <3>1. up = [h EXCEPT !.mem = Framed(m, b, b + above - 1, lower, upper), !.tree = (T \ {n}) \cup {b}]
        BY Zenon DEF lub_heap_merge_with_next, lub_heap_graft_to_bottom,
                     lub_heap_block__get_tail, Top, Block, Framed
      <3> QED
        BY <2>1, <3>1, Zenon
    <2> HIDE DEF U, up, T
    <2>4. up.mem = U /\ up.tree = (T \ {n}) \cup {b} /\ up.free_blocks = h.free_blocks /\ IsHeap(up)
      BY <1>1, <2>3 DEF IsHeap
    <2> HIDE DEF m, w, t, p, n, next, prev, g
    <2>5. /\ hi \in Nat /\ n < hi /\ m[n].words \in Nat /\ m[hi].segment \in BOOLEAN
          /\ (m[hi].segment <=> hi + 1 \notin R) /\ n \in Nat
      BY <1>1, <2>0, BlockOf
    <2>6. /\ p \in Nat /\ m[p].words \in Nat /\ m[p].segment \in BOOLEAN
          /\ (m[p].segment <=> p - 1 \notin R) /\ p \in R /\ Top(m, p) \in R /\ Top(m, p) \in Nat
      BY <1>1, <2>0, BlockOf
    <2>7. b - 1 \in Addr /\ p \in Addr /\ \A a \in b .. hi : a \in Addr
      <3>1. Top(m, p) = b - 1
        BY <2>0, <2>6 DEF Adjoins
      <3>2. R \subseteq Addr
        BY <1>1 DEF Tiling
      <3> QED
        BY <2>1, <2>6, <3>1, <3>2
    <2>8. /\ DOMAIN U = Addr /\ U[b] = lower /\ U[hi] = upper
          /\ \A a \in Addr : a < b \/ hi < a => U[a] = m[a]
      <3> HIDE DEF lower, upper, hi, above
      <3>1. b < hi
        BY <1>2, <2>1, <2>5
      <3> QED
        BY <1>1, <1>2, <2>5, <2>7, <3>1, FramedIs DEF U
    <2>9. U[p] = m[p] /\ U[b - 1] = m[b - 1]
      BY <1>2, <2>1, <2>6, <2>7, <2>8
    <2>10. U[b].free /\ U[b].words = above /\ U[b].segment = m[b].segment /\ U[hi].segment = m[hi].segment
      <3>1. lower.free /\ lower.words = above /\ lower.segment = m[b].segment
            /\ upper.segment = m[hi].segment
        BY Zenon DEF Tag
      <3> QED
        BY <2>8, <3>1, Zenon
    <2>11. lub_heap_block_getprevious(up, b) = p
      BY <2>4, <2>9, <2>10, Zenon DEF lub_heap_block_getprevious, m, p
    <2>12. hi = p + words - 1 /\ (hi - p) + 1 = words /\ words \in Nat
      <3>1. p + m[p].words = b
        BY <2>0, <2>6 DEF Adjoins, Top
      <3> QED
        BY <1>2, <2>1, <2>5, <2>6, <3>1
    <2> DEFINE D == [up EXCEPT !.tree = @ \ {b}, !.free_blocks = @ - 1]
    <2>13. IsHeap(D) /\ D.mem = U /\ D.tree = up.tree \ {b} /\ D.free_blocks = h.free_blocks - 1
      <3>1. /\ IsHeap(D) /\ D.mem = up.mem /\ D.tree = up.tree \ {b}
            /\ D.free_blocks = up.free_blocks - 1
        <4>1. D = [up EXCEPT !.tree = @ \ {b}, !.free_blocks = @ - 1]
          OBVIOUS
        <4> HIDE DEF D
        <4> QED
          BY ONLY <2>4, <4>1 DEF IsHeap
      <3> QED
        BY <2>4, <3>1, Zenon
    <2>14. g = [D EXCEPT !.mem = M]
      <3>1. g = lub_heap_merge_with_previous(up, b)
        BY <1>9, Zenon DEF Released, g, up, next, prev, n, p
      <3>2. lub_heap_block__get_tail(up, b) = hi
        <4>1. lub_heap_block__get_tail(up, b) = b + above - 1
          BY <2>4, <2>10, Zenon DEF lub_heap_block__get_tail
        <4> QED
          BY <2>1, <4>1, Zenon
      <3>3. g = lub_heap_graft_to_top(D, p, above, m[hi].segment)
        BY <2>4, <2>10, <2>11, <3>1, <3>2, Zenon DEF lub_heap_merge_with_previous
      <3> HIDE DEF D
      <3>4. g = [D EXCEPT !.mem = Framed(U, p, p + words - 1, head, tail)]
        <4>1. g = [D EXCEPT !.mem = Block(D.mem, p, D.mem[p].words + above, TRUE, D.mem[p].segment,
                                          m[hi].segment)]
          BY <3>3, Zenon DEF lub_heap_graft_to_top
        <4>2. g = [D EXCEPT !.mem = Block(U, p, words, TRUE, m[p].segment, m[hi].segment)]
          BY <2>9, <2>13, <4>1, Zenon
        <4> QED
          BY <4>2, Zenon DEF Block, Framed
      <3> QED
        BY <2>12, <3>4, Zenon
    <2> HIDE DEF D, M
    <2>15. g.mem = M /\ g.tree = T \ {n} /\ g.free_blocks = h.free_blocks - 1 /\ IsHeap(g)
      <3>1. g.mem = M /\ g.tree = D.tree /\ g.free_blocks = D.free_blocks /\ IsHeap(g)
        BY <2>13, <2>14 DEF IsHeap
      <3> QED
        BY <1>1, <2>4, <2>13, <3>1
    <2>16. Tells(head, g.tree, p, R, p - 1, (hi - p) + 1) /\ Tells(tail, g.tree, p, R, hi + 1, (hi - p) + 1)
      <3>1. p \in g.tree
        BY <2>0, <2>1, <2>5, <2>6, <1>2, <2>15
      <3> QED
        BY <2>5, <2>6, <2>12, <3>1 DEF Tells, Tag
    <2>17. (\A x \in T : Top(m, x) + 1 # p) /\ hi + 1 \notin T
      BY <1>1, <2>0 DEF NoPairs
    <2> HIDE DEF head, tail, words, hi, lower, upper, above
    <2>18. Counted(g)
      BY <1>1, <2>0, <2>15, CountRemove DEF T
    <2>19. p \in p .. hi /\ b \in p .. hi /\ n \in p .. hi /\ n # p
      BY <1>2, <2>1, <2>5, <2>6
    <2>20. \A a : a \in g.tree <=> a = p \/ (a \in T /\ a \notin p .. hi)
      BY <1>1, <2>0, <2>2, <2>15, <2>19
    <2>21. \A x \in T \cup H : x \in p .. hi => x = b \/ x \in T
      BY <2>0, <2>2
    <2>22. \A a \in Addr : a < p \/ hi < a => U[a] = m[a]
      <3>1. Addr \subseteq Nat
        BY AddrIs
      <3> QED
        BY <1>2, <2>1, <2>5, <2>6, <2>8, <3>1
    <2>23. Sane(g, H \ {b}, R) /\ Kept(m, g.mem, H \ {b}, R)
      <3>1. \A a \in p .. hi : a \in Addr
        BY <1>1, <2>2 DEF Spans, Tiling
      <3>2. p \in Nat /\ hi \in Nat /\ p < hi
        BY <1>2, <2>1, <2>5, <2>6
      <3>3. /\ DOMAIN M = Addr /\ M[p] = head /\ M[hi] = tail
            /\ \A a \in Addr : a < p \/ hi < a => M[a] = U[a]
        BY <2>8, <3>1, <3>2, FramedIs DEF M
      <3>4. /\ DOMAIN g.mem = Addr /\ \A a \in Addr : a < p \/ hi < a => g.mem[a] = m[a]
            /\ Tells(g.mem[p], g.tree, p, R, p - 1, (hi - p) + 1)
            /\ Tells(g.mem[hi], g.tree, p, R, hi + 1, (hi - p) + 1)
            /\ IsHeap(g)
        BY <2>15, <2>16, <3>3, <2>22
      <3> QED
        BY <2>2, <2>17, <2>18, <2>19, <2>20, <2>21, <2>22, <3>4, Freed DEF m, T
    <2> QED
      BY <2>23 DEF g, m
  <1> QED
    BY <1>6, <1>7, <1>8, <1>9

-----------------------------------------------------------------------------
(* Giving a block. *)

(* Only the words from lo to hi are written. *)
Untouched(h, g, lo, hi) ==
  DOMAIN g.mem = Addr /\ \A a \in Addr : a < lo \/ hi < a => g.mem[a] = h.mem[a]

(* They have the tags of one block, or of two, the second of which begins at k. *)
Whole(g, R, lo, hi) ==
  /\ Tells(g.mem[lo], g.tree, lo, R, lo - 1, (hi - lo) + 1)
  /\ Tells(g.mem[hi], g.tree, lo, R, hi + 1, (hi - lo) + 1)

Halves(g, R, lo, k, hi) ==
  /\ k \in Nat /\ k - lo >= MinWords /\ (hi - k) + 1 >= MinWords
  /\ Tells(g.mem[lo], g.tree, lo, R, lo - 1, k - lo)
  /\ Tells(g.mem[k - 1], g.tree, lo, R, k, k - lo)
  /\ Tells(g.mem[k], g.tree, k, R, k - 1, (hi - k) + 1)
  /\ Tells(g.mem[hi], g.tree, k, R, hi + 1, (hi - k) + 1)

(* Of the blocks from lo to hi the one that begins at n is free then, or none. *)
Frees(h, g, n, lo, hi) == \A a : a \in g.tree <=> a = n \/ (a \in h.tree /\ a \notin lo .. hi)
Takes(h, g, lo, hi) == \A a : a \in g.tree <=> a \in h.tree /\ a \notin lo .. hi

(* Of the blocks from lo to hi none is held but the one that is to be extended; the
   others, G, are left alone. *)
Others(h, H, G, lo, hi) ==
  /\ G \subseteq H
  /\ \A x \in G : x \notin lo .. hi
  /\ \A x \in H : x \notin G => x \in lo .. hi

(* Then H2 are held: the others and the block b, whose last word is top. *)
Gains(H2, G, b) == H2 = G \cup {b}

Gives(h, G, g, H2, R, b, top) ==
  Sane(g, H2, R) /\ Kept(h.mem, g.mem, G, R) /\ Top(g.mem, b) = top

SpansIn(h, H, R, lo, e, hi) == Spans(h.mem, h.tree, H, R, lo, e, hi)

(* All of it becomes one held block. *)
LEMMA OneHeld ==
  ASSUME NEW h, NEW H, NEW R, NEW G, NEW g, NEW H2, NEW lo, NEW e, NEW hi,
         Sane(h, H, R), IsHeap(g), Counted(g), Others(h, H, G, lo, hi),
         Gains(H2, G, lo), SpansIn(h, H, R, lo, e, hi),
         Untouched(h, g, lo, hi), Whole(g, R, lo, hi),
         Takes(h, g, lo, hi)
  PROVE  Gives(h, G, g, H2, R, lo, hi)
  <1> DEFINE m == h.mem
             T == h.tree
  <1>0. \A a : a \in g.tree <=> a \in h.tree /\ a \notin lo .. hi
    BY DEF Takes
  <1>1. Tiling(m, T, H, R) /\ Spans(m, T, H, R, lo, e, hi) /\ H2 = G \cup {lo}
    BY DEF Sane, SpansIn, Gains
  <1>2. lo \in Nat /\ hi \in Nat /\ T \cup H \subseteq Nat /\ lo < hi /\ \A a \in lo .. hi : a \in R
    BY <1>1, BlockOf DEF Spans
  <1>3. T \cap H = {}
    BY <1>1 DEF Tiling
  <1>4. Outside(m, T, H, g.mem, g.tree, H2, lo, hi)
    <2>1. g.tree \cup H2 \subseteq Int
      BY <1>0, <1>1, <1>2 DEF Others
    <2>2. ASSUME NEW a \in Int, a < lo \/ hi < a
          PROVE  (a \in g.tree <=> a \in T) /\ (a \in H2 <=> a \in H)
      BY <1>0, <1>1, <1>2, <2>2 DEF Others
    <2>3. DOMAIN g.mem = Addr /\ \A a \in Addr : a < lo \/ hi < a => g.mem[a] = m[a]
      BY DEF Untouched
    <2> HIDE DEF m, T
    <2> QED
      BY <2>1, <2>2, <2>3 DEF Outside
  <1>6. \A n \in lo .. hi : n \in g.tree \cup H2 <=> n = lo
    BY <1>0, <1>1, <1>2 DEF Others
  <1>7. lo \notin g.tree \cap H2
    BY <1>0, <1>1, <1>2
  <1>8. /\ Tiling(g.mem, g.tree, H2, R) /\ Top(g.mem, lo) = hi
        /\ Replaces(m, T, H, R, g.mem, g.tree, H2, R, lo, hi)
        /\ Changes(h, H, R, g, H2, R, lo, hi)
    BY <1>1, <1>4, <1>6, <1>7, OneBlock, ReplacesIf DEF Changes, Whole
  <1>9. \A n \in lo .. hi : n \in g.tree => Top(g.mem, n) + 1 \notin g.tree
    BY <1>0, <1>2
  <1>10. Sane(g, H2, R)
    <2>1. lo \in g.tree => \A x \in T : Top(m, x) + 1 # lo
      BY <1>0, <1>2
    <2> QED
      BY ONLY Sane(h, H, R), IsHeap(g), Counted(g), <1>8, <1>9, <2>1, SaneIf
  <1>11. \A c \in G : c \in T \cup H /\ c \notin lo .. hi
    BY <1>1 DEF Others
  <1>12. Kept(m, g.mem, G, R)
    BY <1>1, <1>2, <1>8, <1>11, KeptOutside
  <1> QED
    BY <1>8, <1>10, <1>12 DEF Gives

(* The words from k on are free, and those before them one held block. *)
LEMMA LowHeld ==
  ASSUME NEW h, NEW H, NEW R, NEW G, NEW g, NEW H2, NEW lo, NEW e, NEW hi, NEW k,
         Sane(h, H, R), IsHeap(g), Counted(g), Others(h, H, G, lo, hi),
         Gains(H2, G, lo), SpansIn(h, H, R, lo, e, hi), Untouched(h, g, lo, hi), Halves(g, R, lo, k, hi),
         Frees(h, g, k, lo, hi),
         hi + 1 \notin h.tree
  PROVE  Gives(h, G, g, H2, R, lo, k - 1)
  <1> DEFINE m == h.mem
             T == h.tree
  <1>0. \A a : a \in g.tree <=> a = k \/ (a \in h.tree /\ a \notin lo .. hi)
    BY DEF Frees
  <1>1. Tiling(m, T, H, R) /\ Spans(m, T, H, R, lo, e, hi) /\ H2 = G \cup {lo}
    BY DEF Sane, SpansIn, Gains
  <1>2. /\ lo \in Nat /\ hi \in Nat /\ T \cup H \subseteq Nat /\ lo < hi /\ \A a \in lo .. hi : a \in R
        /\ lo < k /\ k < hi /\ k \in Nat
    <2>1. lo \in Nat /\ hi \in Nat /\ T \cup H \subseteq Nat /\ lo < hi /\ \A a \in lo .. hi : a \in R
      BY <1>1, BlockOf DEF Spans
    <2> QED
      BY <2>1, AddrIs DEF Halves
  <1>3. T \cap H = {}
    BY <1>1 DEF Tiling
  <1>4. Outside(m, T, H, g.mem, g.tree, H2, lo, hi)
    <2>1. g.tree \cup H2 \subseteq Int
      BY <1>0, <1>1, <1>2 DEF Others
    <2>2. ASSUME NEW a \in Int, a < lo \/ hi < a
          PROVE  (a \in g.tree <=> a \in T) /\ (a \in H2 <=> a \in H)
      BY <1>0, <1>1, <1>2, <2>2 DEF Others
    <2>3. DOMAIN g.mem = Addr /\ \A a \in Addr : a < lo \/ hi < a => g.mem[a] = m[a]
      BY DEF Untouched
    <2> HIDE DEF m, T
    <2> QED
      BY <2>1, <2>2, <2>3 DEF Outside
  <1>6. \A n \in lo .. hi : n \in g.tree \cup H2 <=> n \in {lo, k}
    BY <1>0, <1>1, <1>2 DEF Others
  <1>7. lo \notin g.tree \cap H2 /\ k \notin g.tree \cap H2
    BY <1>0, <1>1, <1>2 DEF Others
  <1>8. /\ Tiling(g.mem, g.tree, H2, R) /\ Top(g.mem, lo) = k - 1 /\ Top(g.mem, k) = hi
        /\ Replaces(m, T, H, R, g.mem, g.tree, H2, R, lo, hi)
        /\ Changes(h, H, R, g, H2, R, lo, hi)
    BY <1>1, <1>4, <1>6, <1>7, TwoBlocks, ReplacesIf DEF Changes, Halves
  <1>9. ASSUME NEW n \in lo .. hi, n \in g.tree PROVE Top(g.mem, n) + 1 \notin g.tree
    <2>1. n = k
      BY <1>0, <1>2, <1>9
    <2>2. hi + 1 \notin g.tree
      BY <1>0, <1>2
    <2> QED
      BY <1>8, <2>1, <2>2
  <1>10. Sane(g, H2, R)
    <2>1. lo \in g.tree => \A x \in T : Top(m, x) + 1 # lo
      BY <1>0, <1>2
    <2>2. \A n \in lo .. hi : n \in g.tree => Top(g.mem, n) + 1 \notin g.tree
      BY <1>9
    <2> QED
      BY ONLY Sane(h, H, R), IsHeap(g), Counted(g), <1>8, <2>1, <2>2, SaneIf
  <1>11. \A c \in G : c \in T \cup H /\ c \notin lo .. hi
    BY <1>1 DEF Others
  <1>12. Kept(m, g.mem, G, R)
    BY <1>1, <1>2, <1>8, <1>11, KeptOutside
  <1> QED
    BY <1>8, <1>10, <1>12 DEF Gives

(* The words from k on are held, and those before them still free. *)
LEMMA HighHeld ==
  ASSUME NEW h, NEW H, NEW R, NEW G, NEW g, NEW H2, NEW lo, NEW e, NEW hi, NEW k,
         Sane(h, H, R), IsHeap(g), Counted(g), Others(h, H, G, lo, hi),
         Gains(H2, G, k), SpansIn(h, H, R, lo, e, hi), Untouched(h, g, lo, hi), Halves(g, R, lo, k, hi),
         Frees(h, g, lo, lo, hi),
         \A x \in h.tree : Top(h.mem, x) + 1 # lo
  PROVE  Gives(h, G, g, H2, R, k, hi)
  <1> DEFINE m == h.mem
             T == h.tree
  <1>0. \A a : a \in g.tree <=> a = lo \/ (a \in h.tree /\ a \notin lo .. hi)
    BY DEF Frees
  <1>1. Tiling(m, T, H, R) /\ Spans(m, T, H, R, lo, e, hi) /\ H2 = G \cup {k}
    BY DEF Sane, SpansIn, Gains
  <1>2. /\ lo \in Nat /\ hi \in Nat /\ T \cup H \subseteq Nat /\ lo < hi /\ \A a \in lo .. hi : a \in R
        /\ lo < k /\ k < hi /\ k \in Nat
    <2>1. lo \in Nat /\ hi \in Nat /\ T \cup H \subseteq Nat /\ lo < hi /\ \A a \in lo .. hi : a \in R
      BY <1>1, BlockOf DEF Spans
    <2> QED
      BY <2>1, AddrIs DEF Halves
  <1>3. T \cap H = {}
    BY <1>1 DEF Tiling
  <1>4. Outside(m, T, H, g.mem, g.tree, H2, lo, hi)
    <2>1. g.tree \cup H2 \subseteq Int
      BY <1>0, <1>1, <1>2 DEF Others
    <2>2. ASSUME NEW a \in Int, a < lo \/ hi < a
          PROVE  (a \in g.tree <=> a \in T) /\ (a \in H2 <=> a \in H)
      BY <1>0, <1>1, <1>2, <2>2 DEF Others
    <2>3. DOMAIN g.mem = Addr /\ \A a \in Addr : a < lo \/ hi < a => g.mem[a] = m[a]
      BY DEF Untouched
    <2> HIDE DEF m, T
    <2> QED
      BY <2>1, <2>2, <2>3 DEF Outside
  <1>6. \A n \in lo .. hi : n \in g.tree \cup H2 <=> n \in {lo, k}
    BY <1>0, <1>1, <1>2 DEF Others
  <1>7. lo \notin g.tree \cap H2 /\ k \notin g.tree \cap H2
    BY <1>0, <1>1, <1>2 DEF Others
  <1>8. /\ Tiling(g.mem, g.tree, H2, R) /\ Top(g.mem, lo) = k - 1 /\ Top(g.mem, k) = hi
        /\ Replaces(m, T, H, R, g.mem, g.tree, H2, R, lo, hi)
        /\ Changes(h, H, R, g, H2, R, lo, hi)
    BY <1>1, <1>4, <1>6, <1>7, TwoBlocks, ReplacesIf DEF Changes, Halves
  <1>9. \A n \in lo .. hi : n \in g.tree => Top(g.mem, n) + 1 \notin g.tree
    BY <1>0, <1>2, <1>8
  <1>10. Sane(g, H2, R)
    <2> QED
      BY ONLY Sane(h, H, R), IsHeap(g), Counted(g), <1>8, <1>9,
              \A x \in h.tree : Top(h.mem, x) + 1 # lo, SaneIf
  <1>11. \A c \in G : c \in T \cup H /\ c \notin lo .. hi
    BY <1>1 DEF Others
  <1>12. Kept(m, g.mem, G, R)
    BY <1>1, <1>2, <1>8, <1>11, KeptOutside
  <1> QED
    BY <1>8, <1>10, <1>12 DEF Gives

(* A tag that is given other words. *)
LEMMA Resized ==
  ASSUME NEW tag, NEW T, NEW b, NEW R, NEW a, NEW words, NEW T2, NEW b2, NEW new,
         Tells(tag, T, b, R, a, words), b \in T <=> b2 \in T2
  PROVE  /\ Tells([tag EXCEPT !.words = new], T2, b2, R, a, new)
         /\ Tells(tag, T2, b2, R, a, words)
  <1>1. Tells(tag, T2, b2, R, a, words)
    BY DEF Tells
  <1>2. tag = Tag(b2 \in T2, a \notin R, words)
    BY <1>1, Zenon DEF Tells
  <1> DEFINE x == b2 \in T2
             y == a \notin R
  <1>3. tag = Tag(x, y, words)
    BY <1>2, Zenon
  <1> HIDE DEF x, y
  <1>4. [tag EXCEPT !.words = new] = Tag(x, y, new)
    BY <1>3 DEF Tag
  <1> QED
    BY <1>1, <1>4, Zenon DEF Tells, x, y

(* A block is taken: it is a new one, and large enough. *)
LEMMA AllocIs ==
  ASSUME NEW h, NEW H, NEW R, NEW words \in Nat, Sane(h, H, R), words >= MinWords,
         lub_heap_new_alloc_block(h, words).ok
  PROVE  LET r == lub_heap_new_alloc_block(h, words)
         IN  /\ Sane(r.h, H \cup {r.block}, R) /\ Kept(h.mem, r.h.mem, H, R)
             /\ r.h.mem[r.block].words >= words /\ r.block \in Nat \ {0} /\ r.block \notin H
  <1> DEFINE m == h.mem
             T == h.tree
             fit == FindNext(h, words, LAMBDA x : TRUE)
             b == CHOOSE f \in fit : TRUE
             w == m[b].words
             t == Top(m, b)
             k == b + words
             left == w - words
             s == lub_heap_slice_from_bottom(h, b, words)
             r == lub_heap_new_alloc_block(h, words)
             seg_end == s.whole /\ m[t].segment
             X == Block(s.h.mem, b, s.words, FALSE, m[b].segment, seg_end)
  <1>1. fit # {} /\ r = [h |-> [s.h EXCEPT !.mem = X], block |-> b, ok |-> TRUE]
    <2>1. r = IF fit = {} THEN [h |-> h, block |-> NULL, ok |-> FALSE]
              ELSE [h |-> [s.h EXCEPT !.mem = X], block |-> b, ok |-> TRUE]
      BY Zenon DEF lub_heap_new_alloc_block, lub_heap_block__get_tail, Top
    <2> HIDE DEF fit, X, s, b
    <2>2. fit # {}
      BY <2>1
    <2> QED
      BY <2>1, <2>2
  <1>2. b \in T /\ w >= words
    <2>1. b \in fit
      BY <1>1, Zenon
    <2>2. \A f \in fit : f \in T /\ m[f].words >= words
      BY DEF FindNext
    <2> HIDE DEF fit, b
    <2> QED
      BY <2>1, <2>2
  <1> HIDE DEF fit, b
  <1>3. Tiling(m, T, H, R) /\ IsHeap(h) /\ NoPairs(m, T) /\ Counted(h) /\ b \in T \cup H
        /\ b \notin H /\ DOMAIN m = Addr
    BY <1>2 DEF Sane, Tiling
  <1>4. /\ b \in Nat /\ b > 0 /\ t \in Nat /\ b < t /\ w \in Nat /\ w > 2 /\ t = b + w - 1
        /\ (m[b].segment <=> b - 1 \notin R) /\ (m[t].segment <=> t + 1 \notin R)
        /\ m[b].segment \in BOOLEAN /\ m[t].segment \in BOOLEAN
    BY <1>3, AddrIs, BlockOf DEF Top
  <1>5. /\ Tells(m[b], T, b, R, b - 1, w) /\ Tells(m[t], T, b, R, t + 1, w)
        /\ \A a \in b .. t : a \in Addr
    BY <1>2 DEF Sane, Tiling, Sound
  <1>6. Spans(m, T, H, R, b, b, t) /\ \A x \in T \cup H : x \in b .. t => x = b
    <2> HIDE DEF m, T
    <2> QED
      BY <1>3, Alone
  <1>7. Others(h, H, H, b, t)
    BY <1>3, <1>6 DEF Others
  <1>8. t + 1 \notin T
    BY <1>2, <1>3 DEF NoPairs
  <1>9. MinWords \in Nat /\ MinWords > 2
    BY AddrIs
  <1>10. CASE LeavesBlock(left)
    <2> DEFINE S == [m EXCEPT ![t].words = left, ![k] = Tag(TRUE, FALSE, left)]
               head == Tag(FALSE, m[b].segment, words)
               tail == Tag(FALSE, FALSE, words)
               M == Framed(S, b, k - 1, head, tail)
               T2 == (T \ {b}) \cup {k}
               g == r.h
    <2>1. s = [h |-> [h EXCEPT !.mem = S, !.tree = T2], block |-> b, words |-> words, whole |-> FALSE]
      BY <1>10, Zenon DEF lub_heap_slice_from_bottom, lub_heap_block__get_tail, Top
    <2> HIDE DEF S, T2, m, T, w, t, left
    <2>2. /\ s.h = [h EXCEPT !.mem = S, !.tree = T2]
          /\ s.words = words /\ s.whole = FALSE
      BY <2>1
    <2>3. s.h.mem = S /\ s.h.tree = T2 /\ s.h.free_blocks = h.free_blocks /\ IsHeap(s.h)
      BY <1>3, <2>2 DEF IsHeap
    <2>4. g = [s.h EXCEPT !.mem = M]
      <3>1. seg_end = FALSE
        BY <2>2, Zenon
      <3>2. X = Block(S, b, words, FALSE, m[b].segment, FALSE)
        BY <2>2, <2>3, <3>1, Zenon
      <3>3. X = M
        <4>1. X = Framed(S, b, b + words - 1, head, tail)
          BY <3>2, Zenon DEF Block, Framed
        <4>2. b + words - 1 = k - 1
          BY <1>4
        <4> QED
          BY <4>1, <4>2, Zenon
      <3>4. g = [s.h EXCEPT !.mem = X]
        <4> HIDE DEF X, r, s
        <4> QED
          BY <1>1
      <3> QED
        BY <3>3, <3>4, Zenon
    <2> HIDE DEF M, r, s
    <2>5. g.mem = M /\ g.tree = T2 /\ g.free_blocks = h.free_blocks /\ IsHeap(g)
      BY <2>3, <2>4 DEF IsHeap
    <2>6. /\ k \in Nat /\ b < k - 1 /\ k < t /\ k - b = words /\ (t - k) + 1 = left
          /\ left \in Nat /\ left >= MinWords /\ left > 0 /\ k - 1 \in Nat
      BY <1>2, <1>4, <1>9, <1>10 DEF LeavesBlock, left
    <2>7. /\ DOMAIN S = Addr /\ S[k] = Tag(TRUE, FALSE, left) /\ S[t] = [m[t] EXCEPT !.words = left]
          /\ \A a \in Addr : a # t /\ a # k => S[a] = m[a]
      <3>1. k \in Addr /\ t \in Addr /\ t # k
        BY <1>4, <1>5, <2>6
      <3> DEFINE x == Tag(TRUE, FALSE, left)
      <3> HIDE DEF x
      <3>2. S = [m EXCEPT ![t].words = left, ![k] = x]
        BY Zenon DEF S, x
      <3> HIDE DEF k
      <3>3. /\ DOMAIN S = Addr /\ S[k] = x /\ S[t] = [m[t] EXCEPT !.words = left]
            /\ \A a \in Addr : a # t /\ a # k => S[a] = m[a]
        BY ONLY <1>3, <3>1, <3>2
      <3> QED
        BY <3>3 DEF x
    <2>8. \A a \in b .. k - 1 : a \in Addr
      BY <1>4, <1>5, <2>6
    <2>9. /\ DOMAIN g.mem = Addr /\ g.mem[b] = head /\ g.mem[k - 1] = tail
          /\ \A a \in Addr : a < b \/ k - 1 < a => g.mem[a] = S[a]
      <3> HIDE DEF head, tail, k
      <3> QED
        BY <1>4, <2>5, <2>6, <2>7, <2>8, FramedIs DEF M
    <2>10. g.mem[k] = S[k] /\ g.mem[t] = S[t] /\ \A a \in Addr : a < b \/ t < a => g.mem[a] = m[a]
      <3> HIDE DEF k
      <3> QED
        <4>1. k \in Addr /\ t \in Addr /\ k - 1 < k /\ k - 1 < t
          BY <1>4, <1>5, <2>6
        <4>2. \A a \in Addr : a < b \/ t < a => a # t /\ a # k /\ (a < b \/ k - 1 < a)
          BY <1>4, <2>6, AddrIs
        <4> QED
          BY <2>7, <2>9, <4>1, <4>2
    <2>11. k \in b .. t /\ k # b /\ k \notin T
      BY <1>4, <1>6, <2>6
    <2>12. /\ Tells(head, T2, b, R, b - 1, k - b) /\ Tells(tail, T2, b, R, k, k - b)
           /\ Tells(S[k], T2, k, R, k - 1, left) /\ Tells(S[t], T2, k, R, t + 1, left)
      <3>1. b \notin T2 /\ k \in T2 /\ k \in R /\ k - 1 \in R
        BY <1>4, <1>6, <2>6, <2>11 DEF T2, Spans
      <3>2. Tells(head, T2, b, R, b - 1, k - b) /\ Tells(tail, T2, b, R, k, k - b)
        <4> HIDE DEF k
        <4>1. Tells(head, T2, b, R, b - 1, words)
          BY <1>4, <3>1, HeldTag DEF head
        <4>2. Tells(tail, T2, b, R, k, words)
          BY <3>1, InnerTag DEF tail
        <4> QED
          BY <2>6, <4>1, <4>2
      <3>3. Tells(S[k], T2, k, R, k - 1, left)
        BY <2>7, <3>1 DEF Tells, Tag
      <3>4. Tells(S[t], T2, k, R, t + 1, left)
        <4> HIDE DEF k
        <4> QED
          BY <1>2, <1>5, <2>7, <3>1, Resized
      <3> QED
        BY <3>2, <3>3, <3>4
    <2> HIDE DEF k, head, tail
    <2>13. Counted(g)
      <3> HIDE DEF g
      <3> QED
        BY <1>2, <1>3, <2>5, <2>11, CountSwap DEF T, T2
    <2>14. Frees(h, g, k, b, t)
      BY <1>2, <1>4, <1>6, <2>5, <2>11 DEF Frees, T2, T
    <2>15. Halves(g, R, b, k, t)
      <3> HIDE DEF g
      <3> QED
        BY <2>5, <2>6, <2>9, <2>10, <2>12 DEF Halves
    <2>16. Untouched(h, g, b, t)
      BY <2>9, <2>10 DEF Untouched, m
    <2> DEFINE H2 == H \cup {b}
    <2>17. Gives(h, H, g, H2, R, b, k - 1)
      <3>1. IsHeap(g)
        BY <2>5
      <3>2. Gains(H2, H, b)
        BY DEF Gains
      <3>3. SpansIn(h, H, R, b, b, t)
        BY <1>6 DEF SpansIn, m, T
      <3>4. t + 1 \notin h.tree
        BY <1>8 DEF T
      <3> HIDE DEF g, H2
      <3> QED
        BY ONLY Sane(h, H, R), <1>7, <2>13, <2>14, <2>15, <2>16, <3>1, <3>2, <3>3, <3>4, LowHeld
    <2>18. g.mem[b].words = words
      BY <2>6, <2>9 DEF head, Tag
    <2>19. r.block = b
      BY <1>1
    <2> QED
      BY <1>3, <1>4, <2>17, <2>18, <2>19 DEF m, r, Gives
  <1>11. CASE ~LeavesBlock(left)
    <2> DEFINE end == TRUE /\ m[t].segment
               head == Tag(FALSE, m[b].segment, w)
               tail == Tag(FALSE, end, w)
               M == Framed(m, b, t, head, tail)
               g == r.h
    <2>1. s = [h |-> [h EXCEPT !.tree = T \ {b}, !.free_blocks = @ - 1], block |-> b, words |-> w,
               whole |-> TRUE]
      BY <1>11, Zenon DEF lub_heap_slice_from_bottom, lub_heap_block__get_tail, Top
    <2> HIDE DEF m, T, w, t, left
    <2>2. s.h = [h EXCEPT !.tree = T \ {b}, !.free_blocks = @ - 1] /\ s.words = w /\ s.whole = TRUE
      BY <2>1
    <2>3. s.h.mem = m /\ s.h.tree = T \ {b} /\ s.h.free_blocks = h.free_blocks - 1 /\ IsHeap(s.h)
      BY <1>3, <2>2 DEF IsHeap, m
    <2>4. g = [s.h EXCEPT !.mem = M]
      <3>1. seg_end = end
        BY <2>2, Zenon
      <3>2. X = Block(m, b, w, FALSE, m[b].segment, end)
        BY <2>2, <2>3, <3>1, Zenon
      <3>3. X = M
        <4>1. X = Framed(m, b, b + w - 1, head, tail)
          BY <3>2, Zenon DEF Block, Framed
        <4>2. b + w - 1 = t
          BY <1>4
        <4> QED
          BY <4>1, <4>2, Zenon
      <3>4. g = [s.h EXCEPT !.mem = X]
        <4> HIDE DEF X, r, s
        <4> QED
          BY <1>1
      <3> QED
        BY <3>3, <3>4, Zenon
    <2> HIDE DEF M, r, s
    <2>5. g.mem = M /\ g.tree = T \ {b} /\ g.free_blocks = h.free_blocks - 1 /\ IsHeap(g)
      BY <2>3, <2>4 DEF IsHeap
    <2>6. end \in BOOLEAN /\ (end <=> t + 1 \notin R) /\ b \notin g.tree
      BY <1>4, <2>5
    <2> HIDE DEF end
    <2>7. Tells(head, g.tree, b, R, b - 1, w) /\ Tells(tail, g.tree, b, R, t + 1, w)
      BY <1>4, <2>6, HeldTag DEF head, tail
    <2> HIDE DEF head, tail
    <2>8. /\ DOMAIN g.mem = Addr /\ g.mem[b] = head /\ g.mem[t] = tail
          /\ \A a \in Addr : a < b \/ t < a => g.mem[a] = m[a]
      BY <1>3, <1>4, <1>5, <2>5, FramedIs DEF M
    <2>9. Counted(g) /\ IsHeap(g)
      <3> HIDE DEF g
      <3> QED
        BY <1>2, <1>3, <2>5, CountRemove DEF T
    <2>10. Takes(h, g, b, t)
      BY <1>3, <1>4, <1>6, <2>5 DEF Takes, T
    <2>11. Whole(g, R, b, t)
      <3>1. (t - b) + 1 = w
        BY <1>4
      <3> QED
        BY <2>7, <2>8, <3>1 DEF Whole
    <2>12. Untouched(h, g, b, t)
      BY <2>8 DEF Untouched, m
    <2> DEFINE H2 == H \cup {b}
    <2>13. Gives(h, H, g, H2, R, b, t)
      <3>1. Gains(H2, H, b)
        BY DEF Gains
      <3>2. SpansIn(h, H, R, b, b, t)
        BY <1>6 DEF SpansIn, m, T
      <3> HIDE DEF g, H2
      <3> QED
        BY ONLY Sane(h, H, R), <1>7, <2>9, <2>10, <2>11, <2>12, <3>1, <3>2, OneHeld
    <2>14. g.mem[b].words = w
      BY <2>7, <2>8, TagIs
    <2>15. r.block = b
      BY <1>1
    <2> QED
      BY <1>2, <1>3, <1>4, <2>13, <2>14, <2>15 DEF m, r, Gives
  <1> QED
    BY <1>10, <1>11

-----------------------------------------------------------------------------
(* Making a block larger. *)

(* The free block after one that is held. *)
LEMMA NextBlock ==
  ASSUME NEW h, NEW H, NEW R, NEW b, Sane(h, H, R), b \in H,
         IsFree(h, lub_heap_block_getnext(h, b))
  PROVE  /\ lub_heap_block_getnext(h, b) \in h.tree
         /\ Adjoins(h.mem, b, lub_heap_block_getnext(h, b))
  <1>1. Tiling(h.mem, h.tree, H, R) /\ b \in h.tree \cup H
    BY DEF Sane
  <1>2. Top(h.mem, b) + 1 \in h.tree => Top(h.mem, b) + 1 \in R
    BY <1>1, BlockOf
  <1> QED
    BY <1>1, <1>2, NextIs DEF Adjoins

(* The free block before one that is held. *)
LEMMA PreviousBlock ==
  ASSUME NEW h, NEW H, NEW R, NEW b, Sane(h, H, R), b \in H,
         IsFree(h, lub_heap_block_getprevious(h, b))
  PROVE  /\ lub_heap_block_getprevious(h, b) \in h.tree
         /\ Adjoins(h.mem, lub_heap_block_getprevious(h, b), b)
  <1> DEFINE p == lub_heap_block_getprevious(h, b)
  <1>1. Tiling(h.mem, h.tree, H, R) /\ b \in h.tree \cup H
    BY DEF Sane
  <1>2. /\ b - 1 \in R => Top(h.mem, p) = b - 1
        /\ b - 1 \notin R => p = NULL
        /\ p \in h.tree
    <2>1. IsFree(h, p)
      OBVIOUS
    <2>2. /\ b - 1 \in R => Top(h.mem, p) = b - 1
          /\ b - 1 \notin R => p = NULL
          /\ IsFree(h, p) <=> p \in h.tree
      BY ONLY <1>1, PreviousIs
    <2> QED
      BY ONLY <2>1, <2>2
  <1>3. NULL \notin h.tree /\ b \in Nat
    BY <1>1, AddrIs DEF Tiling, NULL
  <1> QED
    BY <1>2, <1>3 DEF Adjoins

(* What the client of a block that is moved or extended finds. *)
Carries(m, b, n, c) == \A i \in 1 .. m[b].words - 2 : n[c + i] = m[b + i]

(* A block is extended upwards, and has the contents it had. *)
LEMMA UpwardsIs ==
  ASSUME NEW h, NEW H, NEW R, NEW b, NEW words \in Nat, Sane(h, H, R), b \in H,
         h.mem[b].words < words, lub_heap_extend_upwards(h, b, words).ok
  PROVE  LET r == lub_heap_extend_upwards(h, b, words)
         IN  /\ Sane(r.h, H, R) /\ Kept(h.mem, r.h.mem, H \ {b}, R)
             /\ r.block = b /\ r.h.mem[b].words >= words
             /\ Carries(h.mem, b, r.h.mem, b)
  <1> DEFINE m == h.mem
             T == h.tree
             n == lub_heap_block_getnext(h, b)
             w == m[b].words
             d == words - w
             t == Top(m, b)
             hi == Top(m, n)
             k == n + d
             left == m[n].words - d
             s == lub_heap_slice_from_bottom(h, n, d)
             r == lub_heap_extend_upwards(h, b, words)
             all == w + s.words
             seg_end == s.whole /\ m[hi].segment
             X == Stretched(s.h.mem, b, t, b + all - 1, Tag(FALSE, s.h.mem[b].segment, all),
                            Tag(FALSE, seg_end, all))
             G == H \ {b}
  <1>1. /\ IsFree(h, n) /\ d <= m[n].words
        /\ r = [h |-> [s.h EXCEPT !.mem = X], block |-> b, ok |-> TRUE]
    <2> DEFINE fits == IsFree(h, n) /\ m[b].words <= words /\ d <= m[n].words
    <2>1. r = IF fits THEN [h |-> [s.h EXCEPT !.mem = X], block |-> b, ok |-> TRUE]
                      ELSE [h |-> h, block |-> b, ok |-> FALSE]
      BY Zenon DEF lub_heap_extend_upwards, lub_heap_block__get_tail, Top, Stretched
    <2> HIDE DEF fits, X, s, n
    <2>2. fits
      BY <2>1
    <2> HIDE DEF r
    <2>3. r = [h |-> [s.h EXCEPT !.mem = X], block |-> b, ok |-> TRUE]
      BY ONLY <2>1, <2>2
    <2> QED
      BY <2>2, <2>3 DEF fits
  <1>2. n \in T /\ Adjoins(m, b, n)
    BY <1>1, NextBlock
  <1>3. Tiling(m, T, H, R) /\ IsHeap(h) /\ NoPairs(m, T) /\ Counted(h) /\ b \in T \cup H
        /\ b \notin T /\ DOMAIN m = Addr /\ n \in T \cup H /\ n \notin H
    BY <1>2 DEF Sane, Tiling
  <1> HIDE DEF n
  <1>4. /\ b \in Nat /\ b > 0 /\ t \in Nat /\ b < t /\ w \in Nat /\ w > 2 /\ t = b + w - 1
        /\ (m[b].segment <=> b - 1 \notin R) /\ m[b].segment \in BOOLEAN
        /\ n \in Nat /\ n = t + 1 /\ hi \in Nat /\ n < hi /\ m[n].words \in Nat /\ hi = n + m[n].words - 1
        /\ (m[hi].segment <=> hi + 1 \notin R) /\ m[hi].segment \in BOOLEAN
    <2>1. /\ b \in Nat /\ b > 0 /\ t \in Nat /\ b < t /\ w \in Nat /\ w >= MinWords
          /\ (m[b].segment <=> b - 1 \notin R) /\ m[b].segment \in BOOLEAN
      BY <1>3, BlockOf
    <2>2. /\ n \in Nat /\ hi \in Nat /\ n < hi /\ m[n].words \in Nat
          /\ (m[hi].segment <=> hi + 1 \notin R) /\ m[hi].segment \in BOOLEAN
      BY <1>3, BlockOf
    <2> QED
      BY <1>2, <2>1, <2>2, AddrIs DEF Top, Adjoins
  <1>5. Tells(m[b], T, b, R, b - 1, w) /\ Tells(m[hi], T, n, R, hi + 1, m[n].words)
    BY <1>3 DEF Tiling, Sound
  <1>6. /\ SpansIn(h, H, R, b, n, hi) /\ \A x \in T \cup H : x \in b .. hi => x = b \/ x = n
        /\ \A a \in b .. hi : a \in R /\ a \in Addr
    <2> HIDE DEF m, T
    <2>1. /\ Spans(m, T, H, R, b, n, hi)
          /\ \A x \in T \cup H : x \in b .. hi => x = b \/ x = n
      BY <1>2, <1>3, Pair
    <2>2. \A a \in b .. hi : a \in R /\ a \in Addr
      BY <1>3, <2>1 DEF Spans, Tiling
    <2> QED
      BY <2>1, <2>2 DEF SpansIn, m, T
  <1>7. Others(h, H, G, b, hi) /\ Gains(H, G, b)
    <2>1. b \in b .. hi
      BY <1>4
    <2> QED
      BY <1>3, <1>6, <2>1 DEF Others, Gains
  <1>8. hi + 1 \notin T
    BY <1>2, <1>3 DEF NoPairs
  <1>9. d \in Nat /\ d > 0
    BY <1>4
  <1>10. CASE LeavesBlock(left)
    <2> DEFINE S == [m EXCEPT ![hi].words = left, ![k] = Tag(TRUE, FALSE, left)]
               head == Tag(FALSE, S[b].segment, words)
               tail == Tag(FALSE, FALSE, words)
               M == Stretched(S, b, t, k - 1, head, tail)
               T2 == (T \ {n}) \cup {k}
               g == r.h
    <2>1. s = [h |-> [h EXCEPT !.mem = S, !.tree = T2], block |-> n, words |-> d, whole |-> FALSE]
      BY <1>10, Zenon DEF lub_heap_slice_from_bottom, lub_heap_block__get_tail, Top
    <2> HIDE DEF S, T2, m, T, w, t, left, hi, d
    <2>2. /\ s.h = [h EXCEPT !.mem = S, !.tree = T2]
          /\ s.words = d /\ s.whole = FALSE
      BY <2>1
    <2>3. s.h.mem = S /\ s.h.tree = T2 /\ s.h.free_blocks = h.free_blocks /\ IsHeap(s.h)
      BY <1>3, <2>2 DEF IsHeap
    <2>4. all = words /\ b + all - 1 = k - 1 /\ k = b + words
      <3>1. s.words = words - w
        BY <2>2 DEF d
      <3> HIDE DEF s
      <3> QED
        BY <1>4, <3>1 DEF d
    <2>5. g = [s.h EXCEPT !.mem = M]
      <3>1. seg_end = FALSE
        BY <2>2, Zenon
      <3>2. X = M
        BY <2>3, <2>4, <3>1, Zenon
      <3>3. g = [s.h EXCEPT !.mem = X]
        <4> HIDE DEF X, r, s
        <4> QED
          BY <1>1
      <3> QED
        BY <3>2, <3>3, Zenon
    <2> HIDE DEF M, r, s
    <2>6. g.mem = M /\ g.tree = T2 /\ g.free_blocks = h.free_blocks /\ IsHeap(g)
      BY <2>3, <2>5 DEF IsHeap
    <2>7. /\ k \in Nat /\ t < k - 1 /\ k < hi /\ k - b = words /\ (hi - k) + 1 = left /\ n < k
          /\ left \in Nat /\ left >= MinWords /\ left > 0 /\ k - 1 \in Nat /\ words >= MinWords
      <3>1. left > MinWords /\ left = m[n].words - d
        BY <1>10 DEF LeavesBlock, left
      <3>2. w >= MinWords
        BY <1>3, BlockOf DEF w
      <3>3. MinWords \in Nat /\ MinWords > 2
        BY AddrIs
      <3>4. k = b + words
        BY <2>4
      <3> QED
        BY <1>1, <1>4, <1>9, <3>1, <3>2, <3>3, <3>4
    <2>8. /\ DOMAIN S = Addr /\ S[k] = Tag(TRUE, FALSE, left) /\ S[hi] = [m[hi] EXCEPT !.words = left]
          /\ \A a \in Addr : a # hi /\ a # k => S[a] = m[a]
      <3>1. k \in Addr /\ hi \in Addr /\ hi # k
        BY <1>4, <1>6, <2>7
      <3> DEFINE x == Tag(TRUE, FALSE, left)
      <3> HIDE DEF x
      <3>2. S = [m EXCEPT ![hi].words = left, ![k] = x]
        BY Zenon DEF S, x
      <3> HIDE DEF k
      <3>3. /\ DOMAIN S = Addr /\ S[k] = x /\ S[hi] = [m[hi] EXCEPT !.words = left]
            /\ \A a \in Addr : a # hi /\ a # k => S[a] = m[a]
        BY ONLY <1>3, <3>1, <3>2
      <3> QED
        BY <3>3 DEF x
    <2>9. /\ DOMAIN g.mem = Addr /\ g.mem[b] = head /\ g.mem[k - 1] = tail
          /\ \A a \in Addr : a < b \/ k - 1 < a \/ (b < a /\ a < t) => g.mem[a] = S[a]
      <3> DEFINE e == k - 1
      <3>1. b \in Addr /\ \A a \in t .. e : a \in Addr
        BY <1>4, <1>6, <2>7
      <3>2. b \in Nat /\ t \in Nat /\ e \in Nat /\ b < t /\ t < e
        BY <1>4, <2>7
      <3>3. DOMAIN S = Addr /\ g.mem = Stretched(S, b, t, e, head, tail)
        BY <2>6, <2>8 DEF M
      <3> HIDE DEF head, tail, k, e, S
      <3> DEFINE Z == Stretched(S, b, t, e, head, tail)
      <3>4. /\ DOMAIN Z = Addr /\ Z[b] = head /\ Z[e] = tail
            /\ \A a \in Addr : a < b \/ e < a \/ (b < a /\ a < t) => Z[a] = S[a]
        <4>1. DOMAIN S = Addr
          BY ONLY <3>3
        <4> QED
          BY ONLY <3>1, <3>2, <4>1, StretchedIs
      <3>5. g.mem = Z
        BY ONLY <3>3
      <3> HIDE DEF Z, g
      <3>6. /\ DOMAIN g.mem = Addr /\ g.mem[b] = head /\ g.mem[e] = tail
            /\ \A a \in Addr : a < b \/ e < a \/ (b < a /\ a < t) => g.mem[a] = S[a]
        BY ONLY <3>4, <3>5
      <3> QED
        BY ONLY <3>6 DEF e
    <2>10. /\ g.mem[k] = S[k] /\ g.mem[hi] = S[hi] /\ S[b] = m[b]
           /\ \A a \in Addr : a < b \/ hi < a \/ (b < a /\ a < t) => g.mem[a] = m[a]
      <3> HIDE DEF k
      <3>1. k \in Addr /\ hi \in Addr /\ b \in Addr /\ k - 1 < k /\ k - 1 < hi /\ b # k /\ b # hi
        BY <1>4, <1>6, <2>7
      <3>2. \A a \in Addr : a < b \/ hi < a \/ (b < a /\ a < t) =>
              a # hi /\ a # k /\ (a < b \/ k - 1 < a \/ (b < a /\ a < t))
        BY <1>4, <2>7, AddrIs
      <3> QED
        BY <2>8, <2>9, <3>1, <3>2
    <2>11. k \in b .. hi /\ k # n /\ k \notin T /\ k # b
      <3>1. k \in b .. hi /\ k # n /\ k # b
        BY <1>4, <2>7
      <3> HIDE DEF k
      <3> QED
        BY <1>6, <3>1
    <2>12. /\ Tells(head, T2, b, R, b - 1, k - b) /\ Tells(tail, T2, b, R, k, k - b)
           /\ Tells(S[k], T2, k, R, k - 1, left) /\ Tells(S[hi], T2, k, R, hi + 1, left)
      <3>1. b \notin T2 /\ k \in T2 /\ k \in R /\ k - 1 \in R
        BY <1>3, <1>4, <1>6, <2>7, <2>11 DEF T2
      <3> HIDE DEF k
      <3>2. Tells(head, T2, b, R, b - 1, words)
        BY <1>4, <2>10, <3>1, HeldTag DEF head
      <3>3. Tells(tail, T2, b, R, k, words)
        BY <3>1, InnerTag DEF tail
      <3>4. Tells(S[k], T2, k, R, k - 1, left)
        BY <2>8, <3>1 DEF Tells, Tag
      <3>5. Tells(S[hi], T2, k, R, hi + 1, left)
        BY <1>2, <1>5, <2>8, <3>1, Resized
      <3> QED
        BY <2>7, <3>2, <3>3, <3>4, <3>5
    <2> HIDE DEF k, head, tail
    <2>13. Counted(g) /\ IsHeap(g)
      <3> HIDE DEF g
      <3> QED
        BY <1>2, <1>3, <2>6, <2>11, CountSwap DEF T, T2
    <2>14. Frees(h, g, k, b, hi)
      <3>1. n \in b .. hi
        BY <1>4
      <3> QED
        BY <1>2, <1>3, <1>6, <2>6, <2>11, <3>1 DEF Frees, T2, T
    <2>15. Halves(g, R, b, k, hi)
      <3> HIDE DEF g
      <3> QED
        BY <2>6, <2>7, <2>9, <2>10, <2>12 DEF Halves
    <2>16. Untouched(h, g, b, hi)
      BY <2>9, <2>10 DEF Untouched, m
    <2>17. Gives(h, G, g, H, R, b, k - 1)
      <3>1. hi + 1 \notin h.tree
        BY <1>8 DEF T
      <3> HIDE DEF g, G
      <3> QED
        BY ONLY Sane(h, H, R), <1>6, <1>7, <2>13, <2>14, <2>15, <2>16, <3>1, LowHeld
    <2>18. g.mem[b].words >= words
      <3> HIDE DEF g
      <3>1. g.mem[b].words = words
        BY <2>9 DEF head, Tag
      <3> QED
        BY <3>1
    <2>19. Carries(m, b, g.mem, b)
      <3> SUFFICES ASSUME NEW i \in 1 .. w - 2 PROVE g.mem[b + i] = m[b + i]
        BY DEF Carries, w
      <3>1. b + i \in b .. hi /\ b < b + i /\ b + i < t
        BY <1>4
      <3> QED
        BY <1>6, <2>10, <3>1
    <2>20. r.block = b
      BY <1>1
    <2> QED
      BY <2>17, <2>18, <2>19, <2>20 DEF m, r, Gives
  <1>11. CASE ~LeavesBlock(left)
    <2> DEFINE end == TRUE /\ m[hi].segment
               sum == w + m[n].words
               head == Tag(FALSE, m[b].segment, sum)
               tail == Tag(FALSE, end, sum)
               M == Stretched(m, b, t, hi, head, tail)
               g == r.h
    <2>1. s = [h |-> [h EXCEPT !.tree = T \ {n}, !.free_blocks = @ - 1], block |-> n,
               words |-> m[n].words, whole |-> TRUE]
      BY <1>11, Zenon DEF lub_heap_slice_from_bottom, lub_heap_block__get_tail, Top
    <2> HIDE DEF m, T, w, t, left, hi
    <2>2. /\ s.h = [h EXCEPT !.tree = T \ {n}, !.free_blocks = @ - 1]
          /\ s.words = m[n].words /\ s.whole = TRUE
      BY <2>1
    <2>3. s.h.mem = m /\ s.h.tree = T \ {n} /\ s.h.free_blocks = h.free_blocks - 1 /\ IsHeap(s.h)
      BY <1>3, <2>2 DEF IsHeap, m
    <2>4. all = sum /\ b + all - 1 = hi /\ sum = (hi - b) + 1
      <3>1. s.words = m[n].words
        BY <2>2
      <3> HIDE DEF s
      <3> QED
        BY <1>4, <3>1
    <2>5. g = [s.h EXCEPT !.mem = M]
      <3>1. seg_end = end
        BY <2>2, Zenon
      <3>2. X = M
        BY <2>3, <2>4, <3>1, Zenon
      <3>3. g = [s.h EXCEPT !.mem = X]
        <4> HIDE DEF X, r, s
        <4> QED
          BY <1>1
      <3> QED
        BY <3>2, <3>3, Zenon
    <2> HIDE DEF M, r, s
    <2>6. g.mem = M /\ g.tree = T \ {n} /\ g.free_blocks = h.free_blocks - 1 /\ IsHeap(g)
      BY <2>3, <2>5 DEF IsHeap
    <2>7. end \in BOOLEAN /\ (end <=> hi + 1 \notin R) /\ b \notin g.tree
      BY <1>3, <1>4, <2>6
    <2> HIDE DEF end
    <2>8. Tells(head, g.tree, b, R, b - 1, sum) /\ Tells(tail, g.tree, b, R, hi + 1, sum)
      BY <1>4, <2>7, HeldTag DEF head, tail
    <2>9. sum >= words
      BY <1>1, <1>4, <1>9 DEF d
    <2> HIDE DEF head, tail, sum
    <2>10. /\ DOMAIN g.mem = Addr /\ g.mem[b] = head /\ g.mem[hi] = tail
           /\ \A a \in Addr : a < b \/ hi < a \/ (b < a /\ a < t) => g.mem[a] = m[a]
      <3>1. b \in Addr /\ t < hi /\ \A a \in t .. hi : a \in Addr
        BY <1>4, <1>6
      <3>2. DOMAIN m = Addr
        BY <1>3
      <3>3. b \in Nat /\ t \in Nat /\ hi \in Nat /\ b < t
        BY <1>4
      <3>4. /\ DOMAIN M = Addr /\ M[b] = head /\ M[hi] = tail
            /\ \A a \in Addr : a < b \/ hi < a \/ (b < a /\ a < t) => M[a] = m[a]
        BY <3>1, <3>2, <3>3, StretchedIs DEF M
      <3> QED
        BY <2>6, <3>4
    <2>11. Counted(g) /\ IsHeap(g)
      <3> HIDE DEF g
      <3> QED
        BY <1>2, <1>3, <2>6, CountRemove DEF T
    <2>12. Takes(h, g, b, hi)
      <3>1. n \in b .. hi
        BY <1>4
      <3> QED
        BY <1>3, <1>6, <2>6, <3>1 DEF Takes, T
    <2>13. Whole(g, R, b, hi)
      BY <2>4, <2>8, <2>10 DEF Whole
    <2>14. Untouched(h, g, b, hi)
      BY <2>10 DEF Untouched, m
    <2>15. Gives(h, G, g, H, R, b, hi)
      <3> HIDE DEF g, G
      <3> QED
        BY ONLY Sane(h, H, R), <1>6, <1>7, <2>11, <2>12, <2>13, <2>14, OneHeld
    <2>16. g.mem[b].words >= words
      <3> HIDE DEF g
      <3>1. g.mem[b].words = sum
        BY <2>8, <2>10, TagIs
      <3> QED
        BY <2>9, <3>1
    <2>17. Carries(m, b, g.mem, b)
      <3> SUFFICES ASSUME NEW i \in 1 .. w - 2 PROVE g.mem[b + i] = m[b + i]
        BY DEF Carries, w
      <3>1. b + i \in b .. hi /\ b < b + i /\ b + i < t
        BY <1>4
      <3> QED
        BY <1>6, <2>10, <3>1
    <2>18. r.block = b
      BY <1>1
    <2> QED
      BY <2>15, <2>16, <2>17, <2>18 DEF m, r, Gives
  <1> QED
    BY <1>10, <1>11

(* A block is extended downwards, and its contents move with it. *)
LEMMA DownwardsIs ==
  ASSUME NEW h, NEW H, NEW R, NEW b, NEW words \in Nat, Sane(h, H, R), b \in H,
         h.mem[b].words < words, lub_heap_extend_downwards(h, b, words).ok
  PROVE  LET r == lub_heap_extend_downwards(h, b, words)
         IN  /\ Sane(r.h, (H \ {b}) \cup {r.block}, R) /\ Kept(h.mem, r.h.mem, H \ {b}, R)
             /\ r.block \notin H \ {b} /\ r.block \in Nat \ {0} /\ r.h.mem[r.block].words >= words
             /\ Carries(h.mem, b, r.h.mem, r.block)
  <1> DEFINE m == h.mem
             T == h.tree
             p == lub_heap_block_getprevious(h, b)
             w == m[b].words
             d == words - w
             t == Top(m, b)
             pw == m[p].words
             left == pw - d
             k == p + left
             s == lub_heap_slice_from_top(h, p, d, FALSE)
             r == lub_heap_extend_downwards(h, b, words)
             all == w + s.words
             seg_start == s.whole /\ m[p].segment
             X == Shifted(s.h.mem, s.block, t, Tag(FALSE, seg_start, all),
                          Tag(FALSE, s.h.mem[t].segment, all), w, s.words)
             G == H \ {b}
  <1>1. /\ IsFree(h, p) /\ d <= pw
        /\ r = [h |-> [s.h EXCEPT !.mem = X], block |-> s.block, ok |-> TRUE]
    <2> DEFINE fits == IsFree(h, p) /\ m[b].words <= words /\ d <= pw
    <2>1. r = IF fits THEN [h |-> [s.h EXCEPT !.mem = X], block |-> s.block, ok |-> TRUE]
                      ELSE [h |-> h, block |-> b, ok |-> FALSE]
      BY Zenon DEF lub_heap_extend_downwards, lub_heap_block__get_tail, Top, Shifted
    <2> HIDE DEF fits, X, s, p
    <2>2. fits
      BY <2>1
    <2> HIDE DEF r
    <2>3. r = [h |-> [s.h EXCEPT !.mem = X], block |-> s.block, ok |-> TRUE]
      BY ONLY <2>1, <2>2
    <2> QED
      BY <2>2, <2>3 DEF fits
  <1>2. p \in T /\ Adjoins(m, p, b)
    BY <1>1, PreviousBlock
  <1>3. Tiling(m, T, H, R) /\ IsHeap(h) /\ NoPairs(m, T) /\ Counted(h) /\ b \in T \cup H
        /\ b \notin T /\ DOMAIN m = Addr /\ p \in T \cup H /\ p \notin H
    BY <1>2 DEF Sane, Tiling
  <1> HIDE DEF p
  <1>4. /\ b \in Nat /\ t \in Nat /\ b < t /\ w \in Nat /\ w > 2 /\ t = b + w - 1
        /\ (m[t].segment <=> t + 1 \notin R) /\ m[t].segment \in BOOLEAN
        /\ p \in Nat /\ p > 0 /\ b = p + pw /\ pw \in Nat /\ pw > 2
        /\ (m[p].segment <=> p - 1 \notin R) /\ m[p].segment \in BOOLEAN
    <2>1. /\ b \in Nat /\ t \in Nat /\ b < t /\ w \in Nat /\ w >= MinWords
          /\ (m[t].segment <=> t + 1 \notin R) /\ m[t].segment \in BOOLEAN
      BY <1>3, BlockOf
    <2>2. /\ p \in Nat /\ p > 0 /\ pw \in Nat /\ pw >= MinWords
          /\ (m[p].segment <=> p - 1 \notin R) /\ m[p].segment \in BOOLEAN
      BY <1>3, BlockOf
    <2> QED
      BY <1>2, <2>1, <2>2, AddrIs DEF Top, Adjoins
  <1>5. Tells(m[p], T, p, R, p - 1, pw) /\ Tells(m[t], T, b, R, t + 1, w)
    BY <1>3 DEF Tiling, Sound
  <1>6. /\ SpansIn(h, H, R, p, b, t) /\ \A x \in T \cup H : x \in p .. t => x = p \/ x = b
        /\ \A a \in p .. t : a \in R /\ a \in Addr
    <2> HIDE DEF m, T
    <2>1. /\ Spans(m, T, H, R, p, b, t)
          /\ \A x \in T \cup H : x \in p .. t => x = p \/ x = b
      <3> HIDE DEF t
      <3>1. /\ Spans(m, T, H, R, p, b, Top(m, b))
            /\ \A x \in T \cup H : x \in p .. Top(m, b) => x = p \/ x = b
        BY <1>2, <1>3, Pair
      <3> QED
        BY <3>1 DEF t
    <2>2. \A a \in p .. t : a \in R /\ a \in Addr
      BY <1>3, <2>1 DEF Spans, Tiling
    <2> QED
      BY <2>1, <2>2 DEF SpansIn, m, T
  <1>7. Others(h, H, G, p, t) /\ b \in p .. t /\ p \in p .. t
    <2>1. b \in p .. t /\ p \in p .. t
      <3> HIDE DEF t, pw
      <3>1. b \in Nat /\ t \in Nat /\ b < t /\ p \in Nat /\ pw \in Nat /\ b = p + pw
        BY <1>4
      <3> QED
        BY ONLY <3>1
    <2> QED
      BY <1>3, <1>6, <2>1 DEF Others
  <1>8. \A x \in h.tree : Top(h.mem, x) + 1 # p
    BY <1>2, <1>3 DEF NoPairs
  <1>9. d \in Nat /\ d > 0 /\ words = w + d
    <2>1. words \in Nat /\ w \in Nat /\ w < words
      <3>1. w < words
        BY Zenon
      <3>2. w \in Nat
        BY ONLY <1>4
      <3> QED
        BY <3>1, <3>2, Zenon
    <2> HIDE DEF w
    <2> QED
      BY ONLY <2>1 DEF d
  <1>10. CASE LeavesBlock(left)
    <2> DEFINE S == [m EXCEPT ![p].words = left, ![p + left - 1] = Tag(TRUE, FALSE, left)]
               start == FALSE /\ m[p].segment
               head == Tag(FALSE, start, words)
               tail == Tag(FALSE, S[t].segment, words)
               M == Shifted(S, k, t, head, tail, w, d)
               g == r.h
               H2 == G \cup {k}
    <2>1. s = [h |-> [h EXCEPT !.mem = S], block |-> k, words |-> d, whole |-> FALSE]
      BY <1>10, Zenon DEF lub_heap_slice_from_top
    <2> HIDE DEF S, m, T, w, t, left, pw, d
    <2>2. s.h = [h EXCEPT !.mem = S] /\ s.words = d /\ s.whole = FALSE /\ s.block = k
      <3> HIDE DEF s, k
      <3> QED
        BY <2>1
    <2>3. s.h.mem = S /\ s.h.tree = T /\ s.h.free_blocks = h.free_blocks /\ IsHeap(s.h)
      BY <1>3, <2>2 DEF IsHeap, T
    <2>4. all = words
      BY <1>9, <2>2
    <2>5. g = [s.h EXCEPT !.mem = M]
      <3>1. seg_start = start
        BY <2>2, Zenon
      <3>2. X = M
        BY <2>2, <2>3, <2>4, <3>1, Zenon
      <3>3. g = [s.h EXCEPT !.mem = X]
        <4> HIDE DEF X, r, s
        <4> QED
          BY <1>1
      <3> QED
        BY <3>2, <3>3, Zenon
    <2>6. r.block = k
      <3> HIDE DEF X, r, s, k
      <3> QED
        BY <1>1, <2>2
    <2> HIDE DEF M, r, s
    <2>7. g.mem = M /\ g.tree = T /\ g.free_blocks = h.free_blocks /\ IsHeap(g)
      BY <2>3, <2>5 DEF IsHeap
    <2>8. /\ k \in Nat /\ k - p = left /\ (t - k) + 1 = words /\ p < k - 1 /\ k < t /\ k + d = b /\ k < b
          /\ left \in Nat /\ left >= MinWords /\ words >= MinWords /\ p + left - 1 = k - 1 /\ k - 1 \in Nat
      <3>1. left > MinWords /\ left = pw - d
        BY <1>10 DEF LeavesBlock, left
      <3>2. w >= MinWords
        BY <1>3, BlockOf DEF w
      <3>3. MinWords \in Nat /\ MinWords > 2
        BY AddrIs
      <3>4. left \in Nat
        BY <1>1, <1>4, <1>9, <3>1, <3>3
      <3> QED
        BY <1>1, <1>4, <1>9, <3>1, <3>2, <3>3, <3>4
    <2>9. /\ DOMAIN S = Addr /\ S[k - 1] = Tag(TRUE, FALSE, left) /\ S[p] = [m[p] EXCEPT !.words = left]
          /\ \A a \in Addr : a # p /\ a # k - 1 => S[a] = m[a]
      <3>1. k - 1 \in Addr /\ p \in Addr /\ p # k - 1
        BY <1>4, <1>6, <2>8
      <3> DEFINE x == Tag(TRUE, FALSE, left)
                 j == k - 1
      <3> HIDE DEF x
      <3>2. S = [m EXCEPT ![p].words = left, ![j] = x]
        BY <2>8, Zenon DEF S, x
      <3>4. j \in Addr /\ p \in Addr /\ p # j
        BY <3>1
      <3> HIDE DEF j
      <3>3. /\ DOMAIN S = Addr /\ S[j] = x /\ S[p] = [m[p] EXCEPT !.words = left]
            /\ \A a \in Addr : a # p /\ a # j => S[a] = m[a]
        BY ONLY <1>3, <3>2, <3>4
      <3> QED
        BY <3>3 DEF x, j
    <2>10. /\ DOMAIN g.mem = Addr /\ g.mem[k] = head /\ g.mem[t] = tail
           /\ \A a \in Addr : a < k \/ t < a => g.mem[a] = S[a]
           /\ \A i \in 1 .. w - 2 : g.mem[k + i] = S[b + i]
      <3>1. \A a \in k .. t : a \in Addr
        BY <1>4, <1>6, <2>8
      <3>2. k + w <= t
        BY <1>4, <1>9, <2>8
      <3>3. t \in Nat /\ k \in Nat /\ w \in Nat /\ w > 2 /\ k < t /\ DOMAIN S = Addr /\ d \in Nat
        BY <1>4, <1>9, <2>8, <2>9
      <3>6. b = k + d
        BY <2>8
      <3> HIDE DEF head, tail, k
      <3>4. /\ DOMAIN M = Addr /\ M[k] = head /\ M[t] = tail
            /\ \A a \in Addr : a < k \/ t < a => M[a] = S[a]
            /\ \A i \in 1 .. w - 2 : M[k + i] = S[(k + i) + d]
        <4>1. ShiftsTo(S, k, t, head, tail, w, d, M)
          BY <3>1, <3>2, <3>3, ShiftedIs DEF M
        <4> QED
          BY <4>1 DEF ShiftsTo
      <3>5. \A i \in 1 .. w - 2 : (k + i) + d = b + i
        BY <3>3, <3>6
      <3> QED
        BY <2>7, <3>4, <3>5
    <2>11. /\ g.mem[p] = S[p] /\ g.mem[k - 1] = S[k - 1] /\ S[t] = m[t]
           /\ \A a \in Addr : a < p \/ t < a => g.mem[a] = m[a]
      <3> HIDE DEF k
      <3>1. k - 1 \in Addr /\ p \in Addr /\ t \in Addr /\ t # p /\ t # k - 1 /\ p < k /\ k - 1 < k
        BY <1>4, <1>6, <2>8
      <3>2. \A a \in Addr : a < p \/ t < a => a # p /\ a # k - 1 /\ (a < k \/ t < a)
        BY <1>4, <2>8, AddrIs
      <3> QED
        BY <2>9, <2>10, <3>1, <3>2
    <2>12. k \in p .. t /\ k # p /\ k \notin T /\ k # b
      <3>1. k \in p .. t /\ k # p /\ k # b
        BY <1>4, <2>8
      <3> HIDE DEF k
      <3> QED
        BY <1>6, <3>1
    <2>13. /\ Tells(S[p], T, p, R, p - 1, left) /\ Tells(S[k - 1], T, p, R, k, left)
           /\ Tells(head, T, k, R, k - 1, words) /\ Tells(tail, T, k, R, t + 1, words)
      <3>1. k \in R /\ k - 1 \in R
        BY <1>4, <1>6, <2>8
      <3>2. start \in BOOLEAN /\ (start <=> k - 1 \notin R)
        BY <3>1
      <3> HIDE DEF k, start
      <3>3. Tells(head, T, k, R, k - 1, words)
        BY <2>12, <3>2, HeldTag DEF head
      <3>4. Tells(tail, T, k, R, t + 1, words)
        BY <1>4, <2>11, <2>12, HeldTag DEF tail
      <3>5. Tells(S[k - 1], T, p, R, k, left)
        BY <1>2, <2>9, <3>1 DEF Tells, Tag
      <3>6. Tells(S[p], T, p, R, p - 1, left)
        BY <1>2, <1>5, <2>9, Resized
      <3> QED
        BY <3>3, <3>4, <3>5, <3>6
    <2>14. k > 0 /\ k \notin G
      <3>1. k > 0
        BY <1>4, <2>8
      <3> QED
        BY <1>6, <2>12, <3>1
    <2>15. \A i \in 1 .. w - 2 : S[b + i] = m[b + i]
      <3> SUFFICES ASSUME NEW i \in 1 .. w - 2 PROVE S[b + i] = m[b + i]
        OBVIOUS
      <3>1. b + i \in p .. t /\ b + i # p /\ b + i # k - 1
        BY <1>4, <2>8
      <3> QED
        BY <1>6, <2>9, <3>1
    <2> HIDE DEF k, head, tail
    <2>16. Counted(g) /\ IsHeap(g)
      BY <1>3, <2>7 DEF Counted, T
    <2>17. Frees(h, g, p, p, t)
      BY <1>2, <1>3, <1>6, <1>7, <2>7 DEF Frees, T
    <2>18. Halves(g, R, p, k, t)
      <3> HIDE DEF g
      <3> QED
        BY <2>7, <2>8, <2>10, <2>11, <2>13 DEF Halves
    <2>19. Untouched(h, g, p, t)
      BY <2>10, <2>11 DEF Untouched, m
    <2>20. Gives(h, G, g, H2, R, k, t)
      <3>1. Gains(H2, G, k)
        BY DEF Gains
      <3> HIDE DEF g, G, H2
      <3> QED
        BY ONLY Sane(h, H, R), <1>6, <1>7, <1>8, <2>16, <2>17, <2>18, <2>19, <3>1, HighHeld
    <2>21. g.mem[k].words >= words
      <3> HIDE DEF g
      <3>1. g.mem[k].words = words
        BY <2>10 DEF head, Tag
      <3> QED
        BY <3>1
    <2>22. Carries(m, b, g.mem, k)
      BY <2>10, <2>15 DEF Carries, w
    <2> QED
      BY <2>6, <2>8, <2>14, <2>20, <2>21, <2>22 DEF m, r, Gives
  <1>11. CASE ~LeavesBlock(left)
    <2> DEFINE start == TRUE /\ m[p].segment
               sum == w + pw
               head == Tag(FALSE, start, sum)
               tail == Tag(FALSE, m[t].segment, sum)
               M == Shifted(m, p, t, head, tail, w, pw)
               g == r.h
               H2 == G \cup {p}
    <2>1. s = [h |-> [h EXCEPT !.tree = T \ {p}, !.free_blocks = @ - 1], block |-> p,
               words |-> pw, whole |-> TRUE]
      BY <1>11, Zenon DEF lub_heap_slice_from_top
    <2> HIDE DEF m, T, w, t, left, pw, d
    <2>2. /\ s.h = [h EXCEPT !.tree = T \ {p}, !.free_blocks = @ - 1]
          /\ s.words = pw /\ s.whole = TRUE /\ s.block = p
      <3> HIDE DEF s
      <3> QED
        BY <2>1
    <2>3. s.h.mem = m /\ s.h.tree = T \ {p} /\ s.h.free_blocks = h.free_blocks - 1 /\ IsHeap(s.h)
      BY <1>3, <2>2 DEF IsHeap, m
    <2>4. all = sum
      BY <2>2
    <2>5. g = [s.h EXCEPT !.mem = M]
      <3>1. seg_start = start
        BY <2>2, Zenon
      <3>2. X = M
        BY <2>2, <2>3, <2>4, <3>1, Zenon
      <3>3. g = [s.h EXCEPT !.mem = X]
        <4> HIDE DEF X, r, s
        <4> QED
          BY <1>1
      <3> QED
        BY <3>2, <3>3, Zenon
    <2>6. r.block = p
      <3> HIDE DEF X, r, s
      <3> QED
        BY <1>1, <2>2
    <2> HIDE DEF M, r, s
    <2>7. g.mem = M /\ g.tree = T \ {p} /\ g.free_blocks = h.free_blocks - 1 /\ IsHeap(g)
      BY <2>3, <2>5 DEF IsHeap
    <2>8. start \in BOOLEAN /\ (start <=> p - 1 \notin R) /\ p \notin g.tree
      BY <1>4, <2>7
    <2>9. sum >= words /\ sum = (t - p) + 1 /\ p < t
      BY <1>1, <1>4, <1>9
    <2> HIDE DEF start
    <2>10. Tells(head, g.tree, p, R, p - 1, sum) /\ Tells(tail, g.tree, p, R, t + 1, sum)
      BY <1>4, <2>8, HeldTag DEF head, tail
    <2> HIDE DEF head, tail, sum
    <2>11. /\ DOMAIN g.mem = Addr /\ g.mem[p] = head /\ g.mem[t] = tail
           /\ \A a \in Addr : a < p \/ t < a => g.mem[a] = m[a]
           /\ \A i \in 1 .. w - 2 : g.mem[p + i] = m[b + i]
      <3>1. \A a \in p .. t : a \in Addr
        BY <1>6
      <3>2. p + w <= t
        BY <1>4
      <3>3. t \in Nat /\ p \in Nat /\ w \in Nat /\ w > 2 /\ p < t /\ DOMAIN m = Addr /\ pw \in Nat
        BY <1>3, <1>4, <2>9
      <3>6. b = p + pw
        BY <1>4
      <3>4. /\ DOMAIN M = Addr /\ M[p] = head /\ M[t] = tail
            /\ \A a \in Addr : a < p \/ t < a => M[a] = m[a]
            /\ \A i \in 1 .. w - 2 : M[p + i] = m[(p + i) + pw]
        <4>1. ShiftsTo(m, p, t, head, tail, w, pw, M)
          BY <3>1, <3>2, <3>3, ShiftedIs DEF M
        <4> QED
          BY <4>1 DEF ShiftsTo
      <3>5. \A i \in 1 .. w - 2 : (p + i) + pw = b + i
        BY <3>3, <3>6
      <3> QED
        BY <2>7, <3>4, <3>5
    <2>12. Counted(g) /\ IsHeap(g)
      <3> HIDE DEF g
      <3> QED
        BY <1>2, <1>3, <2>7, CountRemove DEF T
    <2>13. Takes(h, g, p, t)
      BY <1>3, <1>6, <1>7, <2>7 DEF Takes, T
    <2>14. Whole(g, R, p, t)
      BY <2>9, <2>10, <2>11 DEF Whole
    <2>15. Untouched(h, g, p, t)
      BY <2>11 DEF Untouched, m
    <2>16. Gives(h, G, g, H2, R, p, t)
      <3>1. Gains(H2, G, p)
        BY DEF Gains
      <3> HIDE DEF g, G, H2
      <3> QED
        BY ONLY Sane(h, H, R), <1>6, <1>7, <2>12, <2>13, <2>14, <2>15, <3>1, OneHeld
    <2>17. g.mem[p].words >= words
      <3> HIDE DEF g
      <3>1. g.mem[p].words = sum
        BY <2>10, <2>11, TagIs
      <3> QED
        BY <2>9, <3>1
    <2>18. Carries(m, b, g.mem, p)
      BY <2>11 DEF Carries, w
    <2>19. p \in Nat \ {0} /\ p \notin G
      BY <1>3, <1>4
    <2> QED
      BY <2>6, <2>16, <2>17, <2>18, <2>19 DEF m, r, Gives
  <1> QED
    BY <1>10, <1>11

-----------------------------------------------------------------------------
(* Making a block smaller. *)

(* Block b has been cut at k, where a free block goes on to word hi. *)
IsCut(h, g, b, words, k, hi, end) ==
  /\ k = b + words
  /\ g.mem = Framed([h.mem EXCEPT ![b].words = words, ![k - 1] = Tag(FALSE, FALSE, words)],
                    k, hi, Tag(TRUE, FALSE, (hi - k) + 1), Tag(TRUE, end, (hi - k) + 1))

CarriesTo(m, b, n, c, words) == \A i \in 1 .. words - 2 : n[c + i] = m[b + i]

Shortened(h, b, g, words) == CarriesTo(h.mem, b, g.mem, b, words) /\ g.mem[b].words = words

(* A block is shortened, and a free one, from k to hi, takes what it leaves. *)
LEMMA CutIs ==
  ASSUME NEW h, NEW H, NEW R, NEW b, NEW g, NEW words \in Nat, NEW k, NEW e, NEW hi,
         NEW end \in BOOLEAN, NEW G,
         Sane(h, H, R), b \in H, words >= MinWords, words <= h.mem[b].words,
         (hi - k) + 1 >= MinWords, hi \in Nat, end <=> hi + 1 \notin R, hi + 1 \notin h.tree,
         IsHeap(g), Counted(g), Frees(h, g, k, b, hi), Gains(H, G, b), b \notin G,
         Others(h, H, G, b, hi), SpansIn(h, H, R, b, e, hi), IsCut(h, g, b, words, k, hi, end)
  PROVE  Gives(h, G, g, H, R, b, k - 1) /\ Shortened(h, b, g, words)
  <1> DEFINE m == h.mem
             T == h.tree
             rest == (hi - k) + 1
             head == Tag(TRUE, FALSE, rest)
             tail == Tag(TRUE, end, rest)
             inner == Tag(FALSE, FALSE, words)
             j == k - 1
             S == [m EXCEPT ![b].words = words, ![j] = inner]
             M == Framed(S, k, hi, head, tail)
  <1>1. Tiling(m, T, H, R) /\ b \in T \cup H /\ b \notin T /\ DOMAIN m = Addr
    BY DEF Sane, Tiling
  <1>2. k = b + words /\ g.mem = M
    BY DEF IsCut
  <1>3. b \in Nat /\ m[b].words \in Nat
    BY <1>1, BlockOf
  <1>4. /\ k \in Nat /\ j \in Nat /\ b < j /\ j < k /\ k < hi /\ k - b = words /\ k - 1 = j
        /\ rest \in Nat /\ rest >= MinWords
    BY <1>2, <1>3, AddrIs
  <1>5. \A a \in b .. hi : a \in R /\ a \in Addr
    BY <1>1 DEF SpansIn, Spans, Tiling
  <1>6. Tells(m[b], T, b, R, b - 1, m[b].words)
    BY <1>1 DEF Tiling, Sound
  <1> HIDE DEF m, T, rest, head, tail, inner, j, M
  <1>7. /\ DOMAIN S = Addr /\ S[j] = inner /\ S[b] = [m[b] EXCEPT !.words = words]
        /\ \A a \in Addr : a # b /\ a # j => S[a] = m[a]
    <2>1. b \in Addr /\ j \in Addr /\ b # j
      BY <1>3, <1>4, <1>5
    <2> QED
      BY <1>1, <2>1
  <1> HIDE DEF S
  <1>8. /\ DOMAIN M = Addr /\ M[k] = head /\ M[hi] = tail
        /\ \A a \in Addr : a < k \/ hi < a => M[a] = S[a]
    <2>1. \A a \in k .. hi : a \in Addr
      BY <1>3, <1>4, <1>5
    <2> QED
      BY <1>4, <1>7, <2>1, FramedIs DEF M
  <1>9. /\ M[b] = S[b] /\ M[j] = S[j]
        /\ \A a \in Addr : a < b \/ hi < a \/ (b < a /\ a < j) => M[a] = m[a]
    <2>1. b \in Addr /\ j \in Addr /\ b < k
      BY <1>3, <1>4, <1>5
    <2>2. \A a \in Addr : a < b \/ hi < a \/ (b < a /\ a < j) => a # b /\ a # j /\ (a < k \/ hi < a)
      BY <1>3, <1>4, AddrIs
    <2> QED
      BY <1>4, <1>7, <1>8, <2>1, <2>2
  <1>10. b \notin g.tree /\ k \in g.tree
    <2>1. b \in b .. hi /\ b # k
      BY <1>3, <1>4
    <2> QED
      BY <2>1 DEF Frees
  <1>11. k \in R /\ j \in R
    BY <1>3, <1>4, <1>5
  <1>12. /\ Tells(S[b], g.tree, b, R, b - 1, words) /\ Tells(inner, g.tree, b, R, k, words)
         /\ Tells(head, g.tree, k, R, j, rest) /\ Tells(tail, g.tree, k, R, hi + 1, rest)
    <2>1. Tells(S[b], g.tree, b, R, b - 1, words)
      BY <1>1, <1>6, <1>7, <1>10, Resized
    <2>2. Tells(inner, g.tree, b, R, k, words)
      BY <1>10, <1>11, InnerTag DEF inner
    <2>3. Tells(head, g.tree, k, R, j, rest)
      BY <1>10, <1>11, InnerTag DEF head
    <2>4. Tells(tail, g.tree, k, R, hi + 1, rest)
      BY <1>10, FreeTag DEF tail
    <2> QED
      BY <2>1, <2>2, <2>3, <2>4
  <1>13. Halves(g, R, b, k, hi)
    <2>1. /\ Tells(M[b], g.tree, b, R, b - 1, words) /\ Tells(M[j], g.tree, b, R, k, words)
          /\ Tells(M[k], g.tree, k, R, j, rest) /\ Tells(M[hi], g.tree, k, R, hi + 1, rest)
      BY <1>7, <1>8, <1>9, <1>12
    <2> QED
      BY <1>2, <1>4, <2>1 DEF Halves, rest, j
  <1>14. Untouched(h, g, b, hi)
    BY <1>2, <1>8, <1>9 DEF Untouched, m
  <1>15. Gives(h, G, g, H, R, b, k - 1)
    BY <1>13, <1>14, LowHeld
  <1>16. CarriesTo(m, b, g.mem, b, words)
    <2> SUFFICES ASSUME NEW i \in 1 .. words - 2 PROVE g.mem[b + i] = m[b + i]
      BY DEF CarriesTo
    <2>1. b + i \in b .. hi /\ b < b + i /\ b + i < j
      BY <1>2, <1>3, <1>4 DEF j
    <2> QED
      BY <1>2, <1>5, <1>9, <2>1
  <1>17. g.mem[b].words = words
    BY <1>2, <1>9, <1>12, TagIs
  <1> QED
    BY <1>15, <1>16, <1>17 DEF m, Shortened

(* A block that is larger than what is asked for keeps what is asked for. *)
LEMMA ShrunkIs ==
  ASSUME NEW h, NEW H, NEW R, NEW b, NEW words \in Nat, Sane(h, H, R), b \in H,
         words >= MinWords, words <= h.mem[b].words
  PROVE  LET g == Shrunk(h, b, words)
         IN  /\ Sane(g, H, R) /\ Kept(h.mem, g.mem, H \ {b}, R) /\ g.mem[b].words >= words
             /\ CarriesTo(h.mem, b, g.mem, b, words)
  <1> DEFINE m == h.mem
             T == h.tree
             n == lub_heap_block_getnext(h, b)
             w == m[b].words
             t == Top(m, b)
             k == b + words
             delta == w - words
             g == Shrunk(h, b, words)
             G == H \ {b}
             C == Cut(h, b, words)
             S == [m EXCEPT ![b].words = words, ![k - 1] = Tag(FALSE, FALSE, words)]
  <1>1. Tiling(m, T, H, R) /\ IsHeap(h) /\ NoPairs(m, T) /\ Counted(h) /\ b \in T \cup H
        /\ b \notin T /\ DOMAIN m = Addr
    BY DEF Sane, Tiling
  <1>2. /\ b \in Nat /\ t \in Nat /\ b < t /\ w \in Nat /\ t = b + w - 1
        /\ (m[t].segment <=> t + 1 \notin R) /\ m[t].segment \in BOOLEAN
    BY <1>1, BlockOf DEF Top
  <1>3. C = [h EXCEPT !.mem = S]
    <2>1. C = [h EXCEPT !.mem = [m EXCEPT ![b].words = words, ![b + words - 1] = Tag(FALSE, FALSE, words)]]
      BY Zenon DEF Cut
    <2>2. b + words - 1 = k - 1
      BY <1>2
    <2> QED
      BY <2>1, <2>2, Zenon
  <1> HIDE DEF C, S
  <1>4. C.mem = S /\ C.tree = T /\ C.free_blocks = h.free_blocks /\ IsHeap(C)
    BY <1>1, <1>3 DEF IsHeap
  <1>5. MinWords \in Nat /\ MinWords > 2 /\ k \in Nat /\ b < k - 1 /\ k - 1 \in Nat /\ delta \in Nat
    BY <1>2, AddrIs
  <1>6. Gains(H, G, b) /\ b \notin G
    BY DEF Gains
  <1>7. CASE delta > 0 /\ IsFree(h, n)
    <2> DEFINE hi == Top(m, n)
               end == m[hi].segment
    <2>1. n \in T /\ Adjoins(m, b, n)
      BY <1>7, NextBlock
    <2>2. n \in T \cup H /\ n \notin H
      BY <1>1, <2>1 DEF Tiling
    <2>3. g = lub_heap_graft_to_bottom(C, n, k, delta, FALSE)
      BY <1>7, Zenon DEF Shrunk, C
    <2> HIDE DEF n, g
    <2>4. /\ n \in Nat /\ n = t + 1 /\ hi \in Nat /\ n < hi /\ m[n].words \in Nat
          /\ m[n].words >= MinWords /\ hi = n + m[n].words - 1
          /\ (end <=> hi + 1 \notin R) /\ end \in BOOLEAN
      <3>1. /\ n \in Nat /\ hi \in Nat /\ n < hi /\ m[n].words \in Nat /\ m[n].words >= MinWords
            /\ (end <=> hi + 1 \notin R) /\ end \in BOOLEAN
        BY <2>2, <1>1, BlockOf
      <3> QED
        BY <2>1, <3>1 DEF Top, Adjoins
    <2>5. /\ SpansIn(h, H, R, b, n, hi) /\ \A x \in T \cup H : x \in b .. hi => x = b \/ x = n
          /\ \A a \in b .. hi : a \in R /\ a \in Addr
      <3> HIDE DEF m, T
      <3>1. /\ Spans(m, T, H, R, b, n, hi)
            /\ \A x \in T \cup H : x \in b .. hi => x = b \/ x = n
        BY <1>1, <2>1, <2>2, Pair
      <3>2. \A a \in b .. hi : a \in R /\ a \in Addr
        BY <1>1, <3>1 DEF Spans, Tiling
      <3> QED
        BY <3>1, <3>2 DEF SpansIn, m, T
    <2>6. S[n] = m[n] /\ S[hi] = m[hi]
      <3>1. n \in Addr /\ hi \in Addr /\ n # b /\ n # k - 1 /\ hi # b /\ hi # k - 1
        <4> HIDE DEF hi, t, w
        <4>1. /\ b \in Nat /\ t \in Nat /\ b < t /\ n = t + 1 /\ hi \in Nat /\ n < hi
              /\ k \in Nat /\ k - 1 <= t
          <5>1. words <= w
            BY DEF w
          <5>2. b \in Nat /\ w \in Nat /\ t = b + w - 1 /\ words \in Nat /\ t \in Nat /\ b < t
            BY <1>2
          <5>3. n = t + 1 /\ hi \in Nat /\ n < hi
            BY <2>4
          <5>4. k \in Nat /\ k - 1 <= t
            BY ONLY <5>1, <5>2
          <5> QED
            BY ONLY <5>2, <5>3, <5>4
        <4> HIDE DEF k
        <4>2. n \in b .. hi /\ hi \in b .. hi
          BY ONLY <4>1
        <4>3. n # b /\ n # k - 1 /\ hi # b /\ hi # k - 1
          BY ONLY <4>1
        <4> QED
          BY ONLY <2>5, <4>2, <4>3
      <3> DEFINE j == k - 1
                 x == Tag(FALSE, FALSE, words)
      <3>2. S = [m EXCEPT ![b].words = words, ![j] = x]
        BY Zenon DEF S
      <3> HIDE DEF j, x, hi, m
      <3>3. n # j /\ hi # j
        BY <3>1 DEF j
      <3> QED
        BY <1>1, <3>1, <3>2, <3>3
    <2>7. g.tree = (T \ {n}) \cup {k} /\ g.free_blocks = h.free_blocks /\ IsHeap(g)
          /\ g.mem = Framed(S, k, hi, Tag(TRUE, FALSE, (hi - k) + 1), Tag(TRUE, end, (hi - k) + 1))
      <3> DEFINE rest == delta + m[n].words
                 X == Block(S, k, rest, TRUE, FALSE, m[hi].segment)
      <3>1. lub_heap_block__get_tail(C, n) = hi
        BY <1>4, <2>4, <2>6 DEF lub_heap_block__get_tail, Top
      <3>2. g = [C EXCEPT !.mem = Block(S, k, delta + S[n].words, TRUE, FALSE, S[hi].segment),
                          !.tree = (T \ {n}) \cup {k}]
        BY <1>4, <2>3, <3>1, Zenon DEF lub_heap_graft_to_bottom
      <3>3. g = [C EXCEPT !.mem = X, !.tree = (T \ {n}) \cup {k}]
        BY <2>6, <3>2, Zenon
      <3>4. rest = (hi - k) + 1 /\ k + rest - 1 = hi
        <4> DEFINE nw == m[n].words
        <4>1. /\ t = b + w - 1 /\ n = t + 1 /\ hi = n + nw - 1 /\ delta = w - words /\ rest = delta + nw
              /\ b \in Nat /\ w \in Nat /\ nw \in Nat /\ k = b + words
          BY <1>2, <2>4
        <4> HIDE DEF nw, w, hi, t, delta, rest, k
        <4> QED
          BY <4>1
      <3> HIDE DEF rest, hi, k
      <3>5. X = Framed(S, k, k + rest - 1, Tag(TRUE, FALSE, rest), Tag(TRUE, end, rest))
        BY Zenon DEF Block, Framed
      <3>6. X = Framed(S, k, hi, Tag(TRUE, FALSE, (hi - k) + 1), Tag(TRUE, end, (hi - k) + 1))
        BY <3>4, <3>5, Zenon
      <3> HIDE DEF X, end
      <3>7. g.tree = (T \ {n}) \cup {k} /\ g.free_blocks = h.free_blocks /\ IsHeap(g) /\ g.mem = X
        BY <1>4, <3>3 DEF IsHeap
      <3> QED
        BY <3>6, <3>7
    <2>8. IsCut(h, g, b, words, k, hi, end)
      BY <2>7 DEF IsCut, S
    <2>9. k \in b .. hi /\ k # n /\ k \notin T /\ n \in b .. hi /\ b \in b .. hi
          /\ (hi - k) + 1 >= MinWords
      <3>1. k \in b .. hi /\ k # n /\ k # b /\ n \in b .. hi /\ b \in b .. hi
            /\ (hi - k) + 1 >= MinWords
        BY <1>2, <1>5, <1>7, <2>4
      <3> HIDE DEF k, hi
      <3> QED
        BY <2>5, <3>1
    <2>10. hi + 1 \notin T
      BY <1>1, <2>1 DEF NoPairs
    <2> HIDE DEF k, hi, end, T
    <2>11. Counted(g)
      BY <1>1, <2>1, <2>7, <2>9, CountSwap DEF T
    <2>12. Frees(h, g, k, b, hi)
      BY <1>1, <2>5, <2>7, <2>9 DEF Frees, T
    <2>13. Others(h, H, G, b, hi)
      BY <2>2, <2>5, <2>9 DEF Others
    <2>14. hi + 1 \notin h.tree
      BY <2>10 DEF T
    <2>15. IsHeap(g)
      BY <2>7
    <2> HIDE DEF G
    <2>16. Gives(h, G, g, H, R, b, k - 1) /\ Shortened(h, b, g, words)
      BY <1>6, <2>4, <2>5, <2>8, <2>9, <2>11, <2>12, <2>13, <2>14, <2>15, CutIs
    <2>17. g.mem[b].words >= words
      BY <2>16 DEF Shortened
    <2> QED
      BY <2>16, <2>17 DEF Gives, G, g, Shortened
  <1>8. CASE ~(delta > 0 /\ IsFree(h, n)) /\ delta >= MinWords
    <2> DEFINE end == m[t].segment
    <2>1. g = lub_heap_init_free_block(C, k, delta, FALSE, end)
      BY <1>8, Zenon DEF Shrunk, C, lub_heap_block__get_tail, Top
    <2>2. t + 1 \notin T
      <3>1. ~IsFree(h, n)
        BY <1>5, <1>8
      <3> QED
        BY <1>1, <3>1, NextIs
    <2> HIDE DEF g
    <2>3. /\ SpansIn(h, H, R, b, b, t) /\ \A x \in T \cup H : x \in b .. t => x = b
          /\ \A a \in b .. t : a \in R /\ a \in Addr
      <3> HIDE DEF m, T
      <3>1. Spans(m, T, H, R, b, b, t) /\ \A x \in T \cup H : x \in b .. t => x = b
        BY <1>1, Alone
      <3>2. \A a \in b .. t : a \in R /\ a \in Addr
        BY <1>1, <3>1 DEF Spans, Tiling
      <3> QED
        BY <3>1, <3>2 DEF SpansIn, m, T
    <2>4. delta = (t - k) + 1 /\ k + delta - 1 = t
      BY <1>2, <1>5
    <2>5. g.tree = T \cup {k} /\ g.free_blocks = h.free_blocks + 1 /\ IsHeap(g)
          /\ g.mem = Framed(S, k, t, Tag(TRUE, FALSE, (t - k) + 1), Tag(TRUE, end, (t - k) + 1))
      <3> DEFINE X == Block(S, k, delta, TRUE, FALSE, end)
      <3>1. g = [mem |-> X, tree |-> T \cup {k}, free_blocks |-> h.free_blocks + 1]
        BY <1>4, <2>1, Zenon DEF lub_heap_init_free_block
      <3> HIDE DEF delta, t, k, end
      <3>2. X = Framed(S, k, k + delta - 1, Tag(TRUE, FALSE, delta), Tag(TRUE, end, delta))
        BY Zenon DEF Block, Framed
      <3>3. X = Framed(S, k, t, Tag(TRUE, FALSE, (t - k) + 1), Tag(TRUE, end, (t - k) + 1))
        BY <2>4, <3>2, Zenon
      <3> HIDE DEF X
      <3>4. g.tree = T \cup {k} /\ g.free_blocks = h.free_blocks + 1 /\ IsHeap(g) /\ g.mem = X
        BY <3>1 DEF IsHeap
      <3> QED
        BY <3>3, <3>4
    <2>6. IsCut(h, g, b, words, k, t, end)
      BY <2>5 DEF IsCut, S
    <2>7. k \in b .. t /\ k \notin T /\ b \in b .. t /\ (t - k) + 1 >= MinWords
      <3>1. k \in b .. t /\ k # b /\ b \in b .. t /\ (t - k) + 1 >= MinWords
        BY <1>2, <1>5, <1>8
      <3> HIDE DEF k, t
      <3> QED
        BY <2>3, <3>1
    <2> HIDE DEF k, t, end, T
    <2>8. Counted(g)
      BY <1>1, <2>5, <2>7, CountAdd DEF T
    <2>9. Frees(h, g, k, b, t)
      BY <1>1, <2>3, <2>5, <2>7 DEF Frees, T
    <2>10. Others(h, H, G, b, t)
      BY <2>3, <2>7 DEF Others
    <2>11. t + 1 \notin h.tree
      BY <2>2 DEF T
    <2>12. IsHeap(g) /\ end \in BOOLEAN /\ (end <=> t + 1 \notin R)
      BY <1>2, <2>5 DEF end
    <2> HIDE DEF G
    <2>13. Gives(h, G, g, H, R, b, k - 1) /\ Shortened(h, b, g, words)
      BY <1>2, <1>6, <2>3, <2>6, <2>7, <2>8, <2>9, <2>10, <2>11, <2>12, CutIs
    <2>14. g.mem[b].words >= words
      BY <2>13 DEF Shortened
    <2> QED
      BY <2>13, <2>14 DEF Gives, G, g, Shortened
  <1>9. CASE ~(delta > 0 /\ IsFree(h, n)) /\ ~(delta >= MinWords)
    <2>1. g = h
      BY <1>9, Zenon DEF Shrunk
    <2>2. Kept(m, h.mem, G, R) /\ CarriesTo(m, b, h.mem, b, words)
      BY DEF Kept, CarriesTo
    <2> QED
      BY <2>1, <2>2
  <1> QED
    BY <1>7, <1>8, <1>9

-----------------------------------------------------------------------------
(* Writing into a block. *)

Inner(h, g, c) ==
  /\ DOMAIN g.mem = Addr
  /\ \A a \in Addr : ~(c < a /\ a < Top(h.mem, c)) => g.mem[a] = h.mem[a]
  /\ g.tree = h.tree /\ g.free_blocks = h.free_blocks

Wrote(h, H, R, g, c) ==
  Sane(g, H, R) /\ Kept(h.mem, g.mem, H \ {c}, R) /\ g.mem[c] = h.mem[c]

(* Writing inside a block changes nothing but its contents. *)
LEMMA InnerIs ==
  ASSUME NEW h, NEW H, NEW R, NEW c, NEW g, Sane(h, H, R), c \in H, IsHeap(g), Inner(h, g, c)
  PROVE  Wrote(h, H, R, g, c)
  <1> DEFINE m == h.mem
             M == g.mem
             T == h.tree
             t == Top(m, c)
  <1>1. Tiling(m, T, H, R) /\ NoPairs(m, T) /\ Counted(h) /\ c \in T \cup H /\ c \notin T
    BY DEF Sane, Tiling
  <1>2. /\ DOMAIN M = Addr /\ g.tree = T /\ g.free_blocks = h.free_blocks
        /\ \A a \in Addr : ~(c < a /\ a < t) => M[a] = m[a]
    BY DEF Inner
  <1>3. /\ c \in Nat /\ t \in Nat /\ c < t /\ c .. t \subseteq R
    BY <1>1, BlockOf
  <1> HIDE DEF m, T, M
  <1>4. ASSUME NEW b \in T \cup H
        PROVE  /\ M[b] = m[b] /\ M[Top(m, b)] = m[Top(m, b)] /\ Top(M, b) = Top(m, b)
               /\ Sound(M, T, R, b)
               /\ b # c => \A a \in b .. Top(m, b) : ~(c < a /\ a < t)
    <2>1. /\ b \in Nat /\ Top(m, b) \in Nat /\ b < Top(m, b) /\ b \in Addr /\ Top(m, b) \in Addr
      <3>1. b \in Nat /\ Top(m, b) \in Nat /\ b < Top(m, b) /\ b \in R /\ Top(m, b) \in R
        BY <1>1, BlockOf
      <3>2. R \subseteq Addr
        BY <1>1 DEF Tiling
      <3> QED
        BY <3>1, <3>2
    <2>2. b # c => \A a \in b .. Top(m, b) : ~(c < a /\ a < t)
      <3> SUFFICES ASSUME b # c, NEW a \in b .. Top(m, b), c < a, a < t PROVE FALSE
        OBVIOUS
      <3>1. a \in c .. t /\ a \in b .. Top(m, b)
        BY <1>3, <2>1
      <3> QED
        BY <1>1, <3>1, Apart DEF t
    <2>3. ~(c < b /\ b < t) /\ ~(c < Top(m, b) /\ Top(m, b) < t)
      <3>1. b \in b .. Top(m, b) /\ Top(m, b) \in b .. Top(m, b)
        BY <2>1
      <3>2. CASE b # c
        BY <2>2, <3>1, <3>2
      <3>3. CASE b = c
        BY <1>3, <3>3 DEF t
      <3> QED
        BY <3>2, <3>3
    <2>4. M[b] = m[b] /\ M[Top(m, b)] = m[Top(m, b)]
      BY <1>2, <2>1, <2>3
    <2>5. Top(M, b) = Top(m, b)
      BY <2>4 DEF Top
    <2>6. Sound(m, T, R, b)
      BY <1>1 DEF Tiling
    <2>7. Sound(M, T, R, b)
      BY <2>4, <2>5, <2>6 DEF Sound
    <2> QED
      BY <2>2, <2>4, <2>5, <2>7
  <1>5. Tiling(M, T, H, R)
    <2>1. R \subseteq Addr /\ T \cap H = {}
      BY <1>1 DEF Tiling
    <2>2. \A b \in T \cup H : b \in Addr /\ Sound(M, T, R, b) /\ b .. Top(M, b) \subseteq R
      BY <1>1, <1>4 DEF Tiling
    <2>3. \A a \in R : \E b \in T \cup H : a \in b .. Top(M, b)
      BY <1>1, <1>4 DEF Tiling
    <2>4. \A b, d \in T \cup H : b < d => Top(M, b) < d
      BY <1>1, <1>4 DEF Tiling
    <2> QED
      BY <1>2, <2>1, <2>2, <2>3, <2>4 DEF Tiling
  <1>6. NoPairs(M, T)
    BY <1>1, <1>4 DEF NoPairs
  <1>7. Counted(g)
    BY <1>1, <1>2 DEF Counted, T
  <1>8. Sane(g, H, R)
    BY <1>2, <1>5, <1>6, <1>7 DEF Sane, M
  <1>9. Kept(m, M, H \ {c}, R)
    <2> SUFFICES ASSUME NEW a \in Addr, a \notin R \/ \E b \in H \ {c} : a \in b .. Top(m, b)
                 PROVE  M[a] = m[a]
      BY DEF Kept
    <2>1. CASE a \notin R
      BY <1>2, <1>3, <2>1, AddrIs
    <2>2. CASE \E b \in H \ {c} : a \in b .. Top(m, b)
      BY <1>2, <1>4, <2>2
    <2> QED
      BY <2>1, <2>2
  <1> QED
    BY <1>1, <1>4, <1>8, <1>9 DEF m, M, Wrote

(* What is kept is kept by both of two steps, if the first one leaves the blocks where they are. *)
LEMMA KeptBoth ==
  ASSUME NEW m, NEW m1, NEW m2, NEW G, NEW G1, NEW R, Kept(m, m1, G, R), Kept(m1, m2, G1, R),
         \A c \in G : c \in G1 /\ Top(m1, c) = Top(m, c)
  PROVE  Kept(m, m2, G, R)
  BY DEF Kept

(* The blocks that are kept are as large as they were. *)
LEMMA KeptTops ==
  ASSUME NEW m, NEW T, NEW H, NEW R, NEW m2, NEW G, Tiling(m, T, H, R), Kept(m, m2, G, R), G \subseteq H
  PROVE  /\ \A c \in G : Top(m2, c) = Top(m, c) /\ m2[c] = m[c]
         /\ \A c \in G : \A i \in Nat : i < m[c].words => m2[c + i] = m[c + i]
  <1> SUFFICES ASSUME NEW c \in G
               PROVE  /\ Top(m2, c) = Top(m, c) /\ m2[c] = m[c]
                      /\ \A i \in Nat : i < m[c].words => m2[c + i] = m[c + i]
    OBVIOUS
  <1>1. /\ c \in T \cup H /\ c \in Nat /\ Top(m, c) \in Nat /\ c < Top(m, c)
        /\ c .. Top(m, c) \subseteq R /\ m[c].words \in Nat
    BY BlockOf
  <1>2. R \subseteq Addr
    BY DEF Tiling
  <1>3. \A a \in c .. Top(m, c) : m2[a] = m[a]
    BY <1>1, <1>2 DEF Kept
  <1>4. m2[c] = m[c]
    BY <1>1, <1>3
  <1>5. ASSUME NEW i \in Nat, i < m[c].words PROVE m2[c + i] = m[c + i]
    <2>1. c + i \in c .. Top(m, c)
      BY <1>1, <1>5 DEF Top
    <2> QED
      BY <1>3, <2>1
  <1> QED
    BY <1>4, <1>5 DEF Top

-----------------------------------------------------------------------------
(* lub_heap_raw_realloc. *)

(* The heap h becomes g, where p is the block of the client that had b. *)
Reallocated(h, H, R, b, words, g, p) ==
  /\ Sane(g, (H \ {b}) \cup ({p} \ {NULL}), R)
  /\ Kept(h.mem, g.mem, H \ {b}, R)
  /\ words = 0 => p = NULL
  /\ words > 0 => p \in Nat \ {0} /\ p \notin H \ {b} /\ g.mem[p].words >= words
  /\ b # NULL /\ words > 0 =>
       \A i \in Nat \ {0} : i + 2 <= words /\ i + 2 <= h.mem[b].words => g.mem[p + i] = h.mem[b + i]

(* No block is at NULL. *)
LEMMA NotNull ==
  ASSUME NEW h, NEW H, NEW R, Sane(h, H, R)
  PROVE  NULL \notin H /\ H \subseteq Nat
  BY AddrIs DEF Sane, Tiling, NULL

(* A block is given back. *)
LEMMA FreedIs ==
  ASSUME NEW h, NEW H, NEW R, NEW b, Sane(h, H, R), b \in H
  PROVE  Reallocated(h, H, R, b, 0, Released(h, b), NULL)
  <1>1. Sane(Released(h, b), H \ {b}, R) /\ Kept(h.mem, Released(h, b).mem, H \ {b}, R)
    BY ReleasedIs
  <1>2. (H \ {b}) \cup ({NULL} \ {NULL}) = H \ {b}
    OBVIOUS
  <1> QED
    BY <1>1, <1>2 DEF Reallocated

(* One that stays where it is. *)
LEMMA StaysIs ==
  ASSUME NEW h, NEW H, NEW R, NEW b, NEW words \in Nat, NEW g, Sane(h, H, R), b \in H,
         Sane(g, H, R), Kept(h.mem, g.mem, H \ {b}, R), words > 0, g.mem[b].words >= words,
         \A i \in Nat \ {0} : i + 2 <= words /\ i + 2 <= h.mem[b].words => g.mem[b + i] = h.mem[b + i]
  PROVE  Reallocated(h, H, R, b, words, g, b)
  <1>1. b \in Nat \ {0} /\ b # NULL
    BY NotNull DEF NULL
  <1>2. (H \ {b}) \cup ({b} \ {NULL}) = H
    BY <1>1
  <1> QED
    BY <1>1, <1>2 DEF Reallocated

(* A new one, for a client that had none. *)
LEMMA GivenIs ==
  ASSUME NEW h, NEW H, NEW R, NEW words \in Nat, Sane(h, H, R), words >= MinWords,
         lub_heap_new_alloc_block(h, words).ok
  PROVE  LET r == lub_heap_new_alloc_block(h, words)
         IN  Reallocated(h, H, R, NULL, words, r.h, r.block)
  <1> DEFINE r == lub_heap_new_alloc_block(h, words)
             g == r.h
             c == r.block
  <1>1. /\ Sane(g, H \cup {c}, R) /\ Kept(h.mem, g.mem, H, R)
        /\ g.mem[c].words >= words /\ c \in Nat \ {0} /\ c \notin H
    BY AllocIs
  <1> HIDE DEF r
  <1>2. (H \ {NULL}) \cup ({c} \ {NULL}) = H \cup {c} /\ H \ {NULL} = H
    BY <1>1, NotNull DEF NULL
  <1>3. words > 0
    BY AddrIs
  <1> HIDE DEF g, c
  <1>4. Sane(g, (H \ {NULL}) \cup ({c} \ {NULL}), R) /\ Kept(h.mem, g.mem, H \ {NULL}, R)
    BY <1>1, <1>2, Zenon
  <1>5. Reallocated(h, H, R, NULL, words, g, c)
    BY <1>1, <1>2, <1>3, <1>4 DEF Reallocated
  <1> QED
    BY <1>5 DEF g, c, r

(* The words of b are copied to the new block, and b is released. *)
LEMMA CopiedIs ==
  ASSUME NEW h, NEW H, NEW R, NEW b, NEW words \in Nat, Sane(h, H, R), b \in H, words >= MinWords,
         h.mem[b].words < words, lub_heap_new_alloc_block(h, words).ok
  PROVE  LET r == lub_heap_new_alloc_block(h, words)
         IN  Reallocated(h, H, R, b, words, Released(Copied(r.h, b, r.block), b), r.block)
  <1> DEFINE r == lub_heap_new_alloc_block(h, words)
             h1 == r.h
             c == r.block
             h2 == Copied(h1, b, c)
             h3 == Released(h2, b)
             m == h.mem
             w == m[b].words
             H1 == H \cup {c}
             G == H \ {b}
  <1>1. /\ Sane(h1, H1, R) /\ Kept(m, h1.mem, H, R)
        /\ h1.mem[c].words >= words /\ c \in Nat \ {0} /\ c \notin H
    BY AllocIs
  <1> HIDE DEF h1, c
  <1>2. /\ Tiling(m, h.tree, H, R) /\ Tiling(h1.mem, h1.tree, H1, R) /\ IsHeap(h1)
        /\ DOMAIN h1.mem = Addr /\ R \subseteq Addr
    BY <1>1 DEF Sane, Tiling
  <1>3. /\ b \in Nat /\ w \in Nat /\ w > 2 /\ \A i \in Nat : i < w => h1.mem[b + i] = m[b + i]
        /\ h1.mem[b] = m[b]
    <2>1. b \in Nat /\ w \in Nat /\ w >= MinWords
      BY <1>2, BlockOf
    <2>2. /\ \A x \in H : Top(h1.mem, x) = Top(m, x) /\ h1.mem[x] = m[x]
          /\ \A x \in H : \A i \in Nat : i < m[x].words => h1.mem[x + i] = m[x + i]
      BY <1>1, <1>2, KeptTops
    <2> QED
      BY <2>1, <2>2, AddrIs
  <1>4. /\ c \in Nat /\ h1.mem[c].words \in Nat /\ Top(h1.mem, c) \in Nat /\ c .. Top(h1.mem, c) \subseteq Addr
        /\ c + w - 1 <= Top(h1.mem, c)
    <2>1. c \in h1.tree \cup H1
      OBVIOUS
    <2>2. /\ c \in Nat /\ h1.mem[c].words \in Nat /\ Top(h1.mem, c) \in Nat
          /\ c .. Top(h1.mem, c) \subseteq R
      BY <1>2, <2>1, BlockOf
    <2>3. c + w - 1 <= Top(h1.mem, c)
      BY <1>1, <1>3, <2>2 DEF Top
    <2> QED
      BY <1>2, <2>2, <2>3
  <1> DEFINE D == c + 1 .. c + w - 2
             f == [a \in D |-> h1.mem[b + (a - c)]]
             M == [a \in Addr |-> IF a \in D THEN f[a] ELSE h1.mem[a]]
  <1>5. h2 = [h1 EXCEPT !.mem = M]
    <2>1. h2 = [h1 EXCEPT !.mem = Written(h1.mem, f)]
      <3>1. h1.mem[b].words = w
        BY <1>3
      <3>2. h2 = [h1 EXCEPT !.mem =
                    Written(h1.mem, [a \in c + 1 .. c + h1.mem[b].words - 2 |-> h1.mem[b + (a - c)]])]
        BY Zenon DEF Copied
      <3> QED
        BY <3>1, <3>2, Zenon
    <2>2. DOMAIN f = D
      BY Zenon
    <2>3. Written(h1.mem, f) = [a \in DOMAIN h1.mem |-> IF a \in DOMAIN f THEN f[a] ELSE h1.mem[a]]
      BY Zenon DEF Written
    <2> QED
      BY <1>2, <2>1, <2>2, <2>3, Zenon
  <1>6. \A a \in D : f[a] = h1.mem[b + (a - c)]
    BY Zenon
  <1> HIDE DEF M, h2, f
  <1>7. h2.mem = M /\ h2.tree = h1.tree /\ h2.free_blocks = h1.free_blocks /\ IsHeap(h2)
    BY <1>2, <1>5 DEF IsHeap
  <1>8. /\ DOMAIN M = Addr
        /\ \A a \in Addr : a \notin D => M[a] = h1.mem[a]
        /\ \A a \in Addr : a \in D => M[a] = f[a]
    BY DEF M
  <1>9. Inner(h1, h2, c)
    <2>1. \A a \in Addr : ~(c < a /\ a < Top(h1.mem, c)) => a \notin D
      BY <1>3, <1>4, AddrIs
    <2> QED
      BY <1>7, <1>8, <2>1 DEF Inner
  <1>10. Sane(h2, H1, R) /\ Kept(h1.mem, h2.mem, H1 \ {c}, R) /\ h2.mem[c] = h1.mem[c]
    <2>1. c \in H1
      OBVIOUS
    <2> HIDE DEF H1
    <2>2. Wrote(h1, H1, R, h2, c)
      BY <1>1, <1>7, <1>9, <2>1, InnerIs
    <2> QED
      BY <2>2 DEF Wrote
  <1>11. Sane(h3, H1 \ {b}, R) /\ Kept(h2.mem, h3.mem, H1 \ {b}, R)
    BY <1>10, ReleasedIs
  <1> HIDE DEF h3
  <1>12. /\ h3.mem[c].words >= words
         /\ \A i \in Nat : i < h1.mem[c].words => h3.mem[c + i] = h2.mem[c + i]
    <2>1. Tiling(h2.mem, h2.tree, H1, R) /\ c \in H1 \ {b}
      BY <1>1, <1>10 DEF Sane
    <2> DEFINE G2 == H1 \ {b}
    <2>2. G2 \subseteq H1 /\ Kept(h2.mem, h3.mem, G2, R) /\ c \in G2
      BY <1>11, <2>1
    <2> HIDE DEF G2, H1
    <2>3. /\ \A x \in G2 : Top(h3.mem, x) = Top(h2.mem, x) /\ h3.mem[x] = h2.mem[x]
          /\ \A x \in G2 : \A i \in Nat : i < h2.mem[x].words => h3.mem[x + i] = h2.mem[x + i]
      BY <2>1, <2>2, KeptTops
    <2> QED
      BY <1>1, <1>10, <2>2, <2>3
  <1>13. Kept(m, h3.mem, G, R)
    <2>1. Kept(m, h1.mem, G, R)
      BY <1>1 DEF Kept
    <2>2. \A x \in G : Top(h1.mem, x) = Top(m, x)
      BY <1>1, <1>2, KeptTops
    <2>3. Kept(m, h2.mem, G, R)
      <3>1. \A x \in G : x \in H1 \ {c}
        BY <1>1
      <3> QED
        BY <1>10, <2>1, <2>2, <3>1, KeptBoth
    <2>4. \A x \in G : Top(h2.mem, x) = Top(m, x)
      <3>1. G \subseteq H
        OBVIOUS
      <3> QED
        BY <1>2, <2>3, <3>1, KeptTops
    <2>5. \A x \in G : x \in H1 \ {b}
      OBVIOUS
    <2> QED
      BY <1>11, <2>3, <2>4, <2>5, KeptBoth
  <1>14. ASSUME NEW i \in Nat \ {0}, i + 2 <= words, i + 2 <= w PROVE h3.mem[c + i] = m[b + i]
    <2>1. c + i \in D /\ c + i \in Addr /\ i < w /\ b + ((c + i) - c) = b + i /\ i < h1.mem[c].words
      BY <1>1, <1>3, <1>4, <1>14
    <2>2. h3.mem[c + i] = M[c + i]
      BY <1>7, <1>12, <2>1
    <2>3. M[c + i] = f[c + i]
      BY <1>8, <2>1
    <2>4. f[c + i] = h1.mem[b + i]
      BY <1>6, <2>1
    <2> QED
      BY <1>3, <2>1, <2>2, <2>3, <2>4
  <1>15. (H \ {b}) \cup ({c} \ {NULL}) = H1 \ {b} /\ c \notin H \ {b}
    BY <1>1 DEF NULL
  <1>16. words > 0
    BY AddrIs
  <1> HIDE DEF m
  <1>17. Reallocated(h, H, R, b, words, h3, c)
    <2>1. Sane(h3, (H \ {b}) \cup ({c} \ {NULL}), R)
      BY ONLY <1>11, <1>15
    <2>2. Kept(h.mem, h3.mem, H \ {b}, R)
      BY ONLY <1>13 DEF m
    <2>3. words # 0 /\ words > 0
      BY ONLY <1>16, words \in Nat
    <2>4. c \in Nat \ {0} /\ c \notin H \ {b} /\ h3.mem[c].words >= words
      BY ONLY <1>1, <1>12, <1>15
    <2>5. \A i \in Nat \ {0} : i + 2 <= words /\ i + 2 <= h.mem[b].words => h3.mem[c + i] = h.mem[b + i]
      BY ONLY <1>14 DEF m
    <2> QED
      BY ONLY <2>1, <2>2, <2>3, <2>4, <2>5 DEF Reallocated
  <1> QED
    BY <1>17 DEF h3, h2, h1, c

(* Nothing asked for and nothing had. *)
LEMMA NothingIs ==
  ASSUME NEW h, NEW H, NEW R, Sane(h, H, R)
  PROVE  Reallocated(h, H, R, NULL, 0, h, NULL)
  <1>1. (H \ {NULL}) \cup ({NULL} \ {NULL}) = H /\ H \ {NULL} = H
    BY NotNull
  <1>2. Kept(h.mem, h.mem, H, R)
    BY DEF Kept
  <1>3. Sane(h, (H \ {NULL}) \cup ({NULL} \ {NULL}), R) /\ Kept(h.mem, h.mem, H \ {NULL}, R)
    BY <1>1, <1>2, Zenon
  <1> QED
    BY <1>3 DEF Reallocated

(* Whatever the request, the heap stays sane, and the client has what it asked for. *)
LEMMA ReallocIs ==
  ASSUME NEW h, NEW H, NEW R, NEW b, NEW words \in Nat, Sane(h, H, R), b = NULL \/ b \in H,
         words = 0 \/ words >= MinWords
  PROVE  LET r == lub_heap_raw_realloc(h, b, words)
         IN  /\ r.result = "OK" => Reallocated(h, H, R, b, words, r.h, r.ptr)
             /\ r.result \in {"CORRUPTED", "FAILED", "ASSERTED"} => r.h = h
             /\ r.result \in {"OK", "BOTH_WAYS", "CORRUPTED", "FAILED", "ASSERTED"}
  <1> DEFINE up == lub_heap_extend_upwards(h, b, words)
             down == lub_heap_extend_downwards(h, b, words)
             both == lub_heap_extend_both_ways(h, b, words)
             new == lub_heap_new_alloc_block(h, words)
             copied == Released(Copied(new.h, b, new.block), b)
             freed == Released(h, b)
             shrunk == Shrunk(h, b, words)
             bad == ~lub_heap_check_memory(h)
             r == lub_heap_raw_realloc(h, b, words)
             Result(g, p, outcome) == [h |-> g, ptr |-> p, result |-> outcome]
             Good(g, p) == Reallocated(h, H, R, b, words, g, p)
  <1>1. r = IF bad THEN Result(h, b, "CORRUPTED")
            ELSE IF words = 0 THEN Result(IF b = NULL THEN h ELSE freed, NULL, "OK")
            ELSE IF b # NULL /\ h.mem[b].words >= words THEN Result(shrunk, b, "OK")
            ELSE IF b # NULL /\ up.ok THEN Result(up.h, b, "OK")
            ELSE IF b # NULL /\ down.ok THEN Result(down.h, down.block, "OK")
            ELSE IF b # NULL /\ both.ok
                 THEN IF both.asserted THEN Result(h, b, "ASSERTED") ELSE Result(both.h, b, "BOTH_WAYS")
            ELSE IF ~new.ok THEN Result(h, b, "FAILED")
            ELSE IF b = NULL THEN Result(new.h, new.block, "OK")
            ELSE Result(copied, new.block, "OK")
    BY Zenon DEF lub_heap_raw_realloc
  <1>2. b # NULL => b \in H
    OBVIOUS
  <1>3. words # 0 => words >= MinWords /\ words > 0
    BY AddrIs
  <1>4. b \in H => h.mem[b].words \in Nat /\ h.mem[b].words > 2
    <2>1. Tiling(h.mem, h.tree, H, R)
      BY DEF Sane
    <2> QED
      BY <2>1, BlockOf, AddrIs
  <1>5. words = 0 => IF b = NULL THEN Good(h, NULL) ELSE Good(freed, NULL)
    <2>1. CASE words = 0 /\ b = NULL
      <3>1. Reallocated(h, H, R, NULL, 0, h, NULL)
        BY NothingIs
      <3> QED
        BY <2>1, <3>1, Zenon
    <2>2. CASE words = 0 /\ b # NULL
      <3>1. Reallocated(h, H, R, b, 0, freed, NULL)
        BY <1>2, <2>2, FreedIs
      <3> QED
        BY <2>2, <3>1, Zenon
    <2> QED
      BY <2>1, <2>2
  <1>6. words # 0 /\ b # NULL /\ h.mem[b].words >= words => Good(shrunk, b)
    <2> SUFFICES ASSUME words # 0, b # NULL, h.mem[b].words >= words PROVE Good(shrunk, b)
      OBVIOUS
    <2>1. b \in H /\ words <= h.mem[b].words
      BY <1>2, <1>4
    <2>2. /\ Sane(shrunk, H, R) /\ Kept(h.mem, shrunk.mem, H \ {b}, R) /\ shrunk.mem[b].words >= words
          /\ CarriesTo(h.mem, b, shrunk.mem, b, words)
      BY <1>3, <2>1, ShrunkIs
    <2> HIDE DEF shrunk
    <2>3. ASSUME NEW i \in Nat \ {0}, i + 2 <= words PROVE shrunk.mem[b + i] = h.mem[b + i]
      <3>1. i \in 1 .. words - 2
        BY <2>3
      <3> QED
        BY <2>2, <3>1 DEF CarriesTo
    <2> QED
      BY <1>3, <2>1, <2>2, <2>3, StaysIs
  <1>7. ASSUME words # 0, b # NULL, ~(h.mem[b].words >= words) PROVE b \in H /\ h.mem[b].words < words
    BY <1>2, <1>4, <1>7
  <1>8. words # 0 /\ b # NULL /\ ~(h.mem[b].words >= words) /\ up.ok => Good(up.h, b)
    <2> SUFFICES ASSUME words # 0, b # NULL, ~(h.mem[b].words >= words), up.ok PROVE Good(up.h, b)
      OBVIOUS
    <2>1. /\ Sane(up.h, H, R) /\ Kept(h.mem, up.h.mem, H \ {b}, R) /\ up.h.mem[b].words >= words
          /\ Carries(h.mem, b, up.h.mem, b)
      BY <1>7, UpwardsIs
    <2> HIDE DEF up
    <2>2. ASSUME NEW i \in Nat \ {0}, i + 2 <= h.mem[b].words PROVE up.h.mem[b + i] = h.mem[b + i]
      <3>1. i \in 1 .. h.mem[b].words - 2
        BY <1>4, <1>7, <2>2
      <3> QED
        BY <2>1, <3>1 DEF Carries
    <2> DEFINE g == up.h
    <2>3. Sane(g, H, R) /\ Kept(h.mem, g.mem, H \ {b}, R) /\ g.mem[b].words >= words
          /\ \A i \in Nat \ {0} : i + 2 <= h.mem[b].words => g.mem[b + i] = h.mem[b + i]
      BY <2>1, <2>2
    <2> HIDE DEF g
    <2>4. Good(g, b)
      BY <1>3, <1>7, <2>3, StaysIs
    <2> QED
      BY <2>4 DEF g
  <1>9. words # 0 /\ b # NULL /\ ~(h.mem[b].words >= words) /\ down.ok => Good(down.h, down.block)
    <2> SUFFICES ASSUME words # 0, b # NULL, ~(h.mem[b].words >= words), down.ok
                 PROVE  Good(down.h, down.block)
      OBVIOUS
    <2> DEFINE g == down.h
               c == down.block
    <2>1. /\ Sane(g, (H \ {b}) \cup {c}, R) /\ Kept(h.mem, g.mem, H \ {b}, R)
          /\ c \notin H \ {b} /\ c \in Nat \ {0} /\ g.mem[c].words >= words
          /\ Carries(h.mem, b, g.mem, c)
      BY <1>7, DownwardsIs
    <2> HIDE DEF g, c
    <2>2. ASSUME NEW i \in Nat \ {0}, i + 2 <= h.mem[b].words PROVE g.mem[c + i] = h.mem[b + i]
      <3>1. i \in 1 .. h.mem[b].words - 2
        BY <1>4, <1>7, <2>2
      <3> QED
        BY <2>1, <3>1 DEF Carries
    <2>3. {c} \ {NULL} = {c}
      BY <2>1 DEF NULL
    <2>4. Sane(g, (H \ {b}) \cup ({c} \ {NULL}), R)
      BY <2>1, <2>3, Zenon
    <2> QED
      BY <1>3, <2>1, <2>2, <2>4 DEF Reallocated, g, c
  <1>10. words # 0 /\ new.ok /\ b = NULL => Good(new.h, new.block)
    <2> SUFFICES ASSUME words # 0, new.ok, b = NULL PROVE Good(new.h, new.block)
      OBVIOUS
    <2>1. Reallocated(h, H, R, NULL, words, new.h, new.block)
      BY <1>3, GivenIs
    <2> QED
      BY <2>1, Zenon
  <1>11. words # 0 /\ new.ok /\ b # NULL /\ ~(h.mem[b].words >= words) => Good(copied, new.block)
    BY <1>3, <1>7, CopiedIs
  <1> DEFINE large == h.mem[b].words >= words
             upok == up.ok
             downok == down.ok
             newok == new.ok
             bothok == both.ok
             ended == both.asserted
             uph == up.h
             downh == down.h
             downb == down.block
             newh == new.h
             newb == new.block
             bothh == both.h
  <1> HIDE DEF Good, r, large, upok, downok, newok, bothok, ended, uph, downh, downb, newh, newb, bothh,
               copied, freed, shrunk, bad
  <1>12. r = IF bad THEN Result(h, b, "CORRUPTED")
             ELSE IF words = 0 THEN Result(IF b = NULL THEN h ELSE freed, NULL, "OK")
             ELSE IF b # NULL /\ large THEN Result(shrunk, b, "OK")
             ELSE IF b # NULL /\ upok THEN Result(uph, b, "OK")
             ELSE IF b # NULL /\ downok THEN Result(downh, downb, "OK")
             ELSE IF b # NULL /\ bothok
                  THEN IF ended THEN Result(h, b, "ASSERTED") ELSE Result(bothh, b, "BOTH_WAYS")
             ELSE IF ~newok THEN Result(h, b, "FAILED")
             ELSE IF b = NULL THEN Result(newh, newb, "OK")
             ELSE Result(copied, newb, "OK")
    BY <1>1, Zenon DEF large, upok, downok, newok, bothok, ended, uph, downh, downb, newh, newb, bothh
  <1>13. /\ words = 0 => IF b = NULL THEN Good(h, NULL) ELSE Good(freed, NULL)
         /\ words # 0 /\ b # NULL /\ large => Good(shrunk, b)
         /\ words # 0 /\ b # NULL /\ ~large /\ upok => Good(uph, b)
         /\ words # 0 /\ b # NULL /\ ~large /\ downok => Good(downh, downb)
         /\ words # 0 /\ newok /\ b = NULL => Good(newh, newb)
         /\ words # 0 /\ newok /\ b # NULL /\ ~large => Good(copied, newb)
    BY <1>5, <1>6, <1>8, <1>9, <1>10, <1>11, Zenon
       DEF large, upok, downok, newok, uph, downh, downb, newh, newb
  <1> HIDE DEF up, down, both, new
  <1>14. /\ r.result = "OK" => Good(r.h, r.ptr)
         /\ r.result \in {"CORRUPTED", "FAILED", "ASSERTED"} => r.h = h
         /\ r.result \in {"OK", "BOTH_WAYS", "CORRUPTED", "FAILED", "ASSERTED"}
    BY ONLY <1>12, <1>13
  <1> QED
    BY <1>14 DEF Good, r

-----------------------------------------------------------------------------
(* Memory is added, or taken away for good. *)

Grows(R, R2, lo, hi) == \A a : a \in R2 <=> a \in R \/ a \in lo .. hi

IsNew(h, g, lo, hi) ==
  /\ g.mem = Framed(h.mem, lo, hi, Tag(TRUE, TRUE, (hi - lo) + 1), Tag(TRUE, TRUE, (hi - lo) + 1))
  /\ g.tree = h.tree \cup {lo} /\ g.free_blocks = h.free_blocks + 1

(* A tag at an end of R. *)
LEMMA OuterTag ==
  ASSUME NEW words, NEW T, NEW b, NEW R, NEW a, b \in T, a \notin R
  PROVE  Tells(Tag(TRUE, TRUE, words), T, b, R, a, words)
  <1> DEFINE segment == TRUE
  <1>1. segment \in BOOLEAN /\ (segment <=> a \notin R)
    OBVIOUS
  <1> HIDE DEF segment
  <1>2. Tells(Tag(TRUE, segment, words), T, b, R, a, words)
    BY <1>1, FreeTag
  <1> QED
    BY <1>2 DEF segment

(* A segment of its own. *)
LEMMA NewIs ==
  ASSUME NEW h, NEW H, NEW R, NEW lo \in Nat, NEW hi \in Nat, NEW g, NEW R2,
         Sane(h, H, R), IsHeap(g), IsNew(h, g, lo, hi), Grows(R, R2, lo, hi),
         lo < hi, (hi - lo) + 1 >= MinWords, \A a \in lo .. hi : a \in Addr /\ a \notin R,
         lo - 1 \notin R, hi + 1 \notin R
  PROVE  Sane(g, H, R2) /\ \A a \in Addr : a < lo \/ hi < a => g.mem[a] = h.mem[a]
  <1> DEFINE m == h.mem
             T == h.tree
             M == g.mem
             T2 == g.tree
             words == (hi - lo) + 1
             tag == Tag(TRUE, TRUE, words)
  <1>1. /\ Tiling(m, T, H, R) /\ NoPairs(m, T) /\ Counted(h) /\ DOMAIN m = Addr /\ R \subseteq Addr
        /\ T \cap H = {} /\ Addr \subseteq Nat
    BY AddrIs DEF Sane, Tiling
  <1>2. M = Framed(m, lo, hi, tag, tag) /\ T2 = T \cup {lo} /\ g.free_blocks = h.free_blocks + 1
    BY DEF IsNew
  <1>3. words \in Nat /\ MinWords \in Nat
    BY AddrIs
  <1> HIDE DEF m, T, tag
  <1>4. /\ DOMAIN M = Addr /\ M[lo] = tag /\ M[hi] = tag
        /\ \A a \in Addr : a < lo \/ hi < a => M[a] = m[a]
    BY <1>1, <1>2, FramedIs
  <1>5. ASSUME NEW b \in T \cup H
        PROVE  b \in Nat /\ Top(m, b) \in Nat /\ b \in R /\ Top(m, b) \in R /\ (Top(m, b) < lo \/ hi < b)
    <2>1. b \in Nat /\ Top(m, b) \in Nat /\ b < Top(m, b) /\ b \in R /\ Top(m, b) \in R
          /\ b .. Top(m, b) \subseteq R
      BY <1>1, BlockOf
    <2>2. b \notin lo .. hi
      BY <2>1
    <2>3. lo \notin b .. Top(m, b)
      BY <2>1
    <2> QED
      BY <2>1, <2>2, <2>3
  <1>6. lo \notin T \cup H /\ \A n \in lo .. hi : n \in T2 \cup H <=> n = lo
    BY <1>2, <1>5
  <1>7. lo \in T2 /\ lo \in R2 /\ lo - 1 \notin R2 /\ hi + 1 \notin R2
    BY <1>2 DEF Grows
  <1>8. Tells(tag, T2, lo, R2, lo - 1, words) /\ Tells(tag, T2, lo, R2, hi + 1, words)
    BY <1>7, OuterTag DEF tag
  <1> HIDE DEF words
  <1>9. M[lo].words = words
    BY <1>4, <1>8, TagIs
  <1>10. Top(M, lo) = hi
    BY <1>3, <1>9 DEF Top, words
  <1> HIDE DEF M, T2
  <1>11. Sound(M, T2, R2, lo)
    BY <1>3, <1>4, <1>8, <1>9, <1>10 DEF Sound, words
  <1>12. Replaces(m, T, H, R, M, T2, H, R2, lo, hi)
    <2>1. R2 \subseteq Addr
      BY <1>1 DEF Grows
    <2>2. \A b \in T \cup H : Top(m, b) < lo \/ hi < b \/ (lo <= b /\ Top(m, b) <= hi)
      BY <1>5
    <2>3. \A a \in Int : a < lo \/ hi < a =>
            /\ a \in R2 <=> a \in R
            /\ a \in T2 <=> a \in T
            /\ a \in Addr => M[a] = m[a]
      BY <1>2, <1>4 DEF Grows
    <2> QED
      BY <1>4, <2>1, <2>2, <2>3 DEF Replaces
  <1>13. Fills(M, T2, H, R2, lo, hi)
    <2>1. \A a \in lo .. hi : a \in R2
      BY DEF Grows
    <2>2. lo \in lo .. hi /\ lo \in Addr
      OBVIOUS
    <2>3. T2 \cap H \cap lo .. hi = {}
      BY <1>6
    <2> QED
      BY <1>6, <1>7, <1>10, <1>11, <2>1, <2>2, <2>3 DEF Fills
  <1>14. T2 \cup H \subseteq Int
    BY <1>2, <1>5
  <1>15. Changes(h, H, R, g, H, R2, lo, hi)
    <2>1. Tiling(M, T2, H, R2)
      BY <1>1, <1>12, <1>13, <1>14, Retile
    <2> QED
      BY <1>12, <2>1 DEF Changes, m, M, T, T2
  <1>16. Counted(g)
    BY <1>1, <1>2, <1>6, CountAdd DEF T, T2
  <1>17. \A b \in T : Top(m, b) + 1 # lo
    BY <1>5
  <1>18. \A n \in lo .. hi : n \in T2 => Top(M, n) + 1 \notin T2
    <2>1. hi + 1 \notin T2
      BY <1>2, <1>5
    <2> QED
      BY <1>6, <1>10, <2>1
  <1>19. Sane(g, H, R2)
    BY <1>15, <1>16, <1>17, <1>18, SaneIf DEF m, M, T, T2
  <1> QED
    BY <1>4, <1>19 DEF m, M

(* What is read where words were written. *)
LEMMA WrittenIs ==
  ASSUME NEW m, NEW f, DOMAIN m = Addr
  PROVE  /\ DOMAIN Written(m, f) = Addr
         /\ \A a \in Addr : a \in DOMAIN f => Written(m, f)[a] = f[a]
         /\ \A a \in Addr : a \notin DOMAIN f => Written(m, f)[a] = m[a]
  BY DEF Written

Shrinks(R, R2, lo, hi) == \A a : a \in R2 <=> a \in R /\ a \notin lo .. hi

IsTaken(h, g, s) ==
  /\ g.mem = Written(s.h.mem, [a \in s.block .. s.block + s.words - 1 |-> Static])
  /\ g.tree = s.h.tree /\ g.free_blocks = s.h.free_blocks

Slice(h, b, n, s) == s = lub_heap_slice_from_top(h, b, n, TRUE)

Took(h, H, R, b, g, R2, s) ==
  /\ Sane(g, H, R2) /\ Kept(h.mem, g.mem, H, R) /\ s.block + s.words - 1 = Top(h.mem, b)
  /\ b \in Nat /\ b < s.block /\ s.block <= Top(h.mem, b) /\ s.block \in Nat /\ Top(h.mem, b) \in Nat
  /\ \A a \in s.block .. Top(h.mem, b) : a \in R /\ g.mem[a] = Static

(* The top of the last free block of a segment becomes static memory. *)
LEMMA TakenIs ==
  ASSUME NEW h, NEW H, NEW R, NEW b, NEW n \in Nat, NEW g, NEW R2, NEW taken,
         Sane(h, H, R), IsHeap(g), b \in h.tree, n > 0, n <= h.mem[b].words,
         Top(h.mem, b) + 1 \notin R, Slice(h, b, n, taken), ~taken.whole, IsTaken(h, g, taken),
         Shrinks(R, R2, taken.block, taken.block + taken.words - 1)
  PROVE  Took(h, H, R, b, g, R2, taken)
  <1> DEFINE m == h.mem
             T == h.tree
             s == lub_heap_slice_from_top(h, b, n, TRUE)
             w == m[b].words
             hi == Top(m, b)
             left == w - n
             k == b + left
             j == k - 1
             x == Tag(TRUE, TRUE, left)
             S == [m EXCEPT ![b].words = left, ![j] = x]
             M == g.mem
             given == s.block .. s.block + s.words - 1
  <1>0. taken = s
    BY Zenon DEF Slice
  <1> ~s.whole /\ IsTaken(h, g, s) /\ Shrinks(R, R2, s.block, s.block + s.words - 1)
    BY <1>0, Zenon
  <1>1. /\ Tiling(m, T, H, R) /\ NoPairs(m, T) /\ Counted(h) /\ DOMAIN m = Addr /\ R \subseteq Addr
        /\ b \in T \cup H /\ b \notin H /\ IsHeap(h) /\ Addr \subseteq Nat
    BY AddrIs DEF Sane, Tiling
  <1>2. /\ b \in Nat /\ b > 0 /\ hi \in Nat /\ b < hi /\ w \in Nat /\ hi = b + w - 1
        /\ \A a \in b .. hi : a \in R /\ a \in Addr
    BY <1>1, BlockOf DEF Top
  <1>3. Tells(m[b], T, b, R, b - 1, w)
    BY <1>1 DEF Tiling, Sound
  <1>4. LeavesBlock(left)
    <2> SUFFICES ASSUME ~LeavesBlock(left) PROVE s.whole
      OBVIOUS
    <2>1. s = [h |-> [h EXCEPT !.tree = T \ {b}, !.free_blocks = @ - 1],
               block |-> b, words |-> w, whole |-> TRUE]
      BY Zenon DEF lub_heap_slice_from_top
    <2> HIDE DEF s
    <2> QED
      BY <2>1
  <1>5. s = [h |-> [h EXCEPT !.mem = S], block |-> k, words |-> n, whole |-> FALSE]
    <2>1. s = [h |-> [h EXCEPT !.mem = [m EXCEPT ![b].words = left, ![b + left - 1] = x]],
               block |-> k, words |-> n, whole |-> FALSE]
      BY <1>4, Zenon DEF lub_heap_slice_from_top
    <2>2. b + left - 1 = j
      BY <1>2
    <2> QED
      BY <2>1, <2>2, Zenon
  <1> HIDE DEF S
  <1>6. /\ MinWords \in Nat /\ MinWords > 2 /\ left \in Nat /\ left > MinWords
        /\ k \in Nat /\ j \in Nat /\ b < j /\ j < k /\ k <= hi /\ k + n - 1 = hi /\ j - b = left - 1
    BY <1>2, <1>4, AddrIs DEF LeavesBlock
  <1>7. /\ s.block = k /\ s.words = n
        /\ s.h = [h EXCEPT !.mem = S]
    <2> HIDE DEF s, k
    <2> QED
      BY <1>5
  <1>8. s.h.mem = S /\ s.h.tree = T /\ s.h.free_blocks = h.free_blocks
    BY <1>1, <1>7 DEF IsHeap
  <1>9. given = k .. hi
    BY <1>6, <1>7, Zenon
  <1>10. /\ M = Written(S, [a \in k .. hi |-> Static]) /\ g.tree = T /\ g.free_blocks = h.free_blocks
         /\ Shrinks(R, R2, k, hi)
    <2>1. M = Written(S, [a \in given |-> Static])
      BY <1>8, Zenon DEF IsTaken
    <2>2. g.tree = T /\ g.free_blocks = h.free_blocks
      BY <1>8, Zenon DEF IsTaken
    <2>3. Shrinks(R, R2, k, hi)
      BY <1>6, <1>7, Zenon
    <2> QED
      BY <1>9, <2>1, <2>2, <2>3, Zenon
  <1> HIDE DEF s, k, j, left, M, hi, m, T, x
  <1>11. /\ DOMAIN S = Addr /\ S[j] = x /\ S[b] = [m[b] EXCEPT !.words = left]
         /\ \A a \in Addr : a # b /\ a # j => S[a] = m[a]
    <2>1. b \in Addr /\ j \in Addr /\ b # j
      BY <1>2, <1>6
    <2> QED
      BY <1>1, <2>1 DEF S
  <1>12. /\ DOMAIN M = Addr /\ \A a \in k .. hi : M[a] = Static
         /\ \A a \in Addr : a \notin k .. hi => M[a] = S[a]
    <2> DEFINE f == [a \in k .. hi |-> Static]
    <2>1. DOMAIN f = k .. hi /\ \A a \in k .. hi : f[a] = Static
      OBVIOUS
    <2> HIDE DEF f
    <2>2. M = Written(S, f)
      BY <1>10 DEF f
    <2>3. \A a \in k .. hi : a \in Addr
      BY <1>2, <1>6
    <2> DEFINE W == Written(S, f)
    <2>4. /\ DOMAIN W = Addr
          /\ \A a \in Addr : a \in DOMAIN f => W[a] = f[a]
          /\ \A a \in Addr : a \notin DOMAIN f => W[a] = S[a]
      BY <1>11, WrittenIs
    <2> HIDE DEF W
    <2>5. /\ DOMAIN W = Addr /\ \A a \in k .. hi : W[a] = Static
          /\ \A a \in Addr : a \notin k .. hi => W[a] = S[a]
      BY <2>1, <2>3, <2>4
    <2> QED
      BY <2>2, <2>5, Zenon DEF W
  <1>13. /\ M[b] = S[b] /\ M[j] = x /\ \A a \in Addr : a < b \/ hi < a => M[a] = m[a]
    <2>1. b \in Addr /\ j \in Addr /\ b \notin k .. hi /\ j \notin k .. hi
      BY <1>2, <1>6
    <2>2. \A a \in Addr : a < b \/ hi < a => a # b /\ a # j /\ a \notin k .. hi
      BY <1>1, <1>2, <1>6
    <2> QED
      BY <1>11, <1>12, <2>1, <2>2
  <1>14. /\ \A a \in b .. j : a \in R2
         /\ k \notin R2 /\ hi + 1 \notin R2 /\ (b - 1 \in R2 <=> b - 1 \in R) /\ R2 \subseteq Addr
    <2>1. \A a \in b .. j : a \in R /\ a \notin k .. hi
      BY <1>2, <1>6
    <2>2. k \in k .. hi /\ b - 1 \notin k .. hi
      BY <1>2, <1>6
    <2> QED
      BY <1>1, <1>10, <2>1, <2>2 DEF Shrinks, hi, m
  <1>15. /\ Tells(S[b], T, b, R2, b - 1, left) /\ Tells(x, T, b, R2, k, left)
    <2>1. Tells(S[b], T, b, R, b - 1, left)
      BY <1>3, <1>11, Resized
    <2>2. Tells(S[b], T, b, R2, b - 1, left)
      BY <1>14, <2>1 DEF Tells
    <2>3. Tells(x, T, b, R2, k, left)
      BY <1>14, OuterTag DEF x, T
    <2> QED
      BY <2>2, <2>3
  <1>16. M[b].words = left
    BY <1>13, <1>15, TagIs
  <1>17. Top(M, b) = j /\ j + 1 = k
    <2>1. Top(M, b) = b + left - 1
      BY <1>16 DEF Top
    <2> QED
      BY <1>2, <1>6, <2>1 DEF j, k
  <1>18. Sound(M, T, R2, b)
    BY <1>6, <1>13, <1>15, <1>16, <1>17 DEF Sound
  <1>19. \A c \in T \cup H : c \in b .. hi => c = b
    BY <1>1, Alone DEF hi
  <1>20. Replaces(m, T, H, R, M, T, H, R2, b, hi)
    <2>1. \A c \in T \cup H : Top(m, c) < b \/ hi < c \/ (b <= c /\ Top(m, c) <= hi)
      <3> SUFFICES ASSUME NEW c \in T \cup H
                   PROVE  Top(m, c) < b \/ hi < c \/ (b <= c /\ Top(m, c) <= hi)
        OBVIOUS
      <3>1. c \in Nat /\ Top(m, c) \in Nat
        BY <1>1, BlockOf
      <3>2. (c < b => Top(m, c) < b) /\ (b < c => hi < c)
        BY <1>1 DEF Tiling, hi
      <3> QED
        BY <1>2, <3>1, <3>2 DEF hi
    <2>2. \A a \in Int : a < b \/ hi < a => (a \in R2 <=> a \in R) /\ (a \in Addr => M[a] = m[a])
      <3>1. \A a : a \in R2 <=> a \in R /\ a \notin k .. hi
        BY <1>10 DEF Shrinks
      <3> QED
        BY <1>2, <1>6, <1>13, <3>1
    <2>3. b \in R2 /\ b \in R /\ hi + 1 \notin R
      <3>1. b \in b .. j
        BY <1>2, <1>6
      <3> QED
        BY <1>1, <1>14, <3>1, BlockOf DEF hi, m
    <2> QED
      BY <1>2, <1>12, <1>14, <2>1, <2>2, <2>3 DEF Replaces
  <1>21. Fills(M, T, H, R2, b, hi)
    <2>1. T \cap H \cap b .. hi = {}
      BY <1>1 DEF Tiling
    <2>2. \A a \in R2 \cap (b .. hi) : a \in b .. j
      BY <1>2, <1>6, <1>10 DEF Shrinks, j
    <2>3. b \in Addr /\ Top(M, b) <= hi /\ b .. Top(M, b) \subseteq R2
      BY <1>2, <1>6, <1>14, <1>17
    <2> QED
      BY <1>1, <1>17, <1>18, <1>19, <2>1, <2>2, <2>3 DEF Fills
  <1>22. T \cup H \subseteq Int
    <2>1. \A c \in T \cup H : c \in Addr
      BY <1>1 DEF Tiling
    <2> QED
      BY <1>1, <2>1
  <1>23. Changes(h, H, R, g, H, R2, b, hi)
    <2>1. Tiling(M, T, H, R2)
      BY <1>1, <1>20, <1>21, <1>22, Retile
    <2> QED
      BY <1>10, <1>20, <2>1 DEF Changes, m, M, T
  <1>24. Counted(g)
    BY <1>1, <1>10 DEF Counted, T
  <1>25. b \in g.tree => \A c \in T : Top(m, c) + 1 # b
    BY <1>1 DEF NoPairs, T
  <1>26. \A c \in b .. hi : c \in g.tree => Top(M, c) + 1 \notin g.tree
    <2>1. k \in b .. hi /\ k # b
      BY <1>2, <1>6
    <2> QED
      BY <1>10, <1>17, <1>19, <2>1
  <1>27. Sane(g, H, R2)
    <2>1. b \in g.tree => \A c \in h.tree : Top(h.mem, c) + 1 # b
      BY <1>25 DEF m, T
    <2>2. \A c \in b .. hi : c \in g.tree => Top(g.mem, c) + 1 \notin g.tree
      BY <1>26 DEF M
    <2> QED
      BY ONLY Sane(h, H, R), IsHeap(g), <1>23, <1>24, <2>1, <2>2, SaneIf
  <1>28. Kept(m, M, H, R)
    <2>1. \A c \in H : c \in T \cup H /\ c \notin b .. hi
      BY <1>1, <1>19
    <2> QED
      BY <1>1, <1>2, <1>20, <2>1, KeptOutside
  <1>29. s.block + s.words - 1 = hi /\ s.block = k
    BY <1>6, <1>7
  <1>30. b \in R /\ \A a \in k .. hi : a \in R /\ M[a] = Static
    BY <1>2, <1>6, <1>12
  <1>31. /\ Sane(g, H, R2) /\ Kept(m, M, H, R) /\ s.block + s.words - 1 = hi
         /\ b \in Nat /\ b < s.block /\ s.block <= hi /\ s.block \in Nat /\ hi \in Nat /\ b \in R
         /\ \A a \in s.block .. hi : a \in R /\ M[a] = Static
    <2>1. b < k
      BY <1>2, <1>6
    <2> DEFINE sb == s.block
    <2>2. sb = k /\ s.block + s.words - 1 = hi
      BY <1>29
    <2> HIDE DEF sb
    <2>3. /\ b < sb /\ sb <= hi /\ sb \in Nat /\ \A a \in sb .. hi : a \in R /\ M[a] = Static
      BY <1>6, <1>30, <2>1, <2>2
    <2> QED
      BY <1>2, <1>27, <1>28, <1>30, <2>2, <2>3 DEF sb
  <1>32. Took(h, H, R, b, g, R2, s)
    BY <1>31 DEF m, M, hi, s, Took
  <1> QED
    BY <1>0, <1>32, Zenon

(* Of two free blocks next to each other the second one joins the first. *)
Joined(h, H, R, g, p, b) ==
  LET hi == Top(h.mem, b)
  IN  /\ IsHeap(g) /\ Counted(g) /\ Tiling(g.mem, g.tree, H, R)
      /\ \A a : a \in g.tree <=> a \in h.tree /\ a # b
      /\ Top(g.mem, p) = hi /\ \A a \in Addr : a < p \/ hi < a => g.mem[a] = h.mem[a]

(* Merging a free block into the free one before it does that. *)
LEMMA JoinedIs ==
  ASSUME NEW h, NEW H, NEW R, Tiling(h.mem, h.tree, H, R), IsHeap(h), Counted(h), NEW b, NEW p,
         b \in h.tree, p \in h.tree, Adjoins(h.mem, p, b), p = lub_heap_block_getprevious(h, b)
  PROVE  Joined(h, H, R, lub_heap_merge_with_previous(h, b), p, b)
  <1> DEFINE m == h.mem
             T == h.tree
             g == lub_heap_merge_with_previous(h, b)
             hi == Top(m, b)
             above == m[b].words
             words == m[p].words + above
             head == Tag(TRUE, m[p].segment, words)
             tail == Tag(TRUE, m[hi].segment, words)
             M == Framed(m, p, hi, head, tail)
             D == [h EXCEPT !.tree = T \ {b}, !.free_blocks = h.free_blocks - 1]
  <1>1. b \in T \cup H /\ p \in T \cup H /\ b \notin H /\ p \notin H /\ DOMAIN m = Addr /\ T \cap H = {}
    BY DEF Tiling
  <1>2. /\ p \in Nat /\ hi \in Nat /\ b \in Nat /\ p < b /\ b < hi /\ p < hi /\ words \in Nat
        /\ hi = p + words - 1 /\ words = (hi - p) + 1 /\ p < Top(m, p) /\ b = Top(m, p) + 1
        /\ (m[p].segment <=> p - 1 \notin R) /\ m[p].segment \in BOOLEAN
        /\ (m[hi].segment <=> hi + 1 \notin R) /\ m[hi].segment \in BOOLEAN
        /\ m[b].free
    <2>1. /\ p \in Nat /\ hi \in Nat /\ b \in Nat /\ b < hi /\ m[p].words \in Nat /\ above \in Nat
          /\ p < Top(m, p)
          /\ (m[p].segment <=> p - 1 \notin R) /\ m[p].segment \in BOOLEAN
          /\ (m[hi].segment <=> hi + 1 \notin R) /\ m[hi].segment \in BOOLEAN
          /\ m[b].free
      BY <1>1, BlockOf
    <2> QED
      BY <2>1 DEF Adjoins, Top
  <1>3. /\ Spans(m, T, H, R, p, b, hi) /\ \A x \in T \cup H : x \in p .. hi => x = p \/ x = b
        /\ \A a \in p .. hi : a \in Addr
    <2> HIDE DEF m, T, hi
    <2>1. Spans(m, T, H, R, p, b, hi) /\ \A x \in T \cup H : x \in p .. hi => x = p \/ x = b
      BY <1>1, Pair DEF hi, m, T
    <2>2. \A a \in p .. hi : a \in Addr
      BY <2>1 DEF Spans, Tiling, m
    <2> QED
      BY <2>1, <2>2
  <1>4. D.mem = m /\ D.tree = T \ {b} /\ D.free_blocks = h.free_blocks - 1 /\ IsHeap(D)
    <2> DEFINE x == T \ {b}
               y == h.free_blocks - 1
    <2>1. D = [h EXCEPT !.tree = x, !.free_blocks = y]
      BY Zenon
    <2> HIDE DEF x, y, D, T, m
    <2>2. D.mem = h.mem /\ D.tree = x /\ D.free_blocks = y /\ IsHeap(D)
      BY ONLY IsHeap(h), <2>1 DEF IsHeap
    <2> QED
      BY <2>2 DEF x, y, m
  <1>5. g = [D EXCEPT !.mem = M]
    <2>1. g = lub_heap_graft_to_top(D, p, above, m[hi].segment)
      BY <1>2, Zenon DEF lub_heap_merge_with_previous, lub_heap_block__get_tail, Top
    <2> HIDE DEF D, g
    <2>2. g = [D EXCEPT !.mem = Block(D.mem, p, D.mem[p].words + above, TRUE, D.mem[p].segment,
                                      m[hi].segment)]
      BY <2>1, Zenon DEF lub_heap_graft_to_top
    <2>3. g = [D EXCEPT !.mem = Block(m, p, words, TRUE, m[p].segment, m[hi].segment)]
      BY <1>4, <2>2, Zenon
    <2>4. g = [D EXCEPT !.mem = Framed(m, p, p + words - 1, head, tail)]
      BY <2>3, Zenon DEF Block, Framed
    <2>5. p + words - 1 = hi
      BY <1>2
    <2> QED
      BY <2>4, <2>5, Zenon
  <1> HIDE DEF D, M, g
  <1>6. g.mem = M /\ g.tree = D.tree /\ g.free_blocks = D.free_blocks /\ IsHeap(g)
    BY <1>4, <1>5 DEF IsHeap
  <1>7. g.tree = T \ {b} /\ g.free_blocks = h.free_blocks - 1
    BY <1>4, <1>6
  <1>8. Counted(g)
    BY <1>7, CountRemove
  <1>9. p \in g.tree /\ p \notin g.tree \cap H
    BY <1>1, <1>2, <1>7
  <1> HIDE DEF words, hi, m, T
  <1>10. Tells(head, g.tree, p, R, p - 1, words) /\ Tells(tail, g.tree, p, R, hi + 1, words)
    BY <1>2, <1>9, FreeTag
  <1> HIDE DEF head, tail
  <1>11. /\ DOMAIN M = Addr /\ M[p] = head /\ M[hi] = tail
         /\ \A a \in Addr : a < p \/ hi < a => M[a] = m[a]
    <2>1. p \in Nat /\ hi \in Nat /\ p < hi /\ DOMAIN m = Addr /\ \A a \in p .. hi : a \in Addr
      BY <1>1, <1>2, <1>3
    <2> QED
      BY ONLY <2>1, FramedIs DEF M
  <1>12. Outside(m, T, H, M, g.tree, H, p, hi)
    <2>1. \A a \in Int : a < p \/ hi < a => (a \in g.tree <=> a \in T)
      BY <1>2, <1>7
    <2>2. g.tree \cup H \subseteq Int
      <3>1. \A c \in T \cup H : c \in Nat
        BY AddrIs DEF Tiling, T
      <3> QED
        BY <1>7, <3>1
    <2> QED
      BY <1>11, <2>1, <2>2 DEF Outside
  <1>13. \A n \in p .. hi : n \in g.tree \cup H <=> n = p
    BY <1>1, <1>3, <1>7, <1>9
  <1>14. Tells(M[p], g.tree, p, R, p - 1, (hi - p) + 1) /\ Tells(M[hi], g.tree, p, R, hi + 1, (hi - p) + 1)
    <2>1. words = (hi - p) + 1
      BY <1>2
    <2> QED
      BY <1>10, <1>11, <2>1, Zenon
  <1>15. Tiling(M, g.tree, H, R) /\ Top(M, p) = hi
    <2>1. Tiling(m, T, H, R)
      BY DEF m, T
    <2> QED
      BY <1>3, <1>9, <1>12, <1>13, <1>14, <2>1, OneBlock
  <1>16. Tiling(g.mem, g.tree, H, R) /\ Top(g.mem, p) = hi
    BY <1>6, <1>15, Zenon
  <1>17. \A a : a \in g.tree <=> a \in T /\ a # b
    BY <1>7
  <1>18. \A a \in Addr : a < p \/ hi < a => g.mem[a] = m[a]
    BY <1>6, <1>11
  <1> QED
    BY <1>6, <1>8, <1>16, <1>17, <1>18 DEF Joined, m, T, hi, g

(* A tag that is no longer at an end. *)
LEMMA Opened ==
  ASSUME NEW tag, NEW T, NEW b, NEW R, NEW a, NEW words, NEW T2, NEW R2,
         Tells(tag, T, b, R, a, words), b \in T <=> b \in T2, a \in R2
  PROVE  Tells([tag EXCEPT !.segment = FALSE], T2, b, R2, a, words)
  <1>1. Tells(tag, T2, b, R, a, words)
    BY DEF Tells
  <1>2. tag = Tag(b \in T2, a \notin R, words)
    BY <1>1, Zenon DEF Tells
  <1> DEFINE x == b \in T2
             y == a \notin R
             z == a \notin R2
             no == FALSE
  <1>3. tag = Tag(x, y, words)
    BY <1>2, Zenon
  <1>4. no = z
    BY Zenon
  <1> HIDE DEF x, y, z, no
  <1>5. [tag EXCEPT !.segment = no] = Tag(x, no, words)
    BY <1>3 DEF Tag
  <1> QED
    BY <1>4, <1>5, Zenon DEF Tells, x, z, no

(* The words from start on extend the last block of R, if that is free, or are one of their own. *)
Extension(h, start, words) ==
  LET joined == [h EXCEPT !.mem = [@ EXCEPT ![start - 1].segment = FALSE]]
      added == lub_heap_init_free_block(joined, start, words, FALSE, TRUE)
  IN  IF IsFree(added, lub_heap_block_getprevious(added, start))
      THEN lub_heap_merge_with_previous(added, start) ELSE added

(* The contents of the blocks. *)
KeptInside(m, n, H) == \A c \in H : \A a \in Addr : c <= a /\ a < Top(m, c) => n[a] = m[a]

(* Memory added right behind R extends it, and no contents change. *)
LEMMA ExtensionIs ==
  ASSUME NEW h, NEW H, NEW R, NEW start \in Nat, NEW hi \in Nat, NEW words \in Nat, NEW R2,
         Sane(h, H, R), start - 1 \in R, words >= MinWords, (hi - start) + 1 = words,
         Grows(R, R2, start, hi), \A a \in start .. hi : a \in Addr /\ a \notin R, hi + 1 \notin R
  PROVE  Sane(Extension(h, start, words), H, R2) /\ KeptInside(h.mem, Extension(h, start, words).mem, H)
  <1> DEFINE m == h.mem
             T == h.tree
             end == start - 1
             J == [m EXCEPT ![end].segment = FALSE]
             joined == [h EXCEPT !.mem = J]
             g == lub_heap_init_free_block(joined, start, words, FALSE, TRUE)
             head == Tag(TRUE, FALSE, words)
             tail == Tag(TRUE, TRUE, words)
             M == Framed(J, start, hi, head, tail)
             T2 == T \cup {start}
             p == lub_heap_block_getprevious(g, start)
             f == lub_heap_merge_with_previous(g, start)
             r == Extension(h, start, words)
  <1>1. /\ Tiling(m, T, H, R) /\ NoPairs(m, T) /\ Counted(h) /\ DOMAIN m = Addr /\ R \subseteq Addr
        /\ T \cap H = {} /\ IsHeap(h) /\ Addr \subseteq Nat \ {0}
    BY AddrIs DEF Sane, Tiling
  <1>2. /\ MinWords \in Nat /\ MinWords > 2 /\ start < hi /\ start + words - 1 = hi
        /\ end \in R /\ end \in Nat /\ end + 1 = start /\ end \in Addr /\ end < start
    <2>1. MinWords \in Nat /\ MinWords > 2
      BY AddrIs
    <2>2. end \in R /\ end \in Addr
      BY <1>1
    <2> QED
      BY <1>1, <2>1, <2>2
  <1>3. r = IF IsFree(g, p) THEN f ELSE g
    BY Zenon DEF Extension
  <1>4. g = [mem |-> M, tree |-> T2, free_blocks |-> h.free_blocks + 1]
    <2>1. joined.mem = J /\ joined.tree = T /\ joined.free_blocks = h.free_blocks
      <3> HIDE DEF J
      <3> QED
        BY <1>1 DEF IsHeap
    <2> HIDE DEF joined
    <2>2. g = [mem |-> Block(J, start, words, TRUE, FALSE, TRUE), tree |-> T2,
               free_blocks |-> h.free_blocks + 1]
      BY <2>1, Zenon DEF lub_heap_init_free_block
    <2>3. Block(J, start, words, TRUE, FALSE, TRUE) = Framed(J, start, start + words - 1, head, tail)
      BY Zenon DEF Block, Framed
    <2>4. Framed(J, start, start + words - 1, head, tail) = M
      BY <1>2, Zenon
    <2> QED
      BY <2>2, <2>3, <2>4, Zenon
  <1> HIDE DEF r, g, M, J, end, head, tail, m, T, f, p
  <1>5. g.mem = M /\ g.tree = T2 /\ g.free_blocks = h.free_blocks + 1 /\ IsHeap(g)
    <2> HIDE DEF T2
    <2> QED
      BY <1>4 DEF IsHeap
  (* The last block of R. *)
  <1>6. PICK q \in T \cup H : end \in q .. Top(m, q)
    BY <1>1, <1>2 DEF Tiling
  <1>7. /\ q \in Nat /\ Top(m, q) \in Nat /\ q < Top(m, q) /\ q .. Top(m, q) \subseteq R
        /\ m[q].words \in Nat /\ m[q].words >= MinWords /\ q \in Addr
    <2>1. /\ q \in Nat /\ Top(m, q) \in Nat /\ q < Top(m, q) /\ q .. Top(m, q) \subseteq R
          /\ m[q].words \in Nat /\ m[q].words >= MinWords /\ q \in R
      BY <1>1, BlockOf
    <2> QED
      BY <1>1, <2>1
  <1>8. Top(m, q) = end /\ q < end
    <2>1. start \notin q .. Top(m, q)
      BY <1>2, <1>7
    <2> QED
      BY <1>2, <1>6, <1>7, <2>1
  <1>9. Tells(m[q], T, q, R, q - 1, m[q].words) /\ Tells(m[end], T, q, R, start, m[q].words)
    BY <1>1, <1>2, <1>8 DEF Tiling, Sound
  <1>10. ASSUME NEW b \in T \cup H
         PROVE  /\ b \in Nat /\ Top(m, b) \in Nat /\ b < Top(m, b) /\ b \in R /\ Top(m, b) \in R
                /\ Top(m, b) < start \/ hi < b
                /\ Top(m, b) < q \/ hi < b \/ b = q
    <2>1. /\ b \in Nat /\ Top(m, b) \in Nat /\ b < Top(m, b) /\ b \in R /\ Top(m, b) \in R
          /\ b .. Top(m, b) \subseteq R
      BY <1>1, BlockOf
    <2>2. b \notin start .. hi /\ start \notin b .. Top(m, b)
      BY <1>2, <2>1
    <2>3. Top(m, b) < start \/ hi < b
      BY <2>1, <2>2
    <2>4. (b < q => Top(m, b) < q) /\ (q < b => Top(m, q) < b)
      BY <1>1 DEF Tiling
    <2> QED
      BY <1>2, <1>7, <1>8, <2>1, <2>3, <2>4
  <1>11. start \notin T \cup H
    <2>1. start \in start .. hi
      BY <1>2
    <2>2. start \notin R
      BY <2>1
    <2> QED
      BY <1>10, <2>2
  <1>12. /\ DOMAIN J = Addr /\ J[end] = [m[end] EXCEPT !.segment = FALSE]
         /\ \A a \in Addr : a # end => J[a] = m[a]
    BY <1>1, <1>2 DEF J
  <1>13. /\ DOMAIN M = Addr /\ M[start] = head /\ M[hi] = tail
         /\ \A a \in Addr : a < start \/ hi < a => M[a] = J[a]
    <2>1. start < hi /\ DOMAIN J = Addr /\ \A a \in start .. hi : a \in Addr
      BY <1>2, <1>12
    <2> QED
      BY <2>1, FramedIs DEF M
  <1>14. M[q] = m[q] /\ M[end] = J[end] /\ \A a \in Addr : (a < start /\ a # end) \/ hi < a => M[a] = m[a]
    BY <1>1, <1>2, <1>7, <1>8, <1>12, <1>13
  <1>15. /\ start \in R2 /\ end \in R2 /\ hi + 1 \notin R2 /\ (q - 1 \in R2 <=> q - 1 \in R)
         /\ R2 \subseteq Addr /\ \A a \in q .. hi : a \in R2
    <2>1. start \in start .. hi /\ q - 1 \notin start .. hi /\ hi + 1 \notin start .. hi
      BY <1>2, <1>7, <1>8
    <2>2. \A a \in q .. hi : a \in q .. Top(m, q) \/ a \in start .. hi
      BY <1>2, <1>7, <1>8
    <2> QED
      BY <1>1, <1>2, <1>7, <2>1, <2>2 DEF Grows
  <1>16. (q \in T <=> q \in T2) /\ start \in T2
    BY <1>2, <1>8
  <1> HIDE DEF T2
  <1>17. /\ Tells(m[q], T2, q, R2, q - 1, m[q].words) /\ Tells(J[end], T2, q, R2, start, m[q].words)
         /\ Tells(head, T2, start, R2, end, words) /\ Tells(tail, T2, start, R2, hi + 1, words)
    <2>1. Tells(m[q], T2, q, R2, q - 1, m[q].words)
      BY <1>9, <1>15, <1>16 DEF Tells
    <2>2. Tells(J[end], T2, q, R2, start, m[q].words)
      BY <1>9, <1>12, <1>15, <1>16, Opened
    <2>3. Tells(head, T2, start, R2, end, words)
      BY <1>15, <1>16, InnerTag DEF head
    <2>4. Tells(tail, T2, start, R2, hi + 1, words)
      BY <1>15, <1>16, OuterTag DEF tail
    <2> QED
      BY <2>1, <2>2, <2>3, <2>4
  <1>18. M[start].words = words /\ M[q].words = m[q].words
    BY <1>13, <1>14, <1>17, TagIs
  <1>19. Top(M, start) = hi /\ Top(M, q) = end
    <2>1. Top(M, q) = Top(m, q) /\ Top(M, start) = start + words - 1
      BY <1>18 DEF Top
    <2> QED
      BY <1>2, <1>8, <2>1
  <1>20. Sound(M, T2, R2, q) /\ Sound(M, T2, R2, start)
    <2>1. Sound(M, T2, R2, q)
      BY <1>2, <1>7, <1>14, <1>17, <1>18, <1>19 DEF Sound
    <2>2. Sound(M, T2, R2, start)
      BY <1>2, <1>13, <1>17, <1>18, <1>19 DEF Sound, end
    <2> QED
      BY <2>1, <2>2
  <1>21. Replaces(m, T, H, R, M, T2, H, R2, q, hi)
    <2>1. \A b \in T \cup H : Top(m, b) < q \/ hi < b \/ (q <= b /\ Top(m, b) <= hi)
      BY <1>2, <1>7, <1>8, <1>10
    <2>2. \A a \in Int : a < q \/ hi < a =>
            /\ a \in R2 <=> a \in R
            /\ a \in T2 <=> a \in T
            /\ a \in Addr => M[a] = m[a]
      BY <1>2, <1>7, <1>8, <1>14 DEF Grows, T2
    <2>3. q \in R2 /\ q \in R
      BY <1>2, <1>7, <1>8, <1>15
    <2> QED
      BY <1>7, <1>13, <1>15, <2>1, <2>2, <2>3 DEF Replaces
  <1>22. \A n \in q .. hi : n \in T2 \cup H <=> n = q \/ n = start
    BY <1>2, <1>6, <1>7, <1>8, <1>10 DEF T2
  <1>23. Fills(M, T2, H, R2, q, hi)
    <2>1. T2 \cap H = {}
      BY <1>1, <1>11 DEF T2
    <2>2. /\ q \in Addr /\ start \in Addr /\ end <= hi /\ q .. end \subseteq R2 /\ start .. hi \subseteq R2
      BY <1>2, <1>7, <1>8, <1>15
    <2>3. \A a \in q .. hi : a \in q .. end \/ a \in start .. hi
      BY <1>2, <1>7, <1>8
    <2>4. q \in T2 \cup H /\ start \in T2 \cup H /\ q < start /\ end < start /\ q \in q .. hi
          /\ start \in q .. hi
      BY <1>2, <1>7, <1>8, <1>16, <1>22
    <2>5. \A n \in q .. hi : n \in T2 \cup H =>
            n \in Addr /\ Sound(M, T2, R2, n) /\ Top(M, n) <= hi /\ n .. Top(M, n) \subseteq R2
      BY <1>19, <1>20, <1>22, <2>2
    <2>6. \A a \in R2 \cap (q .. hi) : \E n \in T2 \cup H : q <= n /\ a \in n .. Top(M, n)
      BY <1>7, <1>19, <2>3, <2>4
    <2>7. \A n, k \in q .. hi : n \in T2 \cup H /\ k \in T2 \cup H /\ n < k => Top(M, n) < k
      <3> SUFFICES ASSUME NEW n \in q .. hi, NEW k \in q .. hi, n \in T2 \cup H, k \in T2 \cup H, n < k
                   PROVE  Top(M, n) < k
        OBVIOUS
      <3>1. n = q /\ k = start
        BY <1>2, <1>7, <1>22, <2>4
      <3> QED
        BY <1>19, <2>4, <3>1
    <2> QED
      BY <2>1, <2>5, <2>6, <2>7 DEF Fills
  <1>24. Tiling(M, T2, H, R2)
    <2>1. T2 \cup H \subseteq Int
      BY <1>10 DEF T2
    <2> QED
      BY <1>1, <1>21, <1>23, <2>1, Retile
  <1>25. Tiling(g.mem, g.tree, H, R2)
    BY <1>5, <1>24, Zenon
  <1>26. Counted(g)
    BY <1>1, <1>5, <1>11, CountAdd DEF T, T2
  (* The blocks before are where they were. *)
  <1>27. \A b \in T \cup H : Top(M, b) = Top(m, b)
    <2> SUFFICES ASSUME NEW b \in T \cup H PROVE Top(M, b) = Top(m, b)
      OBVIOUS
    <2>1. CASE b = q
      BY <1>8, <1>19, <2>1
    <2>2. CASE b # q
      <3>1. b \in Addr /\ ((b < start /\ b # end) \/ hi < b)
        BY <1>1, <1>2, <1>7, <1>8, <1>10, <2>2
      <3> QED
        BY <1>14, <3>1 DEF Top
    <2> QED
      BY <2>1, <2>2
  <1>28. KeptInside(m, M, H)
    <2> SUFFICES ASSUME NEW c \in H, NEW a \in Addr, c <= a, a < Top(m, c) PROVE M[a] = m[a]
      BY DEF KeptInside
    <2>1. c \in T \cup H
      OBVIOUS
    <2>2. a \in Nat /\ c \in Nat /\ Top(m, c) \in Nat /\ (Top(m, c) < start \/ hi < c)
      BY <1>1, <1>10, <2>1
    <2> QED
      BY <1>2, <1>14, <2>2
  <1>29. /\ start \in g.tree /\ start \in g.tree \cup H
         /\ (IsFree(g, p) <=> p \in g.tree) /\ p = q
    <2>1. start \in g.tree /\ q \in g.tree \cup H
      BY <1>5, <1>16
    <2>2. start \in g.tree \cup H
      BY <2>1
    <2>3. Top(g.mem, q) = start - 1
      BY <1>5, <1>19 DEF end
    <2> QED
      BY <1>25, <2>1, <2>2, <2>3, PreviousIs DEF p
  <1>30. CASE IsFree(g, p)
    <2>1. q \in g.tree /\ Adjoins(g.mem, q, start)
      BY <1>2, <1>5, <1>19, <1>29, <1>30 DEF Adjoins
    <2>2. Joined(g, H, R2, f, q, start)
      BY <1>5, <1>25, <1>26, <1>29, <2>1, JoinedIs DEF f, p
    <2>3. q \in T
      BY <1>5, <1>16, <2>1
    <2>4. /\ IsHeap(f) /\ Counted(f) /\ Tiling(f.mem, f.tree, H, R2) /\ Top(f.mem, q) = hi
          /\ \A a : a \in f.tree <=> a \in T
          /\ \A a \in Addr : a < q \/ hi < a => f.mem[a] = M[a]
      BY <1>5, <1>11, <1>19, <2>2 DEF Joined, T2
    <2>5. NoPairs(f.mem, f.tree)
      <3> SUFFICES ASSUME NEW x \in f.tree, Top(f.mem, x) + 1 \in f.tree PROVE FALSE
        BY DEF NoPairs
      <3>1. x \in T /\ Top(f.mem, x) + 1 \in T
        BY <2>4
      <3>2. x = q
        <4> SUFFICES ASSUME x # q PROVE FALSE
          OBVIOUS
        <4>1. x \in Addr /\ (x < q \/ hi < x)
          BY <1>1, <1>7, <1>10, <3>1
        <4>2. Top(f.mem, x) = Top(m, x)
          BY <1>14, <1>2, <1>7, <1>8, <2>4, <4>1 DEF Top
        <4> QED
          BY <1>1, <3>1, <4>2 DEF NoPairs
      <3> QED
        BY <1>2, <1>10, <2>4, <3>1, <3>2
    <2>6. Sane(f, H, R2)
      BY <2>4, <2>5 DEF Sane
    <2>7. KeptInside(m, f.mem, H)
      <3> SUFFICES ASSUME NEW c \in H, NEW a \in Addr, c <= a, a < Top(m, c) PROVE f.mem[a] = m[a]
        BY DEF KeptInside
      <3>1. c \in T \cup H /\ c # q
        BY <1>1, <2>3
      <3>2. a < q \/ hi < a
        BY <1>1, <1>7, <1>10, <3>1
      <3>3. M[a] = m[a]
        BY <1>28 DEF KeptInside
      <3> QED
        BY <2>4, <3>2, <3>3
    <2>8. r = f
      BY <1>3, <1>30
    <2> QED
      BY <2>6, <2>7, <2>8 DEF r, m
  <1>31. CASE ~IsFree(g, p)
    <2>1. q \notin T
      BY <1>5, <1>16, <1>29, <1>31
    <2>2. NoPairs(M, T2)
      <3> SUFFICES ASSUME NEW x \in T2, Top(M, x) + 1 \in T2 PROVE FALSE
        BY DEF NoPairs
      <3>1. CASE x = start
        BY <1>2, <1>10, <1>19, <3>1 DEF T2
      <3>2. CASE x # start
        <4>1. x \in T /\ Top(M, x) = Top(m, x) /\ x # q
          BY <1>27, <2>1, <3>2 DEF T2
        <4>2. Top(m, x) + 1 = start
          BY <1>1, <4>1 DEF NoPairs, T2
        <4> QED
          BY <1>2, <1>7, <1>8, <1>10, <4>1, <4>2
      <3> QED
        BY <3>1, <3>2
    <2>3. NoPairs(g.mem, g.tree)
      BY <1>5, <2>2, Zenon
    <2>4. Sane(g, H, R2)
      BY <1>5, <1>25, <1>26, <2>3 DEF Sane
    <2>5. r = g
      BY <1>3, <1>31
    <2>6. KeptInside(m, g.mem, H)
      BY <1>5, <1>28, Zenon
    <2> QED
      BY <2>4, <2>5, <2>6 DEF r, m
  <1> QED
    BY <1>30, <1>31

-----------------------------------------------------------------------------
(* The invariant. *)

(* The memory that is made of blocks. *)
Region == {a \in Addr : SegmentOf(a) # {} /\ a \notin static}

(* The first segment, alone or extended, or two. *)
Segment(first, words) == [first |-> first, words |-> words]
OneSegment == segments = <<Segment(1, SegWords)>>
Extended == segments = <<Segment(1, SegWords + MoreWords)>>
TwoSegments == segments = <<Segment(1, SegWords), Segment(SegWords + 2, MoreWords)>>
SegmentsSound == OneSegment \/ Extended \/ TwoSegments

(* Static memory is at the end of its segment. *)
StaticSound ==
  \A a \in static : /\ a \in Addr /\ SegmentOf(a) # {} /\ mem[a] = Static
                    /\ \A x \in Addr : a <= x /\ SegmentOf(x) = SegmentOf(a) => x \in static

(* A client that has block p, for n words, finds there what it wrote. *)
Owns(m, p, n, c) ==
  /\ p = NULL => n = 0
  /\ p # NULL => n + 2 <= m[p].words
  /\ \A i \in 1 .. n : m[p + i] = Data(c, i)

ClientsSound ==
  /\ ptr \in [Client -> Nat] /\ size \in [Client -> Nat]
  /\ \A c \in Client : Owns(mem, ptr[c], size[c], c)
  /\ \A c, d \in Client : c # d /\ ptr[c] = ptr[d] => ptr[c] = NULL

HeapInv ==
  broken = "no" =>
    Sane(this, Held, Region) /\ SegmentsSound /\ StaticSound /\ ClientsSound

(* A heap of the same words is as sane. *)
LEMMA SameIs ==
  ASSUME NEW h, NEW H, NEW R, NEW g, Sane(h, H, R), IsHeap(g), DOMAIN g.mem = Addr,
         \A a \in Addr : g.mem[a] = h.mem[a], g.tree = h.tree, g.free_blocks = h.free_blocks
  PROVE  Sane(g, H, R)
  <1> DEFINE m == h.mem
             M == g.mem
             T == h.tree
  <1>1. Tiling(m, T, H, R) /\ NoPairs(m, T) /\ Counted(h)
    BY DEF Sane
  <1>2. DOMAIN M = Addr /\ g.tree = T /\ \A a \in Addr : M[a] = m[a]
    OBVIOUS
  <1>3. Counted(g)
    BY <1>1 DEF Counted
  <1> HIDE DEF m, T, M
  <1>4. ASSUME NEW b \in T \cup H PROVE Top(M, b) = Top(m, b) /\ Sound(M, T, R, b) /\ b \in Addr
    <2>1. b \in Addr /\ Top(m, b) \in Addr
      <3>1. b \in R /\ Top(m, b) \in R
        BY <1>1, BlockOf
      <3> QED
        BY <1>1, <3>1 DEF Tiling
    <2>2. M[b] = m[b] /\ M[Top(m, b)] = m[Top(m, b)] /\ Sound(m, T, R, b)
      BY <1>1, <1>2, <2>1 DEF Tiling
    <2>3. Top(M, b) = Top(m, b)
      BY <2>2 DEF Top
    <2> QED
      BY <2>1, <2>2, <2>3 DEF Sound
  <1>5. Tiling(M, T, H, R)
    BY <1>1, <1>2, <1>4 DEF Tiling
  <1>6. NoPairs(M, T)
    BY <1>1, <1>4 DEF NoPairs
  <1>7. Tiling(g.mem, g.tree, H, R) /\ NoPairs(g.mem, g.tree)
    BY <1>2, <1>5, <1>6 DEF M
  <1> QED
    BY <1>3, <1>7 DEF Sane

(* A client keeps what it has in a block whose inside is left alone. *)
LEMMA OwnsStill ==
  ASSUME NEW h, NEW H, NEW R, NEW p \in Nat, NEW n \in Nat, NEW c, NEW M,
         Sane(h, H, R), p = NULL \/ p \in H, Owns(h.mem, p, n, c),
         p # NULL => \A a \in Addr : p <= a /\ a < Top(h.mem, p) => M[a] = h.mem[a]
  PROVE  Owns(M, p, n, c)
  <1> DEFINE m == h.mem
  <1>1. Tiling(m, h.tree, H, R) /\ Owns(m, p, n, c)
    BY DEF Sane
  <1>2. CASE p = NULL
    BY <1>1, <1>2 DEF Owns
  <1>3. CASE p # NULL
    <2>1. p \in h.tree \cup H
      BY <1>3
    <2>2. /\ p \in Nat /\ Top(m, p) \in Nat /\ p < Top(m, p) /\ m[p].words \in Nat
          /\ p .. Top(m, p) \subseteq R
      BY <1>1, <2>1, BlockOf
    <2>3. R \subseteq Addr
      BY <1>1 DEF Tiling
    <2>4. \A a \in Addr : p <= a /\ a < Top(m, p) => M[a] = m[a]
      BY <1>3
    <2> HIDE DEF m
    <2>5. M[p] = m[p]
      <3>1. p \in p .. Top(m, p)
        BY <2>2
      <3> QED
        BY <2>2, <2>3, <2>4, <3>1
    <2>6. n + 2 <= m[p].words
      BY <1>1, <1>3 DEF Owns
    <2>7. ASSUME NEW i \in 1 .. n PROVE M[p + i] = m[p + i]
      <3>1. p + i \in p .. Top(m, p) /\ p <= p + i /\ p + i < Top(m, p)
        BY <2>2, <2>6 DEF Top
      <3> QED
        BY <2>2, <2>3, <2>4, <3>1
    <2> QED
      BY <1>1, <1>3, <2>5, <2>7 DEF Owns
  <1> QED
    BY <1>2, <1>3

(* What the invariant says of the heap before a step. *)
LEMMA ThisIs ==
  /\ this.mem = mem /\ this.tree = free_tree /\ this.free_blocks = free_blocks /\ IsHeap(this)
  BY DEF this, IsHeap

(* A request is of enough words for a block. *)
LEMMA WordsIs ==
  ASSUME NEW n \in Nat
  PROVE  /\ Words(n) \in Nat /\ (Words(n) = 0 \/ Words(n) >= MinWords)
         /\ (Words(n) = 0 <=> n = 0) /\ (n > 0 => n + 2 <= Words(n))
  BY AddrIs DEF Words, Larger

(* The client c has block p, for n words, instead of block b. *)
LEMMA HeldIs ==
  ASSUME NEW c \in Client, ptr \in [Client -> Nat],
         \A d, e \in Client : d # e /\ ptr[d] = ptr[e] => ptr[d] = NULL,
         NEW p, ptr' = [ptr EXCEPT ![c] = p]
  PROVE  /\ Held' = (Held \ {ptr[c]}) \cup ({p} \ {NULL})
         /\ \A d \in Client : d # c /\ ptr[d] # NULL => ptr[d] \in Held \ {ptr[c]}
         /\ \A d \in Client : ptr[d] # NULL => ptr[d] \in Held
         /\ p \notin Held \ {ptr[c]} =>
              \A d, e \in Client : d # e /\ ptr'[d] = ptr'[e] => ptr'[d] = NULL
  <1>1. ptr'[c] = p /\ \A d \in Client : d # c => ptr'[d] = ptr[d]
    OBVIOUS
  <1>2. /\ \A d \in Client : d # c /\ ptr[d] # NULL => ptr[d] \in Held \ {ptr[c]}
        /\ \A d \in Client : ptr[d] # NULL => ptr[d] \in Held
    BY DEF Held
  <1>3. \A x : x \in Held \ {ptr[c]} => \E d \in Client : d # c /\ x = ptr[d] /\ x # NULL
    BY DEF Held
  <1>4. \A x : x \in Held' <=> x # NULL /\ \E d \in Client : x = ptr'[d]
    BY DEF Held
  <1>5. Held' = (Held \ {ptr[c]}) \cup ({p} \ {NULL})
    <2>1. ASSUME NEW x \in Held' PROVE x \in (Held \ {ptr[c]}) \cup ({p} \ {NULL})
      BY <1>1, <1>2, <1>4, <2>1
    <2>2. ASSUME NEW x \in (Held \ {ptr[c]}) \cup ({p} \ {NULL}) PROVE x \in Held'
      BY <1>1, <1>3, <1>4, <2>2
    <2> QED
      BY <2>1, <2>2
  <1>6. ASSUME p \notin Held \ {ptr[c]}, NEW d \in Client, NEW e \in Client, d # e, ptr'[d] = ptr'[e]
        PROVE  ptr'[d] = NULL
    BY <1>1, <1>2, <1>6
  <1> QED
    BY <1>2, <1>5, <1>6

(* Nothing changes but what is in the words of memory and who has them. *)
LEMMA RegionStays ==
  ASSUME segments' = segments, static' = static
  PROVE  Region' = Region /\ (SegmentsSound => SegmentsSound')
  BY DEF Region, SegmentOf, SegmentsSound, OneSegment, Extended, TwoSegments, Segment

(* Static memory is left alone. *)
LEMMA StaticStays ==
  ASSUME StaticSound, segments' = segments, static' = static,
         \A a \in Addr : a \notin Region => mem'[a] = mem[a]
  PROVE  StaticSound'
  BY DEF StaticSound, SegmentOf, Region

(* What is new of the block p of client c becomes what the client writes there. *)
Filled(m, M, c, p, F) ==
  /\ DOMAIN M = Addr
  /\ \A a \in Addr : (\A i \in F : a # p + i) => M[a] = m[a]
  /\ \A i \in F : p + i \in Addr => M[p + i] = Data(c, i)

WrittenBy(m, M, c, p, F) == M = Written(m, [a \in {p + i : i \in F} |-> Data(c, a - p)])

(* What the client writes is what it finds. *)
LEMMA FilledIs ==
  ASSUME NEW m, NEW M, NEW c, NEW p \in Nat, NEW F, DOMAIN m = Addr, F \subseteq Nat,
         WrittenBy(m, M, c, p, F)
  PROVE  Filled(m, M, c, p, F)
  <1> DEFINE f == [a \in {p + i : i \in F} |-> Data(c, a - p)]
  <1>1. DOMAIN f = {p + i : i \in F}
    OBVIOUS
  <1>2. \A i \in F : f[p + i] = Data(c, i)
    <2> SUFFICES ASSUME NEW i \in F PROVE f[p + i] = Data(c, i)
      OBVIOUS
    <2>1. f[p + i] = Data(c, (p + i) - p)
      OBVIOUS
    <2>2. (p + i) - p = i
      OBVIOUS
    <2> QED
      BY <2>1, <2>2, Zenon
  <1> HIDE DEF f
  <1>3. M = Written(m, f)
    BY DEF f, WrittenBy
  <1> QED
    BY <1>1, <1>2, <1>3, WrittenIs DEF Filled

(* A request that is granted, of n words. *)
LEMMA GrantedStep ==
  ASSUME NEW c \in Client, NEW n \in Nat, NEW g, NEW p,
         Sane(this, Held, Region), SegmentsSound, StaticSound, ClientsSound,
         Reallocated(this, Held, Region, ptr[c], Words(n), g, p),
         Filled(g.mem, mem', c, p, size[c] + 1 .. n), free_tree' = g.tree, free_blocks' = g.free_blocks,
         ptr' = [ptr EXCEPT ![c] = p], size' = [size EXCEPT ![c] = n],
         segments' = segments, static' = static
  PROVE  Sane(this', Held', Region') /\ SegmentsSound' /\ StaticSound' /\ ClientsSound'
  <1> DEFINE H == Held
             R == Region
             b == ptr[c]
             G == H \ {b}
             H2 == Held'
             M == g.mem
  <1>1. /\ this.mem = mem /\ this'.mem = mem' /\ this'.tree = g.tree
        /\ this'.free_blocks = g.free_blocks /\ IsHeap(this')
    BY DEF this, IsHeap
  <1>2. /\ p \in Nat /\ (n = 0 => p = NULL) /\ p \notin G
        /\ n > 0 => p # NULL /\ n + 2 <= M[p].words
        /\ Words(n) \in Nat /\ (Words(n) = 0 <=> n = 0) /\ (n > 0 => n + 2 <= Words(n))
    <2>1. /\ Words(n) \in Nat /\ (Words(n) = 0 <=> n = 0) /\ (n > 0 => n + 2 <= Words(n))
      BY WordsIs
    <2>2. /\ Words(n) = 0 => p = NULL
          /\ Words(n) > 0 => p \in Nat \ {0} /\ p \notin G /\ M[p].words >= Words(n)
      BY DEF Reallocated
    <2>3. NULL \notin G
      BY NotNull
    <2>4. CASE n = 0
      BY <2>1, <2>2, <2>3, <2>4 DEF NULL
    <2>5. CASE n > 0
      <3>1. /\ Sane(g, G \cup ({p} \ {NULL}), Region)
        BY DEF Reallocated
      <3>2. p # NULL /\ p \in G \cup ({p} \ {NULL})
        BY <2>1, <2>2, <2>5 DEF NULL
      <3>3. M[p].words \in Nat
        BY <3>1, <3>2, BlockOf DEF Sane
      <3> QED
        BY <2>1, <2>2, <2>5, <3>2, <3>3
    <2> QED
      BY <2>4, <2>5
  <1>3. /\ H2 = G \cup ({p} \ {NULL})
        /\ \A d \in Client : d # c /\ ptr[d] # NULL => ptr[d] \in G
        /\ \A d \in Client : ptr[d] # NULL => ptr[d] \in H
        /\ \A d, e \in Client : d # e /\ ptr'[d] = ptr'[e] => ptr'[d] = NULL
    BY <1>2, HeldIs DEF ClientsSound
  <1>4. Region' = R /\ SegmentsSound'
    BY RegionStays
  <1> HIDE DEF H2
  <1>5. Sane(g, H2, R) /\ Kept(mem, M, G, R)
    BY <1>1, <1>3 DEF Reallocated
  <1>6. /\ DOMAIN mem' = Addr
        /\ \A a \in Addr : (\A i \in size[c] + 1 .. n : a # p + i) => mem'[a] = M[a]
        /\ \A i \in size[c] + 1 .. n : p + i \in Addr => mem'[p + i] = Data(c, i)
    BY DEF Filled
  <1>7. size[c] \in Nat /\ b \in Nat /\ Owns(mem, b, size[c], c) /\ ptr'[c] = p /\ size'[c] = n
    BY DEF ClientsSound
  <1>8. G \subseteq H /\ G \subseteq H2 /\ Tiling(mem, free_tree, H, R)
    BY <1>1, <1>3, ThisIs DEF Sane
  <1> HIDE DEF M, H, R, b
  (* Where the client writes nothing. *)
  <1>9. ASSUME n = 0
        PROVE  /\ Sane(this', H2, R)
               /\ \A a \in Addr : mem'[a] = M[a]
    <2>1. \A a \in Addr : mem'[a] = M[a]
      BY <1>6, <1>7, <1>9
    <2>2. Sane(this', H2, R)
      BY <1>1, <1>5, <1>6, <2>1, SameIs DEF M
    <2> QED
      BY <2>1, <2>2
  (* Where it writes is inside its block. *)
  <1>10. ASSUME n > 0
         PROVE  /\ Sane(this', H2, R) /\ Kept(M, mem', H2 \ {p}, R) /\ mem'[p] = M[p]
                /\ p .. Top(M, p) \subseteq Addr /\ n + 2 <= M[p].words /\ M[p].words \in Nat
    <2>1. p \in H2 /\ p \in g.tree \cup H2 /\ n + 2 <= M[p].words
      BY <1>2, <1>3, <1>10
    <2>2. /\ Top(M, p) \in Nat /\ p < Top(M, p) /\ p .. Top(M, p) \subseteq R /\ M[p].words \in Nat
      BY <1>5, <2>1, BlockOf DEF Sane, M
    <2>3. R \subseteq Addr
      BY <1>8 DEF Tiling
    <2>4. \A i \in size[c] + 1 .. n : p < p + i /\ p + i < Top(M, p)
      <3> SUFFICES ASSUME NEW i \in size[c] + 1 .. n PROVE p < p + i /\ p + i < Top(M, p)
        OBVIOUS
      <3> DEFINE last == Top(M, p)
                 room == M[p].words
      <3>1. last = p + room - 1
        BY ONLY DEF Top
      <3>2. /\ p \in Nat /\ room \in Nat /\ n \in Nat /\ size[c] \in Nat /\ n + 2 <= room
            /\ i \in size[c] + 1 .. n
        BY <1>2, <1>7, <2>1, <2>2
      <3>3. i \in Nat /\ 0 < i /\ i <= n
        BY ONLY <3>2
      <3> HIDE DEF last, room
      <3>4. p < p + i /\ p + i < last
        BY ONLY <3>1, <3>2, <3>3
      <3> QED
        BY ONLY <3>4 DEF last
    <2>5. \A a \in Addr : ~(p < a /\ a < Top(M, p)) => mem'[a] = M[a]
      BY <1>6, <2>4
    <2>6. Inner(g, this', p)
      BY <1>1, <1>6, <2>5 DEF Inner, M
    <2>7. Wrote(g, H2, R, this', p)
      BY <1>1, <1>5, <2>1, <2>6, InnerIs
    <2> QED
      BY <1>1, <2>1, <2>2, <2>3, <2>7 DEF Wrote, M
  <1>11. Sane(this', H2, R)
    BY <1>9, <1>10
  (* What others have, and static memory, is kept. *)
  <1>12. Kept(mem, mem', G, R)
    <2>1. CASE n = 0
      BY <1>5, <1>9, <2>1 DEF Kept
    <2>2. CASE n > 0
      <3>1. \A d \in G : Top(M, d) = Top(mem, d)
        BY <1>5, <1>8, KeptTops
      <3>2. \A d \in G : d \in H2 \ {p} /\ Top(M, d) = Top(mem, d)
        BY <1>2, <1>8, <3>1
      <3>3. Kept(M, mem', H2 \ {p}, R)
        BY <1>10, <2>2
      <3> QED
        BY <1>5, <3>2, <3>3, KeptBoth
    <2> QED
      BY <2>1, <2>2
  <1>13. StaticSound'
    <2>1. \A a \in Addr : a \notin R => mem'[a] = mem[a]
      BY <1>12 DEF Kept
    <2> QED
      BY <2>1, StaticStays DEF R
  <1>14. ASSUME NEW d \in Client, d # c PROVE Owns(mem', ptr'[d], size'[d], d)
    <2>1. ptr'[d] = ptr[d] /\ size'[d] = size[d] /\ ptr[d] \in Nat /\ size[d] \in Nat
      BY <1>14 DEF ClientsSound
    <2>2. ptr[d] # NULL => ptr[d] \in G /\ ptr[d] \in H
      BY <1>3, <1>14
    <2>3. ptr[d] # NULL => \A a \in Addr : ptr[d] <= a /\ a < Top(mem, ptr[d]) => mem'[a] = mem[a]
      <3> SUFFICES ASSUME ptr[d] # NULL, NEW a \in Addr, ptr[d] <= a, a < Top(mem, ptr[d])
                   PROVE  mem'[a] = mem[a]
        OBVIOUS
      <3>1. Top(mem, ptr[d]) \in Nat
        BY <1>8, <2>2, BlockOf
      <3>2. a \in ptr[d] .. Top(mem, ptr[d])
        BY <2>1, <3>1, AddrIs
      <3> QED
        BY <1>12, <2>2, <3>2 DEF Kept
    <2>4. Owns(mem', ptr[d], size[d], d)
      <3>1. Owns(mem, ptr[d], size[d], d) /\ Sane(this, H, R) /\ (ptr[d] = NULL \/ ptr[d] \in H)
        BY <2>2 DEF ClientsSound, H, R
      <3> QED
        BY <1>1, <2>1, <2>3, <3>1, OwnsStill
    <2> QED
      BY <2>1, <2>4
  <1>15. Owns(mem', p, n, c)
    <2>1. CASE n = 0
      BY <1>2, <2>1 DEF Owns
    <2>2. CASE n > 0
      <3>1. p # NULL /\ n + 2 <= mem'[p].words
        BY <1>2, <1>10, <2>2
      <3>2. ASSUME NEW i \in 1 .. n PROVE mem'[p + i] = Data(c, i)
        <4>1. p + i \in Addr
          <5>1. p + i \in p .. Top(M, p)
            BY <1>2, <1>10, <2>2 DEF Top
          <5> QED
            BY <1>10, <2>2, <5>1
        <4>2. CASE i > size[c]
          <5>1. i \in size[c] + 1 .. n
            BY <1>7, <4>2
          <5> QED
            BY <1>6, <4>1, <5>1
        <4>3. CASE i <= size[c]
          <5>1. \A j \in size[c] + 1 .. n : p + i # p + j
            BY <1>2, <1>7, <4>3
          <5>2. mem'[p + i] = M[p + i]
            BY <1>6, <4>1, <5>1
          <5>3. b # NULL /\ size[c] + 2 <= mem[b].words /\ mem[b + i] = Data(c, i)
            BY <1>7, <4>3 DEF Owns
          <5>4. b \in H /\ mem[b].words \in Nat
            BY <1>3, <1>8, <5>3, BlockOf DEF b
          <5>5. i + 2 <= Words(n) /\ i + 2 <= mem[b].words /\ i \in Nat \ {0} /\ Words(n) > 0
            <6>1. i \in Nat \ {0} /\ i <= n /\ Words(n) \in Nat /\ n + 2 <= Words(n)
              BY <1>2, <2>2
            <6>2. i + 2 <= mem[b].words
              <7> DEFINE room == mem[b].words
              <7>1. room \in Nat /\ size[c] \in Nat /\ size[c] + 2 <= room /\ i <= size[c] /\ i \in Nat
                BY <1>7, <4>3, <5>3, <5>4, <6>1
              <7> HIDE DEF room
              <7>2. i + 2 <= room
                BY ONLY <7>1
              <7> QED
                BY ONLY <7>2 DEF room
            <6> QED
              BY <6>1, <6>2
          <5>6. M[p + i] = mem[b + i]
            BY <1>1, <5>3, <5>5 DEF Reallocated, M, b
          <5> QED
            BY <5>2, <5>3, <5>6
        <4> QED
          BY <1>7, <4>2, <4>3
      <3> QED
        BY <3>1, <3>2 DEF Owns
    <2> QED
      BY <2>1, <2>2
  <1>16. ClientsSound'
    <2>1. ptr' \in [Client -> Nat] /\ size' \in [Client -> Nat]
      BY <1>2 DEF ClientsSound
    <2>2. \A d \in Client : Owns(mem', ptr'[d], size'[d], d)
      BY <1>7, <1>14, <1>15
    <2> QED
      BY <1>3, <2>1, <2>2 DEF ClientsSound
  <1> QED
    BY <1>4, <1>11, <1>13, <1>16 DEF H2

(* A request that is refused. *)
LEMMA RefusedStep ==
  ASSUME NEW c \in Client, Sane(this, Held, Region), SegmentsSound, StaticSound, ClientsSound,
         DOMAIN mem' = Addr, \A a \in Addr : mem'[a] = mem[a],
         free_tree' = free_tree, free_blocks' = free_blocks, ptr' = ptr, size' = size,
         segments' = segments, static' = static
  PROVE  Sane(this', Held', Region') /\ SegmentsSound' /\ StaticSound' /\ ClientsSound'
  <1>1. /\ this'.mem = mem' /\ this'.tree = free_tree' /\ this'.free_blocks = free_blocks'
        /\ IsHeap(this')
    BY DEF this, IsHeap
  <1>2. Region' = Region /\ SegmentsSound' /\ Held' = Held
    BY RegionStays DEF Held
  <1>3. Sane(this', Held, Region)
    <2>1. /\ \A a \in Addr : (this').mem[a] = this.mem[a]
          /\ (this').tree = this.tree /\ (this').free_blocks = this.free_blocks
          /\ DOMAIN (this').mem = Addr
      BY <1>1, ThisIs
    <2> QED
      BY <1>1, <2>1, SameIs
  <1>4. StaticSound'
    BY StaticStays
  <1>5. ASSUME NEW d \in Client PROVE Owns(mem', ptr[d], size[d], d)
    <2>1. ptr[d] \in Nat /\ size[d] \in Nat /\ Owns(mem, ptr[d], size[d], d)
      BY DEF ClientsSound
    <2>2. ptr[d] = NULL \/ ptr[d] \in Held
      BY DEF Held
    <2>3. \A a \in Addr : ptr[d] <= a /\ a < Top(this.mem, ptr[d]) => mem'[a] = this.mem[a]
      BY ThisIs
    <2>4. Owns(this.mem, ptr[d], size[d], d)
      BY <2>1, ThisIs
    <2> QED
      BY <2>1, <2>2, <2>3, <2>4, OwnsStill
  <1>6. ClientsSound'
    BY <1>5 DEF ClientsSound
  <1> QED
    BY <1>2, <1>3, <1>4, <1>6

(* A request, whatever its outcome, preserves the invariant. *)
LEMMA ReallocStep ==
  ASSUME HeapInv, NEW c \in Client, NEW n \in Size, lub_heap_realloc(c, n)
  PROVE  HeapInv'
  <1> DEFINE r == lub_heap_raw_realloc(this, ptr[c], Words(n))
             filled == IF r.result = "OK" THEN size[c] + 1 .. n ELSE {}
             granted == r.result \in {"OK", "BOTH_WAYS"}
  <1>1. /\ broken = "no"
        /\ mem' = Written(r.h.mem, [a \in {r.ptr + i : i \in filled} |-> Data(c, a - r.ptr)])
        /\ free_tree' = r.h.tree /\ free_blocks' = r.h.free_blocks
        /\ ptr' = [ptr EXCEPT ![c] = IF granted THEN r.ptr ELSE @]
        /\ size' = [size EXCEPT ![c] = IF granted THEN n ELSE @]
        /\ broken' = IF r.result \in {"BOTH_WAYS", "ASSERTED"} THEN r.result ELSE broken
        /\ segments' = segments /\ static' = static
    BY Zenon DEF lub_heap_realloc, HeapIs
  <1>2. /\ Sane(this, Held, Region) /\ SegmentsSound /\ StaticSound /\ ClientsSound
        /\ n \in Nat /\ ptr[c] \in Nat /\ size[c] \in Nat
        /\ ptr \in [Client -> Nat] /\ size \in [Client -> Nat]
    BY <1>1, HeapAssumption DEF HeapInv, ClientsSound
  <1>3. /\ r.result = "OK" => Reallocated(this, Held, Region, ptr[c], Words(n), r.h, r.ptr)
        /\ r.result \in {"CORRUPTED", "FAILED", "ASSERTED"} => r.h = this
        /\ r.result \in {"OK", "BOTH_WAYS", "CORRUPTED", "FAILED", "ASSERTED"}
    <2>1. ptr[c] = NULL \/ ptr[c] \in Held
      BY DEF Held
    <2>2. Words(n) \in Nat /\ (Words(n) = 0 \/ Words(n) >= MinWords)
      BY <1>2, WordsIs
    <2> QED
      BY <1>2, <2>1, <2>2, ReallocIs
  <1> HIDE DEF r
  <1>4. CASE r.result = "OK"
    <2>1. Reallocated(this, Held, Region, ptr[c], Words(n), r.h, r.ptr)
      BY <1>3, <1>4
    <2>2. /\ ptr' = [ptr EXCEPT ![c] = r.ptr] /\ size' = [size EXCEPT ![c] = n]
          /\ mem' = Written(r.h.mem, [a \in {r.ptr + i : i \in size[c] + 1 .. n} |-> Data(c, a - r.ptr)])
      BY <1>1, <1>4
    <2>3. r.ptr \in Nat
      BY <1>2, <2>1, WordsIs DEF Reallocated, NULL
    <2>4. DOMAIN r.h.mem = Addr
      BY <2>1 DEF Reallocated, Sane, Tiling
    <2>5. Filled(r.h.mem, mem', c, r.ptr, size[c] + 1 .. n)
      <3> DEFINE F == size[c] + 1 .. n
                 m == r.h.mem
                 p == r.ptr
      <3>1. F \subseteq Nat
        BY <1>2
      <3>2. WrittenBy(m, mem', c, p, F)
        BY <2>2, Zenon DEF WrittenBy
      <3>3. DOMAIN m = Addr /\ p \in Nat
        BY <2>3, <2>4
      <3> HIDE DEF F, m, p
      <3>4. Filled(m, mem', c, p, F)
        BY <3>1, <3>2, <3>3, FilledIs
      <3> QED
        BY <3>4 DEF m, p, F
    <2>6. Sane(this', Held', Region') /\ SegmentsSound' /\ StaticSound' /\ ClientsSound'
      BY <1>1, <1>2, <2>1, <2>2, <2>5, GrantedStep
    <2> QED
      BY <2>6 DEF HeapInv
  <1>5. CASE r.result \in {"CORRUPTED", "FAILED"}
    <2>1. r.h = this /\ filled = {} /\ ~granted
      BY <1>3, <1>5
    <2>2. ptr' = ptr /\ size' = size
      BY <1>1, <1>2, <2>1
    <2>3. mem' = Written(mem, [a \in {r.ptr + i : i \in filled} |-> Data(c, a - r.ptr)])
      BY <1>1, <2>1, ThisIs
    <2>4. DOMAIN mem = Addr
      BY <1>2, ThisIs DEF Sane, Tiling
    <2>5. DOMAIN mem' = Addr /\ \A a \in Addr : mem'[a] = mem[a]
      <3> DEFINE f == [a \in {r.ptr + i : i \in filled} |-> Data(c, a - r.ptr)]
      <3>1. DOMAIN f = {}
        BY <2>1
      <3>2. mem' = Written(mem, f)
        BY <2>3
      <3> HIDE DEF f
      <3> QED
        BY <2>4, <3>1, <3>2, WrittenIs
    <2>6. free_tree' = free_tree /\ free_blocks' = free_blocks
      BY <1>1, <2>1, ThisIs
    <2>7. Sane(this', Held', Region') /\ SegmentsSound' /\ StaticSound' /\ ClientsSound'
      BY <1>1, <1>2, <2>2, <2>5, <2>6, RefusedStep
    <2> QED
      BY <2>7 DEF HeapInv
  <1>6. CASE r.result \in {"BOTH_WAYS", "ASSERTED"}
    BY <1>1, <1>6 DEF HeapInv
  <1> QED
    BY <1>3, <1>4, <1>5, <1>6

(* Where the segments are. *)
LEMMA SegmentIs ==
  ASSUME SegmentsSound, NEW a \in Int
  PROVE  /\ OneSegment => SegmentOf(a) = IF 1 <= a /\ a <= SegWords THEN {1} ELSE {}
         /\ Extended => SegmentOf(a) = IF 1 <= a /\ a <= SegWords + MoreWords THEN {1} ELSE {}
         /\ TwoSegments =>
              SegmentOf(a) = IF 1 <= a /\ a <= SegWords THEN {1}
                             ELSE IF SegWords + 2 <= a /\ a <= SegWords + 1 + MoreWords THEN {2} ELSE {}
         /\ SegmentOf(a) # {} => a \in Addr
  <1>1. SegWords \in Nat /\ MoreWords \in Nat
    BY HeapAssumption
  <1>2. \A i : i \in SegmentOf(a) <=> /\ i \in DOMAIN segments
                                      /\ segments[i].first <= a
                                      /\ a < segments[i].first + segments[i].words
    BY DEF SegmentOf
  <1>3. CASE OneSegment
    <2>1. /\ DOMAIN segments = {1} /\ segments[1].first = 1 /\ segments[1].words = SegWords
      BY <1>3 DEF OneSegment, Segment
    <2>2. SegmentOf(a) = IF 1 <= a /\ a <= SegWords THEN {1} ELSE {}
      <3>1. \A i : i \in SegmentOf(a) <=> i = 1 /\ 1 <= a /\ a <= SegWords
        BY <1>1, <1>2, <2>1
      <3> QED
        BY <3>1
    <2>3. ~Extended /\ ~TwoSegments
      <3>1. MoreWords > 0
        BY HeapAssumption
      <3> QED
        BY <1>1, <1>3, <3>1 DEF OneSegment, Extended, TwoSegments, Segment
    <2> QED
      BY <1>1, <2>2, <2>3 DEF Addr
  <1>4. CASE Extended
    <2>1. /\ DOMAIN segments = {1} /\ segments[1].first = 1 /\ segments[1].words = SegWords + MoreWords
      BY <1>4 DEF Extended, Segment
    <2>2. SegmentOf(a) = IF 1 <= a /\ a <= SegWords + MoreWords THEN {1} ELSE {}
      <3>1. \A i : i \in SegmentOf(a) <=> i = 1 /\ 1 <= a /\ a <= SegWords + MoreWords
        BY <1>1, <1>2, <2>1
      <3> QED
        BY <3>1
    <2>3. ~OneSegment /\ ~TwoSegments
      <3>1. MoreWords > 0
        BY HeapAssumption
      <3> QED
        BY <1>1, <1>4, <3>1 DEF OneSegment, Extended, TwoSegments, Segment
    <2> QED
      BY <1>1, <2>2, <2>3 DEF Addr
  <1>5. CASE TwoSegments
    <2>1. /\ DOMAIN segments = {1, 2} /\ segments[1].first = 1 /\ segments[1].words = SegWords
          /\ segments[2].first = SegWords + 2 /\ segments[2].words = MoreWords
      BY <1>5 DEF TwoSegments, Segment
    <2>2. SegmentOf(a) = IF 1 <= a /\ a <= SegWords THEN {1}
                         ELSE IF SegWords + 2 <= a /\ a <= SegWords + 1 + MoreWords THEN {2} ELSE {}
      <3>1. \A i : i \in SegmentOf(a) <=> \/ i = 1 /\ 1 <= a /\ a <= SegWords
                                          \/ i = 2 /\ SegWords + 2 <= a /\ a <= SegWords + 1 + MoreWords
        BY <1>1, <1>2, <2>1
      <3> QED
        BY <1>1, <3>1
    <2>3. ~OneSegment /\ ~Extended
      BY <1>5 DEF OneSegment, Extended, TwoSegments, Segment
    <2> QED
      BY <1>1, <2>2, <2>3 DEF Addr
  <1> QED
    BY <1>3, <1>4, <1>5 DEF SegmentsSound

(* Which memory is made of blocks. *)
LEMMA RegionIs ==
  ASSUME SegmentsSound, NEW a
  PROVE  /\ OneSegment => (a \in Region <=> a \in 1 .. SegWords /\ a \notin static)
         /\ Extended => (a \in Region <=> a \in 1 .. SegWords + MoreWords /\ a \notin static)
         /\ TwoSegments =>
              (a \in Region <=> /\ a \in 1 .. SegWords \/ a \in SegWords + 2 .. SegWords + 1 + MoreWords
                                /\ a \notin static)
  <1>1. SegWords \in Nat /\ MoreWords \in Nat
    BY HeapAssumption
  <1>2. a \in Region => a \in Int
    BY AddrIs DEF Region
  <1>3. CASE a \in Int
    BY <1>1, <1>3, SegmentIs DEF Region
  <1>4. CASE a \notin Int
    BY <1>1, <1>2, <1>4
  <1> QED
    BY <1>3, <1>4

(* What clients have stays what it is if the inside of their blocks is left alone. *)
LEMMA ClientsStay ==
  ASSUME Sane(this, Held, Region), ClientsSound, KeptInside(mem, mem', Held), ptr' = ptr, size' = size
  PROVE  ClientsSound' /\ Held' = Held
  <1>1. ASSUME NEW d \in Client PROVE Owns(mem', ptr[d], size[d], d)
    <2>1. ptr[d] \in Nat /\ size[d] \in Nat /\ Owns(this.mem, ptr[d], size[d], d)
      BY ThisIs DEF ClientsSound
    <2>2. ptr[d] = NULL \/ ptr[d] \in Held
      BY DEF Held
    <2>3. ptr[d] # NULL => \A a \in Addr : ptr[d] <= a /\ a < Top(this.mem, ptr[d]) => mem'[a] = this.mem[a]
      BY <2>2, ThisIs DEF KeptInside
    <2> QED
      BY <2>1, <2>2, <2>3, OwnsStill
  <1> QED
    BY <1>1 DEF ClientsSound, Held

(* What is kept has its contents. *)
LEMMA KeptIsInside ==
  ASSUME NEW m, NEW T, NEW H, NEW R, NEW m2, Tiling(m, T, H, R), Kept(m, m2, H, R)
  PROVE  KeptInside(m, m2, H)
  <1> SUFFICES ASSUME NEW c \in H, NEW a \in Addr, c <= a, a < Top(m, c) PROVE m2[a] = m[a]
    BY DEF KeptInside
  <1>1. c \in Nat /\ Top(m, c) \in Nat /\ c \in T \cup H
    BY BlockOf
  <1>2. a \in c .. Top(m, c)
    BY <1>1, AddrIs
  <1> QED
    BY <1>2 DEF Kept

(* Taking static memory preserves the invariant. *)
LEMMA StaticStep ==
  ASSUME HeapInv, NEW n \in StaticSize, lub_heap_static_alloc(n)
  PROVE  HeapInv'
  <1>1. PICK b \in FindNext(this, n, EndsSegment) :
          LET s == lub_heap_slice_from_top(this, b, n, TRUE)
              given == s.block .. s.block + s.words - 1
          IN  /\ mem' = Written(s.h.mem, [a \in given |-> Static])
              /\ HeapIs(s.h)
              /\ static' = static \cup given
              /\ broken' = IF s.whole THEN "STATIC" ELSE broken
    BY Zenon DEF lub_heap_static_alloc
  <1>2. broken = "no" /\ segments' = segments /\ ptr' = ptr /\ size' = size
    BY DEF lub_heap_static_alloc
  <1> DEFINE s == lub_heap_slice_from_top(this, b, n, TRUE)
             k == s.block
             top == s.block + s.words - 1
             hi == Top(mem, b)
             R == Region
             R2 == Region'
  <1>3. /\ mem' = Written(s.h.mem, [a \in k .. top |-> Static])
        /\ free_tree' = s.h.tree /\ free_blocks' = s.h.free_blocks
        /\ static' = static \cup (k .. top)
        /\ broken' = IF s.whole THEN "STATIC" ELSE broken
    BY <1>1, Zenon DEF HeapIs
  <1>4. /\ Sane(this, Held, R) /\ SegmentsSound /\ StaticSound /\ ClientsSound
        /\ n \in Nat /\ n > 0
    BY <1>2, HeapAssumption DEF HeapInv
  <1>5. b \in free_tree /\ n <= mem[b].words /\ mem[Top(mem, b)].segment
    <2>1. b \in free_tree /\ mem[b].words >= n /\ EndsSegment(b)
      BY ThisIs DEF FindNext
    <2>2. mem[b].words \in Nat
      BY <1>4, <2>1, ThisIs, BlockOf DEF Sane
    <2> QED
      BY <1>4, <2>1, <2>2, ThisIs DEF EndsSegment, lub_heap_block__get_tail, Top
  <1>6. hi + 1 \notin R
    BY <1>4, <1>5, ThisIs, BlockOf DEF Sane
  <1>7. CASE s.whole
    BY <1>3, <1>7 DEF HeapInv
  <1>8. CASE ~s.whole
    <2>1. broken' = "no"
      BY <1>2, <1>3, <1>8
    <2>2. /\ this'.mem = mem' /\ this'.tree = free_tree' /\ this'.free_blocks = free_blocks'
          /\ IsHeap(this')
      BY DEF this, IsHeap
    <2>3. IsTaken(this, this', s)
      <3> DEFINE f == [a \in k .. top |-> Static]
      <3>1. mem' = Written(s.h.mem, f)
        BY <1>3
      <3>2. (this').mem = Written(s.h.mem, f) /\ (this').tree = s.h.tree
            /\ (this').free_blocks = s.h.free_blocks
        <4> HIDE DEF s, f
        <4> QED
          BY <1>3, <2>2, <3>1
      <3> QED
        BY <3>2, Zenon DEF IsTaken
    <2>4. Shrinks(R, R2, k, top)
      <3> HIDE DEF k, top
      <3> QED
        BY <1>2, <1>3 DEF Shrinks, Region, SegmentOf
    <2>5. b \in this.tree /\ n <= this.mem[b].words /\ Top(this.mem, b) + 1 \notin R
      BY <1>5, <1>6, ThisIs
    <2>6. /\ Sane(this', Held, R2) /\ Kept(mem, mem', Held, R) /\ top = hi
          /\ b \in Nat /\ b < k /\ k <= hi /\ k \in Nat /\ hi \in Nat
          /\ \A a \in k .. hi : a \in R /\ mem'[a] = Static
      <3> DEFINE g == this'
      <3>1. Sane(this, Held, R) /\ IsHeap(g) /\ IsTaken(this, g, s) /\ Shrinks(R, R2, k, top)
        BY <1>4, <2>2, <2>3, <2>4
      <3> HIDE DEF g, R, R2
      <3>0. n \in Nat /\ n > 0 /\ ~s.whole
        BY <1>4, <1>8
      <3>2. Slice(this, b, n, s)
        BY Zenon DEF Slice
      <3> HIDE DEF s
      <3>4. Took(this, Held, R, b, g, R2, s)
        BY <2>5, <3>0, <3>1, <3>2, TakenIs
      <3>3. this.mem = mem /\ g.mem = mem'
        BY <2>2, ThisIs DEF g
      <3> QED
        BY <3>3, <3>4, Zenon DEF g, Took
    <2> HIDE DEF s, k, top
    <2>7. \A a : a \in static' <=> a \in static \/ a \in k .. hi
      BY <1>3, <2>6
    <2>8. /\ SegmentsSound' /\ \A a : SegmentOf(a)' = SegmentOf(a)
      BY <1>2, <1>4 DEF SegmentsSound, OneSegment, Extended, TwoSegments, SegmentOf, Segment
    <2>9. StaticSound'
      <3>1. ASSUME NEW a \in static
            PROVE  /\ a \in Addr /\ SegmentOf(a) # {} /\ mem'[a] = Static
                   /\ \A x \in Addr : a <= x /\ SegmentOf(x) = SegmentOf(a) => x \in static
        <4>1. /\ a \in Addr /\ SegmentOf(a) # {} /\ mem[a] = Static
              /\ \A x \in Addr : a <= x /\ SegmentOf(x) = SegmentOf(a) => x \in static
          BY <1>4 DEF StaticSound
        <4>2. a \notin R
          BY DEF Region
        <4> QED
          BY <2>6, <4>1, <4>2 DEF Kept
      <3>2. ASSUME NEW a \in k .. hi
            PROVE  /\ a \in Addr /\ SegmentOf(a) # {} /\ mem'[a] = Static
                   /\ \A x \in Addr : a <= x /\ SegmentOf(x) = SegmentOf(a) => x \in static'
        <4>1. a \in R /\ mem'[a] = Static /\ a \in Nat /\ hi \in R
          BY <2>6
        <4>2. a \in Addr /\ SegmentOf(a) # {} /\ hi \in Addr /\ SegmentOf(hi) # {} /\ hi \notin static
          BY <4>1 DEF Region
        <4>3. ASSUME NEW x \in Addr, a <= x, SegmentOf(x) = SegmentOf(a), x > hi PROVE x \in static
          <5>1. x \in Nat
            BY AddrIs
          <5>2. SegmentOf(hi + 1) = SegmentOf(x) /\ hi + 1 \in Addr
            <6>1. SegWords \in Nat /\ MoreWords \in Nat /\ a <= hi /\ a \in Int /\ hi \in Int /\ x \in Int
                  /\ hi + 1 \in Int
              BY <2>6, <4>1, <5>1, HeapAssumption
            <6>2. SegmentOf(hi + 1) = SegmentOf(x)
              <7>1. CASE OneSegment
                <8>1. \A y \in Int : SegmentOf(y) = IF 1 <= y /\ y <= SegWords THEN {1} ELSE {}
                  BY <1>4, <7>1, SegmentIs
                <8> QED
                  BY <4>2, <4>3, <6>1, <8>1
              <7>2. CASE Extended
                BY <1>4, <4>2, <4>3, <6>1, <7>2, SegmentIs
              <7>3. CASE TwoSegments
                <8>1. \A y \in Int :
                        SegmentOf(y) = IF 1 <= y /\ y <= SegWords THEN {1}
                                       ELSE IF SegWords + 2 <= y /\ y <= SegWords + 1 + MoreWords
                                            THEN {2} ELSE {}
                  BY <1>4, <7>3, SegmentIs
                <8> QED
                  BY <4>2, <4>3, <6>1, <8>1
              <7> QED
                BY <1>4, <7>1, <7>2, <7>3 DEF SegmentsSound
            <6>3. SegmentOf(hi + 1) # {}
              BY <4>2, <4>3, <6>2
            <6> QED
              BY <1>4, <6>1, <6>2, <6>3, SegmentIs
          <5>3. hi + 1 \in static
            BY <1>6, <4>2, <4>3, <5>2 DEF Region
          <5>4. hi + 1 <= x
            BY <2>6, <4>3, <5>1
          <5> QED
            BY <1>4, <5>2, <5>3, <5>4 DEF StaticSound
        <4>4. ASSUME NEW x \in Addr, a <= x, SegmentOf(x) = SegmentOf(a) PROVE x \in static'
          <5>1. CASE x > hi
            BY <2>7, <4>3, <4>4, <5>1
          <5>2. CASE ~(x > hi)
            BY <2>6, <2>7, <4>1, <4>4, <5>2, AddrIs
          <5> QED
            BY <5>1, <5>2
        <4> QED
          BY <4>1, <4>2, <4>4
      <3> QED
        BY <2>7, <2>8, <3>1, <3>2 DEF StaticSound
    <2>10. ClientsSound' /\ Held' = Held
      <3>1. KeptInside(mem, mem', Held)
        BY <1>4, <2>6, ThisIs, KeptIsInside DEF Sane
      <3> QED
        BY <1>2, <1>4, <3>1, ClientsStay
    <2> QED
      BY <2>6, <2>8, <2>9, <2>10 DEF HeapInv
  <1> QED
    BY <1>7, <1>8

(* The first segment ends with static memory, if there is any. *)
LEMMA NoStatic ==
  ASSUME OneSegment, StaticSound, IsTag(mem[SegWords])
  PROVE  static = {}
  <1>1. SegWords \in Nat /\ SegWords > 0 /\ SegWords \in Addr
    BY HeapAssumption DEF Addr
  <1>2. SegWords \notin static
    <2>1. ~IsTag(Static)
      BY DEF IsTag, Static
    <2> QED
      BY <2>1 DEF StaticSound
  <1>3. ASSUME NEW a \in static PROVE FALSE
    <2>1. /\ a \in Addr /\ SegmentOf(a) # {}
          /\ \A x \in Addr : a <= x /\ SegmentOf(x) = SegmentOf(a) => x \in static
      BY DEF StaticSound
    <2>2. \A x \in Int : SegmentOf(x) = IF 1 <= x /\ x <= SegWords THEN {1} ELSE {}
      BY SegmentIs DEF SegmentsSound
    <2>3. a \in Int /\ 1 <= a /\ a <= SegWords
      BY <2>1, <2>2, AddrIs
    <2> QED
      BY <1>1, <1>2, <2>1, <2>2, <2>3
  <1> QED
    BY <1>3

(* Adding memory behind the first segment preserves the invariant. *)
LEMMA AdjacentStep ==
  ASSUME HeapInv, broken = "no", OneSegment, AddAdjacent, UNCHANGED <<static, ptr, size>>
  PROVE  HeapInv'
  <1> DEFINE start == SegWords + 1
             hi == SegWords + MoreWords
             merged == Extension(this, start, MoreWords)
  <1>1. /\ Extended'
        /\ IF IsTag(mem[start - 1])
           THEN mem' = merged.mem /\ HeapIs(merged) /\ UNCHANGED broken
           ELSE broken' = "STATIC"
    BY Zenon DEF AddAdjacent, Extension, Extended, Segment
  <1>2. /\ Sane(this, Held, Region) /\ SegmentsSound /\ StaticSound /\ ClientsSound
    BY DEF HeapInv
  <1>3. /\ SegWords \in Nat /\ SegWords > 0 /\ MoreWords \in Nat /\ MoreWords > MinWords
        /\ MinWords \in Nat /\ MinWords > 2 /\ start \in Nat /\ start - 1 = SegWords /\ hi \in Nat
    BY HeapAssumption
  <1>4. CASE ~IsTag(mem[start - 1])
    BY <1>1, <1>4 DEF HeapInv
  <1>5. CASE IsTag(mem[start - 1])
    <2>1. mem' = merged.mem /\ free_tree' = merged.tree /\ free_blocks' = merged.free_blocks
      BY <1>1, <1>5 DEF HeapIs
    <2>2. static = {} /\ static' = {}
      BY <1>2, <1>3, <1>5, NoStatic
    <2>3. SegmentsSound'
      BY <1>1 DEF SegmentsSound
    <2>4. \A a : a \in Region <=> a \in 1 .. SegWords
      BY <1>2, <2>2, RegionIs
    <2>5. \A a : a \in Region' <=> a \in 1 .. hi
      <3>1. \A a \in Int : SegmentOf(a)' = IF 1 <= a /\ a <= hi THEN {1} ELSE {}
        <4> SUFFICES ASSUME NEW a \in Int PROVE SegmentOf(a)' = IF 1 <= a /\ a <= hi THEN {1} ELSE {}
          OBVIOUS
        <4>1. /\ DOMAIN segments' = {1} /\ segments'[1].first = 1 /\ segments'[1].words = hi
          BY <1>1 DEF Extended, Segment
        <4>2. \A i : i \in SegmentOf(a)' <=> i \in DOMAIN segments'
                       /\ segments'[i].first <= a /\ a < segments'[i].first + segments'[i].words
          BY DEF SegmentOf
        <4>3. \A i : i \in SegmentOf(a)' <=> i = 1 /\ 1 <= a /\ a <= hi
          BY <1>3, <4>1, <4>2
        <4> QED
          BY <4>3
      <3>2. 1 .. hi \subseteq Addr
        BY <1>3 DEF Addr
      <3>3. \A a : a \in Region' <=> a \in Addr /\ SegmentOf(a)' # {}
        BY <2>2 DEF Region
      <3>4. \A a : a \in 1 .. hi => a \in Int /\ 1 <= a /\ a <= hi
        BY <1>3
      <3>5. \A a \in Addr : a \in Int
        BY AddrIs
      <3>6. ASSUME NEW a, a \in Region' PROVE a \in 1 .. hi
        <4>1. a \in Int /\ SegmentOf(a)' # {}
          BY <3>3, <3>5, <3>6
        <4>2. 1 <= a /\ a <= hi
          BY <3>1, <4>1
        <4> QED
          BY <1>3, <4>1, <4>2
      <3>7. ASSUME NEW a, a \in 1 .. hi PROVE a \in Region'
        <4>1. a \in Int /\ 1 <= a /\ a <= hi /\ a \in Addr
          BY <3>2, <3>4, <3>7
        <4>2. SegmentOf(a)' = {1}
          BY <3>1, <4>1
        <4> QED
          BY <3>3, <4>1, <4>2
      <3> QED
        BY <3>6, <3>7
    <2>6. Grows(Region, Region', start, hi)
      BY <1>3, <2>4, <2>5 DEF Grows
    <2>7. /\ start - 1 \in Region /\ (hi - start) + 1 = MoreWords /\ hi + 1 \notin Region
          /\ \A a \in start .. hi : a \in Addr /\ a \notin Region
      BY <1>3, <2>4 DEF Addr
    <2>8. Sane(merged, Held, Region') /\ KeptInside(this.mem, merged.mem, Held)
      <3> DEFINE R2 == Region'
      <3>1. Grows(Region, R2, start, hi) /\ MoreWords >= MinWords
        BY <1>3, <2>6
      <3> HIDE DEF start, hi, R2
      <3>2. Sane(Extension(this, start, MoreWords), Held, R2)
            /\ KeptInside(this.mem, Extension(this, start, MoreWords).mem, Held)
        BY <1>2, <1>3, <2>7, <3>1, ExtensionIs
      <3> QED
        BY <3>2 DEF R2
    <2> HIDE DEF merged
    <2>9. this' = merged
      BY <2>1, <2>8 DEF this, Sane, IsHeap
    <2>10. ClientsSound' /\ Held' = Held
      <3>1. KeptInside(mem, mem', Held)
        BY <2>1, <2>8, ThisIs
      <3> QED
        BY <1>2, <3>1, ClientsStay
    <2>11. Sane(this', Held', Region')
      BY <2>8, <2>9, <2>10
    <2>12. StaticSound'
      BY <2>2 DEF StaticSound
    <2> QED
      BY <2>3, <2>10, <2>11, <2>12 DEF HeapInv
  <1> QED
    BY <1>4, <1>5

(* A free block where no block was, which ends what it is in on both sides. *)
LEMMA AddedIs ==
  ASSUME NEW h, NEW g, NEW lo \in Nat, NEW hi \in Nat, NEW words, words = (hi - lo) + 1, lo + words - 1 = hi,
         g = lub_heap_init_free_block(h, lo, words, TRUE, TRUE)
  PROVE  IsNew(h, g, lo, hi) /\ IsHeap(g)
  <1> DEFINE M == Block(h.mem, lo, words, TRUE, TRUE, TRUE)
  <1>1. g = [mem |-> M, tree |-> h.tree \cup {lo}, free_blocks |-> h.free_blocks + 1]
    BY Zenon DEF lub_heap_init_free_block
  <1>2. M = Framed(h.mem, lo, lo + words - 1, Tag(TRUE, TRUE, words), Tag(TRUE, TRUE, words))
    BY Zenon DEF Block, Framed
  <1>3. M = Framed(h.mem, lo, hi, Tag(TRUE, TRUE, words), Tag(TRUE, TRUE, words))
    BY <1>2, Zenon
  <1>4. M = Framed(h.mem, lo, hi, Tag(TRUE, TRUE, (hi - lo) + 1), Tag(TRUE, TRUE, (hi - lo) + 1))
    BY <1>3, Zenon
  <1> HIDE DEF M
  <1> DEFINE T == h.tree \cup {lo}
             n == h.free_blocks + 1
  <1>5. g = [mem |-> M, tree |-> T, free_blocks |-> n]
    BY <1>1
  <1> HIDE DEF T, n
  <1>6. g.mem = M /\ g.tree = T /\ g.free_blocks = n /\ IsHeap(g)
    BY ONLY <1>5 DEF IsHeap
  <1> QED
    BY <1>4, <1>6, Zenon DEF IsNew, T, n

(* Adding memory elsewhere preserves the invariant. *)
LEMMA ElsewhereStep ==
  ASSUME HeapInv, broken = "no", OneSegment, AddElsewhere, UNCHANGED <<static, ptr, size>>
  PROVE  HeapInv'
  <1> DEFINE start == SegWords + 2
             hi == SegWords + 1 + MoreWords
             added == lub_heap_init_free_block(this, start, MoreWords, TRUE, TRUE)
             R == Region
             R2 == Region'
  <1>1. /\ segments' = Append(segments, Segment(start, MoreWords))
        /\ mem' = added.mem /\ free_tree' = added.tree /\ free_blocks' = added.free_blocks
        /\ static' = static /\ ptr' = ptr /\ size' = size
    BY Zenon DEF AddElsewhere, HeapIs, Segment
  <1>2. /\ Sane(this, Held, R) /\ SegmentsSound /\ StaticSound /\ ClientsSound
    BY DEF HeapInv
  <1>3. /\ SegWords \in Nat /\ SegWords > 0 /\ MoreWords \in Nat /\ MoreWords > MinWords
        /\ MinWords \in Nat /\ MinWords > 2 /\ start \in Nat /\ start - 1 = SegWords + 1 /\ hi \in Nat
        /\ MoreWords = (hi - start) + 1 /\ start + MoreWords - 1 = hi /\ start < hi
    BY HeapAssumption
  <1>4. TwoSegments' /\ SegmentsSound'
    <2> DEFINE x == Segment(1, SegWords)
               y == Segment(start, MoreWords)
    <2>0. Append(<<x>>, y) = <<x, y>>
      <3> DEFINE S == {x, y}
      <3> HIDE DEF x, y
      <3>1. /\ Append(<<x>>, y) \in Seq(S) /\ <<x, y>> \in Seq(S)
            /\ Len(Append(<<x>>, y)) = 2 /\ Append(<<x>>, y)[1] = x /\ Append(<<x>>, y)[2] = y
        OBVIOUS
      <3> DEFINE f == Append(<<x>>, y)
                 t == <<x, y>>
      <3>2. f \in Seq(S) /\ t \in Seq(S) /\ Len(f) = Len(t) /\ \A i \in 1 .. Len(f) : f[i] = t[i]
        BY <3>1
      <3> HIDE DEF f, t
      <3>3. f = t
        BY <3>2, SeqEqual
      <3> QED
        BY <3>3 DEF f, t
    <2>1. TwoSegments'
      BY <1>1, <2>0, Zenon DEF OneSegment, TwoSegments
    <2> QED
      BY <2>1 DEF SegmentsSound
  <1>5. IsNew(this, added, start, hi) /\ IsHeap(added)
    <2> DEFINE g == added
    <2>1. g = lub_heap_init_free_block(this, start, MoreWords, TRUE, TRUE)
      OBVIOUS
    <2> HIDE DEF g, start, hi
    <2>2. IsNew(this, g, start, hi) /\ IsHeap(g)
      BY <1>3, <2>1, AddedIs
    <2> QED
      BY <2>2 DEF g
  <1> HIDE DEF added
  <1>6. this' = added
    BY <1>1, <1>5 DEF this, IsHeap
  (* Where the segments are, before and after. *)
  <1>7. \A a \in Int : SegmentOf(a) = IF 1 <= a /\ a <= SegWords THEN {1} ELSE {}
    BY <1>2, SegmentIs
  <1>8. \A a \in Int : SegmentOf(a)' = IF 1 <= a /\ a <= SegWords THEN {1}
                                       ELSE IF start <= a /\ a <= hi THEN {2} ELSE {}
    <2> SUFFICES ASSUME NEW a \in Int
                 PROVE  SegmentOf(a)' = IF 1 <= a /\ a <= SegWords THEN {1}
                                        ELSE IF start <= a /\ a <= hi THEN {2} ELSE {}
      OBVIOUS
    <2>1. /\ DOMAIN segments' = {1, 2} /\ segments'[1].first = 1 /\ segments'[1].words = SegWords
          /\ segments'[2].first = start /\ segments'[2].words = MoreWords
      BY <1>4 DEF TwoSegments, Segment
    <2>2. \A i : i \in SegmentOf(a)' <=> i \in DOMAIN segments'
                   /\ segments'[i].first <= a /\ a < segments'[i].first + segments'[i].words
      BY DEF SegmentOf
    <2>3. \A i : i \in SegmentOf(a)' <=> \/ i = 1 /\ 1 <= a /\ a <= SegWords
                                         \/ i = 2 /\ start <= a /\ a <= hi
      BY <1>3, <2>1, <2>2
    <2> QED
      BY <1>3, <2>3
  <1>9. \A a \in Addr : a \in Int /\ 1 <= a /\ a <= hi
    BY <1>3 DEF Addr
  <1>10. \A a \in Int : (1 <= a /\ a <= hi) => a \in Addr
    BY <1>3 DEF Addr
  <1>11. \A a \in static : a \in Int /\ 1 <= a /\ a <= SegWords
    <2>1. \A a \in static : a \in Addr /\ SegmentOf(a) # {}
      BY <1>2 DEF StaticSound
    <2> QED
      BY <1>7, <1>9, <2>1
  <1>12. \A a \in R : a \in Int /\ 1 <= a /\ a <= SegWords
    <2>1. \A a \in R : a \in Addr /\ SegmentOf(a) # {}
      BY DEF Region
    <2> QED
      BY <1>7, <1>9, <2>1
  <1>13. Grows(R, R2, start, hi)
    <2>1. ASSUME NEW a, a \in R2 PROVE a \in R \/ a \in start .. hi
      <3>1. a \in Addr /\ SegmentOf(a)' # {} /\ a \notin static
        BY <1>1, <2>1 DEF Region
      <3>2. a \in Int /\ ((1 <= a /\ a <= SegWords) \/ (start <= a /\ a <= hi))
        BY <1>8, <1>9, <3>1
      <3>3. CASE 1 <= a /\ a <= SegWords
        BY <1>7, <3>1, <3>2, <3>3 DEF Region
      <3>4. CASE start <= a /\ a <= hi
        BY <1>3, <3>2, <3>4
      <3> QED
        BY <3>2, <3>3, <3>4
    <2>2. ASSUME NEW a \in R PROVE a \in R2
      <3>1. a \in Int /\ 1 <= a /\ a <= SegWords /\ a \in Addr /\ a \notin static
        BY <1>12 DEF Region
      <3>2. SegmentOf(a)' = {1}
        BY <1>8, <3>1
      <3> QED
        BY <1>1, <3>1, <3>2 DEF Region
    <2>3. ASSUME NEW a \in start .. hi PROVE a \in R2
      <3>1. a \in Int /\ start <= a /\ a <= hi /\ ~(1 <= a /\ a <= SegWords)
        BY <1>3
      <3>2. SegmentOf(a)' = {2} /\ a \notin static /\ a \in Addr
        BY <1>3, <1>8, <1>10, <1>11, <3>1
      <3> QED
        BY <1>1, <3>2 DEF Region
    <2> QED
      BY <2>1, <2>2, <2>3 DEF Grows
  <1>14. /\ start - 1 \notin R /\ hi + 1 \notin R
         /\ \A a \in start .. hi : a \in Addr /\ a \notin R
    BY <1>3, <1>10, <1>12
  <1> HIDE DEF R, R2, start, hi
  <1>15. Sane(added, Held, R2) /\ \A a \in Addr : a < start \/ hi < a => added.mem[a] = mem[a]
    <2>1. (hi - start) + 1 >= MinWords
      BY <1>3
    <2>2. Sane(added, Held, R2) /\ \A a \in Addr : a < start \/ hi < a => added.mem[a] = this.mem[a]
      BY <1>2, <1>3, <1>5, <1>13, <1>14, <2>1, NewIs
    <2> QED
      BY <2>2, ThisIs
  <1>16. \A a \in Addr : a <= SegWords => mem'[a] = mem[a]
    <2>1. \A a \in Addr : a <= SegWords => a < start
      BY <1>3, <1>9 DEF start
    <2> QED
      BY <1>1, <1>15, <2>1
  <1>17. ClientsSound' /\ Held' = Held
    <2>1. KeptInside(mem, mem', Held)
      <3> SUFFICES ASSUME NEW c \in Held, NEW a \in Addr, c <= a, a < Top(mem, c) PROVE mem'[a] = mem[a]
        BY DEF KeptInside
      <3>1. /\ c \in Nat /\ Top(mem, c) \in Nat /\ Top(mem, c) \in R
        BY <1>2, ThisIs, BlockOf DEF Sane
      <3>2. a <= SegWords
        BY <1>3, <1>9, <1>12, <3>1
      <3> QED
        BY <1>16, <3>2
    <2> QED
      BY <1>1, <1>2, <2>1, ClientsStay DEF R
  <1>18. StaticSound'
    <2> SUFFICES ASSUME NEW a \in static
                 PROVE  /\ a \in Addr /\ SegmentOf(a)' # {} /\ mem'[a] = Static
                        /\ \A x \in Addr : a <= x /\ SegmentOf(x)' = SegmentOf(a)' => x \in static
      BY <1>1 DEF StaticSound
    <2>1. /\ a \in Addr /\ SegmentOf(a) # {} /\ mem[a] = Static /\ a \in Int /\ 1 <= a /\ a <= SegWords
          /\ \A x \in Addr : a <= x /\ SegmentOf(x) = SegmentOf(a) => x \in static
      BY <1>2, <1>11 DEF StaticSound
    <2>2. SegmentOf(a)' = {1} /\ SegmentOf(a) = {1} /\ mem'[a] = Static
      BY <1>7, <1>8, <1>16, <2>1
    <2>3. ASSUME NEW x \in Addr, a <= x, SegmentOf(x)' = {1} PROVE SegmentOf(x) = {1}
      BY <1>7, <1>8, <1>9, <2>3
    <2> QED
      BY <2>1, <2>2, <2>3
  <1>19. Sane(this', Held', Region')
    BY <1>6, <1>15, <1>17 DEF R2
  <1> QED
    BY <1>4, <1>17, <1>18, <1>19 DEF HeapInv

(* Adding memory, either way. *)
LEMMA SegmentStep ==
  ASSUME HeapInv, lub_heap_add_segment
  PROVE  HeapInv'
  <1>1. broken = "no" /\ OneSegment /\ UNCHANGED <<static, ptr, size>> /\ (AddAdjacent \/ AddElsewhere)
    BY Zenon DEF lub_heap_add_segment, OneSegment, Segment
  <1> QED
    BY <1>1, AdjacentStep, ElsewhereStep

(* The heap is created with one free block. *)
LEMMA InitHolds ==
  ASSUME Init
  PROVE  HeapInv
  <1> DEFINE m == [a \in Addr |-> Taint]
             e == [mem |-> m, tree |-> {}, free_blocks |-> 0]
             N == {}
  <1>1. /\ SegWords \in Nat /\ SegWords > 0 /\ MoreWords \in Nat /\ SegWords > MinWords
        /\ MinWords \in Nat /\ MinWords > 2 /\ SegWords = (SegWords - 1) + 1 /\ 1 + SegWords - 1 = SegWords
    BY HeapAssumption
  <1>2. SegmentsSound /\ OneSegment /\ static = {}
    BY DEF Init, SegmentsSound, OneSegment, Segment
  <1>3. Held = N
    BY DEF Init, Held, NULL
  <1>4. e.mem = m /\ e.tree = {} /\ e.free_blocks = 0 /\ IsHeap(e)
    <2> HIDE DEF m
    <2> QED
      BY DEF IsHeap
  <1>5. Sane(e, N, N)
    <2>1. Tiling(m, {}, N, N) /\ NoPairs(m, {})
      BY DEF Tiling, NoPairs
    <2>2. Counted(e)
      BY <1>4, FS_EmptySet DEF Counted
    <2> QED
      BY <1>4, <2>1, <2>2, Zenon DEF Sane
  <1>6. this = lub_heap_init_free_block(e, 1, SegWords, TRUE, TRUE)
    <2>1. this = [mem |-> Block(m, 1, SegWords, TRUE, TRUE, TRUE), tree |-> {1}, free_blocks |-> 1]
      BY Zenon DEF Init, this
    <2>2. {1} = {} \cup {1} /\ 1 = 0 + 1
      OBVIOUS
    <2>3. lub_heap_init_free_block(e, 1, SegWords, TRUE, TRUE)
            = [mem |-> Block(e.mem, 1, SegWords, TRUE, TRUE, TRUE), tree |-> e.tree \cup {1},
               free_blocks |-> e.free_blocks + 1]
      BY Zenon DEF lub_heap_init_free_block
    <2> HIDE DEF e
    <2> QED
      BY <1>4, <2>1, <2>2, <2>3, Zenon
  <1> HIDE DEF e, m, N
  <1>7. IsNew(e, this, 1, SegWords) /\ IsHeap(this)
    BY <1>1, <1>6, AddedIs
  <1>8. Grows(N, Region, 1, SegWords)
    <2>1. \A a : a \in Region <=> a \in 1 .. SegWords
      BY <1>2, RegionIs
    <2> QED
      BY <2>1 DEF Grows, N
  <1>9. Sane(this, N, Region)
    <2>1. /\ \A a \in 1 .. SegWords : a \in Addr /\ a \notin N
          /\ 1 - 1 \notin N /\ SegWords + 1 \notin N /\ 1 < SegWords /\ (SegWords - 1) + 1 >= MinWords
      BY <1>1 DEF Addr, N
    <2> QED
      BY <1>1, <1>5, <1>7, <1>8, <2>1, NewIs
  <1>10. StaticSound
    BY <1>2 DEF StaticSound
  <1>11. ClientsSound
    BY DEF Init, ClientsSound, Owns, NULL
  <1> QED
    BY <1>2, <1>3, <1>9, <1>10, <1>11 DEF HeapInv

(* The blocks of the heap tile its segments, next to static memory. *)
THEOREM TilingInvariant == Spec => []HeapInv
  <1>1. Init => HeapInv
    BY InitHolds
  <1>2. HeapInv /\ [Next]_vars => HeapInv'
    <2> SUFFICES ASSUME HeapInv, [Next]_vars PROVE HeapInv'
      OBVIOUS
    <2>1. ASSUME NEW c \in Client, NEW n \in Size, lub_heap_realloc(c, n) PROVE HeapInv'
      BY <2>1, ReallocStep
    <2>2. ASSUME NEW n \in StaticSize, lub_heap_static_alloc(n) PROVE HeapInv'
      BY <2>2, StaticStep
    <2>3. CASE lub_heap_add_segment
      BY <2>3, SegmentStep
    <2>4. CASE UNCHANGED vars
      <3>1. /\ broken' = broken /\ this' = this /\ Held' = Held /\ Region' = Region /\ mem' = mem
            /\ static' = static /\ ptr' = ptr /\ size' = size /\ segments' = segments
        BY <2>4 DEF vars, this, Held, Region, SegmentOf
      <3>2. /\ SegmentsSound => SegmentsSound'
            /\ StaticSound => StaticSound'
            /\ ClientsSound => ClientsSound'
        BY <3>1 DEF SegmentsSound, OneSegment, Extended, TwoSegments, StaticSound, SegmentOf, ClientsSound
      <3>3. Sane(this, Held, Region) => Sane(this', Held', Region')
        BY <3>1, Zenon
      <3>4. broken' = broken
        BY <3>1
      <3> QED
        BY <3>2, <3>3, <3>4 DEF HeapInv
    <2> QED
      BY <2>1, <2>2, <2>3, <2>4 DEF Next
  <1> QED
    BY <1>1, <1>2, PTL DEF Spec

(* Words that follow each other in Region are of one segment. *)
LEMMA OneRow ==
  ASSUME SegmentsSound, NEW x \in Int, NEW y \in Int, x <= y, x .. y \subseteq Region
  PROVE  SegmentOf(x) = SegmentOf(y)
  <1>1. x \in Region /\ y \in Region /\ \A a \in Int : x <= a /\ a <= y => a \in Region
    OBVIOUS
  <1>2. SegmentOf(x) # {} /\ SegmentOf(y) # {}
    BY <1>1 DEF Region
  <1>3. SegWords \in Nat /\ MoreWords \in Nat
    BY HeapAssumption
  <1>4. CASE OneSegment
    BY <1>2, <1>4, SegmentIs
  <1>5. CASE Extended
    BY <1>2, <1>5, SegmentIs
  <1>6. CASE TwoSegments
    <2>1. \A a \in Int : SegmentOf(a) = IF 1 <= a /\ a <= SegWords THEN {1}
                                        ELSE IF SegWords + 2 <= a /\ a <= SegWords + 1 + MoreWords
                                             THEN {2} ELSE {}
      BY <1>6, SegmentIs
    <2>2. SegWords + 1 \notin Region
      BY <1>3, <2>1 DEF Region
    <2>3. ~(x <= SegWords + 1 /\ SegWords + 1 <= y)
      BY <1>1, <1>3, <2>2
    <2> QED
      BY <1>2, <1>3, <2>1, <2>3
  <1> QED
    BY <1>4, <1>5, <1>6 DEF SegmentsSound

(* Every word of Region is in one block, and no other word is in any. *)
LEMMA CoveredOnce ==
  ASSUME Sane(this, Held, Region), NEW a \in Addr
  PROVE  Cardinality({b \in free_tree \cup Held : Covers(b, a)})
           = IF SegmentOf(a) = {} \/ a \in static THEN 0 ELSE 1
  <1> DEFINE C == {b \in free_tree \cup Held : Covers(b, a)}
  <1>1. Tiling(mem, free_tree, Held, Region) /\ a \in Nat
    BY ThisIs, AddrIs DEF Sane
  <1>2. \A b \in free_tree \cup Held : Covers(b, a) <=> a \in b .. Top(mem, b)
    <2> SUFFICES ASSUME NEW b \in free_tree \cup Held PROVE Covers(b, a) <=> a \in b .. Top(mem, b)
      OBVIOUS
    <2>1. b \in Nat /\ mem[b].words \in Nat
      BY <1>1, BlockOf
    <2> QED
      BY <1>1, <2>1 DEF Covers, Top
  <1>3. CASE a \in Region
    <2>1. PICK b \in free_tree \cup Held : a \in b .. Top(mem, b)
      BY <1>1, <1>3 DEF Tiling
    <2>2. \A c \in free_tree \cup Held : a \in c .. Top(mem, c) => c = b
      BY <1>1, <2>1, Apart
    <2>3. C = {b}
      BY <1>2, <2>1, <2>2
    <2>4. Cardinality(C) = 1
      BY <2>3, FS_Singleton
    <2> QED
      BY <1>3, <2>4 DEF Region
  <1>4. CASE a \notin Region
    <2>1. \A b \in free_tree \cup Held : b .. Top(mem, b) \subseteq Region
      BY <1>1 DEF Tiling
    <2>2. C = {}
      BY <1>2, <1>4, <2>1
    <2>3. Cardinality(C) = 0
      BY <2>2, FS_EmptySet
    <2> QED
      BY <1>4, <2>3 DEF Region
  <1> QED
    BY <1>3, <1>4

(* The tags of a block mark where its row of blocks begins and ends. *)
LEMMA MarksAre ==
  ASSUME Sane(this, Held, Region), SegmentsSound, StaticSound, NEW b \in free_tree \cup Held
  PROVE  LET tail == Top(mem, b)
         IN  /\ (\A i \in SegmentOf(b) : segments[i].first = b) <=> b - 1 \notin Region
             /\ (SegmentOf(tail + 1) # SegmentOf(b) \/ tail + 1 \in static) <=> tail + 1 \notin Region
  <1> DEFINE tail == Top(mem, b)
  <1>1. /\ b \in Nat /\ tail \in Nat /\ b < tail /\ b \in Region /\ tail \in Region
        /\ b .. tail \subseteq Region
    BY ThisIs, BlockOf DEF Sane
  <1>2. /\ b \in Addr /\ SegmentOf(b) # {} /\ b \notin static
    BY <1>1 DEF Region
  <1>3. SegWords \in Nat /\ MoreWords \in Nat
    BY HeapAssumption
  <1> HIDE DEF tail
  <1>4. (SegmentOf(tail + 1) # SegmentOf(b) \/ tail + 1 \in static) <=> tail + 1 \notin Region
    <2>1. ASSUME tail + 1 \in Region PROVE SegmentOf(tail + 1) = SegmentOf(b) /\ tail + 1 \notin static
      <3>1. b .. tail + 1 \subseteq Region
        BY <1>1, <2>1
      <3>2. SegmentOf(b) = SegmentOf(tail + 1)
        BY <1>1, <3>1, OneRow
      <3> QED
        BY <2>1, <3>2 DEF Region
    <2>2. ASSUME SegmentOf(tail + 1) = SegmentOf(b), tail + 1 \notin static PROVE tail + 1 \in Region
      <3>1. SegmentOf(tail + 1) # {} /\ tail + 1 \in Int
        BY <1>1, <1>2, <2>2
      <3>2. tail + 1 \in Addr
        BY <3>1, SegmentIs
      <3> QED
        BY <2>2, <3>1, <3>2 DEF Region
    <2> QED
      BY <2>1, <2>2
  <1>5. (\A i \in SegmentOf(b) : segments[i].first = b) <=> b - 1 \notin Region
    <2>1. \A i \in SegmentOf(b) : segments[i].first \in Int /\ segments[i].first <= b
      <3>1. \A i \in SegmentOf(b) : i \in DOMAIN segments /\ segments[i].first <= b
        BY DEF SegmentOf
      <3>2. \A i \in DOMAIN segments : segments[i].first \in Int
        BY <1>3 DEF SegmentsSound, OneSegment, Extended, TwoSegments, Segment
      <3> QED
        BY <3>1, <3>2
    <2>2. ASSUME b - 1 \in Region, NEW i \in SegmentOf(b) PROVE segments[i].first # b
      <3>1. \A a \in b - 1 .. b : a = b - 1 \/ a = b
        BY <1>1
      <3>2. b - 1 \in Int /\ b - 1 <= b /\ b - 1 .. b \subseteq Region
        BY <1>1, <2>2, <3>1
      <3>3. SegmentOf(b - 1) = SegmentOf(b)
        BY <1>1, <3>2, OneRow
      <3>4. segments[i].first <= b - 1
        BY <2>2, <3>3 DEF SegmentOf
      <3> QED
        BY <1>1, <2>1, <3>4
    <2>3. ASSUME NEW i \in SegmentOf(b), segments[i].first # b PROVE b - 1 \in Region
      <3>1. SegmentOf(b - 1) = SegmentOf(b)
        <4>1. segments[i].first < b /\ segments[i].first \in Int
          BY <1>1, <2>1, <2>3
        <4>2. CASE OneSegment
          <5>1. i = 1 /\ segments[i].first = 1
            BY <4>2 DEF OneSegment, Segment, SegmentOf
          <5>2. \A a \in Int : SegmentOf(a) = IF 1 <= a /\ a <= SegWords THEN {1} ELSE {}
            BY <4>2, SegmentIs
          <5>3. b \in Int /\ b - 1 \in Int /\ 1 <= b - 1 /\ b <= SegWords
            BY <1>1, <1>2, <4>1, <5>1, <5>2
          <5> QED
            BY <1>3, <5>2, <5>3
        <4>3. CASE Extended
          <5>1. i = 1 /\ segments[i].first = 1
            BY <4>3 DEF Extended, Segment, SegmentOf
          <5>2. \A a \in Int : SegmentOf(a) = IF 1 <= a /\ a <= SegWords + MoreWords THEN {1} ELSE {}
            BY <4>3, SegmentIs
          <5>3. b \in Int /\ b - 1 \in Int /\ 1 <= b - 1 /\ b <= SegWords + MoreWords
            BY <1>1, <1>2, <4>1, <5>1, <5>2
          <5> QED
            BY <1>3, <5>2, <5>3
        <4>4. CASE TwoSegments
          <5>1. (i = 1 /\ segments[i].first = 1) \/ (i = 2 /\ segments[i].first = SegWords + 2)
            BY <4>4 DEF TwoSegments, Segment, SegmentOf
          <5>2. \A a \in Int : SegmentOf(a) = IF 1 <= a /\ a <= SegWords THEN {1}
                                              ELSE IF SegWords + 2 <= a /\ a <= SegWords + 1 + MoreWords
                                                   THEN {2} ELSE {}
            BY <4>4, SegmentIs
          <5>3. CASE i = 1 /\ segments[i].first = 1
            <6>1. 1 <= b /\ b <= SegWords /\ b \in Int /\ b - 1 \in Int
              BY <1>1, <1>3, <2>3, <5>2, <5>3
            <6>2. 1 <= b - 1 /\ b - 1 <= SegWords
              BY <1>3, <4>1, <5>3, <6>1
            <6> QED
              BY <5>2, <6>1, <6>2
          <5>4. CASE i = 2 /\ segments[i].first = SegWords + 2
            <6>1. SegWords + 2 <= b /\ b <= SegWords + 1 + MoreWords /\ b \in Int /\ b - 1 \in Int
              BY <1>1, <1>3, <2>3, <5>2, <5>4
            <6>2. SegWords + 2 <= b - 1 /\ b - 1 <= SegWords + 1 + MoreWords /\ ~(b <= SegWords)
                  /\ ~(b - 1 <= SegWords)
              BY <1>3, <4>1, <5>4, <6>1
            <6> QED
              BY <5>2, <6>1, <6>2
          <5> QED
            BY <5>1, <5>3, <5>4
        <4> QED
          BY <4>2, <4>3, <4>4 DEF SegmentsSound
      <3>2. b - 1 \in Int /\ b - 1 <= b
        BY <1>1
      <3>3. b - 1 \in Addr
        BY <1>2, <3>1, <3>2, SegmentIs
      <3>4. b - 1 \notin static
        BY <1>2, <3>1, <3>2 DEF StaticSound
      <3> QED
        BY <1>2, <3>1, <3>3, <3>4 DEF Region
    <2> QED
      BY <2>2, <2>3, <1>2
  <1> QED
    BY <1>4, <1>5 DEF tail

(* The blocks are what their neighbours rely on. *)
THEOREM BlocksCorrect == Spec => []BlocksTile
  <1>1. HeapInv => BlocksTile
    <2> SUFFICES ASSUME HeapInv, broken = "no" PROVE BlocksTile
      BY DEF BlocksTile
    <2> DEFINE blocks == free_tree \cup Held
    <2>1. Sane(this, Held, Region) /\ SegmentsSound /\ StaticSound /\ ClientsSound
      BY DEF HeapInv
    <2>2. /\ Tiling(mem, free_tree, Held, Region) /\ NoPairs(mem, free_tree)
          /\ free_blocks = Cardinality(free_tree)
      BY <2>1, ThisIs DEF Sane, Counted
    <2>3. \A b : lub_heap_block__get_tail(this, b) = Top(mem, b)
      BY ThisIs DEF lub_heap_block__get_tail, Top
    <2>4. ASSUME NEW b \in blocks
          PROVE  LET tail == lub_heap_block__get_tail(this, b)
                     ends == SegmentOf(tail + 1) # SegmentOf(b) \/ tail + 1 \in static
                 IN  /\ mem[b] = Tag(b \in free_tree, \A i \in SegmentOf(b) : segments[i].first = b,
                                     mem[b].words)
                     /\ mem[tail] = Tag(b \in free_tree, ends, mem[b].words)
                     /\ ~ends /\ b \in free_tree => tail + 1 \notin free_tree
      <3> DEFINE tail == Top(mem, b)
                 starts == \A i \in SegmentOf(b) : segments[i].first = b
                 ends == SegmentOf(tail + 1) # SegmentOf(b) \/ tail + 1 \in static
      <3>1. /\ mem[b] = Tag(b \in free_tree, b - 1 \notin Region, mem[b].words)
            /\ mem[tail] = Tag(b \in free_tree, tail + 1 \notin Region, mem[b].words)
        BY <2>2, Zenon DEF Tiling, Sound, Tells
      <3>2. (starts <=> b - 1 \notin Region) /\ (ends <=> tail + 1 \notin Region)
        BY <2>1, MarksAre
      <3>3. starts = (b - 1 \notin Region) /\ ends = (tail + 1 \notin Region)
        BY <3>2, Zenon
      <3>4. mem[b] = Tag(b \in free_tree, starts, mem[b].words)
        BY <3>1, <3>3, Zenon
      <3>5. mem[tail] = Tag(b \in free_tree, ends, mem[b].words)
        BY <3>1, <3>3, Zenon
      <3>6. b \in free_tree => tail + 1 \notin free_tree
        BY <2>2 DEF NoPairs
      <3>7. lub_heap_block__get_tail(this, b) = tail
        BY <2>3
      <3> QED
        BY <3>4, <3>5, <3>6, <3>7, Zenon
    <2>5. free_tree \cap Held = {}
      BY <2>2 DEF Tiling
    <2>6. \A c, d \in Client : ptr[c] = ptr[d] /\ c # d => ptr[c] = NULL
      BY <2>1 DEF ClientsSound
    <2>7. \A a \in Addr : Cardinality({b \in blocks : Covers(b, a)})
                            = IF SegmentOf(a) = {} \/ a \in static THEN 0 ELSE 1
      BY <2>1, CoveredOnce
    <2> QED
      BY <2>2, <2>4, <2>5, <2>6, <2>7, Zenon DEF BlocksTile
  <1> QED
    BY <1>1, TilingInvariant, PTL

(* A client finds in its block what it wrote there. *)
THEOREM ContentsCorrect == Spec => []ContentsKept
  <1>1. HeapInv => ContentsKept
    BY DEF HeapInv, ClientsSound, Owns, StaticSound, ContentsKept, ContentsUnchanged
  <1> QED
    BY <1>1, TilingInvariant, PTL

-----------------------------------------------------------------------------
(* The heap's own check. *)

(* The first word of a segment is never static memory. *)
FirstsKept == \A i \in DOMAIN segments : segments[i].first \notin static

FirstInv == broken = "no" => FirstsKept

LEMMA FirstIs ==
  ASSUME SegmentsSound, NEW i \in DOMAIN segments
  PROVE  /\ segments[i].first \in Int /\ SegmentOf(segments[i].first) = {i}
         /\ \A a \in Int : i \in SegmentOf(a) => SegmentOf(a) = {i} /\ segments[i].first <= a
         /\ segments[i].first > 0 /\ Len(segments) \in Nat /\ DOMAIN segments = 1 .. Len(segments)
  <1>1. SegWords \in Nat /\ MoreWords \in Nat /\ SegWords > 0 /\ MoreWords > 0
    BY HeapAssumption
  <1>2. CASE OneSegment
    <2>1. segments[1].first = 1 /\ i = 1 /\ Len(segments) = 1 /\ DOMAIN segments = 1 .. 1
      BY <1>2 DEF OneSegment, Segment
    <2>2. \A a \in Int : SegmentOf(a) = IF 1 <= a /\ a <= SegWords THEN {1} ELSE {}
      BY <1>2, SegmentIs
    <2> QED
      BY <1>1, <2>1, <2>2
  <1>3. CASE Extended
    <2>1. segments[1].first = 1 /\ i = 1 /\ Len(segments) = 1 /\ DOMAIN segments = 1 .. 1
      BY <1>3 DEF Extended, Segment
    <2>2. \A a \in Int : SegmentOf(a) = IF 1 <= a /\ a <= SegWords + MoreWords THEN {1} ELSE {}
      BY <1>3, SegmentIs
    <2> QED
      BY <1>1, <2>1, <2>2
  <1>4. CASE TwoSegments
    <2>1. /\ segments[1].first = 1 /\ segments[2].first = SegWords + 2 /\ (i = 1 \/ i = 2)
          /\ Len(segments) = 2 /\ DOMAIN segments = 1 .. 2
      BY <1>4 DEF TwoSegments, Segment
    <2>2. \A a \in Int : SegmentOf(a) = IF 1 <= a /\ a <= SegWords THEN {1}
                                        ELSE IF SegWords + 2 <= a /\ a <= SegWords + 1 + MoreWords
                                             THEN {2} ELSE {}
      BY <1>4, SegmentIs
    <2> QED
      BY <1>1, <2>1, <2>2
  <1> QED
    BY <1>2, <1>3, <1>4 DEF SegmentsSound

(* Only words behind the first one of a block become static memory. *)
LEMMA StaticGiven ==
  ASSUME HeapInv, NEW n \in StaticSize, lub_heap_static_alloc(n), broken' = "no"
  PROVE  \E b \in free_tree, k \in Nat : b < k /\ static' = static \cup (k .. Top(mem, b))
  <1>1. PICK b \in FindNext(this, n, EndsSegment) :
          LET s == lub_heap_slice_from_top(this, b, n, TRUE)
              given == s.block .. s.block + s.words - 1
          IN  /\ mem' = Written(s.h.mem, [a \in given |-> Static])
              /\ HeapIs(s.h)
              /\ static' = static \cup given
              /\ broken' = IF s.whole THEN "STATIC" ELSE broken
    BY Zenon DEF lub_heap_static_alloc
  <1> DEFINE s == lub_heap_slice_from_top(this, b, n, TRUE)
             left == mem[b].words - n
  <1>2. /\ static' = static \cup (s.block .. s.block + s.words - 1)
        /\ broken' = IF s.whole THEN "STATIC" ELSE broken
    BY <1>1, Zenon
  <1>3. ~s.whole
    BY <1>2
  <1>4. s.block = b + left /\ s.words = n /\ LeavesBlock(left)
    <2>1. CASE LeavesBlock(left)
      BY <2>1, ThisIs DEF lub_heap_slice_from_top
    <2>2. CASE ~LeavesBlock(left)
      <3>1. s.whole = TRUE
        BY <2>2, ThisIs DEF lub_heap_slice_from_top
      <3> QED
        BY <1>3, <3>1
    <2> QED
      BY <2>1, <2>2
  <1> HIDE DEF s
  <1>5. b \in free_tree
    BY ThisIs DEF FindNext
  <1>6. broken = "no"
    BY DEF lub_heap_static_alloc
  <1>7. b \in Nat /\ mem[b].words \in Nat /\ n \in Nat /\ MinWords \in Nat
    BY <1>5, <1>6, ThisIs, BlockOf, HeapAssumption DEF HeapInv, Sane
  <1>8. left > 0 /\ left \in Int
    BY <1>4, <1>7, AddrIs DEF LeavesBlock
  <1>9. b + left \in Nat /\ b < b + left /\ b + left + n - 1 = Top(mem, b)
    BY <1>7, <1>8 DEF Top
  <1> QED
    BY <1>2, <1>4, <1>5, <1>9

LEMMA FirstsStep ==
  ASSUME HeapInv, FirstInv, [Next]_vars
  PROVE  FirstInv'
  <1> SUFFICES ASSUME broken' = "no" PROVE FirstsKept'
    BY DEF FirstInv
  <1>1. ASSUME segments' = segments, static' = static, broken = "no" PROVE FirstsKept'
    BY <1>1 DEF FirstInv, FirstsKept
  <1>2. ASSUME NEW c \in Client, NEW n \in Size, lub_heap_realloc(c, n) PROVE FirstsKept'
    BY <1>1, <1>2 DEF lub_heap_realloc
  <1>3. ASSUME NEW n \in StaticSize, lub_heap_static_alloc(n) PROVE FirstsKept'
    <2>1. broken = "no" /\ segments' = segments
      BY <1>3 DEF lub_heap_static_alloc
    <2>2. Sane(this, Held, Region) /\ SegmentsSound /\ FirstsKept
      BY <2>1 DEF HeapInv, FirstInv
    <2>3. PICK b \in free_tree, k \in Nat : b < k /\ static' = static \cup (k .. Top(mem, b))
      BY <1>3, StaticGiven
    <2>4. b \in Nat /\ Top(mem, b) \in Nat /\ b .. Top(mem, b) \subseteq Region
      BY <2>2, ThisIs, BlockOf DEF Sane
    <2> SUFFICES ASSUME NEW i \in DOMAIN segments, segments[i].first \in k .. Top(mem, b) PROVE FALSE
      BY <2>1, <2>2, <2>3 DEF FirstsKept
    <2> DEFINE f == segments[i].first
    <2>5. f \in Int /\ SegmentOf(f) = {i} /\ b < f
      BY <2>2, <2>3, <2>4, FirstIs
    <2>6. b .. f \subseteq Region /\ b <= f /\ b \in Int
      BY <2>3, <2>4, <2>5
    <2>7. SegmentOf(b) = {i}
      BY <2>2, <2>5, <2>6, OneRow
    <2>8. f <= b
      BY <2>2, <2>6, <2>7, FirstIs
    <2> QED
      BY <2>4, <2>5, <2>8
  <1>4. CASE lub_heap_add_segment
    <2>1. broken = "no" /\ segments = <<Segment(1, SegWords)>> /\ static' = static
      BY <1>4 DEF lub_heap_add_segment, Segment
    <2>2. SegmentsSound /\ StaticSound /\ FirstsKept /\ OneSegment
      BY <2>1 DEF HeapInv, FirstInv, OneSegment
    <2>3. segments[1].first = 1 /\ DOMAIN segments = {1} /\ 1 \notin static
      BY <2>1, <2>2 DEF Segment, FirstsKept
    <2>4. SegmentsSound'
      BY <1>4, SegmentStep DEF HeapInv
    <2>5. SegWords + 2 \notin static
      <3>1. SegWords + 2 \in Int /\ ~(SegWords + 2 <= SegWords)
        BY HeapAssumption
      <3>2. SegmentOf(SegWords + 2) = {}
        BY <2>2, <3>1, SegmentIs
      <3> QED
        BY <2>2, <3>2 DEF StaticSound
    <2>6. \A i \in DOMAIN segments' : segments'[i].first \in {1, SegWords + 2}
      BY <2>4 DEF SegmentsSound, OneSegment, Extended, TwoSegments, Segment
    <2> QED
      BY <2>1, <2>3, <2>5, <2>6 DEF FirstsKept
  <1>5. CASE UNCHANGED vars
    BY <1>1, <1>5 DEF vars
  <1> QED
    BY <1>2, <1>3, <1>4, <1>5 DEF Next

(* The blocks of a segment, and how many of them from b on are free. *)
Blocks(i) == {b \in free_tree \cup Held : SegmentOf(b) = {i}}
FreeFrom(i, b) == {f \in free_tree : SegmentOf(f) = {i} /\ b <= f}

(* What is known of the memory while nothing has gone wrong. *)
Intact == HeapInv /\ FirstInv /\ broken = "no"

LEMMA IntactIs ==
  ASSUME Intact
  PROVE  /\ Sane(this, Held, Region) /\ SegmentsSound /\ StaticSound /\ FirstsKept
         /\ Tiling(mem, free_tree, Held, Region) /\ IsFiniteSet(free_tree)
         /\ free_blocks = Cardinality(free_tree)
  BY ThisIs DEF Intact, HeapInv, FirstInv, Sane, Counted

(* A segment begins with a block. *)
LEMMA FirstBlock ==
  ASSUME Intact, NEW i \in DOMAIN segments
  PROVE  segments[i].first \in Blocks(i)
  <1> DEFINE f == segments[i].first
  <1>1. Tiling(mem, free_tree, Held, Region) /\ SegmentsSound /\ FirstsKept
    BY IntactIs
  <1>2. f \in Int /\ SegmentOf(f) = {i}
    BY <1>1, FirstIs
  <1>3. f \in Region
    BY <1>1, <1>2, SegmentIs DEF Region, FirstsKept
  <1>4. PICK b \in free_tree \cup Held : f \in b .. Top(mem, b)
    BY <1>1, <1>3 DEF Tiling
  <1>5. b \in Nat /\ Top(mem, b) \in Nat /\ b .. Top(mem, b) \subseteq Region
    BY <1>1, BlockOf
  <1>6. b .. f \subseteq Region /\ b <= f
    BY <1>2, <1>4, <1>5
  <1>7. SegmentOf(b) = {i}
    BY <1>1, <1>2, <1>5, <1>6, OneRow
  <1>8. f <= b
    BY <1>1, <1>5, <1>7, FirstIs
  <1>9. f = b
    BY <1>2, <1>5, <1>6, <1>8
  <1> QED
    BY <1>4, <1>7, <1>9 DEF Blocks

(* No free block of a segment is behind one whose tag says that the row ends. *)
LEMMA LastOfRow ==
  ASSUME Intact, NEW i \in DOMAIN segments, NEW b \in Blocks(i), Top(mem, b) + 1 \notin Region,
         NEW f \in Blocks(i), b < f
  PROVE  FALSE
  <1> DEFINE t == Top(mem, b)
  <1>1. /\ Tiling(mem, free_tree, Held, Region) /\ SegmentsSound /\ StaticSound
    BY IntactIs
  <1>2. b \in free_tree \cup Held /\ f \in free_tree \cup Held /\ SegmentOf(b) = {i} /\ SegmentOf(f) = {i}
    BY DEF Blocks
  <1>3. b \in Nat /\ f \in Nat /\ t \in Nat /\ f \in Region /\ b < t /\ t < f
    <2>1. b \in Nat /\ f \in Nat /\ t \in Nat /\ f \in Region /\ b < t
      BY <1>1, <1>2, BlockOf
    <2>2. t < f
      BY <1>1, <1>2 DEF Tiling
    <2> QED
      BY <2>1, <2>2
  <1> HIDE DEF t
  <1>4. SegmentOf(t + 1) = {i}
    <2>1. SegWords \in Nat /\ MoreWords \in Nat /\ b <= t + 1 /\ t + 1 <= f /\ t + 1 \in Int /\ b \in Int /\ f \in Int
      BY <1>3, HeapAssumption
    <2>2. CASE OneSegment
      <3>1. \A y \in Int : SegmentOf(y) = IF 1 <= y /\ y <= SegWords THEN {1} ELSE {}
        BY <1>1, <2>2, SegmentIs
      <3> QED
        BY <1>2, <2>1, <3>1
    <2>3. CASE Extended
      <3>1. \A y \in Int : SegmentOf(y) = IF 1 <= y /\ y <= SegWords + MoreWords THEN {1} ELSE {}
        BY <1>1, <2>3, SegmentIs
      <3> QED
        BY <1>2, <2>1, <3>1
    <2>4. CASE TwoSegments
      <3>1. \A y \in Int : SegmentOf(y) = IF 1 <= y /\ y <= SegWords THEN {1}
                                          ELSE IF SegWords + 2 <= y /\ y <= SegWords + 1 + MoreWords
                                               THEN {2} ELSE {}
        BY <1>1, <2>4, SegmentIs
      <3> QED
        BY <1>2, <2>1, <3>1
    <2> QED
      BY <1>1, <2>2, <2>3, <2>4 DEF SegmentsSound
  <1>5. t + 1 \in Int /\ t + 1 <= f /\ f \in Addr
    BY <1>3 DEF Region
  <1>6. t + 1 \in Addr
    BY <1>1, <1>4, <1>5, SegmentIs
  <1>7. t + 1 \in static
    BY <1>4, <1>6 DEF Region, t
  <1>8. f \in static
    BY <1>1, <1>2, <1>4, <1>5, <1>7 DEF StaticSound
  <1> QED
    BY <1>3, <1>8 DEF Region

(* Where the loop is in a segment, when total are counted in the end. *)
Counting(i, total) ==
  {w \in [block : Blocks(i) \cup {NULL}, result : {TRUE}, free : Nat] :
     total = IF w.block = NULL THEN w.free ELSE w.free + Cardinality(FreeFrom(i, w.block))}

LEMMA FreeIsFinite ==
  ASSUME Intact, NEW i, NEW b
  PROVE  IsFiniteSet(FreeFrom(i, b)) /\ Cardinality(FreeFrom(i, b)) \in Nat
  <1>1. FreeFrom(i, b) \subseteq free_tree /\ IsFiniteSet(free_tree)
    BY IntactIs DEF FreeFrom
  <1> HIDE DEF FreeFrom
  <1> QED
    BY <1>1, FS_Subset, FS_CardinalityType

(* A block passes, and the loop goes on to the next one of the segment, if there is one. *)
LEMMA BlockPasses ==
  ASSUME Intact, NEW i \in DOMAIN segments, NEW w, w.block \in Blocks(i), NEW x,
         x = CheckedBlock(this, segments[i].first, w)
  PROVE  /\ x = [block  |-> lub_heap_block_getnext(this, w.block), result |-> TRUE,
                 free   |-> IF w.block \in free_tree THEN w.free + 1 ELSE w.free]
         /\ w.block # NULL
  <1> DEFINE b == w.block
             first == segments[i].first
             t == Top(mem, b)
             checked == IsTag(mem[b]) /\ lub_heap_block_check(this, b)
             good == checked /\ mem[b].segment = (b = first)
  <1>1. Sane(this, Held, Region) /\ SegmentsSound /\ StaticSound /\ Tiling(mem, free_tree, Held, Region)
    BY IntactIs
  <1>2. b \in free_tree \cup Held /\ SegmentOf(b) = {i}
    BY DEF Blocks
  <1>3. /\ b \in Nat /\ b > 0 /\ t \in Region /\ (mem[b].free <=> b \in free_tree)
        /\ (mem[b].segment <=> b - 1 \notin Region) /\ mem[t].words = mem[b].words
        /\ mem[b].segment \in BOOLEAN
    BY <1>1, <1>2, BlockOf
  <1>4. mem[b].segment = (b = first)
    <2>1. (\A j \in SegmentOf(b) : segments[j].first = b) <=> b - 1 \notin Region
      BY <1>1, <1>2, MarksAre
    <2>2. mem[b].segment <=> b = first
      BY <1>2, <1>3, <2>1
    <2> QED
      BY <1>3, <2>2, Zenon
  <1>5. checked
    <2>1. Tells(mem[b], free_tree, b, Region, b - 1, mem[b].words)
          /\ Tells(mem[t], free_tree, b, Region, t + 1, mem[b].words)
      BY <1>1, <1>2 DEF Tiling, Sound
    <2>2. IsTag(mem[b]) /\ IsTag(mem[t])
      BY <2>1 DEF Tells, Tag, IsTag
    <2>3. t \in Addr
      BY <1>3 DEF Region
    <2>4. lub_heap_block__get_tail(this, b) = t
      BY ThisIs DEF lub_heap_block__get_tail, Top
    <2> QED
      BY <1>3, <2>2, <2>3, <2>4, ThisIs DEF lub_heap_block_check
  <1>6. good = TRUE
    BY <1>4, <1>5, Zenon
  <1>7. b # NULL
    BY <1>3 DEF NULL
  <1>8. x = [block  |-> IF good THEN lub_heap_block_getnext(this, b) ELSE NULL,
             result |-> good,
             free   |-> IF checked /\ mem[b].free THEN w.free + 1 ELSE w.free]
    BY <1>7, ThisIs, Zenon DEF CheckedBlock
  <1> HIDE DEF good, checked
  <1> QED
    BY <1>3, <1>5, <1>6, <1>7, <1>8, Zenon

LEMMA NextInRow ==
  ASSUME Intact, NEW i \in DOMAIN segments, NEW b \in Blocks(i),
         NEW n, n = lub_heap_block_getnext(this, b)
  PROVE  /\ n = NULL => FreeFrom(i, b) = {b} \cap free_tree
         /\ n # NULL => /\ n \in Blocks(i) /\ b < n
                        /\ FreeFrom(i, b) = FreeFrom(i, n) \cup ({b} \cap free_tree)
                        /\ b \notin FreeFrom(i, n)
  <1> DEFINE t == Top(mem, b)
  <1>1. Tiling(mem, free_tree, Held, Region) /\ SegmentsSound
    BY IntactIs
  <1>2. b \in free_tree \cup Held /\ SegmentOf(b) = {i}
    BY DEF Blocks
  <1>3. b \in Nat /\ t \in Nat /\ b < t /\ b .. t \subseteq Region
    BY <1>1, <1>2, BlockOf
  <1>4. /\ t + 1 \in Region => t + 1 \in free_tree \cup Held /\ n = t + 1
        /\ t + 1 \notin Region => n = NULL
    <2>1. Tiling(this.mem, this.tree, Held, Region) /\ b \in this.tree \cup Held
      BY <1>1, <1>2, ThisIs
    <2>2. /\ Top(this.mem, b) + 1 \in Region =>
               Top(this.mem, b) + 1 \in this.tree \cup Held
                 /\ lub_heap_block_getnext(this, b) = Top(this.mem, b) + 1
          /\ Top(this.mem, b) + 1 \notin Region => lub_heap_block_getnext(this, b) = NULL
      BY ONLY <2>1, NextIs, Zenon
    <2> QED
      BY <2>2, ThisIs
  <1>5. \A f \in free_tree \cup Held : f \in Nat /\ (b < f => t < f)
    <2>1. \A f \in free_tree \cup Held : f \in Nat
      BY <1>1, BlockOf
    <2> QED
      BY <1>1, <1>2, <2>1 DEF Tiling
  <1> HIDE DEF t
  <1>6. CASE t + 1 \in Region
    <2>1. n = t + 1 /\ n # NULL /\ n \in free_tree \cup Held /\ b < n
      BY <1>3, <1>4, <1>6 DEF NULL
    <2>2. b .. t + 1 \subseteq Region
      BY <1>3, <1>6
    <2>3. SegmentOf(n) = {i}
      BY <1>1, <1>2, <1>3, <2>1, <2>2, OneRow
    <2>4. \A f \in free_tree : b <= f <=> f = b \/ n <= f
      BY <1>3, <1>5, <2>1
    <2>5. ~(n <= b)
      BY <1>3, <2>1
    <2>6. FreeFrom(i, b) = FreeFrom(i, n) \cup ({b} \cap free_tree)
      BY <1>2, <2>4 DEF FreeFrom
    <2> QED
      BY <2>1, <2>3, <2>5, <2>6 DEF FreeFrom, Blocks
  <1>7. CASE t + 1 \notin Region
    <2>1. \A f \in free_tree : SegmentOf(f) = {i} /\ b <= f => f = b
      <3> SUFFICES ASSUME NEW f \in free_tree, SegmentOf(f) = {i}, b <= f, f # b PROVE FALSE
        OBVIOUS
      <3>1. f \in Blocks(i) /\ b < f
        BY <1>3, <1>5 DEF Blocks
      <3> QED
        BY <1>7, <3>1, LastOfRow DEF t
    <2>2. b \in free_tree => SegmentOf(b) = {i} /\ b <= b
      BY <1>2, <1>3
    <2>3. FreeFrom(i, b) = {b} \cap free_tree
      BY <2>1, <2>2 DEF FreeFrom
    <2> QED
      BY <1>4, <1>7, <2>3
  <1> QED
    BY <1>6, <1>7

(* The free block b counts for one, and what is behind it as before. *)
LEMMA CountedWith ==
  ASSUME Intact, NEW i, NEW n, NEW b, NEW F, NEW free,
         F = FreeFrom(i, n) \cup ({b} \cap free_tree), b \notin FreeFrom(i, n),
         free = Cardinality(FreeFrom(i, n))
  PROVE  /\ free \in Nat
         /\ b \in free_tree => Cardinality(F) = free + 1
         /\ b \notin free_tree => Cardinality(F) = free
  <1> DEFINE G == FreeFrom(i, n)
  <1>1. IsFiniteSet(G) /\ Cardinality(G) \in Nat
    BY FreeIsFinite
  <1>2. /\ b \in free_tree => F = G \cup {b}
        /\ b \notin free_tree => F = G
    OBVIOUS
  <1>3. b \notin G /\ free = Cardinality(G)
    OBVIOUS
  <1> HIDE DEF G
  <1>4. Cardinality(G \cup {b}) = free + 1
    BY <1>1, <1>3, FS_AddElement
  <1> QED
    BY <1>1, <1>2, <1>3, <1>4

LEMMA CountingStep ==
  ASSUME Intact, NEW i \in DOMAIN segments, NEW total \in Nat, NEW w \in Counting(i, total),
         NEW x, x = CheckedBlock(this, segments[i].first, w)
  PROVE  /\ x \in Counting(i, total)
         /\ w.block = NULL => x = w
         /\ w.block # NULL => x.block = NULL \/ x.block > w.block
  <1>1. w.block \in Blocks(i) \cup {NULL} /\ w.result = TRUE /\ w.free \in Nat
    BY DEF Counting
  <1>2. CASE w.block = NULL
    BY <1>2 DEF CheckedBlock
  <1>3. CASE w.block # NULL
    <2> DEFINE b == w.block
               n == lub_heap_block_getnext(this, b)
    <2>1. b \in Blocks(i) /\ b \in Nat
      <3>1. b \in Blocks(i) /\ b \in free_tree \cup Held
        BY <1>1, <1>3 DEF Blocks
      <3>2. Tiling(mem, free_tree, Held, Region)
        BY IntactIs
      <3> QED
        BY <3>1, <3>2, BlockOf
    <2>2. x = [block |-> n, result |-> TRUE, free |-> IF b \in free_tree THEN w.free + 1 ELSE w.free]
      BY <2>1, BlockPasses
    <2>3. total = w.free + Cardinality(FreeFrom(i, b))
      BY <1>3 DEF Counting
    <2>4. /\ n = NULL => FreeFrom(i, b) = {b} \cap free_tree
          /\ n # NULL => /\ n \in Blocks(i) /\ b < n
                         /\ FreeFrom(i, b) = FreeFrom(i, n) \cup ({b} \cap free_tree)
                         /\ b \notin FreeFrom(i, n)
      BY <2>1, NextInRow
    <2> HIDE DEF n
    <2>5. x.block = n /\ x.result = TRUE /\ x.free \in Nat
          /\ (b \in free_tree => x.free = w.free + 1) /\ (b \notin free_tree => x.free = w.free)
      BY <1>1, <2>2
    <2>6. x \in [block : Blocks(i) \cup {NULL}, result : {TRUE}, free : Nat]
      <3>1. n \in Blocks(i) \cup {NULL}
        BY <2>4
      <3> QED
        BY <1>1, <2>2, <3>1
    <2>7. CASE n = NULL
      <3>1. IsFiniteSet({b}) /\ Cardinality({b}) = 1 /\ Cardinality({}) = 0
        BY FS_Singleton, FS_EmptySet
      <3>2. /\ b \in free_tree => FreeFrom(i, b) = {b}
            /\ b \notin free_tree => FreeFrom(i, b) = {}
        BY <2>4, <2>7
      <3>3. total = x.free
        <4>1. CASE b \in free_tree
          <5>1. Cardinality(FreeFrom(i, b)) = 1
            BY ONLY <3>1, <3>2, <4>1
          <5>2. w.free \in Nat /\ x.free = w.free + 1
            BY <1>1, <2>5, <4>1
          <5> QED
            BY ONLY <2>3, <5>1, <5>2
        <4>2. CASE b \notin free_tree
          <5>1. Cardinality(FreeFrom(i, b)) = 0
            BY ONLY <3>1, <3>2, <4>2
          <5>2. w.free \in Nat /\ x.free = w.free
            BY <1>1, <2>5, <4>2
          <5> QED
            BY ONLY <2>3, <5>1, <5>2
        <4> QED
          BY <4>1, <4>2
      <3> QED
        BY <2>5, <2>6, <2>7, <3>3, <1>3 DEF Counting
    <2>8. CASE n # NULL
      <3> DEFINE more == Cardinality(FreeFrom(i, n))
      <3>1. /\ more \in Nat
            /\ b \in free_tree => Cardinality(FreeFrom(i, b)) = more + 1
            /\ b \notin free_tree => Cardinality(FreeFrom(i, b)) = more
        BY <2>4, <2>8, CountedWith
      <3>2. total = x.free + more
        <4> HIDE DEF more
        <4> QED
          BY <1>1, <2>3, <2>5, <3>1
      <3>3. n \in Nat /\ n > b
        <4>1. n \in free_tree \cup Held /\ b < n /\ Tiling(mem, free_tree, Held, Region)
          BY <2>4, <2>8, IntactIs DEF Blocks
        <4>2. n \in Nat
          BY <4>1, BlockOf
        <4> QED
          BY <2>1, <4>1, <4>2
      <3> QED
        BY <2>5, <2>6, <2>8, <3>2, <3>3, <1>3 DEF Counting
    <2> QED
      BY <2>7, <2>8
  <1> QED
    BY <1>2, <1>3

(* The loop over a segment comes to its end, and has counted its free blocks. *)
LEMMA ProcessIs ==
  ASSUME Intact, NEW i \in DOMAIN segments, NEW free \in Nat
  PROVE  process_segment(this, segments[i].first, free)
           = [block |-> NULL, result |-> TRUE,
              free |-> free + Cardinality(FreeFrom(i, segments[i].first))]
  <1> DEFINE N == SegWords + 1 + MoreWords
             first == segments[i].first
             total == free + Cardinality(FreeFrom(i, first))
             S == Counting(i, total)
             start == [block |-> first, result |-> TRUE, free |-> free]
             Next1(w) == CheckedBlock(this, first, w)
             A == [p \in (1 .. N) \X S |-> Next1(p[2])]
             P(f) == f = [n \in 0 .. N |-> IF n = 0 THEN start ELSE Next1(f[n - 1])]
             arg == CHOOSE f : P(f)
             x == process_segment(this, first, free)
  <1>1. x = arg[N]
    BY DEF process_segment
  <1> HIDE DEF x
  <1>2. N \in Nat /\ total \in Nat
    <2>1. SegWords \in Nat /\ MoreWords \in Nat
      BY HeapAssumption
    <2>2. Cardinality(FreeFrom(i, first)) \in Nat
      BY FreeIsFinite
    <2> QED
      BY <2>1, <2>2
  <1>3. \A b \in Blocks(i) : b \in 1 .. N
    <2> SUFFICES ASSUME NEW b \in Blocks(i) PROVE b \in 1 .. N
      OBVIOUS
    <2>1. Tiling(mem, free_tree, Held, Region) /\ b \in free_tree \cup Held
      BY IntactIs DEF Blocks
    <2>2. b \in Region
      BY <2>1, BlockOf
    <2> QED
      BY <2>2 DEF Region, Addr
  <1>4. first \in Blocks(i) /\ first # NULL
    <2>1. first \in Blocks(i)
      BY FirstBlock
    <2> QED
      BY <1>3, <2>1 DEF NULL
  <1>5. start \in S
    BY <1>4 DEF Counting
  <1>6. \A w \in S : /\ Next1(w) \in S
                     /\ w.block = NULL => Next1(w) = w
                     /\ w.block # NULL => Next1(w).block = NULL \/ Next1(w).block > w.block
    <2> HIDE DEF Next1
    <2> SUFFICES ASSUME NEW w \in S
                 PROVE  /\ Next1(w) \in S
                        /\ w.block = NULL => Next1(w) = w
                        /\ w.block # NULL => Next1(w).block = NULL \/ Next1(w).block > w.block
      OBVIOUS
    <2>1. Next1(w) = CheckedBlock(this, segments[i].first, w)
      BY DEF Next1
    <2> HIDE DEF total
    <2> QED
      BY <1>2, <2>1, CountingStep
  <1>7. \A w \in S : w.block \in (1 .. N) \cup {NULL} /\ w.result = TRUE
                     /\ (w.block = NULL => w.free = total)
    BY <1>3 DEF Counting
  <1>8. start.block = first
    OBVIOUS
  <1> HIDE DEF N, S, total, start, Next1
  <1>9. A \in [(1 .. N) \X S -> S]
    BY <1>6
  <1>10. P(arg)
    <2>1. PICK f \in [0 .. N -> S] : Recursive(f, N, start, A)
      <3> HIDE DEF A
      <3> QED
        BY <1>2, <1>5, <1>9, RecursionExists
    <2>2. ASSUME NEW n \in 0 .. N
          PROVE  (IF n = 0 THEN start ELSE A[<<n, f[n - 1]>>]) = IF n = 0 THEN start ELSE Next1(f[n - 1])
      <3>1. n # 0 => n \in 1 .. N /\ f[n - 1] \in S
        BY <1>2
      <3> QED
        BY <3>1
    <2>3. P(f)
      BY <2>1, <2>2, Zenon DEF Recursive
    <2> HIDE DEF P
    <2> QED
      BY <2>3
  <1> HIDE DEF arg
  <1>11. arg[0] = start /\ \A n \in 1 .. N : arg[n] = Next1(arg[n - 1])
    <2>1. \A n \in 0 .. N : arg[n] = IF n = 0 THEN start ELSE Next1(arg[n - 1])
      BY <1>10
    <2>2. 0 \in 0 .. N /\ \A n \in 1 .. N : n \in 0 .. N /\ n # 0
      BY <1>2
    <2> QED
      BY <2>1, <2>2, Zenon
  <1> DEFINE T == {n \in 0 .. N : arg[n] \in S /\ (arg[n].block = NULL \/ arg[n].block > n)}
  <1>12. N \in T
    <2>1. 0 \in T
      <3>1. first > 0 /\ 0 \in 0 .. N
        BY <1>2, <1>3, <1>4
      <3> QED
        BY <1>5, <1>8, <1>11, <3>1
    <2>2. ASSUME NEW n \in 1 .. N, n - 1 \in T PROVE n \in T
      <3>1. /\ n - 1 \in 0 .. N /\ arg[n - 1] \in S
            /\ arg[n - 1].block = NULL \/ arg[n - 1].block > n - 1
        BY <2>2
      <3>2. arg[n] = Next1(arg[n - 1]) /\ n \in 0 .. N /\ arg[n] \in S
        BY <1>6, <1>11, <3>1
      <3>3. CASE arg[n - 1].block = NULL
        BY <1>6, <3>1, <3>2, <3>3
      <3>4. CASE arg[n - 1].block # NULL
        <4>1. /\ arg[n].block = NULL \/ arg[n].block > arg[n - 1].block
              /\ arg[n - 1].block > n - 1
              /\ arg[n].block \in Int /\ arg[n - 1].block \in Int
          BY <1>6, <1>7, <3>1, <3>2, <3>4 DEF NULL
        <4> QED
          BY <3>2, <4>1
      <3> QED
        BY <3>3, <3>4
    <2> HIDE DEF T
    <2>3. N \in Nat /\ N \in 0 .. N
      BY <1>2
    <2>4. \A n \in 0 .. N : n \in T
      BY ONLY <2>1, <2>2, <2>3, UpTo
    <2> QED
      BY <2>3, <2>4
  <1>13. arg[N] \in S /\ arg[N].block = NULL
    <2>1. arg[N] \in S /\ (arg[N].block = NULL \/ arg[N].block > N)
      BY <1>12
    <2>2. arg[N].block \in (1 .. N) \cup {NULL}
      BY <1>7, <2>1
    <2> QED
      BY <1>2, <2>1, <2>2
  <1>14. arg[N].result = TRUE /\ arg[N].free = total
    BY <1>7, <1>13
  <1>15. arg[N] = [block |-> NULL, result |-> TRUE, free |-> total]
    <2>1. arg[N] \in [block : Blocks(i) \cup {NULL}, result : {TRUE}, free : Nat]
      BY <1>13 DEF S, Counting
    <2> QED
      BY ONLY <1>13, <1>14, <2>1
  <1> QED
    BY <1>1, <1>15 DEF x, total

(* Every free block is of one of the segments, from its first word on. *)
LEMMA FreeBySegment ==
  ASSUME Intact
  PROVE  /\ Len(segments) = 1 => free_tree = FreeFrom(1, segments[1].first)
         /\ Len(segments) = 2 =>
              Cardinality(free_tree) = Cardinality(FreeFrom(1, segments[1].first))
                                       + Cardinality(FreeFrom(2, segments[2].first))
  <1>1. SegmentsSound /\ Tiling(mem, free_tree, Held, Region)
    BY IntactIs
  <1>2. \A i \in DOMAIN segments :
          FreeFrom(i, segments[i].first) = {f \in free_tree : SegmentOf(f) = {i}}
    <2> SUFFICES ASSUME NEW i \in DOMAIN segments, NEW f \in free_tree, SegmentOf(f) = {i}
                 PROVE  segments[i].first <= f
      BY DEF FreeFrom
    <2>1. f \in Int
      BY <1>1, BlockOf
    <2> QED
      BY <1>1, <2>1, FirstIs
  <1>3. \A f \in free_tree : \E i \in DOMAIN segments : SegmentOf(f) = {i}
    <2> SUFFICES ASSUME NEW f \in free_tree PROVE \E i \in DOMAIN segments : SegmentOf(f) = {i}
      OBVIOUS
    <2>1. f \in Int /\ f \in Region
      BY <1>1, BlockOf
    <2>2. PICK i \in DOMAIN segments : i \in SegmentOf(f)
      BY <2>1 DEF Region, SegmentOf
    <2> QED
      BY <1>1, <2>1, <2>2, FirstIs
  <1>4. DOMAIN segments = 1 .. Len(segments)
    BY <1>1 DEF SegmentsSound, OneSegment, Extended, TwoSegments
  <1>5. CASE Len(segments) = 1
    <2>1. DOMAIN segments = {1}
      BY <1>4, <1>5
    <2>2. {f \in free_tree : SegmentOf(f) = {1}} = free_tree
      BY <1>3, <2>1
    <2> QED
      BY <1>2, <1>5, <2>1, <2>2
  <1>6. CASE Len(segments) = 2
    <2> DEFINE F(i) == FreeFrom(i, segments[i].first)
    <2>1. DOMAIN segments = {1, 2}
      BY <1>4, <1>6
    <2>2. F(1) = {f \in free_tree : SegmentOf(f) = {1}} /\ F(2) = {f \in free_tree : SegmentOf(f) = {2}}
      BY <1>2, <2>1
    <2>3. F(1) \cup F(2) = free_tree /\ F(1) \cap F(2) = {}
      <3> HIDE DEF F
      <3> QED
        BY <1>3, <2>1, <2>2
    <2>4. /\ IsFiniteSet(F(1)) /\ IsFiniteSet(F(2))
          /\ Cardinality(F(1)) \in Nat /\ Cardinality(F(2)) \in Nat
      BY FreeIsFinite
    <2>5. Cardinality(F(1) \cup F(2)) = Cardinality(F(1)) + Cardinality(F(2))
      <3> HIDE DEF F
      <3>1. Cardinality(F(1) \cup F(2)) = Cardinality(F(1)) + Cardinality(F(2)) - Cardinality(F(1) \cap F(2))
        BY <2>4, FS_Union
      <3>2. Cardinality(F(1) \cap F(2)) = 0
        BY <2>3, FS_EmptySet
      <3> QED
        BY <2>4, <3>1, <3>2
    <2> QED
      BY <1>6, <2>3, <2>5
  <1> QED
    BY <1>5, <1>6

(* The check of an intact heap passes. *)
LEMMA MemoryPasses ==
  ASSUME Intact
  PROVE  lub_heap_check_memory(this)
  <1> DEFINE K == Len(segments)
             S == [block : {NULL}, result : {TRUE}, free : Nat]
             start == [block |-> NULL, result |-> TRUE, free |-> 0]
             Then(i, w) == process_segment(this, segments[i].first, w.free)
             A == [p \in (1 .. K) \X S |-> Then(p[1], p[2])]
             P(f) == f = [i \in 0 .. K |-> IF i = 0 THEN start ELSE Then(i, f[i - 1])]
             arg == CHOOSE f : P(f)
             in == [i \in DOMAIN segments |-> Cardinality(FreeFrom(i, segments[i].first))]
  <1>1. SegmentsSound /\ free_blocks = Cardinality(free_tree)
    BY IntactIs
  <1>2. (K = 1 \/ K = 2) /\ DOMAIN segments = 1 .. K /\ K \in Nat
    BY <1>1 DEF SegmentsSound, OneSegment, Extended, TwoSegments
  <1>3. arg[K].result /\ free_blocks = arg[K].free => lub_heap_check_memory(this)
    BY ThisIs DEF lub_heap_check_memory
  <1>4. \A i \in 1 .. K : in[i] \in Nat
    BY <1>2, FreeIsFinite
  <1>5. \A i \in 1 .. K : \A w \in S :
          Then(i, w) = [block |-> NULL, result |-> TRUE, free |-> w.free + in[i]]
    BY <1>2, ProcessIs
  <1>6. /\ K = 1 => Cardinality(free_tree) = in[1]
        /\ K = 2 => Cardinality(free_tree) = in[1] + in[2]
    BY <1>2, FreeBySegment
  <1>7. start \in S
    OBVIOUS
  <1> HIDE DEF Then, in, K
  <1>8. \A i \in 1 .. K : \A w \in S : Then(i, w) \in S /\ Then(i, w).free = w.free + in[i]
    <2> SUFFICES ASSUME NEW i \in 1 .. K, NEW w \in S
                 PROVE  Then(i, w) \in S /\ Then(i, w).free = w.free + in[i]
      OBVIOUS
    <2>1. w.free + in[i] \in Nat
      BY <1>4
    <2>2. PICK more \in Nat : more = w.free + in[i]
      BY <2>1
    <2>3. Then(i, w) = [block |-> NULL, result |-> TRUE, free |-> more]
      BY <1>5, <2>2
    <2> QED
      BY ONLY <2>2, <2>3
  <1>9. A \in [(1 .. K) \X S -> S]
    <2> HIDE DEF S
    <2> QED
      BY <1>8
  <1>10. P(arg)
    <2> HIDE DEF S, start
    <2>1. PICK f \in [0 .. K -> S] : Recursive(f, K, start, A)
      <3> HIDE DEF A
      <3> QED
        BY <1>2, <1>7, <1>9, RecursionExists
    <2>2. ASSUME NEW n \in 0 .. K
          PROVE  (IF n = 0 THEN start ELSE A[<<n, f[n - 1]>>]) = IF n = 0 THEN start ELSE Then(n, f[n - 1])
      <3>1. n # 0 => n \in 1 .. K /\ f[n - 1] \in S
        BY <1>2
      <3> QED
        BY <3>1
    <2>3. P(f)
      BY <2>1, <2>2, Zenon DEF Recursive
    <2> HIDE DEF P
    <2> QED
      BY <2>3
  <1> HIDE DEF arg
  <1>11. arg[0] = start /\ \A n \in 1 .. K : arg[n] = Then(n, arg[n - 1])
    <2>1. \A n \in 0 .. K : arg[n] = IF n = 0 THEN start ELSE Then(n, arg[n - 1])
      BY <1>10
    <2>2. 0 \in 0 .. K /\ \A n \in 1 .. K : n \in 0 .. K /\ n # 0
      BY <1>2
    <2> QED
      BY <2>1, <2>2, Zenon
  <1>12. arg[1] \in S /\ arg[1].free = in[1] /\ in[1] \in Nat
    <2>1. 1 \in 1 .. K /\ arg[1] = Then(1, arg[0]) /\ start.free = 0
      BY <1>2, <1>11
    <2> HIDE DEF S, start
    <2>2. arg[1] = Then(1, start) /\ in[1] \in Nat
      BY <1>4, <1>11, <2>1
    <2>3. arg[1] \in S /\ arg[1].free = start.free + in[1]
      BY <1>7, <1>8, <2>1, <2>2
    <2> QED
      BY <2>1, <2>2, <2>3
  <1>13. arg[K] \in S /\ arg[K].free = Cardinality(free_tree)
    <2>1. CASE K = 1
      BY <1>6, <1>12, <2>1
    <2>2. CASE K = 2
      <3>1. 2 \in 1 .. K /\ arg[2] = Then(2, arg[1])
        BY <1>11, <2>2
      <3> HIDE DEF S
      <3>2. arg[2] \in S /\ arg[2].free = arg[1].free + in[2]
        BY <1>8, <1>12, <3>1
      <3> QED
        BY <1>6, <1>12, <2>2, <3>2
    <2> QED
      BY <1>2, <2>1, <2>2
  <1>14. arg[K].result
    BY <1>13
  <1> QED
    BY <1>1, <1>3, <1>13, <1>14

(* The heap's own check never finds the heap corrupted, whatever the clients ask for and
   wherever memory is added: no call is refused as LUB_HEAP_CORRUPTED. *)
THEOREM CheckNeverFails == Spec => []CheckPasses
  <1>1. Init => HeapInv /\ FirstInv
    <2> SUFFICES ASSUME Init PROVE FirstInv
      BY InitHolds
    <2> QED
      BY DEF Init, FirstInv, FirstsKept
  <1>2. HeapInv /\ FirstInv /\ [Next]_vars => FirstInv'
    BY FirstsStep
  <1>3. HeapInv /\ FirstInv => CheckPasses
    BY MemoryPasses DEF CheckPasses, Intact
  <1>4. Spec => []HeapInv
    BY TilingInvariant
  <1>5. Init => FirstInv
    BY <1>1
  <1> QED
    BY <1>2, <1>3, <1>4, <1>5, PTL DEF Spec
=============================================================================
