--------------------------- MODULE HistoryProofs ---------------------------
(***************************************************************************)
(* Theorems about History, for every set of lines and limits and lists of  *)
(* every length.                                                           *)
(***************************************************************************)
EXTENDS History, SequenceLemmas, SequenceTheorems, TLAPS

-----------------------------------------------------------------------------
(* The three ways the slots in use change: one is given up, the first ones are, *)
(* and one is added after them.                                                 *)

LEMMA RemoveSlot ==
  ASSUME NEW s \in Seq(Entry), NEW i \in 1 .. Len(s)
  PROVE  /\ RemoveAt(s, i) \in Seq(Entry)
         /\ Len(RemoveAt(s, i)) = Len(s) - 1
         /\ \A j \in 1 .. Len(s) - 1 :
              RemoveAt(s, i)[j] = IF j < i THEN s[j] ELSE s[j + 1]
BY RemovedAt

LEMMA DropSlots ==
  ASSUME NEW s \in Seq(Entry), NEW g \in 0 .. Len(s)
  PROVE  /\ SubSeq(s, g + 1, Len(s)) \in Seq(Entry)
         /\ Len(SubSeq(s, g + 1, Len(s))) = Len(s) - g
         /\ \A j \in 1 .. Len(s) - g : SubSeq(s, g + 1, Len(s))[j] = s[g + j]
  <1> DEFINE n == Len(s)
             b == SubSeq(s, g + 1, n)
  <1>1. n \in Nat /\ g \in Nat /\ g <= n
    OBVIOUS
  <1>2. \A j \in 1 .. n : s[j] \in Entry
    BY ElementOfSeq
  <1> HIDE DEF n
  <1>3. g + 1 \in Int /\ n \in Int /\ \A j \in g + 1 .. n : s[j] \in Entry
    BY <1>1, <1>2
  <1>4. /\ b \in Seq(Entry)
        /\ Len(b) = IF g + 1 <= n THEN n - (g + 1) + 1 ELSE 0
        /\ \A j \in 1 .. n - (g + 1) + 1 : b[j] = s[(g + 1) + j - 1]
    BY <1>3, SubSeqProperties
  <1> HIDE DEF b
  <1>5. Len(b) = n - g /\ \A j \in 1 .. n - g : b[j] = s[g + j]
    BY <1>1, <1>4
  <1> QED
    BY <1>4, <1>5 DEF n, b

LEMMA AddSlot ==
  ASSUME NEW s \in Seq(Entry), NEW e \in Entry
  PROVE  /\ Append(s, e) \in Seq(Entry)
         /\ Len(Append(s, e)) = Len(s) + 1
         /\ Append(s, e)[Len(s) + 1] = e
         /\ \A j \in 1 .. Len(s) : Append(s, e)[j] = s[j]
OBVIOUS

-----------------------------------------------------------------------------
(* What the slots in use owe to each other, to the heap h and to the number c of
   the next entry. *)
Sound(s, h, c) ==
  /\ s \in Seq(Entry) /\ c \in Nat
  /\ \A i, j \in 1 .. Len(s) : s[i].line = s[j].line => i = j
  /\ \A i, j \in 1 .. Len(s) : i < j => s[i].index < s[j].index
  /\ \A i \in 1 .. Len(s) : s[i].index < c
  /\ h = Indexes(s)

LEMMA IndexesAre ==
  ASSUME NEW s \in Seq(Entry) PROVE Indexes(s) = {s[i].index : i \in 1 .. Len(s)}
BY DEF Indexes

LEMMA SoundRemove ==
  ASSUME NEW s, NEW h, NEW c, Sound(s, h, c), NEW i \in 1 .. Len(s)
  PROVE  /\ Sound(RemoveAt(s, i), h \ {s[i].index}, c)
         /\ \A j \in 1 .. Len(RemoveAt(s, i)) : RemoveAt(s, i)[j].line # s[i].line
  <1> DEFINE r == RemoveAt(s, i)
             n == Len(s)
  <1>1. s \in Seq(Entry) /\ n \in Nat /\ i \in 1 .. n
    BY DEF Sound
  <1>2. /\ r \in Seq(Entry) /\ Len(r) = n - 1
        /\ \A j \in 1 .. n - 1 : r[j] = IF j < i THEN s[j] ELSE s[j + 1]
    BY <1>1, RemoveSlot
  <1>3. \A j \in 1 .. n : s[j].index \in Nat
    <2>1. \A j \in 1 .. n : s[j] \in Entry
      BY <1>1, ElementOfSeq
    <2> QED
      BY <2>1 DEF Entry
  <1> HIDE DEF r, n
  <1>4. /\ \A j, k \in 1 .. n : s[j].line = s[k].line => j = k
        /\ \A j, k \in 1 .. n : j < k => s[j].index < s[k].index
        /\ \A j \in 1 .. n : s[j].index < c
        /\ h = {s[j].index : j \in 1 .. n}
    BY <1>1, IndexesAre DEF Sound, n
  <1> DEFINE from == [j \in 1 .. n - 1 |-> IF j < i THEN j ELSE j + 1]
  <1>a. \A j \in 1 .. n - 1 : from[j] \in 1 .. n /\ from[j] # i /\ r[j] = s[from[j]]
    BY <1>1, <1>2
  <1>b. \A j, k \in 1 .. n - 1 : j < k => from[j] < from[k]
    BY <1>1
  <1>c. \A j, k \in 1 .. n - 1 : from[j] = from[k] => j = k
    BY <1>1
  <1>d. \A k \in 1 .. n : k # i => \E j \in 1 .. n - 1 : from[j] = k
    <2> SUFFICES ASSUME NEW k \in 1 .. n, k # i PROVE \E j \in 1 .. n - 1 : from[j] = k
      OBVIOUS
    <2>1. CASE k < i
      BY <1>1, <2>1
    <2>2. CASE k > i
      <3>1. k - 1 \in 1 .. n - 1 /\ ~(k - 1 < i) /\ (k - 1) + 1 = k
        BY <1>1, <2>2
      <3>2. from[k - 1] = k
        BY <3>1
      <3> QED
        BY <3>1, <3>2
    <2> QED
      BY <1>1, <2>1, <2>2
  <1> HIDE DEF from
  <1>5. \A j, k \in 1 .. n - 1 : r[j].line = r[k].line => j = k
    BY <1>4, <1>a, <1>c
  <1>6. \A j, k \in 1 .. n - 1 : j < k => r[j].index < r[k].index
    BY <1>4, <1>a, <1>b
  <1>7. \A j \in 1 .. n - 1 : r[j].index < c
    BY <1>4, <1>a
  <1>8. {r[j].index : j \in 1 .. n - 1} = {s[j].index : j \in 1 .. n} \ {s[i].index}
    <2>1. \A j, k \in 1 .. n : s[j].index = s[k].index => j = k
      <3>1. \A j, k \in 1 .. n : j < k \/ j = k \/ k < j
        BY <1>1
      <3>2. \A j, k \in 1 .. n : j < k => s[j].index # s[k].index
        BY <1>3, <1>4
      <3> QED
        BY <3>1, <3>2
    <2>2. \A j \in 1 .. n - 1 : r[j].index \in {s[k].index : k \in 1 .. n} \ {s[i].index}
      <3> SUFFICES ASSUME NEW j \in 1 .. n - 1
                   PROVE  r[j].index \in {s[k].index : k \in 1 .. n} \ {s[i].index}
        OBVIOUS
      <3>1. from[j] \in 1 .. n /\ from[j] # i /\ r[j] = s[from[j]] /\ i \in 1 .. n
        BY <1>1, <1>a
      <3>2. s[from[j]].index # s[i].index
        BY <2>1, <3>1
      <3> QED
        BY <3>1, <3>2
    <2>3. \A k \in 1 .. n : s[k].index # s[i].index => \E j \in 1 .. n - 1 : r[j].index = s[k].index
      BY <1>a, <1>d
    <2> QED
      BY <2>2, <2>3
  <1>9. \A j \in 1 .. n - 1 : r[j].line # s[i].line
    BY <1>1, <1>4, <1>a
  <1>10. Indexes(r) = h \ {s[i].index}
    BY <1>2, <1>4, <1>8, IndexesAre
  <1>11. c \in Nat
    BY DEF Sound
  <1>12. Sound(r, h \ {s[i].index}, c)
    BY <1>2, <1>5, <1>6, <1>7, <1>10, <1>11 DEF Sound
  <1> QED
    BY <1>2, <1>9, <1>12 DEF r

LEMMA SoundDrop ==
  ASSUME NEW s, NEW h, NEW c, Sound(s, h, c), NEW g \in 0 .. Len(s)
  PROVE  Sound(SubSeq(s, g + 1, Len(s)), h \ {s[i].index : i \in 1 .. g}, c)
  <1> DEFINE n == Len(s)
             r == SubSeq(s, g + 1, n)
             o == {s[i].index : i \in 1 .. g}
  <1>1. s \in Seq(Entry) /\ n \in Nat /\ g \in 0 .. n /\ c \in Nat
    BY DEF Sound
  <1>2. /\ r \in Seq(Entry) /\ Len(r) = n - g
        /\ \A j \in 1 .. n - g : r[j] = s[g + j]
    BY <1>1, DropSlots
  <1>3. \A j \in 1 .. n : s[j].index \in Nat
    <2>1. \A j \in 1 .. n : s[j] \in Entry
      BY <1>1, ElementOfSeq
    <2> QED
      BY <2>1 DEF Entry
  <1> HIDE DEF r, n
  <1>4. /\ \A j, k \in 1 .. n : s[j].line = s[k].line => j = k
        /\ \A j, k \in 1 .. n : j < k => s[j].index < s[k].index
        /\ \A j \in 1 .. n : s[j].index < c
        /\ h = {s[j].index : j \in 1 .. n}
    BY <1>1, IndexesAre DEF Sound, n
  <1>a. \A j \in 1 .. n - g : g + j \in 1 .. n /\ r[j] = s[g + j]
    BY <1>1, <1>2
  <1>b. \A j, k \in 1 .. n - g : /\ g + j = g + k => j = k
                                /\ j < k => g + j < g + k
    BY <1>1
  <1>5. \A j, k \in 1 .. n - g : r[j].line = r[k].line => j = k
    BY <1>4, <1>a, <1>b
  <1>6. \A j, k \in 1 .. n - g : j < k => r[j].index < r[k].index
    BY <1>4, <1>a, <1>b
  <1>7. \A j \in 1 .. n - g : r[j].index < c
    BY <1>4, <1>a
  <1>8. {r[j].index : j \in 1 .. n - g} = h \ o
    <2>1. ASSUME NEW j \in 1 .. n - g PROVE r[j].index \in h \ o
      <3>1. g + j \in 1 .. n /\ r[j] = s[g + j]
        BY <1>1, <1>2
      <3>2. \A i \in 1 .. g : s[i].index < s[g + j].index
        BY <1>1, <1>4, <3>1
      <3>3. \A i \in 1 .. g : s[i].index # s[g + j].index
        BY <1>1, <1>3, <3>1, <3>2
      <3> QED
        BY <1>4, <3>1, <3>3
    <2>2. ASSUME NEW x \in h \ o PROVE \E j \in 1 .. n - g : x = r[j].index
      <3>1. PICK k \in 1 .. n : x = s[k].index
        BY <1>4
      <3>2. k \notin 1 .. g
        BY <3>1
      <3>3. k - g \in 1 .. n - g /\ g + (k - g) = k
        BY <1>1, <3>2
      <3> QED
        BY <1>2, <3>1, <3>3
    <2> HIDE DEF o
    <2> QED
      BY <2>1, <2>2
  <1> HIDE DEF o
  <1>9. Indexes(r) = h \ o
    BY <1>2, <1>8, IndexesAre
  <1>10. Sound(r, h \ o, c)
    BY <1>1, <1>2, <1>5, <1>6, <1>7, <1>9 DEF Sound
  <1> QED
    BY <1>10 DEF r, o, n

LEMMA SoundAppend ==
  ASSUME NEW s, NEW h, NEW c, Sound(s, h, c), NEW l \in Line,
         \A j \in 1 .. Len(s) : s[j].line # l
  PROVE  Sound(Append(s, [line |-> l, index |-> c]), h \cup {c}, c + 1)
  <1> DEFINE n == Len(s)
             e == [line |-> l, index |-> c]
             r == Append(s, e)
  <1>1. s \in Seq(Entry) /\ n \in Nat /\ c \in Nat
    BY DEF Sound
  <1>2. e \in Entry /\ e.line = l /\ e.index = c
    BY <1>1 DEF Entry
  <1> HIDE DEF e
  <1>3. /\ r \in Seq(Entry) /\ Len(r) = n + 1 /\ r[n + 1] = e
        /\ \A j \in 1 .. n : r[j] = s[j]
    BY <1>1, <1>2, AddSlot
  <1>4. \A j \in 1 .. n : s[j].index \in Nat
    <2>1. \A j \in 1 .. n : s[j] \in Entry
      BY <1>1, ElementOfSeq
    <2> QED
      BY <2>1 DEF Entry
  <1> HIDE DEF r, n
  <1>5. /\ \A j, k \in 1 .. n : s[j].line = s[k].line => j = k
        /\ \A j, k \in 1 .. n : j < k => s[j].index < s[k].index
        /\ \A j \in 1 .. n : s[j].index < c /\ s[j].line # l
        /\ h = {s[j].index : j \in 1 .. n}
    BY <1>1, IndexesAre DEF Sound, n
  <1>6. \A j, k \in 1 .. n + 1 : r[j].line = r[k].line => j = k
    BY <1>1, <1>2, <1>3, <1>5
  <1>7. \A j, k \in 1 .. n + 1 : j < k => r[j].index < r[k].index
    BY <1>1, <1>2, <1>3, <1>5
  <1>8. \A j \in 1 .. n + 1 : r[j].index < c + 1
    BY <1>1, <1>2, <1>3, <1>4, <1>5
  <1>9. {r[j].index : j \in 1 .. n + 1} = h \cup {c}
    <2>1. \A j \in 1 .. n + 1 : r[j].index \in h \cup {c}
      BY <1>1, <1>2, <1>3, <1>5
    <2>2. \A x \in h : \E j \in 1 .. n + 1 : x = r[j].index
      BY <1>1, <1>3, <1>5
    <2>3. r[n + 1].index = c /\ n + 1 \in 1 .. n + 1
      BY <1>1, <1>2, <1>3
    <2> QED
      BY <2>1, <2>2, <2>3
  <1>10. Indexes(r) = h \cup {c}
    BY <1>3, <1>9, IndexesAre
  <1>11. Sound(r, h \cup {c}, c + 1)
    BY <1>1, <1>3, <1>6, <1>7, <1>8, <1>10 DEF Sound
  <1> QED
    BY <1>11 DEF r, e

-----------------------------------------------------------------------------
(* Type correctness, and the limit, which hold even when an entry cannot be     *)
(* allocated.                                                                   *)

LEMMA LengthIsNat == ASSUME TypeOK PROVE length \in Nat /\ entries \in Seq(Entry)
BY DEF TypeOK, length

(* A slot that makes way is one there is. *)
LEMMA MakesWayIsSlot ==
  ASSUME TypeOK, NEW l \in Line, NEW i \in MakesWay(l) PROVE i \in 1 .. length
BY LengthIsNat DEF MakesWay, Holding, Full

LEMMA GrowType == ASSUME TypeOK, Grow PROVE size' \in Nat /\ size <= size'
BY HistoryAssumption DEF TypeOK, Grow

(* What adding a line to the slots of s makes of them. *)
LEMMA AppendType ==
  ASSUME TypeOK, Grow, NEW l \in Line, NEW s \in Seq(Entry), NEW h \in SUBSET Nat,
         NEW stale \in Entry, Len(s) <= size, append_entry(s, h, stale, l)
  PROVE  /\ entries' \in Seq(Entry)
         /\ Len(entries') <= size'
         /\ Len(entries') \in {Len(s), Len(s) + 1}
         /\ current_index' \in Nat \ {0}
         /\ heap' \subseteq Nat
         /\ corrupt' \in BOOLEAN
  <1> DEFINE e == [line |-> l, index |-> current_index]
  <1>1. size' \in Nat /\ size \in Nat /\ size <= size' /\ Len(s) \in Nat
    BY GrowType DEF TypeOK
  <1>2. current_index \in Nat \ {0} /\ corrupt \in BOOLEAN
    BY DEF TypeOK
  <1>3. e \in Entry
    BY <1>2 DEF Entry
  <1>4. CASE HasRoom(s) /\ entries' = Append(s, e) /\ heap' = h \cup {current_index}
             /\ current_index' = current_index + 1 /\ corrupt' = corrupt
    <2> HIDE DEF e
    <2>1. Len(s) < size'
      BY <1>4 DEF HasRoom
    <2>2. entries' \in Seq(Entry) /\ Len(entries') = Len(s) + 1
      BY <1>3, <1>4, AddSlot
    <2> QED
      BY <1>1, <1>2, <1>4, <2>1, <2>2
  <1>5. CASE HasRoom(s) /\ entries' = Append(s, stale) /\ heap' = h
             /\ current_index' = current_index + 1 /\ corrupt' = TRUE
    <2>1. Len(s) < size'
      BY <1>5 DEF HasRoom
    <2>2. entries' \in Seq(Entry) /\ Len(entries') = Len(s) + 1
      BY <1>5, AddSlot
    <2> QED
      BY <1>1, <1>2, <1>5, <2>1, <2>2
  <1>6. CASE entries' = s /\ heap' = h /\ current_index' = current_index /\ corrupt' = corrupt
    BY <1>1, <1>2, <1>6
  <1> QED
    BY <1>4, <1>5, <1>6 DEF append_entry, Number

(* Adding a line leaves one more slot in use, or as many, or one less; one more only
   when no slot makes way. *)
LEMMA AddType ==
  ASSUME TypeOK, NEW l \in Line, tinyrl_history_add(l)
  PROVE  /\ entries' \in Seq(Entry)
         /\ size' \in Nat /\ Len(entries') <= size'
         /\ Len(entries') <= IF MakesWay(l) = {} THEN length + 1 ELSE length
         /\ current_index' \in Nat \ {0}
         /\ heap' \subseteq Nat
         /\ corrupt' \in BOOLEAN
         /\ stifle' = stifle
  <1>1. /\ Grow /\ stifle' = stifle /\ size' \in Nat
        /\ entries \in Seq(Entry) /\ length \in Nat /\ length = Len(entries)
        /\ size \in Nat /\ length <= size /\ heap \subseteq Nat
    BY LengthIsNat, GrowType DEF tinyrl_history_add, TypeOK, length
  <1>2. CASE MakesWay(l) = {} /\ append_entry(entries, heap, Uninitialised, l)
    <2>1. Uninitialised \in Entry
      BY DEF Uninitialised, Entry
    <2>2. Len(entries) <= size
      BY <1>1
    <2>3. /\ entries' \in Seq(Entry)
          /\ Len(entries') <= size'
          /\ Len(entries') \in {Len(entries), Len(entries) + 1}
          /\ current_index' \in Nat \ {0}
          /\ heap' \subseteq Nat
          /\ corrupt' \in BOOLEAN
      BY <1>1, <1>2, <2>1, <2>2, AppendType
    <2>4. Len(entries') <= length + 1
      BY <1>1, <2>3
    <2> QED
      BY <1>1, <1>2, <2>3, <2>4
  <1>3. ASSUME NEW i \in MakesWay(l),
               append_entry(RemoveAt(entries, i), heap \ {Freed(i)}, Last(entries), l)
        PROVE  /\ entries' \in Seq(Entry)
               /\ Len(entries') <= size'
               /\ Len(entries') <= length
               /\ current_index' \in Nat \ {0}
               /\ heap' \subseteq Nat
               /\ corrupt' \in BOOLEAN
    <2>1. i \in 1 .. Len(entries)
      BY <1>1, MakesWayIsSlot
    <2>2. RemoveAt(entries, i) \in Seq(Entry) /\ Len(RemoveAt(entries, i)) = length - 1
      BY <1>1, <2>1, RemoveSlot
    <2>3. Last(entries) \in Entry
      <3>1. Len(entries) \in 1 .. Len(entries)
        BY <1>1, <2>1
      <3> QED
        BY <1>1, <3>1, ElementOfSeq DEF Last
    <2>4. Len(RemoveAt(entries, i)) <= size
      BY <1>1, <2>2
    <2>5. heap \ {Freed(i)} \in SUBSET Nat
      BY <1>1
    <2> QED
      BY <1>1, <1>3, <2>2, <2>3, <2>4, <2>5, AppendType
  <1> QED
    BY <1>1, <1>2, <1>3 DEF tinyrl_history_add

LEMMA StifleType ==
  ASSUME TypeOK, NEW n \in Limit \ {0}, tinyrl_history_stifle(n)
  PROVE  /\ entries' \in Seq(Entry)
         /\ Len(entries') <= length /\ Len(entries') <= n
         /\ heap' \subseteq Nat
         /\ stifle' = n
  <1> DEFINE gone == IF n < length THEN length - n ELSE 0
  <1>1. length \in Nat /\ length = Len(entries) /\ entries \in Seq(Entry) /\ heap \subseteq Nat
    BY LengthIsNat DEF length, TypeOK
  <1>2. n \in Nat
    BY HistoryAssumption
  <1>3. gone \in 0 .. length /\ length - gone <= n
    BY <1>1, <1>2
  <1>4. entries' = SubSeq(entries, gone + 1, length) /\ stifle' = n /\ heap' \subseteq heap
    BY DEF tinyrl_history_stifle
  <1> HIDE DEF gone
  <1>5. entries' \in Seq(Entry) /\ Len(entries') = length - gone
    BY <1>1, <1>3, <1>4, DropSlots
  <1> QED
    BY <1>1, <1>2, <1>3, <1>4, <1>5

TypeInv == TypeOK /\ StifleHonoured

LEMMA TypeInit == Init => TypeInv
  <1> SUFFICES ASSUME Init PROVE TypeInv
    OBVIOUS
  <1>1. entries \in Seq(Entry) /\ Len(entries) = 0
    BY DEF Init
  <1>2. stifle \in Limit /\ stifle \in Nat /\ size = 0 /\ current_index = 1 /\ heap = {} /\ offset = 0
    BY HistoryAssumption DEF Init
  <1>3. corrupt \in BOOLEAN /\ reading \in BOOLEAN /\ viewing \in BOOLEAN
    BY DEF Init
  <1>4. TypeOK
    BY <1>1, <1>2, <1>3 DEF TypeOK, length
  <1> QED
    BY <1>1, <1>2, <1>4 DEF TypeInv, StifleHonoured, length

LEMMA TypeStep == TypeInv /\ [Next]_vars => TypeInv'
  <1> SUFFICES ASSUME TypeInv, [Next]_vars PROVE TypeInv'
    OBVIOUS
  <1>0. /\ TypeOK /\ StifleHonoured
        /\ entries \in Seq(Entry) /\ length \in Nat /\ length = Len(entries)
        /\ stifle \in Nat /\ offset \in Nat /\ size \in Nat /\ length <= size
    BY LengthIsNat, HistoryAssumption DEF TypeInv, TypeOK, length
  <1>1. ASSUME UNCHANGED list,
               reading' \in BOOLEAN, viewing' \in BOOLEAN, offset' \in Nat
        PROVE  TypeInv'
    BY <1>0, <1>1 DEF TypeInv, TypeOK, StifleHonoured, length, list
  <1>2. CASE ReadlineStarts
    BY <1>0, <1>1, <1>2 DEF ReadlineStarts, TypeOK
  <1>3. CASE tinyrl_key_up
    <2>1. Above \in Nat
      BY <1>0 DEF Above
    <2>2. offset' \in Nat
      BY <1>3, <2>1 DEF tinyrl_key_up
    <2>3. viewing' \in BOOLEAN /\ reading' = reading /\ UNCHANGED list
      BY <1>0, <1>3 DEF tinyrl_key_up, TypeOK
    <2> QED
      BY <1>0, <1>1, <2>2, <2>3 DEF TypeOK
  <1>4. CASE tinyrl_key_down
    <2>1. reading' = reading /\ UNCHANGED list
      BY <1>4 DEF tinyrl_key_down
    <2>2. viewing' \in BOOLEAN /\ offset' \in Nat
      <3>1. CASE HasNext /\ offset' = offset + 1 /\ viewing' = viewing
        BY <1>0, <3>1 DEF TypeOK
      <3>2. CASE viewing' = FALSE /\ offset' = offset
        BY <1>0, <3>2
      <3> QED
        BY <1>4, <3>1, <3>2 DEF tinyrl_key_down
    <2> QED
      BY <1>0, <1>1, <2>1, <2>2 DEF TypeOK
  <1>5. CASE changed_line
    BY <1>0, <1>1, <1>5 DEF changed_line, TypeOK
  <1>6. CASE ReadlineEnds
    BY <1>0, <1>1, <1>6 DEF ReadlineEnds, TypeOK
  <1>7. ASSUME NEW l \in Line, ReadlineReturns(l) PROVE TypeInv'
    <2>1. tinyrl_history_add(l) /\ reading' = FALSE /\ viewing' = viewing /\ offset' = offset
      BY <1>7 DEF ReadlineReturns
    <2>2. TypeOK'
      BY <1>0, <2>1, AddType DEF TypeOK, length
    <2>3. StifleHonoured'
      <3> SUFFICES ASSUME stifle # 0 PROVE Len(entries') <= stifle
        BY <1>0, <2>1, AddType DEF StifleHonoured, length
      <3>1. length <= stifle /\ stifle >= 1
        BY <1>0 DEF StifleHonoured
      <3>2. Len(entries') \in Nat
        BY <1>0, <2>1, AddType
      <3>3. CASE MakesWay(l) = {}
        <4>1. length # stifle
          BY <1>0, <3>1, <3>3 DEF MakesWay, Full
        <4>2. Len(entries') <= length + 1
          BY <1>0, <2>1, <3>3, AddType
        <4> QED
          BY <1>0, <3>1, <3>2, <4>1, <4>2
      <3>4. CASE MakesWay(l) # {}
        <4>1. Len(entries') <= length
          BY <1>0, <2>1, <3>4, AddType
        <4> QED
          BY <1>0, <3>1, <3>2, <4>1
      <3> QED
        BY <3>3, <3>4
    <2> QED
      BY <2>2, <2>3 DEF TypeInv
  <1>8. ASSUME NEW n \in Limit, ucli_history(n) PROVE TypeInv'
    <2>1. UNCHANGED <<size, current_index, corrupt, reading, viewing, offset>>
      BY <1>8 DEF ucli_history, Idle, editor
    <2>2. CASE n = 0 /\ tinyrl_history_unstifle
      <3>1. stifle' = 0 /\ entries' = entries /\ heap' = heap
        BY <2>2 DEF tinyrl_history_unstifle
      <3> QED
        BY <1>0, <2>1, <3>1, HistoryAssumption DEF TypeInv, TypeOK, StifleHonoured, length
    <2>3. CASE n # 0 /\ tinyrl_history_stifle(n)
      <3>1. /\ entries' \in Seq(Entry) /\ Len(entries') \in Nat
            /\ Len(entries') <= length /\ Len(entries') <= n
            /\ heap' \subseteq Nat /\ stifle' = n
        BY <1>0, <2>3, StifleType
      <3>2. Len(entries') <= size'
        BY <1>0, <2>1, <3>1
      <3> QED
        BY <1>0, <2>1, <3>1, <3>2 DEF TypeInv, TypeOK, StifleHonoured, length
    <2> QED
      BY <1>8, <2>2, <2>3 DEF ucli_history
  <1>9. ASSUME NEW i \in 1 .. length, tinyrl_history_remove(i) PROVE TypeInv'
    <2>1. /\ UNCHANGED <<size, current_index, corrupt, reading, viewing, offset, stifle>>
          /\ entries' = RemoveAt(entries, i) /\ heap' \subseteq heap
      BY <1>9 DEF tinyrl_history_remove, Idle, editor
    <2>2. entries' \in Seq(Entry) /\ Len(entries') = length - 1
      BY <1>0, <2>1, RemoveSlot
    <2>3. Len(entries') <= size' /\ (stifle # 0 => Len(entries') <= stifle)
      BY <1>0, <2>1, <2>2 DEF StifleHonoured
    <2> QED
      BY <1>0, <2>1, <2>2, <2>3 DEF TypeInv, TypeOK, StifleHonoured, length
  <1>10. CASE tinyrl_history_clear
    <2>1. /\ UNCHANGED <<size, current_index, corrupt, reading, viewing, offset, stifle>>
          /\ entries' = <<>> /\ heap' \subseteq heap
      BY <1>10 DEF tinyrl_history_clear, Idle, editor
    <2>2. entries' \in Seq(Entry) /\ Len(entries') = 0
      BY <2>1
    <2> QED
      BY <1>0, <2>1, <2>2 DEF TypeInv, TypeOK, StifleHonoured, length
  <1>11. CASE UNCHANGED vars
    BY <1>0, <1>1, <1>11 DEF vars, editor, TypeOK
  <1>12. CASE tinyrl_history_delete
    <2>0. /\ entries' = <<>> /\ size' = 0 /\ current_index' = 1 /\ offset' = 0
          /\ stifle' \in Limit /\ heap' \subseteq heap
      BY <1>12 DEF tinyrl_history_delete
    <2>1. /\ entries' \in Seq(Entry) /\ Len(entries') = 0 /\ size' = 0 /\ current_index' = 1
          /\ offset' = 0 /\ stifle' \in Limit /\ stifle' \in Nat /\ heap' \subseteq Nat
      <3>1. entries' \in Seq(Entry) /\ Len(entries') = 0
        BY <2>0
      <3>2. stifle' \in Nat
        BY <2>0, HistoryAssumption
      <3>3. heap' \subseteq Nat
        BY <1>0, <2>0 DEF TypeInv, TypeOK
      <3> QED
        BY <2>0, <3>1, <3>2, <3>3
    <2>2. corrupt' \in BOOLEAN /\ reading' \in BOOLEAN /\ viewing' \in BOOLEAN
      BY <1>0, <1>12 DEF tinyrl_history_delete, TypeOK
    <2>3. TypeOK'
      BY <2>1, <2>2 DEF TypeOK, length
    <2> QED
      BY <2>1, <2>3 DEF TypeInv, StifleHonoured, length
  <1> QED
    BY <1>2, <1>3, <1>4, <1>5, <1>6, <1>7, <1>8, <1>9, <1>10, <1>11, <1>12 DEF Next

(* Every variable keeps its type, and no more slots are used than were allocated
   (append_entry), whatever allocation fails. *)
THEOREM TypeCorrect == Spec => []TypeOK
  <1>1. TypeInv => TypeOK
    BY DEF TypeInv
  <1> QED
    BY <1>1, TypeInit, TypeStep, PTL DEF Spec

(* A stifled list keeps within its limit through additions, removals and changes of
   the limit (tinyrl_history_add, tinyrl_history_stifle), whatever allocation fails. *)
THEOREM StifleCorrect == Spec => []StifleHonoured
  <1>1. TypeInv => StifleHonoured
    BY DEF TypeInv
  <1> QED
    BY <1>1, TypeInit, TypeStep, PTL DEF Spec

-----------------------------------------------------------------------------
(* What the entries owe to each other and to the heap, until an entry fails to be *)
(* allocated.                                                                   *)

SoundInv == TypeInv /\ (~corrupt => Sound(entries, heap, current_index))

LEMMA SoundIs ==
  ASSUME Sound(entries, heap, current_index)
  PROVE  HeldOnce /\ NumbersAscend /\ EntriesOwned
BY DEF Sound, HeldOnce, NumbersAscend, EntriesOwned, length

LEMMA SoundInit == Init => SoundInv
  <1> SUFFICES ASSUME Init PROVE Sound(entries, heap, current_index)
    BY TypeInit DEF SoundInv
  <1>1. entries \in Seq(Entry) /\ Len(entries) = 0 /\ heap = {} /\ current_index = 1
    BY DEF Init
  <1>2. 1 .. Len(entries) = {}
    BY <1>1
  <1>3. Indexes(entries) = {}
    BY <1>1, <1>2, IndexesAre
  <1> QED
    BY <1>1, <1>2, <1>3 DEF Sound

LEMMA SoundAdd ==
  ASSUME ~corrupt', NEW l \in Line, NEW s, NEW h, NEW stale,
         Sound(s, h, current_index), \A j \in 1 .. Len(s) : s[j].line # l,
         append_entry(s, h, stale, l)
  PROVE  Sound(entries', heap', current_index')
  <1>1. CASE entries' = Append(s, [line |-> l, index |-> current_index])
             /\ heap' = h \cup {current_index} /\ current_index' = current_index + 1
    BY <1>1, SoundAppend
  <1>2. CASE entries' = s /\ heap' = h /\ current_index' = current_index
    BY <1>2
  <1> QED
    BY <1>1, <1>2 DEF append_entry, Number

(* A slot without an entry is never repaired. *)
LEMMA CorruptStays == [Next]_vars /\ corrupt => corrupt'
  <1> SUFFICES ASSUME [Next]_vars, corrupt PROVE corrupt'
    OBVIOUS
  <1>1. ASSUME NEW l \in Line, tinyrl_history_add(l) PROVE corrupt'
    BY <1>1 DEF tinyrl_history_add, append_entry
  <1>2. ASSUME NEW l \in Line, ReadlineReturns(l) PROVE corrupt'
    BY <1>1, <1>2 DEF ReadlineReturns
  <1> QED
    BY <1>2 DEF Next, ReadlineStarts, tinyrl_key_up, tinyrl_key_down, changed_line,
                ReadlineEnds, ucli_history, tinyrl_history_remove, tinyrl_history_clear,
                tinyrl_history_delete, Idle, list, vars

LEMMA SoundStep == SoundInv /\ [Next]_vars => SoundInv'
  <1> SUFFICES ASSUME SoundInv, [Next]_vars, ~corrupt'
               PROVE  Sound(entries', heap', current_index')
    BY TypeStep DEF SoundInv
  <1>a. ~corrupt
    BY CorruptStays
  <1>0. /\ TypeOK /\ Sound(entries, heap, current_index)
        /\ length \in Nat /\ length = Len(entries)
    BY <1>a, LengthIsNat DEF SoundInv, TypeInv, length
  <1>1. CASE UNCHANGED list
    BY <1>0, <1>1 DEF list
  <1>2. ASSUME NEW l \in Line, ReadlineReturns(l)
        PROVE  Sound(entries', heap', current_index')
    <2>1. tinyrl_history_add(l)
      BY <1>2 DEF ReadlineReturns
    <2>2. CASE MakesWay(l) = {} /\ append_entry(entries, heap, Uninitialised, l)
      <3>1. \A j \in 1 .. Len(entries) : entries[j].line # l
        BY <1>0, <2>2 DEF MakesWay, Holding
      <3> QED
        BY <1>0, <2>2, <3>1, SoundAdd
    <2>3. ASSUME NEW i \in MakesWay(l),
                 append_entry(RemoveAt(entries, i), heap \ {Freed(i)}, Last(entries), l)
          PROVE  Sound(entries', heap', current_index')
      <3> DEFINE r == RemoveAt(entries, i)
      <3>1. i \in 1 .. Len(entries)
        BY <1>0, MakesWayIsSlot
      <3>2. /\ Sound(r, heap \ {Freed(i)}, current_index)
            /\ \A j \in 1 .. Len(r) : r[j].line # entries[i].line
        BY <1>0, <3>1, SoundRemove DEF Freed
      <3>3. \A j \in 1 .. Len(r) : r[j].line # l
        <4>1. CASE entries[i].line = l
          BY <3>2, <4>1
        <4>2. CASE entries[i].line # l
          <5>1. \A k \in 1 .. Len(entries) : entries[k].line # l
            BY <1>0, <4>2 DEF MakesWay, Holding
          <5>2. /\ Len(r) = Len(entries) - 1
                /\ \A j \in 1 .. Len(entries) - 1 :
                     r[j] = IF j < i THEN entries[j] ELSE entries[j + 1]
            BY <1>0, <3>1, RemoveSlot DEF TypeOK
          <5> HIDE DEF r
          <5>3. \A j \in 1 .. Len(r) : j \in 1 .. Len(entries) /\ j + 1 \in 1 .. Len(entries)
            BY <1>0, <5>2
          <5> QED
            BY <5>1, <5>2, <5>3
        <4> QED
          BY <4>1, <4>2
      <3> HIDE DEF r
      <3>4. append_entry(r, heap \ {Freed(i)}, Last(entries), l)
        BY <2>3 DEF r
      <3> QED
        BY <3>2, <3>3, <3>4, SoundAdd
    <2> QED
      BY <2>1, <2>2, <2>3 DEF tinyrl_history_add
  <1>3. ASSUME NEW n \in Limit, ucli_history(n)
        PROVE  Sound(entries', heap', current_index')
    <2>1. current_index' = current_index
      BY <1>3 DEF ucli_history, Idle
    <2>2. CASE n = 0 /\ tinyrl_history_unstifle
      BY <1>0, <2>1, <2>2 DEF tinyrl_history_unstifle
    <2>3. CASE n # 0 /\ tinyrl_history_stifle(n)
      <3> DEFINE gone == IF n < length THEN length - n ELSE 0
      <3>1. gone \in 0 .. Len(entries)
        BY <1>0, HistoryAssumption
      <3>2. /\ entries' = SubSeq(entries, gone + 1, Len(entries))
            /\ heap' = heap \ {entries[i].index : i \in 1 .. gone}
        BY <1>0, <2>3 DEF tinyrl_history_stifle, Oldest
      <3> HIDE DEF gone
      <3> QED
        BY <1>0, <2>1, <3>1, <3>2, SoundDrop
    <2> QED
      BY <1>3, <2>2, <2>3 DEF ucli_history
  <1>4. ASSUME NEW i \in 1 .. length, tinyrl_history_remove(i)
        PROVE  Sound(entries', heap', current_index')
    <2>1. /\ current_index' = current_index /\ entries' = RemoveAt(entries, i)
          /\ heap' = heap \ {entries[i].index} /\ i \in 1 .. Len(entries)
      BY <1>0, <1>4 DEF tinyrl_history_remove, Idle
    <2> QED
      BY <1>0, <2>1, SoundRemove
  <1>5. CASE tinyrl_history_clear
    <2>1. /\ current_index' = current_index /\ entries' = <<>>
          /\ heap' = heap \ {entries[i].index : i \in 1 .. Len(entries)}
      BY <1>0, <1>5 DEF tinyrl_history_clear, Idle, Oldest
    <2>2. heap' = {}
      BY <1>0, <2>1, IndexesAre DEF Sound
    <2>3. entries' \in Seq(Entry) /\ 1 .. Len(entries') = {}
      BY <2>1
    <2>4. Indexes(entries') = {}
      BY <2>3, IndexesAre
    <2> QED
      BY <1>0, <2>1, <2>2, <2>3, <2>4 DEF Sound
  <1>7. CASE tinyrl_history_delete
    <2>1. /\ current_index' = 1 /\ entries' = <<>>
          /\ heap' = heap \ {entries[i].index : i \in 1 .. Len(entries)}
      BY <1>0, <1>7 DEF tinyrl_history_delete, Oldest
    <2>2. heap' = {}
      BY <1>0, <2>1, IndexesAre DEF Sound
    <2>3. entries' \in Seq(Entry) /\ 1 .. Len(entries') = {} /\ current_index' \in Nat
      BY <2>1
    <2>4. Indexes(entries') = {}
      BY <2>3, IndexesAre
    <2> QED
      BY <2>1, <2>2, <2>3, <2>4 DEF Sound
  <1>6. ReadlineStarts \/ tinyrl_key_up \/ tinyrl_key_down \/ changed_line \/ ReadlineEnds
          \/ UNCHANGED vars => UNCHANGED list
    BY DEF ReadlineStarts, tinyrl_key_up, tinyrl_key_down, changed_line, ReadlineEnds, vars
  <1> QED
    BY <1>1, <1>2, <1>3, <1>4, <1>5, <1>6, <1>7 DEF Next

(* Until an entry fails to be allocated a line is held once, the numbers by which users
   recall lines ascend, and each entry allocated is in one slot (tinyrl_history_add). *)
THEOREM EntriesCorrect == Spec => []EntriesSound
  <1>1. Init => SoundInv
    BY SoundInit
  <1>2. SoundInv /\ [Next]_vars => SoundInv'
    BY SoundStep
  <1>3. SoundInv => EntriesSound
    BY SoundIs DEF SoundInv, EntriesSound
  <1> QED
    BY <1>1, <1>2, <1>3, PTL DEF Spec

-----------------------------------------------------------------------------
(* The iterator, and the number of the last line. *)
ViewInv == TypeInv /\ ViewsAnEntry

LEMMA ViewStep == ViewInv /\ [Next]_vars => ViewInv'
  <1> SUFFICES ASSUME ViewInv, [Next]_vars PROVE ViewsAnEntry'
    BY TypeStep DEF ViewInv
  <1>0. /\ length \in Nat /\ offset \in Nat /\ ViewsAnEntry
    BY LengthIsNat DEF ViewInv, TypeInv, TypeOK
  <1>1. CASE UNCHANGED list
    <2>1. length' = length
      BY <1>1 DEF list, length
    <2>2. CASE tinyrl_key_up
      <3>1. reading /\ UNCHANGED reading
        BY <2>2 DEF tinyrl_key_up
      <3>2. CASE viewing
        <4>1. Above = offset /\ offset < length
          BY <1>0, <3>1, <3>2 DEF Above, ViewsAnEntry
        <4>2. offset' < length
          BY <1>0, <2>2, <4>1 DEF tinyrl_key_up
        <4> QED
          BY <2>1, <4>2 DEF ViewsAnEntry
      <3>3. CASE ~viewing
        <4>1. Above = length
          BY <3>3 DEF Above
        <4>2. (Above > 0 /\ offset' = Above - 1) \/ ~viewing'
          BY <2>2, <3>3, Zenon DEF tinyrl_key_up
        <4>3. viewing' => offset' < length
          BY <1>0, <4>1, <4>2
        <4> QED
          BY <2>1, <4>3 DEF ViewsAnEntry
      <3> QED
        BY <3>2, <3>3
    <2>3. CASE tinyrl_key_down
      BY <1>0, <2>1, <2>3 DEF tinyrl_key_down, HasNext, ViewsAnEntry
    <2>4. CASE ~(viewing' /\ reading') \/ UNCHANGED editor
      BY <1>0, <2>1, <2>4 DEF ViewsAnEntry, editor
    <2> QED
      BY <1>1, <2>2, <2>3, <2>4
      DEF Next, ReadlineStarts, changed_line, ReadlineReturns, ReadlineEnds, ucli_history,
          tinyrl_history_remove, tinyrl_history_clear, tinyrl_history_delete, Idle, vars
  <1>2. CASE ~reading'
    BY <1>2 DEF ViewsAnEntry
  <1> QED
    BY <1>1, <1>2
    DEF Next, ReadlineStarts, tinyrl_key_up, tinyrl_key_down, changed_line, ReadlineReturns, ReadlineEnds,
        ucli_history, tinyrl_history_remove, tinyrl_history_clear, tinyrl_history_delete, Idle, editor, vars

(* While the user browses, the iterator stays on an entry that the list holds: the
   list cannot change under it (tinyrl_key_up, tinyrl_key_down). *)
THEOREM ViewCorrect == Spec => []ViewsAnEntry
  <1>1. Init => ViewInv
    BY TypeInit DEF Init, ViewInv, ViewsAnEntry
  <1>2. ViewInv => ViewsAnEntry
    BY DEF ViewInv
  <1> QED
    BY <1>1, <1>2, ViewStep, PTL DEF Spec

(* The line just added has its number alone. *)
LEMMA RecallStep ==
  ASSUME SoundInv, SoundInv', NEW l \in Line, ReadlineReturns(l), current_index' # current_index, ~corrupt'
  PROVE  {entries'[i].line : i \in tinyrl_history_get(current_index - 1)'} = {l}
  <1>0. /\ TypeOK /\ TypeOK' /\ Sound(entries', heap', current_index') /\ tinyrl_history_add(l)
        /\ entries' \in Seq(Entry) /\ entries \in Seq(Entry) /\ current_index \in Nat
    BY DEF SoundInv, TypeInv, TypeOK, ReadlineReturns
  <1>1. PICK s : /\ entries' = Append(s, [line |-> l, index |-> current_index])
                 /\ current_index' = current_index + 1 /\ s \in Seq(Entry)
    <2>1. ASSUME NEW s \in Seq(Entry), NEW h, NEW stale, append_entry(s, h, stale, l)
          PROVE  /\ entries' = Append(s, [line |-> l, index |-> current_index])
                 /\ current_index' = current_index + 1
      BY <2>1 DEF append_entry, Number
    <2>2. CASE MakesWay(l) = {} /\ append_entry(entries, heap, Uninitialised, l)
      BY <1>0, <2>1, <2>2
    <2>3. ASSUME NEW i \in MakesWay(l),
                 append_entry(RemoveAt(entries, i), heap \ {Freed(i)}, Last(entries), l)
          PROVE  \E s : /\ entries' = Append(s, [line |-> l, index |-> current_index])
                        /\ current_index' = current_index + 1 /\ s \in Seq(Entry)
      <3>1. i \in 1 .. Len(entries)
        BY <1>0, MakesWayIsSlot DEF length
      <3>2. RemoveAt(entries, i) \in Seq(Entry)
        BY <1>0, <3>1, RemoveSlot
      <3> QED
        BY <2>1, <2>3, <3>2
    <2> QED
      BY <1>0, <2>2, <2>3 DEF tinyrl_history_add
  <1> DEFINE e == [line |-> l, index |-> current_index]
             n == Len(s) + 1
  <1>2. e \in Entry /\ e.line = l /\ e.index = current_index
    BY <1>0 DEF Entry
  <1>3. Len(s) \in Nat
    BY <1>1
  <1> HIDE DEF e
  <1>4. entries' = Append(s, e)
    BY <1>1 DEF e
  <1>5. Len(entries') = n /\ entries'[n] = e /\ n \in Nat /\ n \in 1 .. n
    BY <1>1, <1>2, <1>3, <1>4, AddSlot
  <1> HIDE DEF n
  <1>6. \A i \in 1 .. n : entries'[i] \in Entry
    BY <1>0, <1>5, ElementOfSeq
  <1>7. \A i \in 1 .. n : entries'[i].index = current_index => i = n
    <2> SUFFICES ASSUME NEW i \in 1 .. n, entries'[i].index = current_index, i # n PROVE FALSE
      OBVIOUS
    <2>1. i < n
      BY <1>5
    <2>2. entries'[i].index < entries'[n].index
      BY <1>0, <1>5, <2>1 DEF Sound
    <2> QED
      BY <1>0, <1>2, <1>5, <2>2
  <1>8. tinyrl_history_get(current_index - 1)' = {i \in 1 .. n : entries'[i].index = current_index}
    <2>1. current_index' - 1 = current_index
      BY <1>0, <1>1
    <2>2. length' = n
      BY <1>5 DEF length
    <2> QED
      BY <2>1, <2>2 DEF tinyrl_history_get
  <1>9. tinyrl_history_get(current_index - 1)' = {n}
    BY <1>2, <1>5, <1>7, <1>8
  <1> QED
    BY <1>2, <1>5, <1>9

(* The number before the next one recalls the line just read (tinyrl_history_get, of
   the number that "!!" stands for), whatever slots the line took or freed. *)
THEOREM RecallCorrect == Spec => RecallsLast
  <1>1. ASSUME SoundInv, SoundInv', [Next]_vars
        PROVE  [\A l \in Line : ReadlineReturns(l) /\ current_index' # current_index /\ ~corrupt' =>
                  {entries'[i].line : i \in tinyrl_history_get(current_index - 1)'} = {l}]_vars
    BY <1>1, RecallStep
  <1>2. Init => SoundInv
    BY SoundInit
  <1>3. SoundInv /\ [Next]_vars => SoundInv'
    BY SoundStep
  <1> QED
    BY <1>1, <1>2, <1>3, PTL DEF Spec, RecallsLast

-----------------------------------------------------------------------------
(* The lines of the slots in use, which are the list of CommandList. *)
LinesOf(s) == [i \in 1 .. Len(s) |-> s[i].line]
AnyLine == Line \cup {NoLine}

LEMMA LinesAre ==
  ASSUME NEW s \in Seq(Entry)
  PROVE  /\ LinesOf(s) \in Seq(AnyLine) /\ Len(LinesOf(s)) = Len(s) /\ Len(s) \in Nat
         /\ \A i \in 1 .. Len(s) : LinesOf(s)[i] = s[i].line
  <1>1. \A i \in 1 .. Len(s) : s[i] \in Entry
    BY ElementOfSeq
  <1>2. \A i \in 1 .. Len(s) : s[i].line \in AnyLine
    BY <1>1 DEF Entry, AnyLine
  <1>3. Len(s) \in Nat
    OBVIOUS
  <1>4. LinesOf(s) \in [1 .. Len(s) -> AnyLine]
    BY <1>2 DEF LinesOf
  <1>5. LinesOf(s) \in Seq(AnyLine) /\ DOMAIN LinesOf(s) = 1 .. Len(s)
    BY <1>3, <1>4, SeqDef
  <1>6. Len(LinesOf(s)) = Len(s)
    BY <1>3, <1>5, LenProperties
  <1> QED
    BY <1>3, <1>5, <1>6 DEF LinesOf

LEMMA LinesDrop ==
  ASSUME NEW s \in Seq(Entry), NEW g \in 0 .. Len(s)
  PROVE  LinesOf(SubSeq(s, g + 1, Len(s))) = SubSeq(LinesOf(s), g + 1, Len(s))
  <1> DEFINE n == Len(s)
             a == SubSeq(s, g + 1, n)
             v == LinesOf(s)
             b == SubSeq(v, g + 1, n)
  <1>1. n \in Nat /\ g \in Nat /\ g <= n
    BY LinesAre
  <1>2. a \in Seq(Entry) /\ Len(a) = n - g /\ \A j \in 1 .. n - g : a[j] = s[g + j]
    BY DropSlots
  <1>3. v \in Seq(AnyLine) /\ Len(v) = n /\ \A i \in 1 .. n : v[i] = s[i].line /\ v[i] \in AnyLine
    <2>1. v \in Seq(AnyLine) /\ Len(v) = n /\ \A i \in 1 .. n : v[i] = s[i].line
      BY LinesAre
    <2> HIDE DEF v, n
    <2> QED
      BY <2>1, ElementOfSeq
  <1> HIDE DEF n, v
  <1>4. b \in Seq(AnyLine) /\ Len(b) = n - g /\ \A j \in 1 .. n - g : b[j] = v[g + j]
    <2>1. g + 1 \in Int /\ n \in Int /\ \A i \in g + 1 .. n : v[i] \in AnyLine
      BY <1>1, <1>3
    <2>2. /\ b \in Seq(AnyLine) /\ Len(b) = IF g + 1 <= n THEN n - (g + 1) + 1 ELSE 0
          /\ \A j \in 1 .. n - (g + 1) + 1 : b[j] = v[(g + 1) + j - 1]
      BY <2>1, SubSeqProperties
    <2> HIDE DEF b
    <2> QED
      BY <1>1, <2>2
  <1> HIDE DEF a, b
  <1>5. LinesOf(a) \in Seq(AnyLine) /\ Len(LinesOf(a)) = n - g /\ \A i \in 1 .. n - g : LinesOf(a)[i] = a[i].line
    BY <1>2, LinesAre
  <1>6. \A i \in 1 .. n - g : LinesOf(a)[i] = b[i]
    <2> SUFFICES ASSUME NEW i \in 1 .. n - g PROVE LinesOf(a)[i] = b[i]
      OBVIOUS
    <2>1. g + i \in 1 .. n
      BY <1>1
    <2> QED
      BY <1>2, <1>3, <1>4, <1>5, <2>1
  <1>7. LinesOf(a) = b
    BY <1>4, <1>5, <1>6, SeqEqual
  <1> QED
    BY <1>7 DEF a, b, v, n

LEMMA LinesAppend ==
  ASSUME NEW s \in Seq(Entry), NEW e \in Entry
  PROVE  LinesOf(Append(s, e)) = Append(LinesOf(s), e.line)
  <1> DEFINE n == Len(s)
             a == Append(s, e)
             v == LinesOf(s)
             b == Append(v, e.line)
  <1>1. a \in Seq(Entry) /\ Len(a) = n + 1 /\ a[n + 1] = e /\ \A i \in 1 .. n : a[i] = s[i]
    BY AddSlot
  <1>2. v \in Seq(AnyLine) /\ Len(v) = n /\ n \in Nat /\ \A i \in 1 .. n : v[i] = s[i].line
    BY LinesAre
  <1>3. e.line \in AnyLine
    BY DEF Entry, AnyLine
  <1> HIDE DEF v, n
  <1>4. b \in Seq(AnyLine) /\ Len(b) = n + 1 /\ b[n + 1] = e.line /\ \A i \in 1 .. n : b[i] = v[i]
    BY <1>2, <1>3, AppendProperties
  <1> HIDE DEF a, b
  <1>5. LinesOf(a) \in Seq(AnyLine) /\ Len(LinesOf(a)) = n + 1 /\ \A i \in 1 .. n + 1 : LinesOf(a)[i] = a[i].line
    BY <1>1, LinesAre
  <1>6. \A i \in 1 .. n + 1 : LinesOf(a)[i] = b[i]
    BY <1>1, <1>2, <1>4, <1>5
  <1>7. LinesOf(a) = b
    BY <1>4, <1>5, <1>6, SeqEqual
  <1> QED
    BY <1>7 DEF a, b, v, n

LEMMA LinesRemove ==
  ASSUME NEW s \in Seq(Entry), NEW i \in 1 .. Len(s)
  PROVE  LinesOf(RemoveAt(s, i)) = RemoveAt(LinesOf(s), i)
  <1> DEFINE n == Len(s)
             a == RemoveAt(s, i)
             v == LinesOf(s)
             b == RemoveAt(v, i)
  <1>1. a \in Seq(Entry) /\ Len(a) = n - 1 /\ \A j \in 1 .. n - 1 : a[j] = IF j < i THEN s[j] ELSE s[j + 1]
    BY RemovedAt
  <1>2. v \in Seq(AnyLine) /\ Len(v) = n /\ n \in Nat /\ \A j \in 1 .. n : v[j] = s[j].line
    BY LinesAre
  <1>0. i \in 1 .. n
    OBVIOUS
  <1> HIDE DEF v, n
  <1>3. b \in Seq(AnyLine) /\ Len(b) = n - 1 /\ \A j \in 1 .. n - 1 : b[j] = IF j < i THEN v[j] ELSE v[j + 1]
    BY <1>0, <1>2, RemovedAt
  <1> HIDE DEF a, b
  <1>4. LinesOf(a) \in Seq(AnyLine) /\ Len(LinesOf(a)) = n - 1 /\ \A j \in 1 .. n - 1 : LinesOf(a)[j] = a[j].line
    BY <1>1, LinesAre
  <1>5. \A j \in 1 .. n - 1 : LinesOf(a)[j] = b[j]
    <2> SUFFICES ASSUME NEW j \in 1 .. n - 1 PROVE LinesOf(a)[j] = b[j]
      OBVIOUS
    <2>1. j \in 1 .. n /\ j + 1 \in 1 .. n
      BY <1>2
    <2> QED
      BY <1>1, <1>2, <1>3, <1>4, <2>1
  <1>6. LinesOf(a) = b
    BY <1>3, <1>4, <1>5, SeqEqual
  <1> QED
    BY <1>6 DEF a, b, v, n

(* CommandList takes out the first place of a line; it is the only one. *)
LEMMA WithoutHeld ==
  ASSUME NEW S, NEW v \in Seq(S), NEW i \in 1 .. Len(v), NEW l, v[i] = l,
         \A j \in 1 .. Len(v) : v[j] = l => j = i
  PROVE  Abstract!Without(v, l) = RemoveAt(v, i)
  <1>1. {j \in 1 .. Len(v) : v[j] = l} = {i}
    OBVIOUS
  <1>2. i \in Int
    OBVIOUS
  <1>3. Min({i}) = i
    BY <1>2 DEF Min
  <1> QED
    BY <1>1, <1>3 DEF Abstract!Without, Abstract!RemoveFirst, Abstract!SelectInSeq, Abstract!RemoveAt, RemoveAt, Abstract!Min, Min

LEMMA WithoutUnheld ==
  ASSUME NEW v, NEW l, \A j \in 1 .. Len(v) : v[j] # l
  PROVE  Abstract!Without(v, l) = v
  BY DEF Abstract!Without, Abstract!RemoveFirst

(* A list that is full loses its oldest line for the new one. *)
LEMMA Rotated ==
  ASSUME NEW S, NEW v \in Seq(S), NEW l \in S, Len(v) >= 1
  PROVE  SubSeq(Append(v, l), 2, Len(v) + 1) = Append(RemoveAt(v, 1), l)
  <1> DEFINE n == Len(v)
             a == Append(v, l)
             b == SubSeq(a, 2, n + 1)
             r == RemoveAt(v, 1)
             d == Append(r, l)
  <1>1. n \in Nat /\ n >= 1 /\ 1 \in 1 .. n
    OBVIOUS
  <1>2. a \in Seq(S) /\ Len(a) = n + 1 /\ a[n + 1] = l /\ \A j \in 1 .. n : a[j] = v[j]
    BY AppendProperties
  <1>3. r \in Seq(S) /\ Len(r) = n - 1 /\ \A j \in 1 .. n - 1 : r[j] = IF j < 1 THEN v[j] ELSE v[j + 1]
    BY <1>1, RemovedAt
  <1> HIDE DEF n, a, r
  <1>4. d \in Seq(S) /\ Len(d) = n /\ d[n] = l /\ \A j \in 1 .. n - 1 : d[j] = r[j]
    <2>1. /\ d \in Seq(S) /\ Len(d) = Len(r) + 1 /\ d[Len(r) + 1] = l
          /\ \A j \in 1 .. Len(r) : d[j] = r[j]
      BY <1>3, AppendProperties
    <2>2. Len(r) + 1 = n
      BY <1>1, <1>3
    <2> HIDE DEF d
    <2> QED
      BY <1>3, <2>1, <2>2
  <1>5. b \in Seq(S) /\ Len(b) = n /\ \A j \in 1 .. n : b[j] = a[j + 1]
    <2>1. 2 \in Int /\ n + 1 \in Int /\ \A j \in 2 .. n + 1 : a[j] \in S
      <3>1. \A j \in 1 .. n + 1 : a[j] \in S
        BY <1>2, ElementOfSeq
      <3> QED
        BY <1>1, <3>1
    <2>2. /\ b \in Seq(S) /\ Len(b) = IF 2 <= n + 1 THEN (n + 1) - 2 + 1 ELSE 0
          /\ \A j \in 1 .. (n + 1) - 2 + 1 : b[j] = a[2 + j - 1]
      BY <2>1, SubSeqProperties
    <2> HIDE DEF b
    <2> QED
      BY <1>1, <2>2
  <1> HIDE DEF b, d
  <1>6. \A j \in 1 .. n : b[j] = d[j]
    <2> SUFFICES ASSUME NEW j \in 1 .. n PROVE b[j] = d[j]
      OBVIOUS
    <2>1. CASE j = n
      BY <1>1, <1>2, <1>4, <1>5, <2>1
    <2>2. CASE j # n
      <3>1. j \in 1 .. n - 1 /\ j + 1 \in 1 .. n /\ ~(j < 1)
        BY <1>1, <2>2
      <3> QED
        BY <1>2, <1>3, <1>4, <1>5, <3>1
    <2> QED
      BY <2>1, <2>2
  <1>7. b = d
    BY <1>4, <1>5, <1>6, SeqEqual
  <1> QED
    BY <1>7 DEF a, b, d, n, r

(* What adding a line does to the list: it is entered, or lost, or the list torn. *)
LEMMA AddEnters ==
  ASSUME SoundInv, ~corrupt, NEW l \in Line, tinyrl_history_add(l)
  PROVE  /\ stifle' = stifle
         /\ \/ corrupt'
            \/ /\ ~corrupt'
               /\ \/ LinesOf(entries') = Abstract!Latest(Append(Abstract!Without(LinesOf(entries), l), l), stifle)
                  \/ LinesOf(entries') = Abstract!Without(LinesOf(entries), l)
  <1> DEFINE L == LinesOf(entries)
             e == [line |-> l, index |-> current_index]
             W == Abstract!Without(L, l)
  <1>0. /\ TypeOK /\ entries \in Seq(Entry) /\ length = Len(entries) /\ length \in Nat
        /\ size \in Nat /\ length <= size /\ stifle \in Nat /\ current_index \in Nat
        /\ HeldOnce /\ StifleHonoured /\ l \in AnyLine
    BY SoundIs, HistoryAssumption DEF SoundInv, TypeInv, TypeOK, length, AnyLine
  <1>1. L \in Seq(AnyLine) /\ Len(L) = length /\ \A j \in 1 .. length : L[j] = entries[j].line
    BY <1>0, LinesAre
  <1>2. e \in Entry /\ e.line = l
    BY <1>0 DEF Entry
  <1>3. Grow /\ stifle' = stifle /\ size' \in Nat /\ size <= size'
    BY <1>0, GrowType DEF tinyrl_history_add
  <1> HIDE DEF L, e, W
  <1>4. ASSUME NEW s \in Seq(Entry), NEW h, NEW stale, append_entry(s, h, stale, l), ~corrupt'
        PROVE  \/ LinesOf(entries') = Append(LinesOf(s), l)
               \/ entries' = s /\ ~HasRoom(s)
    <2>1. entries' = Append(s, e) \/ (entries' = s /\ ~HasRoom(s))
      BY <1>4 DEF append_entry, Number, e
    <2> QED
      BY <1>2, <2>1, LinesAppend
  <1>5. ASSUME NEW v \in Seq(AnyLine), Len(v) < stifle \/ stifle = 0
        PROVE  Abstract!Latest(Append(v, l), stifle) = Append(v, l)
    <2>1. Len(Append(v, l)) = Len(v) + 1 /\ Len(v) \in Nat
      BY <1>0, <1>5, AppendProperties
    <2>2. stifle = 0 \/ Len(Append(v, l)) <= stifle
      BY <1>0, <1>5, <2>1
    <2> QED
      BY <2>2 DEF Abstract!Latest
  <1>6. ASSUME MakesWay(l) = {}, append_entry(entries, heap, Uninitialised, l), ~corrupt'
        PROVE  LinesOf(entries') = Abstract!Latest(Append(W, l), stifle) \/ LinesOf(entries') = W
    <2>1. \A j \in 1 .. length : L[j] # l
      BY <1>1, <1>6 DEF MakesWay, Holding
    <2>2. W = L
      BY <1>1, <2>1, WithoutUnheld DEF W
    <2>3. length < stifle \/ stifle = 0
      <3>1. ~Full
        BY <1>6 DEF MakesWay
      <3> QED
        BY <1>0, <3>1 DEF Full, StifleHonoured
    <2>4. LinesOf(entries') = Append(L, l) \/ LinesOf(entries') = L
      BY <1>0, <1>4, <1>6 DEF L
    <2>5. Abstract!Latest(Append(L, l), stifle) = Append(L, l)
      BY <1>1, <1>5, <2>3
    <2> QED
      BY <2>2, <2>4, <2>5
  <1>7. ASSUME NEW i \in MakesWay(l), ~corrupt',
               append_entry(RemoveAt(entries, i), heap \ {Freed(i)}, Last(entries), l)
        PROVE  LinesOf(entries') = Abstract!Latest(Append(W, l), stifle) \/ LinesOf(entries') = W
    <2> DEFINE r == RemoveAt(entries, i)
               R == RemoveAt(L, i)
    <2>1. i \in 1 .. length
      BY <1>0, MakesWayIsSlot
    <2>2. r \in Seq(Entry) /\ Len(r) = length - 1 /\ LinesOf(r) = R
      BY <1>0, <2>1, RemovedAt, LinesRemove DEF L
    <2>3. R \in Seq(AnyLine) /\ Len(R) = length - 1
      BY <1>1, <2>1, RemovedAt
    <2> HIDE DEF r, R
    <2>4. LinesOf(entries') = Append(R, l) \/ (LinesOf(entries') = R /\ ~HasRoom(r))
      <3>1. append_entry(r, heap \ {Freed(i)}, Last(entries), l)
        BY <1>7 DEF r
      <3> QED
        BY <1>4, <1>7, <2>2, <3>1
    <2>5. CASE entries[i].line = l
      <3>1. \A j \in 1 .. length : L[j] = l => j = i
        BY <1>0, <1>1, <2>1, <2>5 DEF HeldOnce
      <3>2. L[i] = l
        BY <1>1, <2>1, <2>5
      <3>3. W = R
        BY <1>1, <2>1, <3>1, <3>2, WithoutHeld DEF W, R
      <3>4. Len(R) < stifle \/ stifle = 0
        BY <1>0, <2>1, <2>3 DEF StifleHonoured
      <3>5. Abstract!Latest(Append(R, l), stifle) = Append(R, l)
        BY <1>5, <2>3, <3>4
      <3> QED
        BY <2>4, <3>3, <3>5
    <2>6. CASE entries[i].line # l
      <3>1. Holding(l) = {} /\ Full /\ i = 1
        BY <1>7, <2>6 DEF MakesWay, Holding
      <3>2. W = L
        <4>1. \A j \in 1 .. length : L[j] # l
          BY <1>1, <3>1 DEF Holding
        <4> QED
          BY <1>1, <4>1, WithoutUnheld DEF W
      <3>3. HasRoom(r)
        BY <1>0, <1>3, <2>1, <2>2 DEF HasRoom
      <3>4. LinesOf(entries') = Append(RemoveAt(L, 1), l)
        BY <2>4, <3>1, <3>3 DEF R
      <3>5. length >= 1 /\ stifle = length
        BY <1>0, <3>1 DEF Full
      <3>6. SubSeq(Append(L, l), 2, length + 1) = Append(RemoveAt(L, 1), l)
        BY <1>0, <1>1, <3>5, Rotated
      <3>7. Len(Append(L, l)) = length + 1
        BY <1>0, <1>1, AppendProperties
      <3>8. (length + 1) - stifle + 1 = 2 /\ stifle # 0 /\ ~(length + 1 <= stifle)
        BY <1>0, <3>5
      <3>9. Abstract!Latest(Append(L, l), stifle) = SubSeq(Append(L, l), 2, length + 1)
        BY <3>7, <3>8 DEF Abstract!Latest
      <3> QED
        BY <3>2, <3>4, <3>6, <3>9
    <2> QED
      BY <2>5, <2>6
  <1>8. corrupt' \in BOOLEAN
    BY <1>0, AddType
  <1> QED
    BY <1>3, <1>6, <1>7, <1>8 DEF tinyrl_history_add, L, W

(* A line is read only while the list is whole. *)
RefineInv == SoundInv /\ (reading => ~corrupt)

LEMMA RefineStep == RefineInv /\ [Next]_vars => RefineInv'
  <1> SUFFICES ASSUME RefineInv, [Next]_vars PROVE reading' => ~corrupt'
    BY SoundStep DEF RefineInv
  <1>1. ~reading' \/ (UNCHANGED corrupt /\ (reading \/ ~corrupt))
    BY DEF RefineInv, Next, ReadlineStarts, tinyrl_key_up, tinyrl_key_down, changed_line, ReadlineReturns,
           ReadlineEnds, ucli_history, tinyrl_history_remove, tinyrl_history_clear, tinyrl_history_delete,
           Idle, list, editor, vars
  <1> QED
    BY <1>1 DEF RefineInv

LEMMA StifledIs ==
  ASSUME SoundInv, NEW n \in Limit, ucli_history(n)
  PROVE  stifle' = n /\ LinesOf(entries') = Abstract!Latest(LinesOf(entries), n)
  <1>0. entries \in Seq(Entry) /\ length = Len(entries) /\ length \in Nat /\ n \in Nat
    BY HistoryAssumption DEF SoundInv, TypeInv, TypeOK, length
  <1>1. Len(LinesOf(entries)) = length
    BY <1>0, LinesAre
  <1>2. CASE n = 0
    BY <1>2 DEF ucli_history, tinyrl_history_unstifle, Abstract!Latest
  <1>3. CASE n # 0 /\ n < length
    <2>1. length - n \in 0 .. Len(entries)
      BY <1>0, <1>3
    <2>2. entries' = SubSeq(entries, (length - n) + 1, Len(entries)) /\ stifle' = n
      BY <1>0, <1>3 DEF ucli_history, tinyrl_history_stifle
    <2>3. LinesOf(entries') = SubSeq(LinesOf(entries), (length - n) + 1, Len(entries))
      BY <1>0, <2>1, <2>2, LinesDrop
    <2>4. Abstract!Latest(LinesOf(entries), n) = SubSeq(LinesOf(entries), length - n + 1, length)
      BY <1>0, <1>1, <1>3 DEF Abstract!Latest
    <2> QED
      BY <1>0, <2>2, <2>3, <2>4
  <1>4. CASE n # 0 /\ ~(n < length)
    <2>1. entries' = SubSeq(entries, 0 + 1, Len(entries)) /\ stifle' = n
      BY <1>0, <1>4 DEF ucli_history, tinyrl_history_stifle
    <2>2. entries' = entries
      BY <1>0, <2>1, SubSeqFull
    <2>3. Abstract!Latest(LinesOf(entries), n) = LinesOf(entries)
      BY <1>0, <1>1, <1>4 DEF Abstract!Latest
    <2> QED
      BY <2>1, <2>2, <2>3
  <1> QED
    BY <1>2, <1>3, <1>4

LEMMA NoLines == LinesOf(<<>>) = <<>>
  <1>1. <<>> \in Seq(Entry) /\ Len(<<>>) = 0
    BY EmptySeq
  <1>2. LinesOf(<<>>) \in Seq(AnyLine) /\ Len(LinesOf(<<>>)) = 0
    BY <1>1, LinesAre
  <1> QED
    BY <1>2, EmptySeq

(* Every step of the history is one of the list's, or leaves the list as it is. *)
LEMMA ListStep ==
  ASSUME RefineInv, [Next]_vars
  PROVE  [Abstract!LNext]_Abstract!lvars
  <1> DEFINE view == [i \in 1 .. length |-> entries[i].line]
  <1>0. /\ view = LinesOf(entries) /\ view' = LinesOf(entries')
        /\ entries \in Seq(Entry) /\ length = Len(entries) /\ length \in Nat /\ SoundInv
        /\ corrupt \in BOOLEAN
    BY DEF RefineInv, SoundInv, TypeInv, TypeOK, LinesOf, length
  <1>1. DOMAIN view = 1 .. length
    OBVIOUS
  <1> HIDE DEF view
  <1>2. CASE UNCHANGED list
    BY <1>2 DEF Abstract!lvars, list, length
  <1>3. ASSUME NEW l \in Line, ReadlineReturns(l) PROVE Abstract!LNext
    <2>1. ~corrupt /\ tinyrl_history_add(l)
      BY <1>3 DEF ReadlineReturns, RefineInv
    <2>2. /\ stifle' = stifle
          /\ \/ corrupt'
             \/ /\ ~corrupt'
                /\ \/ view' = Abstract!Latest(Append(Abstract!Without(view, l), l), stifle)
                   \/ view' = Abstract!Without(view, l)
      BY <1>0, <2>1, AddEnters
    <2>3. corrupt' \in BOOLEAN
      BY <1>0, <2>1, AddType DEF SoundInv, TypeInv
    <2>4. CASE corrupt'
      BY <2>1, <2>2, <2>3, <2>4 DEF Abstract!LNext, Abstract!Tear
    <2>5. CASE ~corrupt'
      <3>1. corrupt' = corrupt
        BY <1>0, <2>1, <2>3, <2>5
      <3>2. Abstract!Enter(l) \/ Abstract!Lose(l)
        BY <2>2, <2>5 DEF Abstract!Enter, Abstract!Lose, view
      <3> QED
        BY <2>1, <3>1, <3>2 DEF Abstract!LNext
    <2> QED
      BY <2>4, <2>5
  <1>4. ASSUME NEW n \in Limit, ucli_history(n) PROVE Abstract!LNext
    <2>1. ~corrupt /\ corrupt' = corrupt
      BY <1>4 DEF ucli_history, Idle
    <2>2. stifle' = n /\ view' = Abstract!Latest(view, n)
      BY <1>0, <1>4, StifledIs
    <2>3. Abstract!Stifle(n)
      BY <2>2 DEF Abstract!Stifle, view
    <2> QED
      BY <2>1, <2>3 DEF Abstract!LNext
  <1>5. ASSUME NEW i \in 1 .. length, tinyrl_history_remove(i) PROVE Abstract!LNext
    <2>1. ~corrupt /\ corrupt' = corrupt /\ stifle' = stifle /\ entries' = RemoveAt(entries, i)
      BY <1>5 DEF tinyrl_history_remove, Idle
    <2>2. view' = RemoveAt(view, i)
      BY <1>0, <2>1, LinesRemove
    <2>3. view' = Abstract!RemoveAt(view, i)
      BY <2>2 DEF RemoveAt, Abstract!RemoveAt
    <2>4. Abstract!Forget(i)
      BY <2>1, <2>3 DEF Abstract!Forget, view
    <2> QED
      BY <1>1, <2>1, <2>4 DEF Abstract!LNext, view
  <1>6. CASE tinyrl_history_clear
    <2>1. ~corrupt /\ corrupt' = corrupt /\ stifle' = stifle /\ view' = <<>>
      BY <1>0, <1>6, NoLines DEF tinyrl_history_clear, Idle
    <2> QED
      BY <2>1 DEF Abstract!LNext, Abstract!Clear, view
  <1>7. CASE tinyrl_history_delete
    <2>1. ~corrupt /\ corrupt' = corrupt /\ stifle' \in Limit /\ view' = <<>>
      BY <1>0, <1>7, NoLines DEF tinyrl_history_delete
    <2> QED
      BY <2>1 DEF Abstract!LNext, Abstract!Renew, view
  <1> QED
    BY <1>2, <1>3, <1>4, <1>5, <1>6, <1>7
    DEF Next, ReadlineStarts, tinyrl_key_up, tinyrl_key_down, changed_line, ReadlineEnds, vars

(* The vector of entries, with its limit, is the list of command lines that CHANGES
   promises: a line is held once, the last entered last, and the oldest lines go. *)
THEOREM Implements == Spec => ImplementsCommandList
  <1>1. Init => RefineInv /\ Abstract!LInit
    <2> SUFFICES ASSUME Init PROVE RefineInv /\ Abstract!LInit
      OBVIOUS
    <2>1. RefineInv
      BY SoundInit DEF RefineInv, Init
    <2>2. [i \in 1 .. length |-> entries[i].line] = <<>>
      BY NoLines DEF Init, LinesOf, length
    <2> QED
      BY <2>1, <2>2 DEF Abstract!LInit, Init
  <1>2. RefineInv /\ [Next]_vars => [Abstract!LNext]_Abstract!lvars
    BY ListStep
  <1> QED
    BY <1>1, <1>2, RefineStep, PTL DEF Spec, ImplementsCommandList, Abstract!LSpec
=============================================================================
