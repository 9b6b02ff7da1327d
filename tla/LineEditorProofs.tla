-------------------------- MODULE LineEditorProofs --------------------------
(***************************************************************************)
(* Theorems about LineEditor, for every set of commands, every script and  *)
(* lines of any length.                                                    *)
(***************************************************************************)
EXTENDS LineEditor, SequenceLemmas, SequenceTheorems, FiniteSetTheorems, TLAPS

-----------------------------------------------------------------------------
(* Texts. *)

(* A set of numbers up to N has a greatest one. *)
LEMMA Greatest ==
  ASSUME NEW N \in Nat, NEW T, T \subseteq 0 .. N, T # {}
  PROVE  \E x \in T : \A y \in T : y <= x
  <1> DEFINE D == {N - x : x \in T}
  <1>1. D \subseteq Nat /\ D # {}
    <2>1. \A x \in T : x \in 0 .. N
      OBVIOUS
    <2>2. \A x \in 0 .. N : N - x \in Nat
      OBVIOUS
    <2> QED
      BY <2>1, <2>2
  <1>2. PICK d \in D : \A e \in D : d <= e
    <2> HIDE DEF D
    <2> QED
      BY <1>1, Smallest
  <1>3. PICK x \in T : d = N - x
    OBVIOUS
  <1>4. ASSUME NEW y \in T PROVE y <= x
    <2>1. N - y \in D
      OBVIOUS
    <2>2. N - x <= N - y
      <3> HIDE DEF D
      <3> QED
        BY <1>2, <1>3, <2>1
    <2>3. x \in 0 .. N /\ y \in 0 .. N
      BY <1>3
    <2> QED
      BY <2>2, <2>3
  <1> QED
    BY <1>4

(* A part of a sequence. *)
LEMMA PartOf ==
  ASSUME NEW S, NEW s \in Seq(S), NEW m \in Int, NEW n \in Int, 1 <= m, n <= Len(s)
  PROVE  /\ SubSeq(s, m, n) \in Seq(S)
         /\ Len(SubSeq(s, m, n)) = IF m <= n THEN (n - m) + 1 ELSE 0
         /\ \A i \in 1 .. (n - m) + 1 : SubSeq(s, m, n)[i] = s[(m + i) - 1]
  <1>1. Len(s) \in Nat
    OBVIOUS
  <1> QED
    BY <1>1, SubSeqProperties

(* Two sequences one after the other. *)
LEMMA Both ==
  ASSUME NEW S, NEW s \in Seq(S), NEW t \in Seq(S)
  PROVE  /\ s \o t \in Seq(S) /\ Len(s \o t) = Len(s) + Len(t)
         /\ \A i \in 1 .. Len(s) : (s \o t)[i] = s[i]
         /\ \A i \in 1 .. Len(t) : (s \o t)[Len(s) + i] = t[i]
  <1>1. Len(s) \in Nat /\ Len(t) \in Nat
    OBVIOUS
  <1>2. /\ s \o t \in Seq(S) /\ Len(s \o t) = Len(s) + Len(t)
        /\ \A i \in 1 .. Len(s) + Len(t) : (s \o t)[i] = IF i <= Len(s) THEN s[i] ELSE t[i - Len(s)]
    BY ConcatProperties
  <1>3. ASSUME NEW i \in 1 .. Len(t) PROVE (s \o t)[Len(s) + i] = t[i]
    <2>1. Len(s) + i \in 1 .. Len(s) + Len(t) /\ ~(Len(s) + i <= Len(s)) /\ (Len(s) + i) - Len(s) = i
      BY <1>1
    <2> QED
      BY <1>2, <2>1
  <1>4. \A i \in 1 .. Len(s) : (s \o t)[i] = s[i]
    BY <1>1, <1>2
  <1> QED
    BY <1>2, <1>3, <1>4

(* Sequences are the same if they are as long and have the same elements. *)
LEMMA SameSeq ==
  ASSUME NEW S, NEW s \in Seq(S), NEW t \in Seq(S), Len(s) = Len(t),
         \A i \in 1 .. Len(s) : s[i] = t[i]
  PROVE  s = t
  BY SeqEqual

(* A sequence is cut in two at any place. *)
LEMMA CutAt ==
  ASSUME NEW S, NEW s \in Seq(S), NEW p \in 0 .. Len(s)
  PROVE  /\ SubSeq(s, 1, p) \in Seq(S) /\ Len(SubSeq(s, 1, p)) = p
         /\ SubSeq(s, p + 1, Len(s)) \in Seq(S) /\ Len(SubSeq(s, p + 1, Len(s))) = Len(s) - p
         /\ SubSeq(s, 1, p) \o SubSeq(s, p + 1, Len(s)) = s
         /\ SubSeq(s, 1, Len(s)) = s
  <1> DEFINE l == SubSeq(s, 1, p)
             r == SubSeq(s, p + 1, Len(s))
  <1>1. Len(s) \in Nat /\ p \in Nat /\ p <= Len(s)
    OBVIOUS
  <1>2. l \in Seq(S) /\ Len(l) = p /\ \A i \in 1 .. p : l[i] = s[i]
    BY <1>1, PartOf
  <1>3. r \in Seq(S) /\ Len(r) = Len(s) - p /\ \A i \in 1 .. Len(s) - p : r[i] = s[p + i]
    BY <1>1, PartOf
  <1> HIDE DEF l, r
  <1>4. l \o r \in Seq(S) /\ Len(l \o r) = Len(s)
    <2>1. l \o r \in Seq(S) /\ Len(l \o r) = Len(l) + Len(r)
      BY <1>2, <1>3, Both
    <2> QED
      BY <1>1, <1>2, <1>3, <2>1
  <1>5. ASSUME NEW i \in 1 .. Len(s) PROVE (l \o r)[i] = s[i]
    <2>1. CASE i <= p
      BY <1>1, <1>2, <1>3, <2>1, Both
    <2>2. CASE i > p
      <3>1. i - p \in 1 .. Len(r) /\ i - p \in 1 .. Len(s) - p /\ Len(l) + (i - p) = i
        BY <1>1, <1>2, <1>3, <2>2
      <3>2. (l \o r)[Len(l) + (i - p)] = r[i - p]
        BY <1>2, <1>3, <3>1, Both
      <3>3. r[i - p] = s[p + (i - p)] /\ p + (i - p) = i
        BY <1>1, <1>3, <3>1
      <3> QED
        BY <3>1, <3>2, <3>3
    <2>3. i <= p \/ i > p
      BY <1>1
    <2> QED
      BY <2>1, <2>2, <2>3
  <1>6. l \o r = s
    BY <1>4, <1>5, SameSeq
  <1>7. SubSeq(s, 1, Len(s)) = s
    BY SubSeqFull
  <1> QED
    BY <1>2, <1>3, <1>6, <1>7 DEF l, r

(* The parts a sequence was put together of. *)
LEMMA PartsOf ==
  ASSUME NEW S, NEW s \in Seq(S), NEW t \in Seq(S)
  PROVE  /\ SubSeq(s \o t, 1, Len(s)) = s
         /\ SubSeq(s \o t, Len(s) + 1, Len(s) + Len(t)) = t
  <1>1. Len(s) \in Nat /\ Len(t) \in Nat /\ s \o t \in Seq(S) /\ Len(s \o t) = Len(s) + Len(t)
    BY Both
  <1>2. SubSeq(s \o t, 1, Len(s)) = s
    <2> DEFINE u == SubSeq(s \o t, 1, Len(s))
    <2>1. u \in Seq(S) /\ Len(u) = Len(s) /\ \A i \in 1 .. Len(s) : u[i] = (s \o t)[i]
      BY <1>1, PartOf
    <2> HIDE DEF u
    <2>2. u = s
      BY <2>1, Both, SameSeq
    <2> QED
      BY <2>2 DEF u
  <1>3. SubSeq(s \o t, Len(s) + 1, Len(s) + Len(t)) = t
    <2> DEFINE u == SubSeq(s \o t, Len(s) + 1, Len(s) + Len(t))
    <2>1. u \in Seq(S) /\ Len(u) = Len(t) /\ \A i \in 1 .. Len(t) : u[i] = (s \o t)[Len(s) + i]
      <3>1. /\ u \in Seq(S)
            /\ Len(u) = IF Len(s) + 1 <= Len(s) + Len(t) THEN ((Len(s) + Len(t)) - (Len(s) + 1)) + 1 ELSE 0
            /\ \A i \in 1 .. ((Len(s) + Len(t)) - (Len(s) + 1)) + 1 : u[i] = (s \o t)[((Len(s) + 1) + i) - 1]
        BY <1>1, PartOf
      <3>2. /\ ((Len(s) + Len(t)) - (Len(s) + 1)) + 1 = Len(t)
            /\ \A i \in 1 .. Len(t) : ((Len(s) + 1) + i) - 1 = Len(s) + i
            /\ ~(Len(s) + 1 <= Len(s) + Len(t)) => Len(t) = 0
        BY <1>1
      <3> HIDE DEF u
      <3> QED
        BY <3>1, <3>2
    <2> HIDE DEF u
    <2>2. u = t
      BY <2>1, Both, SameSeq
    <2> QED
      BY <2>2 DEF u
  <1> QED
    BY <1>2, <1>3

(* Span is the longest run of characters of a set. *)
LEMMA SpanIs ==
  ASSUME NEW S, NEW s \in Seq(S), NEW i \in 1 .. Len(s) + 1, NEW set
  PROVE  \E j \in i .. Len(s) + 1 :
           /\ Span(s, i, set) = SubSeq(s, i, j - 1)
           /\ Span(s, i, set) \in Seq(S) /\ Len(Span(s, i, set)) = j - i
           /\ \A k \in i .. j - 1 : s[k] \in set
           /\ j <= Len(s) => s[j] \notin set
  <1> DEFINE ends == {j \in i .. Len(s) + 1 : \A k \in i .. j - 1 : s[k] \in set}
             last == CHOOSE j \in ends : \A k \in ends : k <= j
  <1>1. Len(s) \in Nat /\ i \in Nat /\ 1 <= i /\ i <= Len(s) + 1
    OBVIOUS
  <1>2. ends \subseteq 0 .. Len(s) + 1 /\ i \in ends
    BY <1>1
  <1>3. last \in ends /\ \A k \in ends : k <= last
    <2>1. \E x \in ends : \A y \in ends : y <= x
      <3> HIDE DEF ends
      <3>1. Len(s) + 1 \in Nat /\ ends # {}
        BY <1>1, <1>2
      <3> QED
        BY <1>2, <3>1, Greatest
    <2> HIDE DEF ends
    <2> QED
      BY <2>1
  <1>4. Span(s, i, set) = SubSeq(s, i, last - 1)
    BY DEF Span
  <1> HIDE DEF last
  <1>5. last \in i .. Len(s) + 1 /\ \A k \in i .. last - 1 : s[k] \in set
    BY <1>3
  <1>6. ASSUME last <= Len(s), s[last] \in set PROVE FALSE
    <2>1. last + 1 \in i .. Len(s) + 1 /\ \A k \in i .. (last + 1) - 1 : k \in i .. last - 1 \/ k = last
      BY <1>1, <1>5, <1>6
    <2>2. last + 1 \in ends
      BY <1>5, <1>6, <2>1
    <2> HIDE DEF ends
    <2> QED
      BY <1>1, <1>3, <1>5, <2>2
  <1>7. SubSeq(s, i, last - 1) \in Seq(S) /\ Len(SubSeq(s, i, last - 1)) = last - i
    <2>1. last \in Nat /\ last - 1 \in Int /\ i \in Int /\ last - 1 <= Len(s) /\ i <= last
      BY <1>1, <1>5
    <2>2. /\ SubSeq(s, i, last - 1) \in Seq(S)
          /\ Len(SubSeq(s, i, last - 1)) = IF i <= last - 1 THEN ((last - 1) - i) + 1 ELSE 0
      BY <1>1, <2>1, PartOf
    <2>3. (IF i <= last - 1 THEN ((last - 1) - i) + 1 ELSE 0) = last - i
      BY <1>1, <2>1
    <2> QED
      BY <2>2, <2>3
  <1> QED
    BY <1>4, <1>5, <1>6, <1>7

LEMMA SpanFits ==
  ASSUME NEW S, NEW s \in Seq(S), NEW i \in 1 .. Len(s) + 1, NEW set
  PROVE  Len(Span(s, i, set)) \in Nat /\ i + Len(Span(s, i, set)) <= Len(s) + 1
  <1>1. PICK j \in i .. Len(s) + 1 : Len(Span(s, i, set)) = j - i
    BY SpanIs
  <1>2. j \in Int /\ i \in Int /\ i <= j /\ j <= Len(s) + 1 /\ Len(s) \in Nat
    OBVIOUS
  <1> QED
    BY <1>1, <1>2

(* The last word of a text is at its end. *)
LEMMA SuffixIs ==
  ASSUME NEW S, NEW s \in Seq(S)
  PROVE  /\ lub_string_suffix(s) \in Seq(S)
         /\ WordOffset(s) \in 0 .. Len(s)
         /\ lub_string_suffix(s) = SubSeq(s, WordOffset(s) + 1, Len(s))
         /\ WordOffset(s) > 0 => s[WordOffset(s)] = Space
         /\ \A i \in WordOffset(s) + 1 .. Len(s) : s[i] # Space
  <1> DEFINE spaces == {0} \cup {i \in DOMAIN s : s[i] = Space}
             last   == CHOOSE i \in spaces : \A j \in spaces : j <= i
             suffix == lub_string_suffix(s)
  <1>1. Len(s) \in Nat /\ DOMAIN s = 1 .. Len(s)
    OBVIOUS
  <1>2. spaces \subseteq 0 .. Len(s) /\ 0 \in spaces
    BY <1>1
  <1>3. last \in spaces /\ \A k \in spaces : k <= last
    <2>1. \E x \in spaces : \A y \in spaces : y <= x
      <3> HIDE DEF spaces
      <3>1. spaces # {}
        BY <1>2
      <3> QED
        BY <1>1, <1>2, <3>1, Greatest
    <2> HIDE DEF spaces
    <2> QED
      BY <2>1
  <1>4. suffix = SubSeq(s, last + 1, Len(s))
    BY DEF lub_string_suffix
  <1> HIDE DEF last, suffix
  <1>5. last \in 0 .. Len(s) /\ (last > 0 => s[last] = Space)
    BY <1>2, <1>3
  <1>6. suffix \in Seq(S) /\ Len(suffix) = Len(s) - last
    BY <1>4, <1>5, CutAt
  <1>7. WordOffset(s) = last
    <2>1. Len(s) - (Len(s) - last) = last
      BY <1>1, <1>5
    <2> QED
      BY <1>6, <2>1 DEF WordOffset, suffix
  <1>8. ASSUME NEW i \in last + 1 .. Len(s) PROVE s[i] # Space
    <2>1. i \in 1 .. Len(s) /\ ~(i <= last)
      BY <1>1, <1>5
    <2> QED
      BY <1>1, <1>3, <2>1
  <1> QED
    BY <1>4, <1>5, <1>6, <1>7, <1>8 DEF suffix

(* s is t up to its own length. *)
LEMMA PrefixIs ==
  ASSUME NEW S, NEW s \in Seq(S), NEW t \in Seq(S)
  PROVE  IsPrefix(s, t) <=> Len(s) <= Len(t) /\ \A i \in 1 .. Len(s) : s[i] = t[i]
  <1>1. Len(s) \in Nat /\ Len(t) \in Nat /\ SubSeq(s, 1, Len(s)) = s
    BY SubSeqFull
  <1> SUFFICES ASSUME Len(s) <= Len(t)
               PROVE  SubSeq(t, 1, Len(s)) = s <=> \A i \in 1 .. Len(s) : s[i] = t[i]
    BY <1>1 DEF IsPrefix
  <1> DEFINE u == SubSeq(t, 1, Len(s))
  <1>2. u \in Seq(S) /\ Len(u) = Len(s) /\ \A i \in 1 .. Len(s) : u[i] = t[i]
    BY <1>1, PartOf
  <1> HIDE DEF u
  <1>3. ASSUME \A i \in 1 .. Len(s) : s[i] = t[i] PROVE u = s
    BY <1>2, <1>3, SameSeq
  <1>4. ASSUME u = s PROVE \A i \in 1 .. Len(s) : s[i] = t[i]
    BY <1>2, <1>4
  <1> QED
    BY <1>3, <1>4 DEF u

(* The text all of some begin with. *)
LEMMA CommonIs ==
  ASSUME NEW S, NEW T, T \subseteq Seq(S), T # {}
  PROVE  /\ LongestCommonPrefix(T) \in Seq(S)
         /\ \A t \in T : IsPrefix(LongestCommonPrefix(T), t)
         /\ \A p \in Seq(S) : (\A t \in T : IsPrefix(p, t)) => Len(p) <= Len(LongestCommonPrefix(T))
  <1> DEFINE P == CommonPrefixes(T)
             lengths == {Len(p) : p \in P}
             longest == LongestCommonPrefix(T)
  <1>1. \A p : p \in P <=> (\E t \in T : \E l \in 0 .. Len(t) : p = SubSeq(t, 1, l))
                             /\ \A t \in T : IsPrefix(p, t)
    BY DEF CommonPrefixes, Prefixes
  <1>2. ASSUME NEW p \in P PROVE p \in Seq(S)
    <2>1. PICK t \in T : \E l \in 0 .. Len(t) : p = SubSeq(t, 1, l)
      BY <1>1
    <2>2. t \in Seq(S)
      OBVIOUS
    <2> QED
      BY <2>1, <2>2, CutAt
  <1>3. ASSUME NEW p \in Seq(S), \A t \in T : IsPrefix(p, t) PROVE p \in P
    <2>1. PICK t \in T : TRUE
      OBVIOUS
    <2>2. t \in Seq(S) /\ IsPrefix(p, t) /\ Len(p) \in Nat /\ Len(t) \in Nat
      BY <1>3, <2>1
    <2>3. Len(p) \in 0 .. Len(t) /\ SubSeq(p, 1, Len(p)) = SubSeq(t, 1, Len(p)) /\ SubSeq(p, 1, Len(p)) = p
      BY <2>2, SubSeqFull DEF IsPrefix
    <2> HIDE DEF P
    <2> QED
      BY <1>1, <1>3, <2>3
  <1> HIDE DEF P
  <1>4. <<>> \in P
    <2>1. PICK e \in Seq(S) : e = <<>> /\ Len(e) = 0
      BY EmptySeq
    <2>2. ASSUME NEW t \in T PROVE IsPrefix(e, t)
      <3>1. t \in Seq(S) /\ Len(t) \in Nat
        OBVIOUS
      <3>2. Len(e) <= Len(t) /\ \A i \in 1 .. Len(e) : e[i] = t[i]
        BY <2>1, <3>1
      <3> QED
        BY <3>1, <3>2, PrefixIs
    <2>3. e \in P
      BY <1>3, <2>2
    <2> QED
      BY <2>1, <2>3
  <1>5. PICK t0 \in T : TRUE
    OBVIOUS
  <1>6. Len(t0) \in Nat
    OBVIOUS
  <1>7. lengths \subseteq 0 .. Len(t0) /\ lengths # {}
    <2>1. ASSUME NEW p \in P PROVE Len(p) \in 0 .. Len(t0)
      <3>1. IsPrefix(p, t0) /\ p \in Seq(S)
        BY <1>1, <1>2
      <3> QED
        BY <1>6, <3>1 DEF IsPrefix
    <2> QED
      BY <1>4, <2>1
  <1>8. \E p \in P : \A q \in P : Len(q) <= Len(p)
    <2>1. PICK n \in lengths : \A m \in lengths : m <= n
      <3> HIDE DEF lengths
      <3> QED
        BY <1>6, <1>7, Greatest
    <2> QED
      BY <2>1
  <1>9. longest \in P /\ \A q \in P : Len(q) <= Len(longest)
    BY <1>8 DEF LongestCommonPrefix, P
  <1> HIDE DEF longest
  <1>10. longest \in Seq(S) /\ \A t \in T : IsPrefix(longest, t)
    BY <1>1, <1>2, <1>9
  <1> QED
    BY <1>3, <1>9, <1>10 DEF longest

-----------------------------------------------------------------------------
(* The order of names. *)

(* s and t first differ at i, where s is at its end or has the lower character. *)
FirstAt(s, t, i) ==
  /\ i <= Len(s) + 1 /\ i <= Len(t)
  /\ \A k \in 1 .. i - 1 : s[k] = t[k]
  /\ i <= Len(s) => Rank[s[i]] < Rank[t[i]]

LEMMA BeforeIs ==
  ASSUME NEW s \in Text, NEW t \in Text
  PROVE  Before(s, t) <=> \E i \in Nat \ {0} : FirstAt(s, t, i)
  <1>1. s \in Seq(DOMAIN Rank) /\ t \in Seq(DOMAIN Rank)
    BY DEF Text
  <1>2. Len(s) \in Nat /\ Len(t) \in Nat /\ DOMAIN s = 1 .. Len(s) /\ DOMAIN t = 1 .. Len(t)
    BY <1>1
  <1>3. ASSUME NEW i \in Nat \ {0}, i <= Len(s), i <= Len(t)
        PROVE  SubSeq(s, 1, i - 1) = SubSeq(t, 1, i - 1) <=> \A k \in 1 .. i - 1 : s[k] = t[k]
    <2> DEFINE a == SubSeq(s, 1, i - 1)
               b == SubSeq(t, 1, i - 1)
    <2>1. i - 1 \in 0 .. Len(s) /\ i - 1 \in 0 .. Len(t)
      BY <1>2, <1>3
    <2>2. a \in Seq(DOMAIN Rank) /\ Len(a) = i - 1 /\ b \in Seq(DOMAIN Rank) /\ Len(b) = i - 1
      BY <1>1, <2>1, CutAt
    <2>3. (\A k \in 1 .. i - 1 : a[k] = s[k]) /\ \A k \in 1 .. i - 1 : b[k] = t[k]
      <3>1. i - 1 \in Int /\ i - 1 <= Len(s) /\ i - 1 <= Len(t) /\ ((i - 1) - 1) + 1 = i - 1
            /\ \A k \in 1 .. i - 1 : (1 + k) - 1 = k
        BY <1>2, <1>3
      <3>2. \A k \in 1 .. ((i - 1) - 1) + 1 : a[k] = s[(1 + k) - 1]
        BY <1>1, <3>1, PartOf
      <3>3. \A k \in 1 .. ((i - 1) - 1) + 1 : b[k] = t[(1 + k) - 1]
        BY <1>1, <3>1, PartOf
      <3> HIDE DEF a, b
      <3> QED
        BY <3>1, <3>2, <3>3
    <2> HIDE DEF a, b
    <2>4. ASSUME \A k \in 1 .. i - 1 : s[k] = t[k] PROVE a = b
      BY <2>2, <2>3, <2>4, SameSeq
    <2>5. ASSUME a = b, NEW k \in 1 .. i - 1 PROVE s[k] = t[k]
      BY <2>3, <2>5
    <2> QED
      BY <2>4, <2>5 DEF a, b
  <1>4. ASSUME Before(s, t) PROVE \E i \in Nat \ {0} : FirstAt(s, t, i)
    <2>1. CASE IsStrictPrefix(s, t)
      <3>1. Len(s) <= Len(t) /\ (\A i \in 1 .. Len(s) : s[i] = t[i]) /\ s # t
        BY <1>1, <2>1, PrefixIs DEF IsStrictPrefix
      <3>2. Len(s) # Len(t)
        BY <1>1, <3>1, SameSeq
      <3>3. Len(s) + 1 \in Nat \ {0} /\ (Len(s) + 1) - 1 = Len(s) /\ ~(Len(s) + 1 <= Len(s))
            /\ Len(s) + 1 <= Len(t)
        <4>1. Len(s) \in Nat /\ Len(t) \in Nat /\ Len(s) <= Len(t) /\ Len(s) # Len(t)
          BY <1>2, <3>1, <3>2
        <4> QED
          BY ONLY <4>1
      <3> QED
        BY <3>1, <3>3 DEF FirstAt
    <2>2. CASE ~IsStrictPrefix(s, t)
      <3>1. PICK i \in DOMAIN s \cap DOMAIN t : /\ SubSeq(s, 1, i - 1) = SubSeq(t, 1, i - 1)
                                                /\ Rank[s[i]] < Rank[t[i]]
        BY <1>4, <2>2 DEF Before
      <3>2. i \in Nat \ {0} /\ i <= Len(s) /\ i <= Len(t) /\ i <= Len(s) + 1
        BY <1>2
      <3> QED
        BY <1>3, <3>1, <3>2 DEF FirstAt
    <2> QED
      BY <2>1, <2>2
  <1>5. ASSUME NEW i \in Nat \ {0}, FirstAt(s, t, i) PROVE Before(s, t)
    <2>1. CASE i <= Len(s)
      <3>1. i \in DOMAIN s \cap DOMAIN t /\ i <= Len(t)
        BY <1>2, <1>5, <2>1 DEF FirstAt
      <3> QED
        BY <1>3, <1>5, <2>1, <3>1 DEF FirstAt, Before
    <2>2. CASE ~(i <= Len(s))
      <3>1. i - 1 = Len(s) /\ Len(s) <= Len(t) /\ Len(s) # Len(t)
        <4>1. i \in Nat /\ Len(s) \in Nat /\ Len(t) \in Nat /\ i <= Len(s) + 1 /\ i <= Len(t) /\ ~(i <= Len(s))
          BY <1>2, <1>5, <2>2 DEF FirstAt
        <4> QED
          BY ONLY <4>1
      <3>2. IsPrefix(s, t)
        <4>1. \A k \in 1 .. Len(s) : s[k] = t[k]
          BY <1>5, <3>1 DEF FirstAt
        <4> QED
          BY <1>1, <3>1, <4>1, PrefixIs
      <3>3. s # t
        BY <3>1
      <3> QED
        BY <3>2, <3>3 DEF Before, IsStrictPrefix
    <2> QED
      BY <2>1, <2>2
  <1> QED
    BY <1>4, <1>5

LEMMA RankOf ==
  ASSUME NEW s \in Text, NEW i \in Nat \ {0}, i <= Len(s)
  PROVE  s[i] \in DOMAIN Rank /\ Rank[s[i]] \in Nat
  <1>1. s \in Seq(DOMAIN Rank)
    BY DEF Text
  <1>2. i \in 1 .. Len(s)
    BY <1>1
  <1> QED
    BY <1>1, <1>2, ElementOfSeq, ViewsAssumption

(* It is a strict total order. *)
LEMMA NotBefore ==
  ASSUME NEW s \in Text
  PROVE  ~Before(s, s)
  <1> SUFFICES ASSUME NEW i \in Nat \ {0}, FirstAt(s, s, i) PROVE FALSE
    BY BeforeIs
  <1>1. i <= Len(s) /\ Rank[s[i]] < Rank[s[i]]
    BY DEF FirstAt
  <1>2. Rank[s[i]] \in Nat
    BY <1>1, RankOf
  <1> QED
    BY <1>1, <1>2

LEMMA BeforeAll ==
  ASSUME NEW s \in Text, NEW t \in Text, NEW u \in Text, Before(s, t), Before(t, u)
  PROVE  Before(s, u)
  <1>1. PICK i \in Nat \ {0} : FirstAt(s, t, i)
    BY BeforeIs
  <1>2. PICK j \in Nat \ {0} : FirstAt(t, u, j)
    BY BeforeIs
  <1>3. Len(s) \in Nat /\ Len(t) \in Nat /\ Len(u) \in Nat
    BY DEF Text
  <1>4. i <= Len(t) /\ j <= Len(u)
    BY <1>1, <1>2 DEF FirstAt
  <1>5. CASE i < j
    <2>1. i <= Len(s) + 1 /\ i <= Len(u) /\ i \in 1 .. j - 1
      BY <1>1, <1>3, <1>4, <1>5 DEF FirstAt
    <2>2. ASSUME NEW k \in 1 .. i - 1 PROVE s[k] = u[k]
      <3>1. k \in 1 .. j - 1
        BY <1>5
      <3> QED
        BY <1>1, <1>2, <3>1 DEF FirstAt
    <2>3. t[i] = u[i]
      BY <1>2, <2>1 DEF FirstAt
    <2>4. i <= Len(s) => Rank[s[i]] < Rank[u[i]]
      BY <1>1, <2>3 DEF FirstAt
    <2>5. FirstAt(s, u, i)
      BY <2>1, <2>2, <2>4 DEF FirstAt
    <2> QED
      BY <2>5, BeforeIs
  <1>6. CASE i = j
    <2>1. i <= Len(s) + 1 /\ i <= Len(u)
      BY <1>1, <1>2, <1>6 DEF FirstAt
    <2>2. ASSUME NEW k \in 1 .. i - 1 PROVE s[k] = u[k]
      BY <1>1, <1>2, <1>6 DEF FirstAt
    <2>3. ASSUME i <= Len(s) PROVE Rank[s[i]] < Rank[u[i]]
      <3>1. Rank[s[i]] \in Nat /\ Rank[t[i]] \in Nat /\ Rank[u[i]] \in Nat
        BY <1>4, <1>6, <2>3, RankOf
      <3>2. Rank[s[i]] < Rank[t[i]] /\ Rank[t[i]] < Rank[u[i]]
        BY <1>1, <1>2, <1>4, <1>6, <2>3 DEF FirstAt
      <3> QED
        BY <3>1, <3>2
    <2>4. FirstAt(s, u, i)
      BY <2>1, <2>2, <2>3 DEF FirstAt
    <2> QED
      BY <2>4, BeforeIs
  <1>7. CASE j < i
    <2>1. j <= Len(s) /\ j <= Len(s) + 1 /\ j <= Len(u) /\ j <= Len(t) /\ j \in 1 .. i - 1
      <3>1. i <= Len(s) + 1
        BY <1>1 DEF FirstAt
      <3> QED
        BY <1>3, <1>4, <1>7, <3>1
    <2>2. ASSUME NEW k \in 1 .. j - 1 PROVE s[k] = u[k]
      <3>1. k \in 1 .. i - 1
        BY <1>7
      <3> QED
        BY <1>1, <1>2, <3>1 DEF FirstAt
    <2>3. s[j] = t[j] /\ Rank[t[j]] < Rank[u[j]]
      BY <1>1, <1>2, <2>1 DEF FirstAt
    <2>4. FirstAt(s, u, j)
      BY <2>1, <2>2, <2>3 DEF FirstAt
    <2> QED
      BY <2>4, BeforeIs
  <1> QED
    BY <1>5, <1>6, <1>7

LEMMA OneBefore ==
  ASSUME NEW s \in Text, NEW t \in Text, s # t
  PROVE  Before(s, t) \/ Before(t, s)
  <1> DEFINE D == {i \in Nat \ {0} : i = Len(s) + 1 \/ i = Len(t) + 1 \/ s[i] # t[i]}
  <1>1. Len(s) \in Nat /\ Len(t) \in Nat /\ s \in Seq(DOMAIN Rank) /\ t \in Seq(DOMAIN Rank)
    BY DEF Text
  <1>2. D \subseteq Nat /\ Len(s) + 1 \in D /\ Len(t) + 1 \in D
    BY <1>1
  <1>3. PICK i \in D : \A j \in D : i <= j
    <2> HIDE DEF D
    <2> QED
      BY <1>2, Smallest
  <1>4. i \in Nat \ {0} /\ i <= Len(s) + 1 /\ i <= Len(t) + 1
    BY <1>2, <1>3
  <1>5. ASSUME NEW k \in 1 .. i - 1 PROVE s[k] = t[k] /\ t[k] = s[k]
    <2>1. k \in Nat \ {0} /\ ~(i <= k)
      BY <1>4
    <2>2. k \notin D
      BY <1>3, <2>1
    <2> QED
      BY <2>1, <2>2
  <1>6. CASE i <= Len(s) /\ i <= Len(t)
    <2>1. s[i] # t[i]
      BY <1>1, <1>3, <1>6
    <2>2. s[i] \in DOMAIN Rank /\ t[i] \in DOMAIN Rank /\ Rank[s[i]] \in Nat /\ Rank[t[i]] \in Nat
      BY <1>4, <1>6, RankOf
    <2>3. Rank[s[i]] # Rank[t[i]]
      BY <2>1, <2>2, ViewsAssumption
    <2>4. Rank[s[i]] < Rank[t[i]] \/ Rank[t[i]] < Rank[s[i]]
      BY <2>2, <2>3
    <2>5. FirstAt(s, t, i) \/ FirstAt(t, s, i)
      BY <1>4, <1>5, <1>6, <2>4 DEF FirstAt
    <2> QED
      BY <1>4, <2>5, BeforeIs
  <1>7. CASE i = Len(s) + 1 /\ i <= Len(t)
    <2>1. FirstAt(s, t, i)
      <3>1. ~(i <= Len(s))
        BY <1>1, <1>7
      <3> QED
        BY <1>4, <1>5, <1>7, <3>1 DEF FirstAt
    <2> QED
      BY <1>4, <2>1, BeforeIs
  <1>8. CASE i = Len(t) + 1 /\ i <= Len(s)
    <2>1. FirstAt(t, s, i)
      <3>1. ~(i <= Len(t))
        BY <1>1, <1>8
      <3> QED
        BY <1>4, <1>5, <1>8, <3>1 DEF FirstAt
    <2> QED
      BY <1>4, <2>1, BeforeIs
  <1>9. CASE i = Len(s) + 1 /\ i = Len(t) + 1
    <2>1. Len(s) = Len(t) /\ i - 1 = Len(s)
      BY <1>1, <1>9
    <2>2. s = t
      BY <1>1, <1>5, <2>1, SameSeq
    <2> QED
      BY <2>2
  <1> QED
    BY <1>1, <1>4, <1>6, <1>7, <1>8, <1>9

(* So some names, if they are finitely many, have a first one. *)
LEMMA FirstOf ==
  ASSUME NEW D, IsFiniteSet(D), D \subseteq Text, D # {}
  PROVE  \E d \in D : \A e \in D : ~Before(e, d)
  <1> DEFINE HasFirst(E) == \E d \in E : \A e \in E : ~Before(e, d)
             T == {n \in Nat : \A E \in SUBSET D : E # {} /\ Cardinality(E) = n => HasFirst(E)}
  <1>1. 0 \in T
    <2>1. ASSUME NEW E \in SUBSET D, E # {}, Cardinality(E) = 0 PROVE FALSE
      BY <2>1, FS_Subset, FS_EmptySet
    <2> QED
      BY <2>1
  <1>2. ASSUME NEW n \in Nat \ {0}, n - 1 \in T PROVE n \in T
    <2> SUFFICES ASSUME NEW E \in SUBSET D, E # {}, Cardinality(E) = n PROVE HasFirst(E)
      OBVIOUS
    <2>1. PICK x \in E : TRUE
      OBVIOUS
    <2>2. IsFiniteSet(E) /\ Cardinality(E \ {x}) = n - 1 /\ E \ {x} \in SUBSET D
      BY FS_Subset, FS_RemoveElement
    <2>3. E \subseteq Text /\ ~Before(x, x)
      BY NotBefore
    <2>4. CASE E \ {x} = {}
      <3>1. E = {x}
        BY <2>4
      <3> QED
        BY <2>3, <3>1
    <2>5. CASE E \ {x} # {}
      <3>1. HasFirst(E \ {x})
        <4> HIDE DEF HasFirst
        <4> QED
          BY <1>2, <2>2, <2>5
      <3>2. PICK y \in E \ {x} : \A e \in E \ {x} : ~Before(e, y)
        BY <3>1
      <3>3. CASE ~Before(x, y)
        BY <3>2, <3>3
      <3>4. CASE Before(x, y)
        <4>1. ASSUME NEW e \in E, Before(e, x) PROVE FALSE
          <5>1. e \in E \ {x} /\ e \in Text /\ x \in Text /\ y \in Text
            BY <2>3, <4>1
          <5>2. Before(e, y)
            BY <3>4, <4>1, <5>1, BeforeAll
          <5> QED
            BY <3>2, <5>1, <5>2
        <4> QED
          BY <4>1
      <3> QED
        BY <3>3, <3>4
    <2> QED
      BY <2>4, <2>5
  <1>3. Cardinality(D) \in Nat
    BY FS_CardinalityType
  <1>4. Cardinality(D) \in T
    <2>1. \A n \in 1 .. Cardinality(D) : n - 1 \in T => n \in T
      <3> HIDE DEF T
      <3> QED
        BY <1>2
    <2> HIDE DEF T
    <2> QED
      BY <1>1, <1>3, <2>1, UpTo
  <1> HIDE DEF HasFirst
  <1>5. HasFirst(D)
    BY <1>4
  <1> QED
    BY <1>5 DEF HasFirst

-----------------------------------------------------------------------------
(* Completions. *)

(* The names after a given one. *)
Rest(cmd, names) == {name \in names : cmd = None \/ Before(cmd, name)}

IsFirst(f, names) ==
  IF names = {} THEN f = None
  ELSE f \in names /\ f # None /\ \A e \in names : e = f \/ Before(f, e)

LEMMA NextIs ==
  ASSUME NEW view, IsFiniteSet(view), view \subseteq Text \ {None}, NEW cmd, NEW line
  PROVE  IsFirst(ucli_view_find_next_completion(view, cmd, line), Rest(cmd, Completing(view, line)))
  <1> DEFINE next == {name \in Completing(view, line) : cmd = None \/ Before(cmd, name)}
             f == ucli_view_find_next_completion(view, cmd, line)
  <1>1. next = Rest(cmd, Completing(view, line))
    BY DEF Rest
  <1>2. f = IF next = {} THEN None ELSE CHOOSE d \in next : \A e \in next : ~Before(e, d)
    BY DEF ucli_view_find_next_completion
  <1>3. next \subseteq Text \ {None} /\ next \subseteq view
    BY DEF Completing
  <1> HIDE DEF next, f
  <1>4. CASE next = {}
    BY <1>1, <1>2, <1>4 DEF IsFirst, f
  <1>5. CASE next # {}
    <2>1. IsFiniteSet(next)
      BY <1>3, FS_Subset
    <2>2. \E d \in next : \A e \in next : ~Before(e, d)
      <3>1. next \subseteq Text
        BY <1>3
      <3> QED
        BY <1>5, <2>1, <3>1, FirstOf
    <2>3. f \in next /\ \A e \in next : ~Before(e, f)
      BY <1>2, <1>5, <2>2
    <2>4. ASSUME NEW e \in next, e # f PROVE Before(f, e)
      <3>1. e \in Text /\ f \in Text
        BY <1>3, <2>3
      <3> QED
        BY <2>3, <2>4, <3>1, OneBefore
    <2> QED
      BY <1>1, <1>3, <1>5, <2>3, <2>4 DEF IsFirst, f
  <1> QED
    BY <1>4, <1>5

(* Every name of D is before all the others. *)
AllBefore(D, names) == \A d \in D, e \in names \ D : Before(d, e)

(* The iterator is between those in D and the others. *)
Between(it, L, G, D) ==
  /\ it.local \in L \cup {None} /\ Rest(it.local, L) = L \ D
  /\ it.global \in G \cup {None} /\ Rest(it.global, G) = G \ D

Item(L, G) ==
  [local : L \cup {None}, global : G \cup {None}, result : L \cup G, from : {"local", "global"}]

(* What comes after the first of the names that are left. *)
LEMMA RestAfter ==
  ASSUME NEW names, names \subseteq Text \ {None}, NEW D, NEW f \in Text \ {None}, NEW all, names \subseteq all,
         AllBefore(D, all), f \in all \ D, \A e \in all \ D : e = f \/ Before(f, e)
  PROVE  Rest(f, names) = names \ (D \cup {f})
  <1>1. ASSUME NEW e \in names, Before(f, e) PROVE e \notin D /\ e # f
    <2>1. ASSUME e \in D PROVE FALSE
      <3>1. Before(e, f) /\ e \in Text
        BY <2>1 DEF AllBefore
      <3>2. Before(f, f)
        BY <1>1, <3>1, BeforeAll
      <3> QED
        BY <3>2, NotBefore
    <2> QED
      BY <1>1, <2>1, NotBefore
  <1>2. ASSUME NEW e \in names, e \notin D, e # f PROVE Before(f, e)
    BY <1>2
  <1>3. f # None
    OBVIOUS
  <1> QED
    BY <1>1, <1>2, <1>3 DEF Rest

(* Beside D there is nothing to take, or next is the first of it. *)
TakenRight(next, L, G, D) ==
  LET E == D \cup {next.result}
  IN  \/ next.result = None /\ D = L \cup G
      \/ /\ next \in Item(L, G)
         /\ next.result \in (L \cup G) \ D /\ next.result # None
         /\ next.from = "local" <=> next.result \in L
         /\ AllBefore(E, L \cup G) /\ Between(next, L, G, E)

LEMMA TakenIs ==
  ASSUME NEW L, L \subseteq Text \ {None}, NEW G, G \subseteq Text \ {None},
         NEW D, D \subseteq L \cup G, AllBefore(D, L \cup G),
         NEW it, Between(it, L, G, D),
         NEW l, IsFirst(l, L \ D), NEW g, IsFirst(g, G \ D)
  PROVE  TakenRight(Taken(it, l, g), L, G, D)
  <1> DEFINE next == Taken(it, l, g)
             all == L \cup G
             First(f) == f \in all \ D /\ f # None /\ \A e \in all \ D : e = f \/ Before(f, e)
  <1>1. all \subseteq Text \ {None}
    OBVIOUS
  <1>2. ASSUME NEW f, First(f)
        PROVE  /\ Rest(f, L) = L \ (D \cup {f}) /\ Rest(f, G) = G \ (D \cup {f})
               /\ AllBefore(D \cup {f}, all)
    <2>1. f \in Text \ {None} /\ L \subseteq all /\ G \subseteq all
      BY <1>1, <1>2
    <2>2. Rest(f, L) = L \ (D \cup {f})
      BY <1>2, <2>1, RestAfter
    <2>3. Rest(f, G) = G \ (D \cup {f})
      BY <1>2, <2>1, RestAfter
    <2>4. AllBefore(D \cup {f}, all)
      BY <1>2 DEF AllBefore
    <2> QED
      BY <2>2, <2>3, <2>4
  <1>3. CASE g # None /\ (l = None \/ Before(g, l))
    <2>1. next = [local |-> it.local, global |-> g, result |-> g, from |-> "global"]
      BY <1>3 DEF Taken
    <2>2. g \in G \ D /\ \A e \in G \ D : e = g \/ Before(g, e)
      BY <1>3 DEF IsFirst
    <2>3. ASSUME NEW e \in L \ D PROVE Before(g, e)
      <3>1. l \in L \ D /\ l # None /\ (e = l \/ Before(l, e))
        BY <2>3 DEF IsFirst
      <3>2. Before(g, l) /\ g \in Text /\ l \in Text /\ e \in Text
        BY <1>3, <2>2, <3>1
      <3> QED
        BY <3>1, <3>2, BeforeAll
    <2>4. First(g) /\ g \notin L
      <3>1. g \notin L
        <4>1. ~Before(g, g)
          BY <2>2, NotBefore
        <4> QED
          BY <2>2, <2>3, <4>1
      <3> QED
        BY <1>3, <2>2, <2>3, <3>1
    <2>5. L \ D = L \ (D \cup {g})
      BY <2>4
    <2>6. Between(next, L, G, D \cup {g}) /\ AllBefore(D \cup {g}, all)
      <3> HIDE DEF First
      <3>1. Rest(g, G) = G \ (D \cup {g}) /\ AllBefore(D \cup {g}, all)
        BY <1>2, <2>4
      <3> QED
        BY <2>1, <2>2, <2>5, <3>1 DEF Between
    <2>7. next \in Item(L, G)
      BY <2>1, <2>2 DEF Between, Item
    <2> QED
      BY <2>1, <2>2, <2>4, <2>6, <2>7 DEF TakenRight
  <1>4. CASE ~(g # None /\ (l = None \/ Before(g, l)))
    <2>1. next = [local |-> l, global |-> IF l = g THEN g ELSE it.global, result |-> l, from |-> "local"]
      BY <1>4 DEF Taken
    <2>2. CASE l = None
      <3>1. L \ D = {} /\ G \ D = {}
        BY <1>4, <2>2 DEF IsFirst
      <3> QED
        BY <2>1, <2>2, <3>1 DEF TakenRight
    <2>3. CASE l # None
      <3>1. l \in L \ D /\ \A e \in L \ D : e = l \/ Before(l, e)
        BY <2>3 DEF IsFirst
      <3>2. ASSUME NEW e \in G \ D PROVE e = l \/ Before(l, e)
        <4>1. g \in G \ D /\ g # None /\ (e = g \/ Before(g, e))
          BY <3>2 DEF IsFirst
        <4>2. ~Before(g, l) /\ g \in Text /\ l \in Text /\ e \in Text
          BY <1>4, <3>1, <4>1
        <4>3. g = l \/ Before(l, g)
          BY <4>2, OneBefore
        <4> QED
          BY <4>1, <4>2, <4>3, BeforeAll
      <3>3. First(l)
        BY <2>3, <3>1, <3>2
      <3>4. Rest(l, L) = L \ (D \cup {l}) /\ Rest(l, G) = G \ (D \cup {l}) /\ AllBefore(D \cup {l}, all)
        <4> HIDE DEF First
        <4> QED
          BY <1>2, <3>3
      <3>5. next.global \in G \cup {None} /\ Rest(next.global, G) = G \ (D \cup {l})
        <4>1. CASE l = g
          <5>1. next.global = l
            BY <2>1, <4>1
          <5>2. g \in G
            BY <2>3, <4>1 DEF IsFirst
          <5> QED
            BY <3>4, <4>1, <5>1, <5>2
        <4>2. CASE l # g
          <5>1. next.global = it.global
            BY <2>1, <4>2
          <5>2. l \notin G \ D
            <6>1. ASSUME l \in G \ D PROVE FALSE
              <7>1. g \in G \ D /\ g # None /\ Before(g, l)
                BY <4>2, <6>1 DEF IsFirst
              <7> QED
                BY <1>4, <7>1
            <6> QED
              BY <6>1
          <5>3. G \ D = G \ (D \cup {l})
            BY <5>2
          <5> QED
            BY <5>1, <5>3 DEF Between
        <4> QED
          BY <4>1, <4>2
      <3>6. next.local = l /\ next.result = l /\ next.from = "local" /\ l \in L
        BY <2>1, <3>1
      <3>7. Between(next, L, G, D \cup {l})
        BY <3>4, <3>5, <3>6 DEF Between
      <3>8. next \in Item(L, G)
        BY <2>1, <3>5, <3>6 DEF Item
      <3> QED
        BY <2>3, <3>1, <3>4, <3>6, <3>7, <3>8 DEF TakenRight
    <2> QED
      BY <2>2, <2>3
  <1> QED
    BY <1>3, <1>4

(* What has been found, and where the iterator is then. *)
Results(found) == {found[n].result : n \in DOMAIN found}

At(found) == IF found = <<>> THEN ucli_shell_iterator_init ELSE Last(found)

(* The first names of L and G have been found, in their order. *)
InOrder(found, L, G) ==
  /\ \A m, n \in DOMAIN found : m < n => Before(found[m].result, found[n].result)
  /\ \A n \in DOMAIN found : found[n].from = "local" <=> found[n].result \in L
  /\ AllBefore(Results(found), L \cup G)
  /\ Between(At(found), L, G, Results(found))

Step(v, line, found) ==
  LET next == ucli_shell_find_next_completion(v, line, At(found))
  IN  IF next.result = None THEN found ELSE Append(found, next)

LEMMA StepInOrder ==
  ASSUME NEW v, IsFiniteSet(v.local), v.local \subseteq Text \ {None},
         IsFiniteSet(v.global), v.global \subseteq Text \ {None}, NEW line,
         NEW L, L = Completing(v.local, line), NEW G, G = Completing(v.global, line),
         NEW found \in Seq(Item(L, G)), InOrder(found, L, G)
  PROVE  /\ Step(v, line, found) \in Seq(Item(L, G)) /\ InOrder(Step(v, line, found), L, G)
         /\ \/ Step(v, line, found) = found /\ Results(found) = L \cup G
            \/ Len(Step(v, line, found)) = Len(found) + 1
  <1> DEFINE D == Results(found)
             it == At(found)
             l == ucli_view_find_next_completion(v.local, it.local, line)
             g == ucli_view_find_next_completion(v.global, it.global, line)
             next == Taken(it, l, g)
             e == next.result
             longer == Append(found, next)
  <1>1. L \subseteq Text \ {None} /\ G \subseteq Text \ {None}
    BY DEF Completing
  <1>2. D \subseteq L \cup G
    <2>1. \A n \in DOMAIN found : found[n] \in Item(L, G)
      BY ElementsOf
    <2> QED
      BY <2>1 DEF Results, Item
  <1>3. AllBefore(D, L \cup G) /\ Between(it, L, G, D)
    BY DEF InOrder
  <1>4. IsFirst(l, Rest(it.local, L)) /\ IsFirst(g, Rest(it.global, G))
    <2>1. IsFirst(l, Rest(it.local, Completing(v.local, line)))
      BY NextIs
    <2>2. IsFirst(g, Rest(it.global, Completing(v.global, line)))
      BY NextIs
    <2> QED
      BY <2>1, <2>2
  <1>5. IsFirst(l, L \ D) /\ IsFirst(g, G \ D)
    BY <1>3, <1>4 DEF Between
  <1>6. Step(v, line, found) = IF e = None THEN found ELSE longer
    BY DEF Step, ucli_shell_find_next_completion
  <1> HIDE DEF D, it, l, g, next
  <1>7. \/ e = None /\ D = L \cup G
        \/ /\ next \in Item(L, G) /\ e \in (L \cup G) \ D /\ e # None
           /\ next.from = "local" <=> e \in L
           /\ AllBefore(D \cup {e}, L \cup G) /\ Between(next, L, G, D \cup {e})
    <2>1. TakenRight(next, L, G, D)
      BY ONLY <1>1, <1>2, <1>3, <1>5, TakenIs DEF next
    <2> QED
      BY <2>1 DEF TakenRight
  <1>8. CASE e = None /\ D = L \cup G
    BY <1>6, <1>8 DEF D
  <1>9. CASE /\ next \in Item(L, G) /\ e \in (L \cup G) \ D /\ e # None
             /\ next.from = "local" <=> e \in L
             /\ AllBefore(D \cup {e}, L \cup G) /\ Between(next, L, G, D \cup {e})
    <2>1. /\ longer \in Seq(Item(L, G)) /\ longer # <<>> /\ Len(longer) = Len(found) + 1
          /\ \A i \in 1 .. Len(found) : longer[i] = found[i]
          /\ longer[Len(found) + 1] = next
      BY <1>9, Appended
    <2> HIDE DEF longer
    <2>2. Len(found) \in Nat /\ DOMAIN found = 1 .. Len(found) /\ DOMAIN longer = 1 .. Len(found) + 1
      BY <2>1
    <2>3. Results(longer) = D \cup {e}
      BY <2>1, <2>2 DEF Results, D
    <2>4. At(longer) = next
      BY <2>1, <2>2 DEF At, Last
    <2>5. ASSUME NEW m \in DOMAIN longer, NEW n \in DOMAIN longer, m < n
          PROVE  Before(longer[m].result, longer[n].result)
      <3>1. m \in 1 .. Len(found) /\ longer[m] = found[m]
        BY <2>1, <2>2, <2>5
      <3>2. CASE n \in 1 .. Len(found)
        <4>1. longer[n] = found[n]
          BY <2>1, <3>2
        <4>2. Before(found[m].result, found[n].result)
          BY <2>2, <2>5, <3>1, <3>2 DEF InOrder
        <4> QED
          BY <3>1, <4>1, <4>2
      <3>3. CASE n = Len(found) + 1
        <4>1. longer[n].result = e
          BY <2>1, <3>3
        <4>2. found[m].result \in D
          BY <2>2, <3>1 DEF D, Results
        <4>3. Before(found[m].result, e)
          BY <1>3, <1>9, <4>2 DEF AllBefore
        <4> QED
          BY <3>1, <4>1, <4>3
      <3> QED
        BY <2>2, <3>2, <3>3
    <2>6. ASSUME NEW n \in DOMAIN longer
          PROVE  longer[n].from = "local" <=> longer[n].result \in L
      <3>1. CASE n \in 1 .. Len(found)
        <4>1. longer[n] = found[n]
          BY <2>1, <3>1
        <4>2. found[n].from = "local" <=> found[n].result \in L
          BY <2>2, <3>1 DEF InOrder
        <4> QED
          BY <4>1, <4>2
      <3>2. CASE n = Len(found) + 1
        <4>1. longer[n] = next
          BY <2>1, <3>2
        <4> QED
          BY <1>9, <4>1
      <3> QED
        BY <2>2, <3>1, <3>2
    <2>7. InOrder(longer, L, G)
      <3>1. AllBefore(Results(longer), L \cup G) /\ Between(At(longer), L, G, Results(longer))
        BY <1>9, <2>3, <2>4
      <3> QED
        BY <2>5, <2>6, <3>1 DEF InOrder
    <2>8. Step(v, line, found) = longer
      BY <1>6, <1>9
    <2> QED
      BY <2>1, <2>7, <2>8
  <1> QED
    BY <1>7, <1>8, <1>9

(* A sequence of different names is as long as they are many. *)
LEMMA InOrderFits ==
  ASSUME NEW L, L \subseteq Text, NEW G, G \subseteq Text, IsFiniteSet(L \cup G),
         NEW found \in Seq(Item(L, G)), InOrder(found, L, G)
  PROVE  /\ Len(found) <= Cardinality(L \cup G)
         /\ Len(found) = Cardinality(L \cup G) <=> Results(found) = L \cup G
  <1> DEFINE s == [n \in 1 .. Len(found) |-> found[n].result]
  <1>1. Len(found) \in Nat /\ DOMAIN found = 1 .. Len(found)
    BY ElementsOf
  <1>2. \A n \in 1 .. Len(found) : found[n].result \in L \cup G
    <2>1. \A n \in 1 .. Len(found) : found[n] \in Item(L, G)
      BY ElementsOf
    <2> QED
      BY <2>1 DEF Item
  <1>3. s \in [1 .. Len(found) -> L \cup G]
    BY <1>2
  <1>4. s \in Seq(L \cup G)
    <2> HIDE DEF s
    <2> QED
      BY <1>1, <1>3, IsASeq
  <1>5. Len(s) = Len(found)
    BY <1>1, <1>3, <1>4, LenProperties
  <1>6. IsInjective(s)
    <2> SUFFICES ASSUME NEW m \in 1 .. Len(found), NEW n \in 1 .. Len(found), found[m].result = found[n].result
                 PROVE  m = n
      BY <1>1 DEF IsInjective
    <2>1. found[n].result \in Text
      BY <1>2
    <2>2. ~Before(found[m].result, found[n].result) /\ ~Before(found[n].result, found[m].result)
      BY <2>1, NotBefore
    <2>3. ~(m < n) /\ ~(n < m)
      BY <1>1, <2>2 DEF InOrder
    <2> QED
      BY <2>3
  <1>7. ToSet(s) = Results(found)
    BY <1>1 DEF ToSet, Results
  <1> HIDE DEF s
  <1>8. /\ IsFiniteSet(ToSet(s)) /\ Cardinality(ToSet(s)) = Len(s)
        /\ Len(s) <= Cardinality(L \cup G)
    BY <1>4, <1>6, InjectiveFits
  <1>9. Results(found) \in SUBSET (L \cup G)
    BY <1>1, <1>2 DEF Results
  <1>10. Cardinality(Results(found)) = Cardinality(L \cup G) => Results(found) = L \cup G
    BY <1>9, FS_Subset
  <1> QED
    BY <1>5, <1>7, <1>8, <1>10

(* The iterator gives every completion once. *)
LEMMA CompletionsAre ==
  ASSUME NEW v \in Views, NEW line,
         NEW L, L = Completing(v.local, line), NEW G, G = Completing(v.global, line)
  PROVE  /\ Completions(v, line) \in Seq(Item(L, G))
         /\ InOrder(Completions(v, line), L, G)
         /\ Results(Completions(v, line)) = L \cup G
         /\ L \subseteq Text \ {None} /\ G \subseteq Text \ {None}
  <1>1. /\ IsFiniteSet(v.local) /\ v.local \subseteq Text \ {None}
        /\ IsFiniteSet(v.global) /\ v.global \subseteq Text \ {None}
    BY EditorAssumption
  <1>2. L \subseteq v.local /\ G \subseteq v.global /\ L \subseteq Text \ {None} /\ G \subseteq Text \ {None}
    BY <1>1 DEF Completing
  <1> DEFINE N == Cardinality(v.local) + Cardinality(v.global)
             S == {found \in Seq(Item(L, G)) : InOrder(found, L, G)}
             A == [p \in (1 .. N) \X S |-> Step(v, line, p[2])]
             P(f) == f = [n \in 0 .. N |-> IF n = 0 THEN <<>> ELSE Step(v, line, f[n - 1])]
             up == CHOOSE f : P(f)
  <1>3. N \in Nat /\ IsFiniteSet(L \cup G) /\ Cardinality(L \cup G) <= N
    <2>1. /\ IsFiniteSet(L) /\ Cardinality(L) <= Cardinality(v.local)
          /\ IsFiniteSet(G) /\ Cardinality(G) <= Cardinality(v.global)
      BY <1>1, <1>2, FS_Subset
    <2>2. /\ Cardinality(L) \in Nat /\ Cardinality(G) \in Nat
          /\ Cardinality(v.local) \in Nat /\ Cardinality(v.global) \in Nat
      BY <1>1, <2>1, FS_CardinalityType
    <2>3. /\ IsFiniteSet(L \cup G) /\ IsFiniteSet(L \cap G)
          /\ Cardinality(L \cup G) = Cardinality(L) + Cardinality(G) - Cardinality(L \cap G)
      <3>1. L \cap G \in SUBSET L
        OBVIOUS
      <3> QED
        BY <2>1, <3>1, FS_Subset, FS_Union
    <2>4. Cardinality(L \cap G) \in Nat
      BY <2>3, FS_CardinalityType
    <2> QED
      BY <2>1, <2>2, <2>3, <2>4
  <1>4. Completions(v, line) = up[N]
    BY DEF Completions, Step, At
  <1> HIDE DEF N
  <1>5. ASSUME NEW found \in S
        PROVE  /\ Step(v, line, found) \in S
               /\ \/ Step(v, line, found) = found /\ Results(found) = L \cup G
                  \/ Len(Step(v, line, found)) = Len(found) + 1
    BY <1>1, StepInOrder
  <1>6. <<>> \in S
    <2>1. PICK e \in Seq(Item(L, G)) : e = <<>> /\ Len(e) = 0 /\ DOMAIN e = {}
      <3>1. PICK e \in Seq(Item(L, G)) : e = <<>> /\ Len(e) = 0
        BY EmptySeq
      <3>2. DOMAIN e = 1 .. 0
        BY <3>1, ElementsOf
      <3>3. 1 .. 0 = {}
        OBVIOUS
      <3>4. DOMAIN e = {}
        BY ONLY <3>2, <3>3, Zenon
      <3> QED
        BY <3>1, <3>4
    <2>2. Results(e) = {}
      BY <2>1 DEF Results
    <2>3. Between(At(e), L, G, Results(e))
      BY <2>1, <2>2 DEF Between, At, ucli_shell_iterator_init, Rest
    <2>4. InOrder(e, L, G)
      BY <2>1, <2>2, <2>3 DEF InOrder, AllBefore
    <2> QED
      BY <2>1, <2>4
  <1> HIDE DEF S
  <1>7. A \in [(1 .. N) \X S -> S]
    BY <1>5
  <1>8. P(up)
    <2>1. PICK f \in [0 .. N -> S] : Recursive(f, N, <<>>, A)
      <3> HIDE DEF A
      <3> QED
        BY <1>3, <1>6, <1>7, RecursionExists
    <2>2. ASSUME NEW n \in 0 .. N
          PROVE  (IF n = 0 THEN <<>> ELSE A[<<n, f[n - 1]>>]) = IF n = 0 THEN <<>> ELSE Step(v, line, f[n - 1])
      <3>1. n # 0 => n \in 1 .. N /\ f[n - 1] \in S
        BY <1>3
      <3> QED
        BY <3>1
    <2>3. P(f)
      BY <2>1, <2>2, Zenon DEF Recursive
    <2> HIDE DEF P
    <2> QED
      BY <2>3
  <1> HIDE DEF up
  <1>9. up[0] = <<>> /\ \A n \in 1 .. N : up[n] = Step(v, line, up[n - 1])
    <2>1. \A n \in 0 .. N : up[n] = IF n = 0 THEN <<>> ELSE Step(v, line, up[n - 1])
      BY <1>8
    <2>2. 0 \in 0 .. N /\ \A n \in 1 .. N : n \in 0 .. N /\ n # 0
      BY <1>3
    <2> QED
      BY <2>1, <2>2, Zenon
  <1> DEFINE T == {n \in 0 .. N : up[n] \in S /\ (Len(up[n]) = n \/ Results(up[n]) = L \cup G)}
  <1>10. 0 \in T
    BY <1>3, <1>6, <1>9
  <1>11. ASSUME NEW n \in 1 .. N, n - 1 \in T PROVE n \in T
    <2>1. up[n - 1] \in S /\ (Len(up[n - 1]) = n - 1 \/ Results(up[n - 1]) = L \cup G)
      BY <1>11
    <2>2. up[n] = Step(v, line, up[n - 1])
      BY <1>9
    <2>3. \/ up[n] = up[n - 1] /\ Results(up[n - 1]) = L \cup G
          \/ Len(up[n]) = Len(up[n - 1]) + 1
      BY <1>5, <2>1, <2>2
    <2>4. up[n] \in S
      BY <1>5, <2>1, <2>2
    <2>5. CASE Len(up[n - 1]) = n - 1 /\ Len(up[n]) = Len(up[n - 1]) + 1
      BY <1>3, <2>4, <2>5
    <2>6. CASE up[n] = up[n - 1] /\ Results(up[n - 1]) = L \cup G
      BY <1>3, <2>4, <2>6
    <2>7. CASE Results(up[n - 1]) = L \cup G /\ Len(up[n]) = Len(up[n - 1]) + 1
      <3>1. /\ up[n - 1] \in Seq(Item(L, G)) /\ InOrder(up[n - 1], L, G)
            /\ up[n] \in Seq(Item(L, G)) /\ InOrder(up[n], L, G)
        BY <2>1, <2>4 DEF S
      <3>2. L \subseteq Text /\ G \subseteq Text
        BY <1>2
      <3>3. Len(up[n]) <= Cardinality(L \cup G)
        BY <1>3, <3>1, <3>2, InOrderFits
      <3>4. Len(up[n - 1]) = Cardinality(L \cup G)
        <4>1. Results(up[n - 1]) = L \cup G
          BY <2>7
        <4> QED
          BY <1>3, <3>1, <3>2, <4>1, InOrderFits
      <3>5. Cardinality(L \cup G) \in Nat
        BY <1>3, FS_CardinalityType
      <3> QED
        BY <2>7, <3>3, <3>4, <3>5
    <2> QED
      BY <2>1, <2>3, <2>5, <2>6, <2>7
  <1>12. up[N] \in S /\ (Len(up[N]) = N \/ Results(up[N]) = L \cup G)
    <2> HIDE DEF T
    <2>1. N \in T
      BY <1>3, <1>10, <1>11, UpTo
    <2> QED
      BY <2>1 DEF T
  <1>13. up[N] \in Seq(Item(L, G)) /\ InOrder(up[N], L, G)
    BY <1>12 DEF S
  <1>14. Results(up[N]) = L \cup G
    <2>1. Len(up[N]) <= Cardinality(L \cup G) /\ (Len(up[N]) = Cardinality(L \cup G) => Results(up[N]) = L \cup G)
      <3>1. L \subseteq Text /\ G \subseteq Text
        BY <1>2
      <3> QED
        BY <1>3, <1>13, <3>1, InOrderFits
    <2>2. Cardinality(L \cup G) \in Nat
      BY <1>3, FS_CardinalityType
    <2> QED
      BY <1>3, <1>12, <2>1, <2>2
  <1> QED
    BY <1>2, <1>4, <1>13, <1>14

LEMMA SuffixText ==
  ASSUME NEW s \in Text
  PROVE  lub_string_suffix(s) \in Text
  BY SuffixIs DEF Text

LEMMA WordcountIs ==
  ASSUME NEW line \in Text
  PROVE  lub_argv_wordcount(line) \in Nat
  <1>1. DOMAIN line = 1 .. Len(line) /\ Len(line) \in Nat
    BY DEF Text
  <1>2. IsFiniteSet(1 .. Len(line)) /\ WordStarts(line) \in SUBSET (1 .. Len(line))
    BY <1>1, FS_Interval DEF WordStarts
  <1>3. IsFiniteSet(WordStarts(line))
    BY <1>2, FS_Subset
  <1> QED
    BY <1>3, FS_CardinalityType DEF lub_argv_wordcount

(* The first words of a line are a command only when it is one of the view. *)
LEMMA PrefixResolves ==
  ASSUME NEW view, view \subseteq Text, NEW line \in Text
  PROVE  ucli_view_resolve_command(view, line) \in view \cup {None}
  <1> DEFINE counts == {n \in 1 .. lub_argv_wordcount(line) : Resolves(view, line, n)}
             most   == CHOOSE n \in counts : \A m \in counts : m <= n
             cmd    == ucli_view_resolve_prefix(view, line)
  <1>1. cmd = IF counts = {} THEN None ELSE Words(line, most)
    BY DEF ucli_view_resolve_prefix
  <1>2. ASSUME counts # {} PROVE Words(line, most) \in view
    <2>1. lub_argv_wordcount(line) \in Nat /\ counts \subseteq 0 .. lub_argv_wordcount(line)
      BY WordcountIs
    <2>2. \E n \in counts : \A m \in counts : m <= n
      <3> HIDE DEF counts
      <3> QED
        BY <1>2, <2>1, Greatest
    <2>3. most \in counts
      <3> HIDE DEF counts
      <3> QED
        BY <2>2
    <2> HIDE DEF most
    <2>4. most \in 1 .. most /\ Resolves(view, line, most)
      BY <2>1, <2>3
    <2> QED
      BY <2>4 DEF Resolves
  <1> HIDE DEF counts, most, cmd
  <1>3. cmd \in view \cup {None}
    BY <1>1, <1>2
  <1> QED
    BY <1>3 DEF ucli_view_resolve_command, Acting, cmd

LEMMA CommandResolves ==
  ASSUME NEW v \in Views, NEW line \in Text
  PROVE  ucli_shell_resolve_command(v, line) \in (v.local \cup v.global) \cup {None}
  <1>1. v.local \subseteq Text /\ v.global \subseteq Text
    BY EditorAssumption
  <1>2. ucli_view_resolve_command(v.local, line) \in v.local \cup {None}
    BY <1>1, PrefixResolves
  <1>3. ucli_view_resolve_command(v.global, line) \in v.global \cup {None}
    BY <1>1, PrefixResolves
  <1> QED
    BY <1>2, <1>3 DEF ucli_shell_resolve_command, ucli_command_choose_longest

(* The words of a parameter that complete a text are all of its type, and have it in front. *)
LEMMA ParamWords ==
  ASSUME NEW text \in Text
  PROVE  /\ ucli_ptype_word_generator(text) \in Seq(Text)
         /\ \A w \in ToSet(ucli_ptype_word_generator(text)) : w \in ToSet(ParamWord) /\ IsPrefix(text, w)
  <1> DEFINE N == Len(ParamWord)
             W == {w \in Text : w \in ToSet(ParamWord) /\ IsPrefix(text, w)}
             Longer(n, words) == IF IsStrictPrefix(text, ParamWord[n]) THEN Append(words, ParamWord[n]) ELSE words
             first == IF text \in ToSet(ParamWord) THEN <<text>> ELSE <<>>
             A == [p \in (1 .. N) \X Seq(W) |-> Longer(p[1], p[2])]
             P(f) == f = [n \in 0 .. N |-> IF n = 0 THEN first ELSE Longer(n, f[n - 1])]
             up == CHOOSE f : P(f)
  <1>1. N \in Nat /\ \A n \in 1 .. N : ParamWord[n] \in Text /\ ParamWord[n] \in ToSet(ParamWord)
    <2>1. ParamWord \in Seq(Text)
      BY ViewsAssumption DEF Text
    <2> QED
      BY <2>1, ElementsOf
  <1>2. ucli_ptype_word_generator(text) = up[N]
    BY DEF ucli_ptype_word_generator
  <1>3. first \in Seq(W)
    <2>1. IsPrefix(text, text)
      <3>1. text \in Seq(DOMAIN Rank) /\ Len(text) \in Nat
        BY DEF Text
      <3> QED
        BY <3>1, PrefixIs
    <2>2. CASE text \in ToSet(ParamWord)
      BY <2>1, <2>2
    <2>3. CASE text \notin ToSet(ParamWord)
      BY <2>3, EmptySeq
    <2> QED
      BY <2>2, <2>3
  <1>4. ASSUME NEW n \in 1 .. N, NEW words \in Seq(W) PROVE Longer(n, words) \in Seq(W)
    <2>1. CASE IsStrictPrefix(text, ParamWord[n])
      <3>1. ParamWord[n] \in W
        BY <1>1, <2>1 DEF IsStrictPrefix
      <3> HIDE DEF W
      <3>2. Append(words, ParamWord[n]) \in Seq(W)
        BY <3>1, Appended
      <3> QED
        BY <2>1, <3>2
    <2> QED
      BY <2>1
  <1> HIDE DEF N, W, Longer, first
  <1>5. A \in [(1 .. N) \X Seq(W) -> Seq(W)]
    BY <1>4
  <1>6. P(up)
    <2>1. PICK f \in [0 .. N -> Seq(W)] : Recursive(f, N, first, A)
      <3> HIDE DEF A
      <3> QED
        BY <1>1, <1>3, <1>5, RecursionExists
    <2>2. ASSUME NEW n \in 0 .. N
          PROVE  (IF n = 0 THEN first ELSE A[<<n, f[n - 1]>>]) = IF n = 0 THEN first ELSE Longer(n, f[n - 1])
      <3>1. n # 0 => n \in 1 .. N /\ f[n - 1] \in Seq(W)
        BY <1>1
      <3> QED
        BY <3>1
    <2>3. P(f)
      BY <2>1, <2>2, Zenon DEF Recursive
    <2> HIDE DEF P
    <2> QED
      BY <2>3
  <1> HIDE DEF up
  <1>7. up[0] = first /\ \A n \in 1 .. N : up[n] = Longer(n, up[n - 1])
    <2>1. \A n \in 0 .. N : up[n] = IF n = 0 THEN first ELSE Longer(n, up[n - 1])
      BY <1>6
    <2>2. 0 \in 0 .. N /\ \A n \in 1 .. N : n \in 0 .. N /\ n # 0
      BY <1>1
    <2> QED
      BY <2>1, <2>2, Zenon
  <1> DEFINE T == {n \in 0 .. N : up[n] \in Seq(W)}
  <1>8. N \in T
    <2>1. 0 \in T
      BY <1>1, <1>3, <1>7
    <2>2. ASSUME NEW n \in 1 .. N, n - 1 \in T PROVE n \in T
      BY <1>4, <1>7, <2>2
    <2> HIDE DEF T
    <2> QED
      BY <1>1, <2>1, <2>2, UpTo
  <1>9. up[N] \in Seq(W)
    BY <1>8
  <1>10. up[N] \in Seq(Text)
    <2>1. W \subseteq Text
      BY DEF W
    <2> QED
      BY <1>9, <2>1
  <1>11. \A w \in ToSet(up[N]) : w \in W
    BY <1>9, ElementsOf
  <1> QED
    BY <1>2, <1>10, <1>11 DEF W

LEMMA WordsAreTexts ==
  ASSUME NEW v \in Views, NEW line \in Text
  PROVE  ucli_shell_word_generator(v, line) \in Seq(Text)
  <1> DEFINE cmd  == ucli_shell_resolve_command(v, line)
             cmds == Completions(v, line)
             L    == Completing(v.local, line)
             G    == Completing(v.global, line)
  <1>1. ucli_shell_word_generator(v, line) = WordsOf(cmd, cmds, line)
    BY DEF ucli_shell_word_generator
  <1>2. cmd \in Text \cup {None}
    BY CommandResolves, EditorAssumption
  <1>3. cmds \in Seq(Item(L, G)) /\ L \subseteq Text /\ G \subseteq Text
    BY CompletionsAre
  <1> HIDE DEF cmd, cmds, L, G
  <1>4. CASE cmd # None /\ cmds = <<>>
    <2>1. ASSUME NEW s \in Text PROVE <<s>> \in Seq(Text)
      OBVIOUS
    <2>2. lub_string_suffix(cmd) \in Text /\ lub_string_suffix(line) \in Text
      BY <1>2, <1>4, SuffixText
    <2>3. ucli_ptype_word_generator(lub_string_suffix(line)) \in Seq(Text)
      BY <2>2, ParamWords
    <2>4. ucli_shell_param_generator(cmd, line) \in Seq(Text)
      BY <2>1, <2>2, <2>3 DEF ucli_shell_param_generator
    <2> QED
      BY <1>1, <1>4, <2>4 DEF WordsOf
  <1>5. CASE ~(cmd # None /\ cmds = <<>>)
    <2> DEFINE words == [n \in 1 .. Len(cmds) |-> lub_string_suffix(cmds[n].result)]
    <2>1. Len(cmds) \in Nat /\ DOMAIN cmds = 1 .. Len(cmds)
      BY <1>3, ElementsOf
    <2>2. ASSUME NEW n \in 1 .. Len(cmds) PROVE lub_string_suffix(cmds[n].result) \in Text
      <3>1. cmds[n] \in Item(L, G)
        BY <1>3, ElementsOf
      <3>2. cmds[n].result \in Text
        BY <1>3, <3>1 DEF Item
      <3> QED
        BY <3>2, SuffixText
    <2>3. words \in [1 .. Len(cmds) -> Text]
      BY <2>2
    <2>4. words \in Seq(Text)
      <3> HIDE DEF words
      <3> QED
        BY <2>1, <2>3, IsASeq
    <2> QED
      BY <1>1, <1>5, <2>1, <2>4 DEF WordsOf
  <1> QED
    BY <1>4, <1>5

-----------------------------------------------------------------------------
(* References. *)

(* t has l in it. *)
Holds(t, l) == \E i \in 1 .. (Len(t) - Len(l)) + 1 : SubSeq(t, i, i + Len(l) - 1) = l

LEMMA HoldsBetween ==
  ASSUME NEW S, NEW a \in Seq(S), NEW l \in Seq(S), NEW b \in Seq(S)
  PROVE  Holds((a \o l) \o b, l)
  <1> DEFINE t == (a \o l) \o b
             i == Len(a) + 1
             part == SubSeq(t, i, i + Len(l) - 1)
  <1>1. Len(a) \in Nat /\ Len(l) \in Nat /\ Len(b) \in Nat
    OBVIOUS
  <1>2. a \o l \in Seq(S) /\ Len(a \o l) = Len(a) + Len(l)
    BY Both
  <1>3. t \in Seq(S) /\ Len(t) = (Len(a) + Len(l)) + Len(b)
    BY <1>2, Both
  <1>4. \A k \in 1 .. Len(l) : t[Len(a) + k] = l[k]
    <2>1. \A k \in 1 .. Len(l) : (a \o l)[Len(a) + k] = l[k]
      BY Both
    <2>2. \A k \in 1 .. Len(a \o l) : t[k] = (a \o l)[k]
      BY <1>2, Both
    <2>3. \A k \in 1 .. Len(l) : Len(a) + k \in 1 .. Len(a \o l)
      BY <1>1, <1>2
    <2> HIDE DEF t
    <2> QED
      BY <2>1, <2>2, <2>3
  <1> HIDE DEF t
  <1>5. /\ i \in 1 .. (Len(t) - Len(l)) + 1 /\ i + Len(l) - 1 <= Len(t) /\ 1 <= i /\ i \in Int
        /\ i + Len(l) - 1 \in Int /\ ((i + Len(l) - 1) - i) + 1 = Len(l)
        /\ (~(i <= i + Len(l) - 1) => Len(l) = 0)
        /\ \A k \in 1 .. Len(l) : (i + k) - 1 = Len(a) + k
    BY <1>1, <1>3
  <1> HIDE DEF i
  <1>6. part \in Seq(S) /\ Len(part) = Len(l) /\ \A k \in 1 .. Len(l) : part[k] = t[(i + k) - 1]
    <2>1. /\ part \in Seq(S)
          /\ Len(part) = IF i <= i + Len(l) - 1 THEN ((i + Len(l) - 1) - i) + 1 ELSE 0
          /\ \A k \in 1 .. ((i + Len(l) - 1) - i) + 1 : part[k] = t[(i + k) - 1]
      BY <1>3, <1>5, PartOf
    <2> HIDE DEF part
    <2> QED
      BY <1>5, <2>1
  <1> HIDE DEF part
  <1>7. part = l
    <2>1. \A k \in 1 .. Len(part) : part[k] = l[k]
      BY <1>4, <1>5, <1>6
    <2> QED
      BY <1>6, <2>1, SameSeq
  <1> QED
    BY <1>5, <1>7 DEF Holds, part, t

LEMMA HoldsLonger ==
  ASSUME NEW S, NEW t \in Seq(S), NEW l \in Seq(S), NEW b \in Seq(S), Holds(t, l)
  PROVE  Holds(t \o b, l)
  <1>1. Len(t) \in Nat /\ Len(l) \in Nat /\ Len(b) \in Nat /\ t \o b \in Seq(S) /\ Len(t \o b) = Len(t) + Len(b)
    BY Both
  <1>2. PICK i \in 1 .. (Len(t) - Len(l)) + 1 : SubSeq(t, i, i + Len(l) - 1) = l
    BY DEF Holds
  <1>3. i \in 1 .. (Len(t \o b) - Len(l)) + 1
    BY <1>1
  <1> DEFINE n == i + Len(l) - 1
             p == SubSeq(t, i, n)
             q == SubSeq(t \o b, i, n)
  <1>4. /\ i \in Int /\ 1 <= i /\ n \in Int /\ n <= Len(t) /\ n <= Len(t \o b)
        /\ \A k \in 1 .. (n - i) + 1 : (i + k) - 1 \in 1 .. Len(t)
        /\ (i <= n => Len(l) = (n - i) + 1) /\ (~(i <= n) => Len(l) = 0)
    BY <1>1
  <1> HIDE DEF n
  <1>5. /\ p \in Seq(S) /\ Len(p) = (IF i <= n THEN (n - i) + 1 ELSE 0)
        /\ \A k \in 1 .. (n - i) + 1 : p[k] = t[(i + k) - 1]
    BY <1>4, PartOf
  <1>6. /\ q \in Seq(S) /\ Len(q) = (IF i <= n THEN (n - i) + 1 ELSE 0)
        /\ \A k \in 1 .. (n - i) + 1 : q[k] = (t \o b)[(i + k) - 1]
    BY <1>1, <1>4, PartOf
  <1>7. \A k \in 1 .. Len(t) : (t \o b)[k] = t[k]
    BY Both
  <1> HIDE DEF p, q
  <1>8. \A k \in 1 .. Len(p) : p[k] = q[k]
    <2>1. \A k \in 1 .. Len(p) : k \in 1 .. (n - i) + 1
      BY <1>1, <1>4, <1>5
    <2> QED
      BY <1>4, <1>5, <1>6, <1>7, <2>1
  <1>9. p = q
    BY <1>5, <1>6, <1>8, SameSeq
  <1> QED
    BY <1>2, <1>3, <1>9 DEF Holds, n, p, q

Entries == [line : Text, index : Nat]

(* One round of the loop. *)
Round(text, chance, y) ==
  IF ~y.going \/ y.p > Len(text) THEN y
  ELSE IF text[y.p] = Bang THEN AtReference(y, text, chance)
  ELSE [y EXCEPT !.p = y.p + 1, !.len = y.len + 1]

Expansion ==
  [p : Nat \ {0}, start : Nat \ {0}, len : Nat, going : BOOLEAN, expanded : BOOLEAN, out : Text]

LEMMA ExpansionWith ==
  ASSUME NEW y \in Expansion, NEW p \in Nat \ {0}, NEW len \in Nat, NEW out \in Text
  PROVE  /\ [y EXCEPT !.p = p, !.len = len, !.out = out] \in Expansion
         /\ [y EXCEPT !.p = p, !.len = len] \in Expansion
         /\ [y EXCEPT !.going = FALSE] \in Expansion
  BY DEF Expansion

LEMMA EntryText ==
  ASSUME lines \in Seq(Entries), NEW k \in DOMAIN lines
  PROVE  lines[k] \in Entries /\ lines[k].line \in Text /\ lines[k].line \in Seq(DOMAIN Rank)
  <1>1. lines[k] \in Entries
    BY ElementsOf
  <1> QED
    BY <1>1 DEF Entries, Text

(* The loop is at p, and has put out what is before start; where it has replaced
   something there was a reference, and an entry is put out. *)
Expanding(text) ==
  {y \in Expansion :
     /\ y.start + y.len = y.p /\ y.start <= Len(text) + 1
     /\ y.expanded => /\ Bang \in ToSet(text)
                      /\ \E k \in DOMAIN lines : Holds(y.out, lines[k].line)}

LEMMA RoundExpands ==
  ASSUME NEW text \in Text, NEW chance, lines \in Seq(Entries), NEW y \in Expanding(text)
  PROVE  Round(text, chance, y) \in Expanding(text)
  <1>1. text \in Seq(DOMAIN Rank) /\ Len(text) \in Nat
    BY DEF Text
  <1>2. /\ y \in Expansion
        /\ y.start + y.len = y.p /\ y.start <= Len(text) + 1
        /\ y.expanded => /\ Bang \in ToSet(text)
                         /\ \E k \in DOMAIN lines : Holds(y.out, lines[k].line)
    BY DEF Expanding
  <1>3. y.p \in Nat \ {0} /\ y.start \in Nat \ {0} /\ y.len \in Nat /\ y.out \in Seq(DOMAIN Rank)
    BY <1>2 DEF Text, Expansion
  <1>4. CASE ~y.going \/ y.p > Len(text)
    BY <1>4 DEF Round
  <1>5. CASE ~(~y.going \/ y.p > Len(text)) /\ text[y.p] # Bang
    <2> DEFINE z == [y EXCEPT !.p = y.p + 1, !.len = y.len + 1]
    <2>1. Round(text, chance, y) = z
      BY <1>5 DEF Round
    <2>2. /\ z \in Expansion
          /\ z.p = y.p + 1 /\ z.len = y.len + 1 /\ z.start = y.start /\ z.expanded = y.expanded /\ z.out = y.out
      <3>1. y.p + 1 \in Nat \ {0} /\ y.len + 1 \in Nat /\ y.out \in Text
        BY <1>3 DEF Text
      <3>2. z \in Expansion
        BY <1>2, <3>1, ExpansionWith
      <3> QED
        BY <1>2, <3>2 DEF Expansion
    <2> HIDE DEF z
    <2>3. z.start + z.len = z.p
      BY <1>2, <1>3, <2>2
    <2>4. z \in Expanding(text)
      BY <1>2, <2>2, <2>3 DEF Expanding
    <2> QED
      BY <2>1, <2>4
  <1>6. CASE ~(~y.going \/ y.p > Len(text)) /\ text[y.p] = Bang
    <2> DEFINE offset == Offset(text, y.p, chance)
               run    == Span(text, y.p, RefChar)
               entry  == tinyrl_history_get(offset)
               plain  == SubSeq(text, y.start, y.start + y.len - 1)
               after  == y.p + Len(run)
               z      == AtReference(y, text, chance)
               got    == lines[CHOOSE i \in entry : TRUE].line
               e2     == [y EXCEPT !.p = after + 1, !.len = y.len + Len(run) + 1, !.out = y.out \o plain]
               e3     == [p |-> after + 1, start |-> after, len |-> 1, going |-> TRUE, expanded |-> TRUE,
                          out |-> y.out \o plain \o got]
    <2>1. Round(text, chance, y) = z
      BY <1>6 DEF Round
    <2>2. z = IF offset = None THEN [y EXCEPT !.going = FALSE] ELSE IF entry = {} THEN e2 ELSE e3
      BY DEF AtReference
    <2>3. y.p \in 1 .. Len(text) /\ y.p \in 1 .. Len(text) + 1
      BY <1>1, <1>3, <1>6
    <2>4. Len(run) \in Nat /\ after \in Nat \ {0} /\ after <= Len(text) + 1
      <3>1. Len(run) \in Nat /\ y.p + Len(run) <= Len(text) + 1
        BY <1>1, <2>3, SpanFits
      <3> QED
        BY <1>3, <3>1
    <2>5. plain \in Seq(DOMAIN Rank)
      <3>1. y.start + y.len - 1 \in Int /\ y.start + y.len - 1 <= Len(text) /\ 1 <= y.start /\ y.start \in Int
        BY <1>1, <1>2, <1>3, <2>3
      <3> QED
        BY <1>1, <3>1, PartOf
    <2>6. Bang \in ToSet(text)
      BY <1>1, <1>6, <2>3, ElementsOf
    <2>7. y.out \o plain \in Seq(DOMAIN Rank)
      BY <1>3, <2>5, Both
    <2> HIDE DEF offset, run, plain, after, z
    <2>8. CASE offset = None
      <3>1. z = [y EXCEPT !.going = FALSE]
        BY <2>2, <2>8
      <3>2. /\ z \in Expansion
            /\ z.p = y.p /\ z.len = y.len /\ z.start = y.start /\ z.expanded = y.expanded /\ z.out = y.out
        BY <1>2, <1>3, <3>1 DEF Expansion
      <3>3. z \in Expanding(text)
        BY <1>2, <3>2 DEF Expanding
      <3> QED
        BY <2>1, <3>3
    <2>9. CASE offset # None /\ entry = {}
      <3>1. z = e2
        BY <2>2, <2>9
      <3>2. /\ z \in Expansion
            /\ z.p = after + 1 /\ z.len = y.len + Len(run) + 1 /\ z.start = y.start /\ z.expanded = y.expanded
            /\ z.out = y.out \o plain
        <4>1. after + 1 \in Nat \ {0} /\ y.len + Len(run) + 1 \in Nat /\ y.out \o plain \in Text
          BY <1>3, <2>4, <2>7 DEF Text
        <4>2. z \in Expansion
          BY <1>2, <3>1, <4>1, ExpansionWith
        <4> QED
          BY <1>2, <3>1, <4>2 DEF Expansion
      <3>3. z.start + z.len = z.p
        <4>1. /\ y.start + y.len = y.p /\ after = y.p + Len(run) /\ z.start = y.start
              /\ z.p = after + 1 /\ z.len = y.len + Len(run) + 1
          BY <1>2, <3>2 DEF after
        <4>2. y.p \in Nat /\ y.start \in Nat /\ y.len \in Nat /\ Len(run) \in Nat
          BY <1>3, <2>4
        <4> QED
          BY ONLY <4>1, <4>2
      <3>4. ASSUME z.expanded
            PROVE  Bang \in ToSet(text) /\ \E k \in DOMAIN lines : Holds(z.out, lines[k].line)
        <4>1. PICK k \in DOMAIN lines : Holds(y.out, lines[k].line)
          BY <1>2, <3>2, <3>4
        <4>2. lines[k].line \in Seq(DOMAIN Rank)
          BY EntryText
        <4>3. Holds(y.out \o plain, lines[k].line)
          BY <1>3, <2>5, <4>1, <4>2, HoldsLonger
        <4> QED
          BY <2>6, <3>2, <4>3
      <3>5. z \in Expanding(text)
        BY <1>2, <3>2, <3>3, <3>4 DEF Expanding
      <3> QED
        BY <2>1, <3>5
    <2>10. CASE offset # None /\ entry # {}
      <3>1. z = e3
        BY <2>2, <2>10
      <3>2. PICK k \in DOMAIN lines : got = lines[k].line
        <4>1. entry \subseteq DOMAIN lines
          BY DEF tinyrl_history_get
        <4> HIDE DEF entry
        <4> QED
          BY <2>10, <4>1
      <3>3. got \in Seq(DOMAIN Rank)
        BY <3>2, EntryText
      <3> HIDE DEF got
      <3>4. y.out \o plain \o got \in Seq(DOMAIN Rank)
        BY <2>7, <3>3, Both
      <3>5. /\ z \in Expansion
            /\ z.p = after + 1 /\ z.len = 1 /\ z.start = after /\ z.expanded = TRUE
            /\ z.out = y.out \o plain \o got
        <4>1. after + 1 \in Nat \ {0} /\ after \in Nat \ {0}
          BY <2>4
        <4> QED
          BY <3>1, <3>4, <4>1 DEF Text, Expansion
      <3>6. Holds(z.out, got)
        <4>1. PICK e \in Seq(DOMAIN Rank) : e = <<>>
          BY EmptySeq
        <4>2. (y.out \o plain \o got) \o e = y.out \o plain \o got
          BY <3>4, <4>1, ConcatEmptySeq
        <4>3. Holds((y.out \o plain \o got) \o e, got)
          BY <2>7, <3>3, HoldsBetween
        <4> QED
          BY <3>5, <4>2, <4>3
      <3>7. z \in Expanding(text)
        BY <2>4, <2>6, <3>2, <3>5, <3>6 DEF Expanding
      <3> QED
        BY <2>1, <3>7
    <2> QED
      BY <2>8, <2>9, <2>10
  <1> QED
    BY <1>4, <1>5, <1>6

LEMMA MinOfTwo ==
  ASSUME NEW a \in Int, NEW b \in Int
  PROVE  Min({a, b}) \in {a, b} /\ Min({a, b}) <= a /\ Min({a, b}) <= b
  <1> DEFINE T == {a, b}
             m == CHOOSE x \in T : \A y \in T : x <= y
  <1>1. \E x \in T : \A y \in T : x <= y
    <2>1. CASE a <= b
      BY <2>1
    <2>2. CASE b <= a
      BY <2>2
    <2> QED
      BY <2>1, <2>2
  <1>2. m \in T /\ \A y \in T : m <= y
    BY <1>1
  <1>3. Min(T) = m
    BY DEF Min
  <1> QED
    BY <1>2, <1>3

(* A line is expanded in the rounds of the loop over it. *)
FirstRound == [p |-> 1, start |-> 1, len |-> 0, going |-> TRUE, expanded |-> FALSE, out |-> <<>>]

LEMMA ExpandsInRounds ==
  ASSUME NEW text \in Text, NEW chance, lines \in Seq(Entries)
  PROVE  \E up : /\ up[0] = FirstRound
                 /\ \A n \in 1 .. Len(text) + 1 : up[n] = Round(text, chance, up[n - 1])
                 /\ LET last == up[Len(text) + 1]
                    IN  tinyrl_history_expand(text, chance) =
                          [expanded |-> last.expanded,
                           out |-> last.out \o SubSeq(text, last.start, Min({last.start + last.len - 1, Len(text)}))]
  <1> DEFINE N == Len(text) + 1
             S == Expanding(text)
             first == FirstRound
             A == [p \in (1 .. N) \X S |-> Round(text, chance, p[2])]
             P(f) == f = [n \in 0 .. N |-> IF n = 0 THEN first ELSE Round(text, chance, f[n - 1])]
             up == CHOOSE f : P(f)
             last == up[N]
             x == tinyrl_history_expand(text, chance)
  <1>1. text \in Seq(DOMAIN Rank) /\ Len(text) \in Nat /\ N \in Nat
    BY DEF Text
  <1>2. x = [expanded |-> last.expanded,
             out |-> last.out \o SubSeq(text, last.start, Min({last.start + last.len - 1, Len(text)}))]
    BY DEF tinyrl_history_expand, Round, FirstRound
  <1> HIDE DEF x
  <1>3. first \in S
    <2>1. <<>> \in Text
      BY EmptySeq DEF Text
    <2>2. first \in Expansion
      BY <2>1 DEF Expansion, FirstRound
    <2> QED
      BY <1>1, <2>2 DEF Expanding, FirstRound
  <1>4. \A y \in S : Round(text, chance, y) \in S
    BY RoundExpands
  <1> HIDE DEF N, S, first
  <1>5. A \in [(1 .. N) \X S -> S]
    BY <1>4
  <1>6. P(up)
    <2>1. PICK f \in [0 .. N -> S] : Recursive(f, N, first, A)
      <3> HIDE DEF A
      <3> QED
        BY <1>1, <1>3, <1>5, RecursionExists
    <2>2. ASSUME NEW n \in 0 .. N
          PROVE  (IF n = 0 THEN first ELSE A[<<n, f[n - 1]>>]) = IF n = 0 THEN first ELSE Round(text, chance, f[n - 1])
      <3>1. n # 0 => n \in 1 .. N /\ f[n - 1] \in S
        BY <1>1
      <3> QED
        BY <3>1
    <2>3. P(f)
      BY <2>1, <2>2, Zenon DEF Recursive
    <2> HIDE DEF P
    <2> QED
      BY <2>3
  <1> HIDE DEF up
  <1>7. up[0] = first /\ \A n \in 1 .. N : up[n] = Round(text, chance, up[n - 1])
    <2>1. \A n \in 0 .. N : up[n] = IF n = 0 THEN first ELSE Round(text, chance, up[n - 1])
      BY <1>6
    <2>2. 0 \in 0 .. N /\ \A n \in 1 .. N : n \in 0 .. N /\ n # 0
      BY <1>1
    <2> QED
      BY <2>1, <2>2, Zenon
  <1> QED
    BY <1>2, <1>7, Zenon DEF x, N, first

(* The expansion of a text is a text, and one in which something is replaced had a
   reference and holds an entry. *)
LEMMA ExpandIs ==
  ASSUME NEW text \in Text, NEW chance, lines \in Seq(Entries)
  PROVE  /\ tinyrl_history_expand(text, chance).out \in Text
         /\ tinyrl_history_expand(text, chance).expanded =>
              /\ Bang \in ToSet(text)
              /\ \E k \in DOMAIN lines : Holds(tinyrl_history_expand(text, chance).out, lines[k].line)
  <1> DEFINE N == Len(text) + 1
             S == Expanding(text)
             x == tinyrl_history_expand(text, chance)
  <1>1. text \in Seq(DOMAIN Rank) /\ Len(text) \in Nat /\ N \in Nat
    BY DEF Text
  <1>2. PICK up : /\ up[0] = FirstRound
                  /\ \A n \in 1 .. N : up[n] = Round(text, chance, up[n - 1])
                  /\ x = [expanded |-> up[N].expanded,
                          out |-> up[N].out \o SubSeq(text, up[N].start, Min({up[N].start + up[N].len - 1, Len(text)}))]
    BY ExpandsInRounds
  <1> DEFINE last == up[N]
             stop == Min({last.start + last.len - 1, Len(text)})
  <1> HIDE DEF x
  <1>3. x.expanded = last.expanded /\ x.out = last.out \o SubSeq(text, last.start, stop)
    <2> DEFINE out == last.out \o SubSeq(text, last.start, stop)
    <2>1. x = [expanded |-> last.expanded, out |-> out]
      BY <1>2
    <2> HIDE DEF last, out
    <2>2. /\ [expanded |-> last.expanded, out |-> out].expanded = last.expanded
          /\ [expanded |-> last.expanded, out |-> out].out = out
      OBVIOUS
    <2> QED
      BY <2>1, <2>2, Zenon DEF out
  <1>4. FirstRound \in S
    <2>1. <<>> \in Text
      BY EmptySeq DEF Text
    <2>2. FirstRound \in Expansion
      BY <2>1 DEF Expansion, FirstRound
    <2> QED
      BY <1>1, <2>2 DEF Expanding, FirstRound
  <1>5. \A y \in S : Round(text, chance, y) \in S
    BY RoundExpands
  <1> HIDE DEF N, S
  <1> DEFINE T == {n \in 0 .. N : up[n] \in S}
  <1>6. N \in T
    <2>1. 0 \in T
      BY <1>1, <1>2, <1>4
    <2>2. ASSUME NEW n \in 1 .. N, n - 1 \in T PROVE n \in T
      BY <1>2, <1>5, <2>2
    <2> HIDE DEF T
    <2>3. N \in Nat /\ N \in 0 .. N
      BY <1>1
    <2>4. \A n \in 0 .. N : n \in T
      BY ONLY <2>1, <2>2, <2>3, UpTo
    <2> QED
      BY <2>3, <2>4
  <1>7. last \in Expansion /\ last.start <= Len(text) + 1
        /\ (last.expanded => /\ Bang \in ToSet(text)
                             /\ \E k \in DOMAIN lines : Holds(last.out, lines[k].line))
    BY <1>6 DEF S, Expanding
  <1> HIDE DEF T, last
  <1>8. last.start \in Nat \ {0} /\ last.len \in Nat /\ last.out \in Text
    BY <1>7 DEF Expansion
  <1>9. stop \in Int /\ stop <= Len(text)
    <2>1. last.start + last.len - 1 \in Int /\ Len(text) \in Int
      BY <1>1, <1>8
    <2> QED
      BY <2>1, MinOfTwo
  <1> HIDE DEF stop
  <1>10. SubSeq(text, last.start, stop) \in Seq(DOMAIN Rank)
    BY <1>1, <1>8, <1>9, PartOf
  <1>11. last.out \o SubSeq(text, last.start, stop) \in Text
    BY <1>8, <1>10, Both DEF Text
  <1>12. ASSUME last.expanded
         PROVE  /\ Bang \in ToSet(text)
                /\ \E k \in DOMAIN lines : Holds(last.out \o SubSeq(text, last.start, stop), lines[k].line)
    <2>1. PICK k \in DOMAIN lines : Holds(last.out, lines[k].line)
      BY <1>7, <1>12
    <2>2. lines[k].line \in Seq(DOMAIN Rank) /\ last.out \in Seq(DOMAIN Rank)
      BY <1>8, EntryText DEF Text
    <2>3. Holds(last.out \o SubSeq(text, last.start, stop), lines[k].line)
      BY <1>10, <2>1, <2>2, HoldsLonger
    <2> QED
      BY <1>7, <1>12, <2>3
  <1> QED
    BY <1>11, <1>12, <1>3, Zenon DEF x

-----------------------------------------------------------------------------
(* The editor. *)

Editor == [buffer : Text, size : Nat, view : 0 .. Len(lines), point : Nat, end : Nat, stray : BOOLEAN]

(* What LineKept says of an editor. *)
Kept(e) ==
  /\ e \in Editor
  /\ e.end = Len(Shown(e)) /\ e.point <= e.end
  /\ Len(e.buffer) <= e.size

(* The text before the cursor, and behind it. *)
Left(e) == SubSeq(Shown(e), 1, e.point)

Right(e) == SubSeq(Shown(e), e.point + 1, Len(Shown(e)))

LEMMA ShownIs ==
  ASSUME lines \in Seq(Entries), NEW e, e \in Editor
  PROVE  Shown(e) \in Text
  <1>1. e.view \in 0 .. Len(lines) /\ e.buffer \in Text /\ Len(lines) \in Nat
    BY DEF Editor
  <1>2. CASE e.view = 0
    BY <1>1, <1>2 DEF Shown
  <1>3. CASE e.view # 0
    <2>1. e.view \in DOMAIN lines
      BY <1>1, <1>3
    <2>2. lines[e.view].line \in Text
      BY <2>1, EntryText
    <2> QED
      BY <1>3, <2>2 DEF Shown
  <1> QED
    BY <1>2, <1>3

LEMMA SidesAre ==
  ASSUME lines \in Seq(Entries), NEW e, Kept(e)
  PROVE  /\ Shown(e) \in Text /\ Shown(e) \in Seq(DOMAIN Rank)
         /\ e.point \in 0 .. Len(Shown(e)) /\ e.end = Len(Shown(e)) /\ e.end \in Nat /\ e.point \in Nat
         /\ Left(e) \in Text /\ Left(e) \in Seq(DOMAIN Rank) /\ Len(Left(e)) = e.point
         /\ Right(e) \in Text /\ Right(e) \in Seq(DOMAIN Rank) /\ Len(Right(e)) = e.end - e.point
         /\ Left(e) \o Right(e) = Shown(e)
  <1>1. Shown(e) \in Seq(DOMAIN Rank) /\ e \in Editor /\ e.end = Len(Shown(e)) /\ e.point <= e.end
    BY ShownIs DEF Kept, Text
  <1>2. e.point \in Nat /\ e.end \in Nat
    BY <1>1 DEF Editor
  <1>3. e.point \in 0 .. Len(Shown(e))
    BY <1>1, <1>2
  <1> DEFINE s == Shown(e)
  <1> HIDE DEF s
  <1>4. /\ SubSeq(s, 1, e.point) \in Seq(DOMAIN Rank) /\ Len(SubSeq(s, 1, e.point)) = e.point
        /\ SubSeq(s, e.point + 1, Len(s)) \in Seq(DOMAIN Rank) /\ Len(SubSeq(s, e.point + 1, Len(s))) = Len(s) - e.point
        /\ SubSeq(s, 1, e.point) \o SubSeq(s, e.point + 1, Len(s)) = s
    BY <1>1, <1>3, CutAt DEF s
  <1> QED
    BY <1>1, <1>2, <1>3, <1>4 DEF Left, Right, Text, s

LEMMA ChangedIs ==
  ASSUME lines \in Seq(Entries), NEW e, Kept(e), NEW c, c = changed_line(e)
  PROVE  /\ Kept(c) /\ c.view = 0 /\ Shown(c) = Shown(e) /\ c.buffer = Shown(e)
         /\ c.point = e.point /\ c.end = e.end /\ c.stray = e.stray
         /\ Left(c) = Left(e) /\ Right(c) = Right(e)
  <1>1. e \in Editor /\ Shown(e) \in Text /\ Len(Shown(e)) \in Nat /\ Len(Shown(e)) <= Len(Shown(e))
    BY SidesAre DEF Kept, Text
  <1>2. CASE e.view = 0
    BY <1>2 DEF changed_line, Shown
  <1>3. CASE e.view # 0
    <2>1. c = [e EXCEPT !.buffer = Shown(e), !.size = Len(Shown(e)), !.view = 0]
      BY <1>3 DEF changed_line
    <2>2. 0 \in 0 .. Len(lines)
      OBVIOUS
    <2>3. /\ c \in Editor /\ c.view = 0 /\ c.buffer = Shown(e) /\ c.size = Len(Shown(e))
          /\ c.point = e.point /\ c.end = e.end /\ c.stray = e.stray
      BY <1>1, <2>1, <2>2 DEF Editor
    <2>4. Shown(c) = Shown(e)
      BY <2>3 DEF Shown
    <2> QED
      BY <1>1, <2>3, <2>4 DEF Kept, Left, Right
  <1>4. Left(c) = Left(e) /\ Right(c) = Right(e)
    BY <1>2, <1>3 DEF changed_line, Left, Right, Shown
  <1> QED
    BY <1>2, <1>3, <1>4

LEMMA ExtendIs ==
  ASSUME NEW c, c \in Editor, NEW len \in Nat, NEW x, x = tinyrl_extend_line_buffer(c, len)
  PROVE  /\ x \in Editor /\ x.size >= len
         /\ x.view = IF c.size >= len THEN c.view ELSE 0
         /\ x.point = c.point /\ x.end = c.end /\ x.stray = c.stray /\ x.buffer = c.buffer
  <1>1. c.size \in Nat /\ Slack \in Nat /\ 0 \in 0 .. Len(lines)
    <2>1. c.view \in 0 .. Len(lines) /\ c.size \in Nat
      BY DEF Editor
    <2>2. 0 \in 0 .. Len(lines)
      BY <2>1
    <2> QED
      BY <2>1, <2>2, EditorAssumption
  <1>2. CASE c.size >= len
    BY <1>2 DEF tinyrl_extend_line_buffer
  <1>3. CASE ~(c.size >= len)
    <2> DEFINE size == IF len < c.size + Slack THEN c.size + Slack ELSE len
    <2>1. x = [c EXCEPT !.size = size, !.view = 0]
      BY <1>3 DEF tinyrl_extend_line_buffer
    <2>2. size \in Nat /\ size >= len
      BY <1>1
    <2> HIDE DEF size
    <2> QED
      BY <1>1, <1>3, <2>1, <2>2 DEF Editor
  <1> QED
    BY <1>2, <1>3

(* Text is put in at the cursor, if there is memory for it. *)
LEMMA WithTextIs ==
  ASSUME lines \in Seq(Entries), NEW c, Kept(c), c.view = 0, NEW text \in Text, NEW chance,
         NEW r, r = WithText(c, text, chance)
  PROVE  /\ Kept(r) /\ r.view = 0 /\ r.stray = c.stray
         /\ Right(r) = Right(c)
         /\ Left(r) = IF Refused(c, c.end + Len(text), chance) THEN Left(c) ELSE Left(c) \o text
  <1>1. CASE Refused(c, c.end + Len(text), chance)
    <2>1. r = c
      BY <1>1 DEF WithText
    <2> QED
      BY <1>1, <2>1
  <1>2. CASE ~Refused(c, c.end + Len(text), chance)
    <2> DEFINE len == c.end + Len(text)
               x   == tinyrl_extend_line_buffer(c, len)
               a   == Left(c)
               b   == Right(c)
               buf == (a \o text) \o b
               at  == c.point + Len(text)
    <2>1. /\ a \in Seq(DOMAIN Rank) /\ b \in Seq(DOMAIN Rank) /\ text \in Seq(DOMAIN Rank)
          /\ Len(a) = c.point /\ Len(b) = c.end - c.point /\ c.point \in Nat /\ c.end \in Nat
          /\ c.point <= c.end /\ c \in Editor /\ Len(text) \in Nat
      BY SidesAre DEF Kept, Text
    <2>2. a = SubSeq(c.buffer, 1, c.point) /\ b = SubSeq(c.buffer, c.point + 1, c.end)
      BY DEF Left, Right, Shown, Kept
    <2>3. r = [x EXCEPT !.buffer = buf, !.point = at, !.end = len]
      BY <1>2, <2>2 DEF WithText
    <2> HIDE DEF a, b
    <2>4. a \o text \in Seq(DOMAIN Rank) /\ Len(a \o text) = at
      <3>1. a \in Seq(DOMAIN Rank) /\ text \in Seq(DOMAIN Rank)
        BY <2>1
      <3>2. a \o text \in Seq(DOMAIN Rank) /\ Len(a \o text) = Len(a) + Len(text)
        BY ONLY <3>1, Both
      <3> QED
        BY <2>1, <3>2
    <2>5. buf \in Seq(DOMAIN Rank) /\ Len(buf) = at + Len(b) /\ at + Len(b) = len
      <3>1. buf \in Seq(DOMAIN Rank) /\ Len(buf) = Len(a \o text) + Len(b)
        <4>1. a \o text \in Seq(DOMAIN Rank) /\ b \in Seq(DOMAIN Rank)
          BY <2>1, <2>4
        <4>2. (a \o text) \o b \in Seq(DOMAIN Rank) /\ Len((a \o text) \o b) = Len(a \o text) + Len(b)
          BY ONLY <4>1, Both
        <4> QED
          BY <4>2
      <3>2. at + Len(b) = len
        BY <2>1
      <3> HIDE DEF at
      <3> QED
        BY <2>4, <3>1, <3>2
    <2>6. SubSeq(buf, 1, at) = a \o text /\ SubSeq(buf, at + 1, len) = b
      <3>1. /\ SubSeq(buf, 1, Len(a \o text)) = a \o text
            /\ SubSeq(buf, Len(a \o text) + 1, Len(a \o text) + Len(b)) = b
        <4>1. a \o text \in Seq(DOMAIN Rank) /\ b \in Seq(DOMAIN Rank)
          BY <2>1, <2>4
        <4> QED
          BY ONLY <4>1, PartsOf
      <3> HIDE DEF at, buf, len
      <3> QED
        BY <2>4, <2>5, <3>1
    <2>7. at \in Nat /\ len \in Nat /\ at <= len
      BY <2>1
    <2> HIDE DEF at, buf, len
    <2>8. x \in Editor /\ x.size >= len /\ x.view = 0 /\ x.stray = c.stray
      <3>1. c \in Editor /\ c.view = 0 /\ len \in Nat
        BY <2>1, <2>7
      <3>2. /\ x \in Editor /\ x.size >= len /\ x.view = IF c.size >= len THEN c.view ELSE 0
            /\ x.stray = c.stray
        BY ONLY <3>1, ExtendIs
      <3> QED
        BY <3>1, <3>2
    <2> HIDE DEF x
    <2>9. /\ r \in Editor /\ r.view = 0 /\ r.stray = c.stray /\ r.size = x.size
          /\ r.buffer = buf /\ r.point = at /\ r.end = len
      BY <2>3, <2>5, <2>7, <2>8 DEF Editor, Text
    <2>10. Shown(r) = buf
      BY <2>9 DEF Shown
    <2>11. Kept(r)
      BY <2>5, <2>7, <2>8, <2>9, <2>10 DEF Kept
    <2>12. Left(r) = a \o text /\ Right(r) = b
      BY <2>5, <2>6, <2>9, <2>10 DEF Left, Right
    <2> QED
      BY <1>2, <2>9, <2>11, <2>12 DEF a, b
  <1> QED
    BY <1>1, <1>2

LEMMA InsertIs ==
  ASSUME lines \in Seq(Entries), NEW e, Kept(e), NEW text \in Text, NEW chance,
         NEW r, r = tinyrl_insert_text(e, text, chance)
  PROVE  /\ Kept(r) /\ r.view = 0 /\ r.stray = e.stray
         /\ Right(r) = Right(e)
         /\ \/ Left(r) = Left(e)
            \/ Left(r) = Left(e) \o text
  <1> DEFINE c == changed_line(e)
  <1>1. Kept(c) /\ c.view = 0 /\ c.stray = e.stray /\ Left(c) = Left(e) /\ Right(c) = Right(e)
    BY ChangedIs
  <1>2. r = WithText(c, text, chance)
    BY DEF tinyrl_insert_text
  <1> HIDE DEF c
  <1>3. /\ Kept(r) /\ r.view = 0 /\ r.stray = c.stray
        /\ Right(r) = Right(c)
        /\ Left(r) = IF Refused(c, c.end + Len(text), chance) THEN Left(c) ELSE Left(c) \o text
    BY <1>1, <1>2, WithTextIs
  <1> QED
    BY <1>1, <1>3

(* r is e without its text from start to stop: when the cursor comes to where that was,
   it is between what is left. *)
Cut(e, start, stop, r) ==
  /\ Kept(r) /\ r.view = 0 /\ r.stray = e.stray
  /\ r.point = PointAfter(e, start, stop)
  /\ Shown(r) = SubSeq(Shown(e), 1, start) \o SubSeq(Shown(e), stop + 2, e.end)
  /\ r.point = start => /\ Left(r) = SubSeq(Shown(e), 1, start)
                        /\ Right(r) = SubSeq(Shown(e), stop + 2, e.end)

(* Text is taken out. *)
LEMMA WithoutTextIs ==
  ASSUME lines \in Seq(Entries), NEW c, Kept(c), c.view = 0,
         NEW start \in Nat, NEW stop \in Nat, start <= stop, stop <= c.end,
         NEW r, r = WithoutText(c, start, stop)
  PROVE  Cut(c, start, stop, r)
  <1> DEFINE s   == c.buffer
             a   == SubSeq(s, 1, start)
             b   == SubSeq(s, stop + 2, c.end)
             at  == PointAfter(c, start, stop)
             len == IF c.end > stop THEN c.end - ((stop - start) + 1) ELSE start
  <1>1. /\ s \in Seq(DOMAIN Rank) /\ Shown(c) = s /\ c.end = Len(s) /\ c.end \in Nat
        /\ c.point \in Nat /\ c.point <= c.end /\ c \in Editor /\ Len(s) <= c.size /\ c.size \in Nat
    <2>1. Shown(c) = s
      BY DEF Shown
    <2>2. c \in Editor /\ Len(s) <= c.size /\ c.size \in Nat
      BY DEF Kept, Editor
    <2> QED
      BY <2>1, <2>2, SidesAre DEF Kept
  <1>2. r = [c EXCEPT !.buffer = a \o b, !.point = at, !.end = len]
    BY DEF WithoutText
  <1>3. a \in Seq(DOMAIN Rank) /\ Len(a) = start
    <2>1. start \in 0 .. Len(s)
      BY <1>1
    <2> QED
      BY <1>1, <2>1, CutAt
  <1>4. b \in Seq(DOMAIN Rank) /\ Len(b) = IF c.end > stop THEN (c.end - stop) - 1 ELSE 0
    <2>1. stop + 2 \in Int /\ c.end \in Int /\ 1 <= stop + 2 /\ c.end <= Len(s)
      BY <1>1
    <2>2. b \in Seq(DOMAIN Rank) /\ Len(b) = IF stop + 2 <= c.end THEN (c.end - (stop + 2)) + 1 ELSE 0
      BY <1>1, <2>1, PartOf
    <2>3. (IF stop + 2 <= c.end THEN (c.end - (stop + 2)) + 1 ELSE 0) = IF c.end > stop THEN (c.end - stop) - 1 ELSE 0
      BY <1>1
    <2> QED
      BY <2>2, <2>3
  <1> HIDE DEF a, b, s
  <1>5. a \o b \in Seq(DOMAIN Rank) /\ Len(a \o b) = start + Len(b)
    BY <1>3, <1>4, Both
  <1>6. len \in Nat /\ len = start + Len(b) /\ len <= c.end
    BY <1>1, <1>4
  <1>7. at \in Nat /\ at <= len
    BY <1>1 DEF PointAfter
  <1> HIDE DEF at, len
  <1>8. /\ r \in Editor /\ r.view = 0 /\ r.stray = c.stray /\ r.size = c.size
        /\ r.buffer = a \o b /\ r.point = at /\ r.end = len
    <2>1. a \o b \in Text
      BY <1>5 DEF Text
    <2> QED
      BY <1>1, <1>2, <1>6, <1>7, <2>1 DEF Editor
  <1>9. Shown(r) = a \o b
    BY <1>8 DEF Shown
  <1>10. Kept(r)
    <2>1. len = Len(Shown(r)) /\ Len(r.buffer) <= r.size
      <3>1. /\ Len(a \o b) = start + Len(b) /\ len = start + Len(b) /\ len <= c.end /\ c.end = Len(s)
            /\ Len(s) <= c.size /\ len \in Nat /\ c.end \in Nat /\ c.size \in Nat
        BY <1>1, <1>5, <1>6
      <3>2. len = Len(a \o b) /\ Len(a \o b) <= c.size
        BY ONLY <3>1
      <3> QED
        BY <1>8, <1>9, <3>2
    <2> QED
      BY <1>7, <1>8, <2>1 DEF Kept
  <1>11. ASSUME at = start PROVE Left(r) = a /\ Right(r) = b
    <2>1. SubSeq(a \o b, 1, Len(a)) = a /\ SubSeq(a \o b, Len(a) + 1, Len(a) + Len(b)) = b
      BY <1>3, <1>4, PartsOf
    <2>2. Left(r) = SubSeq(a \o b, 1, Len(a)) /\ Right(r) = SubSeq(a \o b, Len(a) + 1, Len(a) + Len(b))
      BY <1>3, <1>5, <1>8, <1>9, <1>11 DEF Left, Right
    <2> QED
      BY <2>1, <2>2
  <1> QED
    BY <1>1, <1>8, <1>9, <1>10, <1>11 DEF a, b, at, Cut

LEMMA DeleteIs ==
  ASSUME lines \in Seq(Entries), NEW e, Kept(e), NEW first \in Nat, NEW last \in Nat, first <= e.end,
         NEW r, r = tinyrl_delete_text(e, first, last)
  PROVE  Cut(e, IF first > last THEN last ELSE first, IF last > e.end THEN e.end ELSE last, r)
  <1> DEFINE start == IF first > last THEN last ELSE first
             stop  == IF last > e.end THEN e.end ELSE last
             c     == changed_line(e)
  <1>1. Kept(c) /\ c.view = 0 /\ Shown(c) = Shown(e) /\ c.point = e.point /\ c.end = e.end /\ c.stray = e.stray
    BY ChangedIs
  <1>2. r = WithoutText(c, start, stop)
    BY DEF tinyrl_delete_text
  <1>3. start \in Nat /\ stop \in Nat /\ start <= stop /\ stop <= e.end
    <2>1. e.end \in Nat
      BY SidesAre
    <2> QED
      BY <2>1
  <1> HIDE DEF start, stop, c
  <1>4. Cut(c, start, stop, r)
    <2>1. stop <= c.end
      BY <1>1, <1>3
    <2>2. Kept(c) /\ c.view = 0 /\ start \in Nat /\ stop \in Nat /\ start <= stop
      BY <1>1, <1>3
    <2> QED
      BY <1>2, <2>1, <2>2, WithoutTextIs
  <1>5. PointAfter(c, start, stop) = PointAfter(e, start, stop)
    BY <1>1 DEF PointAfter
  <1> QED
    BY <1>1, <1>4, <1>5 DEF start, stop, Cut

(* The cursor is set. *)
LEMMA PointAt ==
  ASSUME lines \in Seq(Entries), NEW e, Kept(e), NEW p \in Nat, p <= e.end,
         NEW r, r = [e EXCEPT !.point = p]
  PROVE  /\ Kept(r) /\ r.view = e.view /\ r.stray = e.stray /\ r.end = e.end /\ r.point = p
         /\ r.buffer = e.buffer /\ Shown(r) = Shown(e)
  <1>1. /\ r \in Editor /\ r.view = e.view /\ r.stray = e.stray /\ r.end = e.end /\ r.point = p
        /\ r.buffer = e.buffer /\ r.size = e.size
    BY DEF Kept, Editor
  <1>2. Shown(r) = Shown(e)
    BY <1>1 DEF Shown
  <1> QED
    BY <1>1, <1>2 DEF Kept

-----------------------------------------------------------------------------
(* What the expansion and the completion make of a line. *)

(* A key may have worked on text that is not shown. *)
Sound(e) == e \in Editor /\ (~e.stray => Kept(e))

(* Something is put in at the cursor, or nothing. *)
Fills(e, r) ==
  /\ Kept(r) /\ IsPrefix(Left(e), Left(r)) /\ Right(r) = Right(e)
  /\ r = e \/ r.view = 0

LEMMA FillsSame ==
  ASSUME lines \in Seq(Entries), NEW e, Kept(e)
  PROVE  Fills(e, e)
  <1>1. Left(e) \in Seq(DOMAIN Rank) /\ Len(Left(e)) <= Len(Left(e))
    BY SidesAre
  <1>2. IsPrefix(Left(e), Left(e))
    BY <1>1, PrefixIs
  <1> QED
    BY <1>2 DEF Fills

LEMMA PrefixAll ==
  ASSUME NEW S, NEW s \in Seq(S), NEW t \in Seq(S), NEW u \in Seq(S), IsPrefix(s, t), IsPrefix(t, u)
  PROVE  IsPrefix(s, u)
  <1>1. Len(s) \in Nat /\ Len(t) \in Nat /\ Len(u) \in Nat
    OBVIOUS
  <1>2. Len(s) <= Len(t) /\ (\A i \in 1 .. Len(s) : s[i] = t[i])
    BY PrefixIs
  <1>3. Len(t) <= Len(u) /\ (\A i \in 1 .. Len(t) : t[i] = u[i])
    BY PrefixIs
  <1>4. Len(s) <= Len(u) /\ \A i \in 1 .. Len(s) : s[i] = u[i]
    <2>1. \A i \in 1 .. Len(s) : i \in 1 .. Len(t)
      BY <1>1, <1>2
    <2> QED
      BY <1>1, <1>2, <1>3, <2>1
  <1> QED
    BY <1>4, PrefixIs

LEMMA PrefixLonger ==
  ASSUME NEW S, NEW s \in Seq(S), NEW t \in Seq(S)
  PROVE  IsPrefix(s, s \o t)
  <1>1. Len(s) \in Nat /\ Len(t) \in Nat
    OBVIOUS
  <1>2. s \o t \in Seq(S) /\ Len(s \o t) = Len(s) + Len(t) /\ \A i \in 1 .. Len(s) : (s \o t)[i] = s[i]
    BY Both
  <1>3. Len(s) <= Len(s \o t) /\ \A i \in 1 .. Len(s) : s[i] = (s \o t)[i]
    BY <1>1, <1>2
  <1> QED
    BY <1>2, <1>3, PrefixIs

LEMMA FillsAll ==
  ASSUME lines \in Seq(Entries), NEW e, Kept(e), NEW r, Fills(e, r), NEW q, Fills(r, q)
  PROVE  Fills(e, q)
  <1>1. /\ Left(e) \in Seq(DOMAIN Rank) /\ Left(r) \in Seq(DOMAIN Rank) /\ Left(q) \in Seq(DOMAIN Rank)
    BY SidesAre DEF Fills
  <1>2. IsPrefix(Left(e), Left(q))
    BY <1>1, PrefixAll DEF Fills
  <1> QED
    BY <1>2 DEF Fills

LEMMA InsertFills ==
  ASSUME lines \in Seq(Entries), NEW e, Kept(e), NEW text \in Text, NEW chance,
         NEW r, r = tinyrl_insert_text(e, text, chance)
  PROVE  Fills(e, r) /\ r.view = 0 /\ r.stray = e.stray
  <1>1. /\ Kept(r) /\ r.view = 0 /\ r.stray = e.stray /\ Right(r) = Right(e)
        /\ Left(r) = Left(e) \/ Left(r) = Left(e) \o text
    BY InsertIs
  <1>2. Left(e) \in Seq(DOMAIN Rank) /\ text \in Seq(DOMAIN Rank)
    BY SidesAre DEF Text
  <1>3. IsPrefix(Left(e), Left(e)) /\ IsPrefix(Left(e), Left(e) \o text)
    BY <1>2, FillsSame, PrefixLonger DEF Fills
  <1> QED
    BY <1>1, <1>3 DEF Fills

(* The text is replaced in the buffer, which need not be what is shown. *)
LEMMA ReplaceIs ==
  ASSUME lines \in Seq(Entries), NEW e, Kept(e), NEW text \in Text, NEW chance,
         NEW r, r = tinyrl_replace_line(e, text, chance)
  PROVE  \/ r = e
         \/ /\ Sound(r) /\ (e.stray => r.stray)
            /\ ~r.stray => r.view = 0 /\ Left(r) = text /\ Right(r) = <<>>
  <1>1. CASE Refused(e, Len(text), chance)
    BY <1>1 DEF tinyrl_replace_line
  <1>2. CASE ~Refused(e, Len(text), chance)
    <2> DEFINE x     == tinyrl_extend_line_buffer(e, Len(text))
               len   == Len(text)
               stray == e.stray \/ (e.view # 0 /\ e.size >= Len(text))
    <2>1. r = [x EXCEPT !.buffer = text, !.point = len, !.end = len, !.stray = stray]
      BY <1>2 DEF tinyrl_replace_line
    <2>2. len \in Nat /\ text \in Seq(DOMAIN Rank) /\ e \in Editor /\ stray \in BOOLEAN
      BY DEF Text, Kept, Editor
    <2>3. x \in Editor /\ x.size >= len /\ x.view = IF e.size >= len THEN e.view ELSE 0
      BY <2>2, ExtendIs
    <2> HIDE DEF x, len, stray
    <2>4. /\ r \in Editor /\ r.buffer = text /\ r.point = len /\ r.end = len /\ r.stray = stray
          /\ r.size = x.size /\ r.view = x.view
      BY <2>1, <2>2, <2>3 DEF Editor
    <2>5. ASSUME ~stray PROVE Kept(r) /\ r.view = 0 /\ Left(r) = text /\ Right(r) = <<>>
      <3>1. r.view = 0
        BY <2>3, <2>4, <2>5 DEF stray, len
      <3>2. Shown(r) = text
        BY <2>4, <3>1 DEF Shown
      <3>3. len <= len /\ Len(text) <= x.size
        BY <2>2, <2>3 DEF len
      <3>4. Kept(r)
        BY <2>4, <3>2, <3>3 DEF Kept, len
      <3>5. Left(r) = SubSeq(text, 1, Len(text)) /\ Right(r) = SubSeq(text, Len(text) + 1, Len(text))
        BY <2>4, <3>2 DEF Left, Right, len
      <3>6. SubSeq(text, 1, Len(text)) = text
        BY <2>2, SubSeqFull
      <3>7. SubSeq(text, Len(text) + 1, Len(text)) = <<>>
        BY <2>2, SubSeqEmpty DEF len
      <3> QED
        BY <3>1, <3>4, <3>5, <3>6, <3>7
    <2> QED
      BY <2>4, <2>5 DEF Sound, stray
  <1> QED
    BY <1>1, <1>2

(* A line that was entered stands in the place of a reference. *)
Put(t) == \E k \in DOMAIN lines : Holds(t, lines[k].line)

LEMMA ExpandedIs ==
  ASSUME lines \in Seq(Entries), NEW e, Kept(e), NEW chance,
         NEW r, r = ucli_shell_tinyrl_expand(e, chance)
  PROVE  \/ r = e
         \/ /\ Sound(r) /\ (e.stray => r.stray)
            /\ ~r.stray => /\ r.view = 0 /\ Right(r) = <<>>
                           /\ Put(Left(r)) /\ Bang \in ToSet(Shown(e))
  <1> DEFINE x == tinyrl_history_expand(Shown(e), chance)
  <1>1. r = IF x.expanded THEN tinyrl_replace_line(e, x.out, chance) ELSE e
    BY DEF ucli_shell_tinyrl_expand, Expanded
  <1>2. Shown(e) \in Text
    BY SidesAre
  <1>3. x.out \in Text /\ (x.expanded => Bang \in ToSet(Shown(e)) /\ Put(x.out))
    BY <1>2, ExpandIs DEF Put
  <1> HIDE DEF x
  <1>4. CASE x.expanded
    <2>1. r = tinyrl_replace_line(e, x.out, chance)
      BY <1>1, <1>4
    <2> DEFINE out == x.out
    <2> HIDE DEF out
    <2>2. \/ r = e
          \/ /\ Sound(r) /\ (e.stray => r.stray)
             /\ ~r.stray => r.view = 0 /\ Left(r) = out /\ Right(r) = <<>>
      BY <1>3, <2>1, ReplaceIs DEF out
    <2> QED
      BY <1>3, <1>4, <2>2 DEF out
  <1> QED
    BY <1>1, <1>4

-----------------------------------------------------------------------------
(* What a word is completed to. *)

LEMMA PartChars ==
  ASSUME NEW S, NEW s \in Seq(S), NEW m \in Int, NEW n \in Int, 1 <= m, n <= Len(s)
  PROVE  ToSet(SubSeq(s, m, n)) \subseteq ToSet(s)
  <1> DEFINE p == SubSeq(s, m, n)
  <1>1. /\ p \in Seq(S) /\ Len(p) = (IF m <= n THEN (n - m) + 1 ELSE 0)
        /\ \A i \in 1 .. (n - m) + 1 : p[i] = s[(m + i) - 1]
    BY PartOf
  <1> HIDE DEF p
  <1>2. ASSUME NEW i \in 1 .. Len(p) PROVE p[i] \in ToSet(s)
    <2>1. i \in 1 .. (n - m) + 1 /\ (m + i) - 1 \in 1 .. Len(s)
      <3>1. Len(s) \in Nat /\ Len(p) \in Nat /\ m <= n
        BY <1>1
      <3> QED
        BY <1>1, <3>1
    <2>2. s[(m + i) - 1] \in ToSet(s)
      BY <2>1, ElementsOf
    <2> QED
      BY <1>1, <2>1, <2>2
  <1>3. \A x \in ToSet(p) : x \in ToSet(s)
    BY <1>1, <1>2, ElementsOf
  <1> QED
    BY <1>3 DEF p

LEMMA SuffixChars ==
  ASSUME NEW s \in Text
  PROVE  ToSet(lub_string_suffix(s)) \subseteq ToSet(s)
  <1>1. s \in Seq(DOMAIN Rank) /\ Len(s) \in Nat
    BY DEF Text
  <1>2. WordOffset(s) \in 0 .. Len(s) /\ lub_string_suffix(s) = SubSeq(s, WordOffset(s) + 1, Len(s))
    BY <1>1, SuffixIs
  <1>3. ToSet(SubSeq(s, WordOffset(s) + 1, Len(s))) \subseteq ToSet(s)
    <2>1. WordOffset(s) + 1 \in Int /\ Len(s) \in Int /\ 1 <= WordOffset(s) + 1 /\ Len(s) <= Len(s)
      BY <1>1, <1>2
    <2> QED
      BY <1>1, <2>1, PartChars
  <1> QED
    BY <1>2, <1>3

(* A name that completes a line has a last word that completes the last word of it. *)
LEMMA NameExtends ==
  ASSUME NEW name \in Text, NEW line \in Text, IsPrefix(line, name),
         lub_argv_wordcount(name) = WordsWanted(line), name # <<>> => Last(name) # Space
  PROVE  IsPrefix(lub_string_suffix(line), lub_string_suffix(name))
  <1> DEFINE o == WordOffset(line)
             p == WordOffset(name)
             m == Len(line)
             n == Len(name)
  <1>1. /\ line \in Seq(DOMAIN Rank) /\ name \in Seq(DOMAIN Rank) /\ m \in Nat /\ n \in Nat
        /\ DOMAIN line = 1 .. m /\ DOMAIN name = 1 .. n
    BY DEF Text
  <1>2. m <= n /\ \A i \in 1 .. m : line[i] = name[i]
    BY <1>1, PrefixIs
  <1>3. /\ lub_string_suffix(line) \in Seq(DOMAIN Rank) /\ o \in 0 .. m
        /\ lub_string_suffix(line) = SubSeq(line, o + 1, m)
        /\ o > 0 => line[o] = Space
        /\ \A i \in o + 1 .. m : line[i] # Space
    BY <1>1, SuffixIs
  <1>4. /\ lub_string_suffix(name) \in Seq(DOMAIN Rank) /\ p \in 0 .. n
        /\ lub_string_suffix(name) = SubSeq(name, p + 1, n)
        /\ p > 0 => name[p] = Space
        /\ \A i \in p + 1 .. n : name[i] # Space
    BY <1>1, SuffixIs
  <1> HIDE DEF o, p
  <1>5. /\ Len(lub_string_suffix(line)) = m - o
        /\ \A i \in 1 .. m - o : lub_string_suffix(line)[i] = line[o + i]
    <2>1. /\ Len(SubSeq(line, o + 1, m)) = (IF o + 1 <= m THEN (m - (o + 1)) + 1 ELSE 0)
          /\ \A i \in 1 .. (m - (o + 1)) + 1 : SubSeq(line, o + 1, m)[i] = line[((o + 1) + i) - 1]
      <3>1. o + 1 \in Int /\ m \in Int /\ 1 <= o + 1 /\ m <= m
        BY <1>1, <1>3
      <3> QED
        BY <1>1, <3>1, PartOf
    <2>2. /\ (IF o + 1 <= m THEN (m - (o + 1)) + 1 ELSE 0) = m - o /\ (m - (o + 1)) + 1 = m - o
          /\ \A i \in 1 .. m - o : ((o + 1) + i) - 1 = o + i
      <3>1. m \in Nat /\ o \in 0 .. m
        BY <1>1, <1>3
      <3> HIDE DEF m
      <3> QED
        BY ONLY <3>1
    <2> HIDE DEF m
    <2> QED
      BY <1>3, <2>1, <2>2
  <1>6. /\ Len(lub_string_suffix(name)) = n - p
        /\ \A i \in 1 .. n - p : lub_string_suffix(name)[i] = name[p + i]
    <2>1. /\ Len(SubSeq(name, p + 1, n)) = (IF p + 1 <= n THEN (n - (p + 1)) + 1 ELSE 0)
          /\ \A i \in 1 .. (n - (p + 1)) + 1 : SubSeq(name, p + 1, n)[i] = name[((p + 1) + i) - 1]
      <3>1. p + 1 \in Int /\ n \in Int /\ 1 <= p + 1 /\ n <= n
        BY <1>1, <1>4
      <3> QED
        BY <1>1, <3>1, PartOf
    <2>2. /\ (IF p + 1 <= n THEN (n - (p + 1)) + 1 ELSE 0) = n - p /\ (n - (p + 1)) + 1 = n - p
          /\ \A i \in 1 .. n - p : ((p + 1) + i) - 1 = p + i
      <3>1. n \in Nat /\ p \in 0 .. n
        BY <1>1, <1>4
      <3> HIDE DEF n
      <3> QED
        BY ONLY <3>1
    <2> HIDE DEF n
    <2> QED
      BY <1>4, <2>1, <2>2
  <1>7. CASE line = <<>> \/ Last(line) = Space
    <2>1. m - o = 0
      <3>1. CASE line = <<>>
        BY <1>1, <1>3, <3>1
      <3>2. CASE line # <<>> /\ Last(line) = Space
        <4>1. m \in 1 .. m /\ line[m] = Space
          BY <1>1, <3>2 DEF Last
        <4>2. ~(m \in o + 1 .. m)
          BY <1>3, <4>1
        <4>3. m \in Nat /\ o \in 0 .. m
          BY <1>1, <1>3
        <4> HIDE DEF m
        <4> QED
          BY ONLY <4>2, <4>3
      <3> QED
        BY <1>7, <3>1, <3>2
    <2>2. n - p >= 0
      BY <1>1, <1>4
    <2>3. Len(lub_string_suffix(line)) <= Len(lub_string_suffix(name))
      BY <1>5, <1>6, <2>1, <2>2
    <2>4. \A i \in 1 .. Len(lub_string_suffix(line)) : lub_string_suffix(line)[i] = lub_string_suffix(name)[i]
      BY <1>5, <2>1
    <2> QED
      BY <1>3, <1>4, <2>3, <2>4, PrefixIs
  <1>8. CASE line # <<>> /\ Last(line) # Space
    <2>1. m \in 1 .. m /\ n \in 1 .. n /\ name # <<>> /\ name[n] # Space
      <3>1. m > 0 /\ n > 0 /\ name # <<>>
        BY <1>1, <1>2, <1>8
      <3> QED
        BY <1>1, <3>1 DEF Last
    <2>2. WordStarts(line) \subseteq WordStarts(name)
      <3> SUFFICES ASSUME NEW i \in 1 .. m, line[i] # Space, i = 1 \/ line[i - 1] = Space
                   PROVE  i \in 1 .. n /\ name[i] # Space /\ (i = 1 \/ name[i - 1] = Space)
        BY <1>1 DEF WordStarts
      <3>1. i \in 1 .. n /\ (i # 1 => i - 1 \in 1 .. m)
        BY <1>1, <1>2
      <3> QED
        BY <1>2, <3>1
    <2>3. WordStarts(line) = WordStarts(name)
      <3>1. IsFiniteSet(WordStarts(name))
        <4>1. WordStarts(name) \in SUBSET (1 .. n) /\ IsFiniteSet(1 .. n)
          BY <1>1, FS_Interval DEF WordStarts
        <4> QED
          BY <4>1, FS_Subset
      <3>2. Cardinality(WordStarts(name)) = Cardinality(WordStarts(line))
        <4>1. lub_argv_wordcount(line) \in Nat
          BY WordcountIs
        <4> QED
          BY <1>8, <4>1 DEF lub_argv_wordcount, WordsWanted
      <3> QED
        BY <2>2, <3>1, <3>2, FS_Subset
    <2>4. o <= p
      <3>1. CASE o = 0
        BY <1>4, <3>1
      <3>2. CASE o > 0
        <4>1. o \in 1 .. m /\ o \in 1 .. n
          BY <1>1, <1>2, <1>3, <3>2
        <4>2. name[o] = Space
          BY <1>2, <1>3, <3>2, <4>1
        <4>3. ~(o \in p + 1 .. n)
          BY <1>4, <4>2
        <4> QED
          BY <1>1, <1>3, <1>4, <4>1, <4>3
      <3> QED
        BY <1>3, <3>1, <3>2
    <2>5. ASSUME p > o PROVE FALSE
      <3>1. name[p] = Space /\ p \in 1 .. n
        BY <1>1, <1>3, <1>4, <2>5
      <3>2. p > m
        <4>1. ASSUME p <= m PROVE FALSE
          <5>1. p \in o + 1 .. m /\ p \in 1 .. m
            BY <1>1, <1>3, <2>5, <3>1, <4>1
          <5> QED
            BY <1>2, <1>3, <3>1, <5>1
        <4> QED
          BY <1>1, <3>1, <4>1
      <3>3. p # n
        BY <2>1, <3>1
      <3>4. p + 1 \in 1 .. n /\ p + 1 \in p + 1 .. n /\ (p + 1) - 1 = p
        <4>1. n \in Nat /\ p \in 1 .. n /\ p # n
          BY <1>1, <3>1, <3>3
        <4> HIDE DEF n
        <4> QED
          BY ONLY <4>1
      <3>5. p + 1 \in WordStarts(name)
        <4>1. name[p + 1] # Space
          BY <1>4, <3>4
        <4> QED
          BY <1>1, <3>1, <3>4, <4>1 DEF WordStarts
      <3>6. p + 1 \in 1 .. m
        BY <1>1, <2>3, <3>5 DEF WordStarts
      <3> QED
        BY <1>1, <3>1, <3>2, <3>6
    <2>6. p = o
      BY <1>3, <1>4, <2>4, <2>5
    <2>7. m - o <= n - p /\ \A i \in 1 .. m - o : i \in 1 .. n - p /\ o + i \in 1 .. m /\ o + i = p + i
      BY <1>1, <1>2, <1>3, <2>6
    <2>8. \A i \in 1 .. m - o : lub_string_suffix(line)[i] = lub_string_suffix(name)[i]
      <3> HIDE DEF m, n
      <3> QED
        BY <1>2, <1>5, <1>6, <2>7
    <2>9. /\ Len(lub_string_suffix(line)) <= Len(lub_string_suffix(name))
          /\ \A i \in 1 .. Len(lub_string_suffix(line)) : lub_string_suffix(line)[i] = lub_string_suffix(name)[i]
      <3> HIDE DEF m, n
      <3> QED
        BY <1>5, <1>6, <2>7, <2>8
    <2> QED
      BY <1>3, <1>4, <2>9, PrefixIs
  <1> QED
    BY <1>7, <1>8

(* A line of one word is the only command that its words can be. *)
LEMMA OneWord ==
  ASSUME NEW view, NEW line \in Text, WordOffset(line) = 0, ucli_view_resolve_prefix(view, line) # None
  PROVE  ucli_view_resolve_prefix(view, line) = line
  <1> DEFINE m == Len(line)
             starts == WordStarts(line)
             counts == {n \in 1 .. lub_argv_wordcount(line) : Resolves(view, line, n)}
             most   == CHOOSE n \in counts : \A k \in counts : k <= n
  <1>1. /\ line \in Seq(DOMAIN Rank) /\ m \in Nat /\ DOMAIN line = 1 .. m /\ SubSeq(line, 1, m) = line
        /\ \A i \in 1 .. m : line[i] # Space
    <2>1. line \in Seq(DOMAIN Rank) /\ m \in Nat /\ DOMAIN line = 1 .. m /\ SubSeq(line, 1, m) = line
      BY SubSeqFull DEF Text
    <2>2. \A i \in WordOffset(line) + 1 .. m : line[i] # Space
      BY <2>1, SuffixIs
    <2>3. WordOffset(line) + 1 = 1
      OBVIOUS
    <2> QED
      BY <2>1, <2>2, <2>3
  <1>2. counts # {} /\ ucli_view_resolve_prefix(view, line) = Words(line, most)
    BY DEF ucli_view_resolve_prefix
  <1>3. m > 0 /\ starts = {1} /\ lub_argv_wordcount(line) = 1
    <2>1. \A i \in starts : i \in 1 .. m /\ (i = 1 \/ line[i - 1] = Space)
      BY <1>1 DEF WordStarts
    <2>2. \A i \in starts : i = 1
      <3> SUFFICES ASSUME NEW i \in starts, i # 1 PROVE FALSE
        OBVIOUS
      <3>1. i - 1 \in 1 .. m
        BY <1>1, <2>1
      <3> QED
        BY <1>1, <2>1, <3>1
    <2>3. m > 0
      <3>1. ASSUME m = 0 PROVE FALSE
        <4>1. starts = {}
          <5>1. \A i \in starts : i \in 1 .. 0
            BY <2>1, <3>1
          <5>2. 1 .. 0 = {}
            OBVIOUS
          <5> HIDE DEF starts
          <5> QED
            BY <5>1, <5>2
        <4>2. lub_argv_wordcount(line) = 0
          BY <4>1, FS_EmptySet DEF lub_argv_wordcount
        <4>3. counts = {}
          BY <4>2
        <4> QED
          BY <1>2, <4>3
      <3> QED
        BY <1>1, <3>1
    <2>4. 1 \in starts
      BY <1>1, <2>3 DEF WordStarts
    <2>5. starts = {1}
      <3> HIDE DEF starts
      <3> QED
        BY <2>2, <2>4
    <2>6. lub_argv_wordcount(line) = 1
      BY <2>5, FS_Singleton DEF lub_argv_wordcount
    <2> QED
      BY <2>3, <2>5, <2>6
  <1>4. most = 1
    <2>1. counts = {1}
      <3>1. \A n \in counts : n = 1
        BY <1>3
      <3> HIDE DEF counts
      <3> QED
        BY <1>2, <3>1
    <2>2. \A n \in {1} : 1 <= n
      OBVIOUS
    <2> HIDE DEF counts
    <2> QED
      BY <2>1
  <1> DEFINE start(n) == CHOOSE i \in starts : Cardinality({j \in starts : j <= i}) = n
             argv == [n \in 1 .. lub_argv_wordcount(line) |-> SubSeq(line, start(n), WordEnd(line, start(n)))]
             P(f) == f = [i \in 1 .. 1 |-> IF i = 1 THEN argv[1] ELSE f[i - 1] \o <<Space>> \o argv[i]]
             up == CHOOSE f : P(f)
  <1>5. lub_argv_new(line) = argv
    BY DEF lub_argv_new
  <1>6. argv[1] = line
    <2>1. start(1) = 1
      <3>1. {j \in starts : j <= 1} = {1}
        BY <1>3
      <3>2. Cardinality({j \in starts : j <= 1}) = 1
        BY <3>1, FS_Singleton
      <3>3. \E i \in starts : Cardinality({j \in starts : j <= i}) = 1
        BY <1>3, <3>2
      <3>4. start(1) \in starts
        BY <3>3
      <3> HIDE DEF start, starts
      <3> QED
        BY <1>3, <3>4
    <2>2. WordEnd(line, 1) = m
      <3> DEFINE IsEnd(j) == /\ \A k \in 1 .. j : line[k] # Space
                             /\ j = Len(line) \/ line[j + 1] = Space
      <3>1. m \in 1 .. m /\ IsEnd(m)
        BY <1>1, <1>3
      <3>2. \A j \in 1 .. m : IsEnd(j) => j = m
        <4> SUFFICES ASSUME NEW j \in 1 .. m, line[j + 1] = Space, j # m PROVE FALSE
          OBVIOUS
        <4>1. j + 1 \in 1 .. m
          <5>1. m \in Nat
            BY <1>1
          <5> HIDE DEF m
          <5> QED
            BY <5>1
        <4> QED
          BY <1>1, <4>1
      <3>3. WordEnd(line, 1) = CHOOSE j \in 1 .. m : IsEnd(j)
        BY DEF WordEnd
      <3> HIDE DEF IsEnd, m
      <3> QED
        BY <3>1, <3>2, <3>3
    <2>3. argv[1] = SubSeq(line, start(1), WordEnd(line, start(1)))
      <3>1. 1 \in 1 .. lub_argv_wordcount(line)
        BY <1>3
      <3> HIDE DEF start
      <3> QED
        BY ONLY <3>1, Zenon
    <2> HIDE DEF start, argv
    <2> QED
      BY <1>1, <2>1, <2>2, <2>3
  <1>7. Words(line, 1) = up[1]
    BY <1>5 DEF Words
  <1> HIDE DEF argv
  <1>8. P(up)
    <2> DEFINE g == [i \in 1 .. 1 |-> argv[1]]
    <2>1. P(g)
      OBVIOUS
    <2> HIDE DEF P, g
    <2> QED
      BY <2>1
  <1>9. up[1] = argv[1]
    <2> HIDE DEF up
    <2> QED
      BY <1>8
  <1> HIDE DEF up, most
  <1> QED
    BY <1>2, <1>4, <1>6, <1>7, <1>9

(* What the end of a line can be completed to begins with it, and has no reference that
   is not in the line or in what is offered. *)
WordFits(w, line) ==
  /\ IsPrefix(lub_string_suffix(line), w)
  /\ Bang \in ToSet(w) => Bang \in ToSet(line) \/ \E s \in Offered : Bang \in ToSet(s)

LEMMA OfferedAre ==
  /\ \A s \in ToSet(ParamWord) : s \in Offered
  /\ \A v \in Views : \A s \in v.local \cup v.global : s \in Offered
  <1> DEFINE params == ToSet(ParamWord)
  <1> HIDE DEF params
  <1>1. Offered = params \cup UNION {v.local \cup v.global : v \in Views}
    BY DEF Offered, params
  <1>2. ASSUME NEW v \in Views, NEW s \in v.local \cup v.global PROVE s \in Offered
    <2>1. v.local \cup v.global \in {u.local \cup u.global : u \in Views}
      OBVIOUS
    <2> DEFINE all == {u.local \cup u.global : u \in Views}
               own == v.local \cup v.global
    <2> HIDE DEF all, own
    <2>2. own \in all /\ s \in own /\ Offered = params \cup UNION all
      BY <1>1, <2>1 DEF all, own
    <2> QED
      BY ONLY <2>2
  <1> QED
    BY <1>1, <1>2 DEF params

LEMMA SuffixFits ==
  ASSUME NEW line \in Text
  PROVE  WordFits(lub_string_suffix(line), line)
  <1>1. lub_string_suffix(line) \in Seq(DOMAIN Rank)
    BY SuffixText DEF Text
  <1>2. IsPrefix(lub_string_suffix(line), lub_string_suffix(line))
    <2>1. Len(lub_string_suffix(line)) <= Len(lub_string_suffix(line))
      BY <1>1
    <2> QED
      BY <1>1, <2>1, PrefixIs
  <1> QED
    BY <1>2, SuffixChars DEF WordFits

LEMMA WordsFit ==
  ASSUME NEW v \in Views, NEW line \in Text, NEW w \in ToSet(ucli_shell_word_generator(v, line))
  PROVE  WordFits(w, line)
  <1> DEFINE cmd  == ucli_shell_resolve_command(v, line)
             cmds == Completions(v, line)
             L    == Completing(v.local, line)
             G    == Completing(v.global, line)
  <1>1. ucli_shell_word_generator(v, line) = WordsOf(cmd, cmds, line)
    BY DEF ucli_shell_word_generator
  <1>2. cmds \in Seq(Item(L, G)) /\ L \subseteq Text /\ G \subseteq Text
    BY CompletionsAre
  <1>3. CASE cmd # None /\ cmds = <<>>
    <2>1. w \in ToSet(ucli_shell_param_generator(cmd, line))
      BY <1>1, <1>3 DEF WordsOf
    <2>2. \A s : ToSet(<<s>>) = {s}
      BY DEF ToSet
    <2> DEFINE index == ParamIndex(cmd, line)
    <2>3. CASE index = None
      <3>1. w = lub_string_suffix(cmd)
        BY <2>1, <2>2, <2>3 DEF ucli_shell_param_generator
      <3>2. WordOffset(line) = 0
        <4> DEFINE entered == lub_argv_wordcount(line) - lub_argv_wordcount(cmd)
                   offset == WordOffset(line)
        <4>1. cmd \in Text
          BY <1>3, CommandResolves, EditorAssumption
        <4>2. entered \in Int /\ entered - 1 \in Int
          BY <4>1, WordcountIs
        <4> HIDE DEF entered, cmd, index
        <4>3. index = IF entered = 0 /\ ~(offset > 0 /\ line[offset] = Space) THEN None
                      ELSE IF entered # 0 /\ offset < Len(line) THEN entered - 1
                      ELSE entered
          BY DEF index, ParamIndex, entered
        <4>4. ~(offset > 0 /\ line[offset] = Space)
          BY <2>3, <4>2, <4>3, EditorAssumption
        <4>5. offset \in 0 .. Len(line) /\ (offset > 0 => line[offset] = Space)
          BY SuffixIs DEF Text
        <4> QED
          BY <4>4, <4>5
      <3>3. cmd = line
        <4>1. cmd \in {ucli_view_resolve_prefix(v.local, line), ucli_view_resolve_prefix(v.global, line)}
          BY <1>3 DEF ucli_shell_resolve_command, ucli_command_choose_longest, ucli_view_resolve_command, Acting
        <4> HIDE DEF cmd
        <4> QED
          BY <1>3, <3>2, <4>1, OneWord
      <3> QED
        BY <3>1, <3>3, SuffixFits
    <2>4. CASE index # None /\ index = 0
      <3>1. w \in ToSet(ucli_ptype_word_generator(lub_string_suffix(line)))
        BY <2>1, <2>4 DEF ucli_shell_param_generator
      <3>2. w \in ToSet(ParamWord) /\ IsPrefix(lub_string_suffix(line), w)
        BY <3>1, SuffixText, ParamWords
      <3> QED
        BY <3>2, OfferedAre DEF WordFits
    <2>5. CASE index # None /\ index # 0
      <3>1. w = lub_string_suffix(line)
        BY <2>1, <2>2, <2>5 DEF ucli_shell_param_generator
      <3> QED
        BY <3>1, SuffixFits
    <2> QED
      BY <2>3, <2>4, <2>5
  <1>4. CASE ~(cmd # None /\ cmds = <<>>)
    <2>1. ucli_shell_word_generator(v, line) = [n \in DOMAIN cmds |-> lub_string_suffix(cmds[n].result)]
      BY <1>1, <1>4 DEF WordsOf
    <2>2. PICK n \in DOMAIN cmds : w = lub_string_suffix(cmds[n].result)
      BY <2>1 DEF ToSet
    <2> DEFINE name == cmds[n].result
    <2>3. name \in L \cup G
      <3>1. cmds[n] \in Item(L, G)
        BY <1>2, ElementsOf
      <3> QED
        BY <3>1 DEF Item
    <2> HIDE DEF name
    <2>4. /\ name \in Text /\ name \in v.local \cup v.global
          /\ lub_argv_wordcount(name) = WordsWanted(line) /\ IsPrefix(line, name)
      BY <1>2, <2>3 DEF Completing
    <2>5. name # <<>> => Last(name) # Space
      BY <2>4, EditorAssumption
    <2>6. w = lub_string_suffix(name)
      BY <2>2 DEF name
    <2>7. IsPrefix(lub_string_suffix(line), w)
      BY <2>4, <2>5, <2>6, NameExtends
    <2>8. name \in Offered /\ ToSet(w) \subseteq ToSet(name)
      BY <2>4, <2>6, SuffixChars, OfferedAre
    <2> QED
      BY <2>7, <2>8 DEF WordFits
  <1> QED
    BY <1>3, <1>4

LEMMA CharsOfBoth ==
  ASSUME NEW S, NEW s \in Seq(S), NEW t \in Seq(S)
  PROVE  ToSet(s \o t) = ToSet(s) \cup ToSet(t)
  <1> DEFINE u == s \o t
  <1>1. /\ u \in Seq(S) /\ Len(u) = Len(s) + Len(t) /\ Len(s) \in Nat /\ Len(t) \in Nat
        /\ \A i \in 1 .. Len(s) : u[i] = s[i]
        /\ \A i \in 1 .. Len(t) : u[Len(s) + i] = t[i]
    BY Both
  <1> HIDE DEF u
  <1>2. ASSUME NEW x \in ToSet(u) PROVE x \in ToSet(s) \cup ToSet(t)
    <2>1. PICK i \in 1 .. Len(u) : x = u[i]
      BY <1>1, ElementsOf
    <2>2. CASE i <= Len(s)
      <3>1. i \in 1 .. Len(s)
        BY <2>2
      <3>2. u[i] = s[i] /\ s[i] \in ToSet(s)
        BY <1>1, <3>1, ElementsOf
      <3> QED
        BY <2>1, <3>2
    <2>3. CASE i > Len(s)
      <3>1. i - Len(s) \in 1 .. Len(t) /\ Len(s) + (i - Len(s)) = i
        BY <1>1, <2>3
      <3>2. u[Len(s) + (i - Len(s))] = t[i - Len(s)] /\ t[i - Len(s)] \in ToSet(t)
        BY <1>1, <3>1, ElementsOf
      <3> QED
        BY <2>1, <3>1, <3>2
    <2> QED
      BY <1>1, <2>2, <2>3
  <1>3. ASSUME NEW x \in ToSet(s) PROVE x \in ToSet(u)
    <2>1. PICK i \in 1 .. Len(s) : x = s[i]
      BY ElementsOf
    <2>2. i \in 1 .. Len(u) /\ u[i] = s[i]
      BY <1>1
    <2> QED
      BY <1>1, <2>1, <2>2, ElementsOf
  <1>4. ASSUME NEW x \in ToSet(t) PROVE x \in ToSet(u)
    <2>1. PICK i \in 1 .. Len(t) : x = t[i]
      BY ElementsOf
    <2>2. Len(s) + i \in 1 .. Len(u) /\ u[Len(s) + i] = t[i]
      BY <1>1
    <2> QED
      BY <1>1, <2>1, <2>2, ElementsOf
  <1> QED
    BY <1>2, <1>3, <1>4 DEF u

(* A text that begins with another is that and something more. *)
LEMMA PrefixRest ==
  ASSUME NEW S, NEW s \in Seq(S), NEW t \in Seq(S), IsPrefix(s, t)
  PROVE  \E u \in Seq(S) : t = s \o u
  <1>1. Len(s) \in Nat /\ Len(t) \in Nat /\ Len(s) <= Len(t) /\ SubSeq(s, 1, Len(s)) = SubSeq(t, 1, Len(s))
        /\ SubSeq(s, 1, Len(s)) = s
    BY SubSeqFull DEF IsPrefix
  <1>2. Len(s) \in 0 .. Len(t)
    BY <1>1
  <1>3. SubSeq(t, Len(s) + 1, Len(t)) \in Seq(S) /\ SubSeq(t, 1, Len(s)) \o SubSeq(t, Len(s) + 1, Len(t)) = t
    BY <1>2, CutAt
  <1> QED
    BY <1>1, <1>3

(* What all matches begin with fits where each of them does. *)
LEMMA CommonFits ==
  ASSUME NEW line \in Text, NEW matches \in Seq(Text), matches # <<>>,
         \A w \in ToSet(matches) : WordFits(w, line)
  PROVE  /\ LongestCommonPrefix(ToSet(matches)) \in Text
         /\ WordFits(LongestCommonPrefix(ToSet(matches)), line)
  <1> DEFINE T == ToSet(matches)
             c == LongestCommonPrefix(T)
             s == lub_string_suffix(line)
  <1>1. T \subseteq Seq(DOMAIN Rank) /\ T # {}
    <2>1. Len(matches) \in Nat /\ Len(matches) # 0
      BY ElementsOf
    <2>2. 1 \in 1 .. Len(matches)
      BY <2>1
    <2> QED
      BY <2>2, ElementsOf DEF Text
  <1>2. s \in Seq(DOMAIN Rank) /\ \A w \in T : IsPrefix(s, w)
    BY SuffixText DEF Text, WordFits
  <1>3. PICK w \in T : TRUE
    BY <1>1
  <1>4. w \in Seq(DOMAIN Rank) /\ WordFits(w, line)
    BY <1>1, <1>3
  <1> HIDE DEF T, s
  <1>5. c \in Seq(DOMAIN Rank) /\ IsPrefix(c, w) /\ Len(s) <= Len(c)
    BY <1>1, <1>2, <1>3, CommonIs
  <1> HIDE DEF c
  <1>6. IsPrefix(s, c)
    <2>1. Len(c) \in Nat /\ Len(s) \in Nat /\ Len(w) \in Nat
      BY <1>2, <1>4, <1>5
    <2>2. \A i \in 1 .. Len(s) : s[i] = w[i]
      BY <1>2, <1>3, <1>4, PrefixIs
    <2>3. \A i \in 1 .. Len(c) : c[i] = w[i]
      BY <1>4, <1>5, PrefixIs
    <2>4. \A i \in 1 .. Len(s) : i \in 1 .. Len(c)
      BY <1>5, <2>1
    <2>5. \A i \in 1 .. Len(s) : s[i] = c[i]
      BY <2>2, <2>3, <2>4
    <2> QED
      BY <1>2, <1>5, <2>5, PrefixIs
  <1>7. ToSet(c) \subseteq ToSet(w)
    <2>1. PICK u \in Seq(DOMAIN Rank) : w = c \o u
      BY <1>4, <1>5, PrefixRest
    <2> QED
      BY <1>5, <2>1, CharsOfBoth
  <1>8. WordFits(c, line)
    BY <1>4, <1>6, <1>7 DEF WordFits, s
  <1> QED
    BY <1>5, <1>8 DEF Text, T, c

Offers == \E s \in Offered : Bang \in ToSet(s)

(* There is no reference in a line that was neither in it before nor is offered. *)
Fresh(e, r) == Bang \in ToSet(Shown(r)) => Bang \in ToSet(Shown(e)) \/ Offers

(* The line has grown, or it has been replaced by one that was expanded. *)
Became(e, r) ==
  \/ Fills(e, r) /\ Fresh(e, r)
  \/ /\ Kept(r) /\ r.view = 0 /\ Right(r) = <<>>
     /\ Put(Left(r)) /\ (Bang \in ToSet(Shown(e)) \/ Offers)

Outcome(e, r) == Sound(r) /\ (e.stray => r.stray) /\ (~r.stray => Became(e, r))

LEMMA PutLonger ==
  ASSUME lines \in Seq(Entries), NEW s \in Seq(DOMAIN Rank), NEW t \in Seq(DOMAIN Rank), IsPrefix(s, t), Put(s)
  PROVE  Put(t)
  <1>1. PICK k \in DOMAIN lines : Holds(s, lines[k].line)
    BY DEF Put
  <1>2. lines[k].line \in Seq(DOMAIN Rank)
    BY EntryText
  <1>3. PICK u \in Seq(DOMAIN Rank) : t = s \o u
    BY PrefixRest
  <1>4. Holds(s \o u, lines[k].line)
    BY <1>1, <1>2, HoldsLonger
  <1> QED
    BY <1>3, <1>4 DEF Put

LEMMA OutcomeAll ==
  ASSUME lines \in Seq(Entries), NEW e, Kept(e), NEW r, Kept(r), Outcome(e, r), NEW q, Outcome(r, q)
  PROVE  Outcome(e, q)
  <1> SUFFICES ASSUME ~q.stray PROVE Became(e, q)
    BY DEF Outcome
  <1>1. Became(e, r) /\ Became(r, q) /\ Kept(q)
    BY DEF Outcome, Sound
  <1>2. CASE Fills(r, q) /\ Fresh(r, q)
    <2>1. CASE Fills(e, r) /\ Fresh(e, r)
      <3>1. Fills(e, q)
        BY <1>2, <2>1, FillsAll
      <3>2. Fresh(e, q)
        BY <1>2, <2>1 DEF Fresh
      <3> QED
        BY <3>1, <3>2 DEF Became
    <2>2. CASE /\ Kept(r) /\ r.view = 0 /\ Right(r) = <<>>
               /\ Put(Left(r)) /\ (Bang \in ToSet(Shown(e)) \/ Offers)
      <3>1. Right(q) = <<>> /\ q.view = 0
        BY <1>2, <2>2 DEF Fills
      <3>2. Left(r) \in Seq(DOMAIN Rank) /\ Left(q) \in Seq(DOMAIN Rank)
        BY <1>1, SidesAre
      <3>3. Put(Left(q))
        BY <1>2, <2>2, <3>2, PutLonger DEF Fills
      <3> QED
        BY <1>1, <2>2, <3>1, <3>3 DEF Became
    <2> QED
      BY <1>1, <2>1, <2>2 DEF Became
  <1>3. CASE /\ Kept(q) /\ q.view = 0 /\ Right(q) = <<>>
             /\ Put(Left(q)) /\ (Bang \in ToSet(Shown(r)) \/ Offers)
    <2>1. Bang \in ToSet(Shown(e)) \/ Offers
      BY <1>1, <1>3 DEF Became, Fresh
    <2> QED
      BY <1>3, <2>1 DEF Became
  <1> QED
    BY <1>1, <1>2, <1>3 DEF Became

(* Where something is put in, there are no other characters than before, but for its own. *)
LEMMA FreshWith ==
  ASSUME lines \in Seq(Entries), NEW e, Kept(e), NEW r, Kept(r), Right(r) = Right(e),
         Bang \in ToSet(Left(r)) => Bang \in ToSet(Left(e)) \/ Offers
  PROVE  Fresh(e, r)
  <1>1. /\ Left(e) \in Seq(DOMAIN Rank) /\ Right(e) \in Seq(DOMAIN Rank) /\ Left(e) \o Right(e) = Shown(e)
    BY SidesAre
  <1>2. /\ Left(r) \in Seq(DOMAIN Rank) /\ Right(r) \in Seq(DOMAIN Rank) /\ Left(r) \o Right(r) = Shown(r)
    BY SidesAre
  <1>3. ToSet(Shown(e)) = ToSet(Left(e)) \cup ToSet(Right(e))
    <2>1. ToSet(Left(e) \o Right(e)) = ToSet(Left(e)) \cup ToSet(Right(e))
      <3>1. Left(e) \in Seq(DOMAIN Rank) /\ Right(e) \in Seq(DOMAIN Rank)
        BY <1>1
      <3> QED
        BY ONLY <3>1, CharsOfBoth
    <2> QED
      BY <1>1, <2>1
  <1>4. ToSet(Shown(r)) = ToSet(Left(r)) \cup ToSet(Right(r))
    <2>1. ToSet(Left(r) \o Right(r)) = ToSet(Left(r)) \cup ToSet(Right(r))
      <3>1. Left(r) \in Seq(DOMAIN Rank) /\ Right(r) \in Seq(DOMAIN Rank)
        BY <1>2
      <3> QED
        BY ONLY <3>1, CharsOfBoth
    <2> QED
      BY <1>2, <2>1
  <1> QED
    BY <1>3, <1>4 DEF Fresh

LEMMA PartOfPart ==
  ASSUME NEW S, NEW s \in Seq(S), NEW p \in 0 .. Len(s), NEW q \in 0 .. p
  PROVE  SubSeq(SubSeq(s, 1, p), 1, q) = SubSeq(s, 1, q)
  <1> DEFINE u == SubSeq(s, 1, p)
             a == SubSeq(u, 1, q)
             b == SubSeq(s, 1, q)
  <1>1. Len(s) \in Nat /\ p \in Nat /\ q \in Nat /\ q \in 0 .. Len(s) /\ p <= Len(s) /\ q <= p
    OBVIOUS
  <1>2. u \in Seq(S) /\ Len(u) = p /\ \A i \in 1 .. p : u[i] = s[i]
    BY <1>1, PartOf
  <1> HIDE DEF u
  <1>3. a \in Seq(S) /\ Len(a) = q /\ \A i \in 1 .. q : a[i] = u[i]
    BY <1>1, <1>2, PartOf
  <1>4. b \in Seq(S) /\ Len(b) = q /\ \A i \in 1 .. q : b[i] = s[i]
    BY <1>1, PartOf
  <1> HIDE DEF a, b
  <1>5. \A i \in 1 .. q : a[i] = b[i]
    BY <1>1, <1>2, <1>3, <1>4
  <1>6. a = b
    BY <1>3, <1>4, <1>5, SameSeq
  <1> QED
    BY <1>6 DEF a, b, u

LEMMA WordStartIs ==
  ASSUME lines \in Seq(Entries), NEW e, Kept(e)
  PROVE  /\ WordStart(e) \in 0 .. e.point /\ WordStart(e) = WordOffset(Left(e))
         /\ SubSeq(Left(e), 1, WordStart(e)) \in Seq(DOMAIN Rank)
         /\ lub_string_suffix(Left(e)) \in Seq(DOMAIN Rank)
         /\ SubSeq(Left(e), 1, WordStart(e)) \o lub_string_suffix(Left(e)) = Left(e)
         /\ SubSeq(Left(e), 1, WordStart(e)) = SubSeq(Shown(e), 1, WordStart(e))
  <1> DEFINE l == Left(e)
             p == WordOffset(l)
  <1>1. l \in Seq(DOMAIN Rank) /\ Len(l) = e.point /\ Shown(e) \in Seq(DOMAIN Rank) /\ e.point \in 0 .. Len(Shown(e))
    BY SidesAre
  <1>2. WordStart(e) = p /\ l = SubSeq(Shown(e), 1, e.point)
    BY DEF WordStart, Left
  <1> HIDE DEF l
  <1>3. p \in 0 .. Len(l) /\ lub_string_suffix(l) = SubSeq(l, p + 1, Len(l)) /\ lub_string_suffix(l) \in Seq(DOMAIN Rank)
    BY <1>1, SuffixIs
  <1> HIDE DEF p
  <1>4. SubSeq(l, 1, p) \in Seq(DOMAIN Rank) /\ SubSeq(l, 1, p) \o SubSeq(l, p + 1, Len(l)) = l
    BY <1>1, <1>3, CutAt
  <1>5. SubSeq(l, 1, p) = SubSeq(Shown(e), 1, p)
    <2> DEFINE s == Shown(e)
               n == e.point
    <2>1. s \in Seq(DOMAIN Rank) /\ n \in 0 .. Len(s) /\ p \in 0 .. n
      BY <1>1, <1>3
    <2> HIDE DEF s, n
    <2>2. SubSeq(SubSeq(s, 1, n), 1, p) = SubSeq(s, 1, p)
      BY <2>1, PartOfPart
    <2> QED
      BY <1>2, <2>2 DEF s, n
  <1> QED
    BY <1>1, <1>2, <1>3, <1>4, <1>5 DEF l, p

(* The word at the cursor is taken out, up to the cursor. *)
LEMMA WithoutWordIs ==
  ASSUME lines \in Seq(Entries), NEW e, Kept(e), NEW d, d = WithoutWord(e, WordStart(e))
  PROVE  /\ Kept(d) /\ d.view = 0
         /\ ~d.stray => Left(d) = SubSeq(Left(e), 1, WordStart(e)) /\ Right(d) = Right(e)
  <1> DEFINE start == WordStart(e)
             last  == LastToDelete(e)
             stop  == IF last > e.end THEN e.end ELSE last
             from  == IF start > last THEN last ELSE start
             x     == tinyrl_delete_text(e, start, last)
             lost  == start = e.point /\ e.point # e.end
  <1>1. /\ start \in Nat /\ start <= e.point /\ e.point \in Nat /\ e.end \in Nat /\ e.point <= e.end
        /\ e.end = Len(Shown(e)) /\ Shown(e) \in Seq(DOMAIN Rank)
    BY WordStartIs, SidesAre DEF Kept
  <1>2. last \in Nat
    BY <1>1, EditorAssumption DEF LastToDelete
  <1>3. d = [x EXCEPT !.stray = lost]
    BY DEF WithoutWord
  <1> HIDE DEF x
  <1>4. /\ Kept(x) /\ x.view = 0
        /\ x.point = PointAfter(e, from, stop)
        /\ x.point = from => Left(x) = SubSeq(Shown(e), 1, from) /\ Right(x) = SubSeq(Shown(e), stop + 2, e.end)
    <2> HIDE DEF start, last
    <2>1. start <= e.end
      BY <1>1
    <2>2. Cut(e, from, stop, x)
      BY <1>1, <1>2, <2>1, DeleteIs DEF x
    <2> QED
      BY <2>2 DEF Cut
  <1>5. /\ d \in Editor /\ d.view = x.view /\ d.buffer = x.buffer /\ d.point = x.point /\ d.end = x.end
        /\ d.size = x.size /\ d.stray = lost
    <2>1. x \in Editor /\ lost \in BOOLEAN
      BY <1>4 DEF Kept
    <2> HIDE DEF lost
    <2> QED
      BY <1>3, <2>1 DEF Editor
  <1>6. Shown(d) = Shown(x)
    BY <1>5 DEF Shown
  <1>7. Kept(d) /\ Left(d) = Left(x) /\ Right(d) = Right(x)
    BY <1>4, <1>5, <1>6 DEF Kept, Left, Right
  <1>8. ASSUME ~lost PROVE Left(x) = SubSeq(Shown(e), 1, start) /\ Right(x) = Right(e)
    <2>1. CASE e.point = e.end
      <3>1. last = e.end /\ stop = e.end /\ from = start
        BY <1>1, <2>1 DEF LastToDelete
      <3>2. PointAfter(e, from, stop) = start
        <4> HIDE DEF start, stop, from
        <4> QED
          BY <1>1, <2>1, <3>1 DEF PointAfter
      <3>3. Left(x) = SubSeq(Shown(e), 1, start) /\ Right(x) = SubSeq(Shown(e), e.end + 2, e.end)
        <4> HIDE DEF start, stop, from
        <4> QED
          BY <1>4, <3>1, <3>2
      <3>4. SubSeq(Shown(e), e.end + 2, e.end) = <<>>
        <4>1. e.end + 2 \in Int /\ e.end \in Int /\ e.end < e.end + 2
          BY <1>1
        <4> QED
          BY <4>1, SubSeqEmpty
      <3>5. Right(e) = <<>>
        <4>1. e.point + 1 \in Int /\ Len(Shown(e)) \in Int /\ Len(Shown(e)) < e.point + 1
          BY <1>1, <2>1
        <4> QED
          BY <4>1, SubSeqEmpty DEF Right
      <3> QED
        BY <3>3, <3>4, <3>5
    <2>2. CASE e.point # e.end
      <3>1. start < e.point
        BY <1>1, <1>8, <2>2
      <3>2. last = e.point - 1 /\ stop = e.point - 1 /\ from = start
        <4> HIDE DEF start
        <4> QED
          BY <1>1, <2>2, <3>1 DEF LastToDelete
      <3>3. PointAfter(e, from, stop) = start
        <4> HIDE DEF start, stop, from
        <4>1. ~(e.point < start) /\ e.point > e.point - 1 /\ e.point - (((e.point - 1) - start) + 1) = start
          BY <1>1, <3>1
        <4> QED
          BY <3>2, <4>1 DEF PointAfter
      <3>4. Left(x) = SubSeq(Shown(e), 1, start) /\ Right(x) = SubSeq(Shown(e), (e.point - 1) + 2, e.end)
        <4> HIDE DEF start, stop, from
        <4> QED
          BY <1>4, <3>2, <3>3
      <3>5. (e.point - 1) + 2 = e.point + 1
        BY <1>1
      <3> QED
        BY <1>1, <3>4, <3>5 DEF Right
    <2> QED
      BY <2>1, <2>2
  <1>9. SubSeq(Left(e), 1, start) = SubSeq(Shown(e), 1, start)
    BY WordStartIs
  <1> HIDE DEF lost
  <1> QED
    BY <1>4, <1>5, <1>7, <1>8, <1>9

(* The word at the cursor is completed to the text that all matches begin with. *)
LEMMA CompletedIs ==
  ASSUME lines \in Seq(Entries), NEW e, Kept(e), NEW matches \in Seq(Text), NEW chance,
         matches # <<>> => \A w \in ToSet(matches) : WordFits(w, Left(e)),
         NEW d, d = CompletedTo(e, matches, chance)
  PROVE  Kept(d.e) /\ (~e.stray => Outcome(e, d.e))
  <1> DEFINE common == LongestCommonPrefix(ToSet(matches))
             start  == WordStart(e)
             x      == WithoutWord(e, start)
             w      == WithCommon(x, common, matches, chance)
  <1>1. Outcome(e, e)
    <2>1. Fresh(e, e) /\ Fills(e, e)
      BY FillsSame DEF Fresh
    <2> QED
      BY <2>1 DEF Outcome, Sound, Became, Kept
  <1>2. d.e = e \/ (matches # <<>> /\ d = w)
    <2>1. d = Completed(e, start, common, matches, chance)
      BY DEF CompletedTo
    <2> HIDE DEF start, common
    <2>2. CASE matches = <<>>
      <3> HIDE DEF w
      <3>1. d = [e |-> e, status |-> "NO_MATCH"]
        BY ONLY <2>1, <2>2, Zenon DEF Completed
      <3>2. d.e = e
        BY ONLY <3>1
      <3> QED
        BY <3>2
    <2>3. CASE matches # <<>> /\ common # SubSeq(Shown(e), start + 1, Min({start + Len(common), Len(Shown(e))}))
      BY ONLY <2>1, <2>3 DEF Completed
    <2>4. CASE matches # <<>> /\ common = SubSeq(Shown(e), start + 1, Min({start + Len(common), Len(Shown(e))}))
      <3> HIDE DEF w
      <3>1. \E status : d = [e |-> e, status |-> status]
        BY ONLY <2>1, <2>4, Zenon DEF Completed
      <3>2. d.e = e
        BY ONLY <3>1
      <3> QED
        BY <3>2
    <2> QED
      BY <2>2, <2>3, <2>4
  <1>3. ASSUME matches # <<>>, d = w PROVE Kept(d.e) /\ (~e.stray => Outcome(e, d.e))
    <2>1. Left(e) \in Text /\ Left(e) \in Seq(DOMAIN Rank)
      BY SidesAre
    <2>2. common \in Text /\ WordFits(common, Left(e))
      BY <1>3, <2>1, CommonFits
    <2>3. /\ Kept(x) /\ x.view = 0
          /\ ~x.stray => Left(x) = SubSeq(Left(e), 1, start) /\ Right(x) = Right(e)
      BY WithoutWordIs
    <2> HIDE DEF common, x
    <2>4. CASE Refused(x, x.end + Len(common), chance)
      <3> DEFINE y == [x EXCEPT !.stray = TRUE]
      <3>1. d.e = y
        BY <1>3, <2>4 DEF WithCommon
      <3>2. /\ y \in Editor /\ y.view = x.view /\ y.buffer = x.buffer /\ y.point = x.point /\ y.end = x.end
            /\ y.size = x.size /\ y.stray = TRUE
        <4>1. x \in Editor
          BY <2>3 DEF Kept
        <4> QED
          BY <4>1 DEF Editor
      <3> HIDE DEF y
      <3>3. Kept(y)
        BY <2>3, <3>2 DEF Kept, Shown
      <3> QED
        BY <3>1, <3>2, <3>3 DEF Outcome, Sound
    <2>5. CASE ~Refused(x, x.end + Len(common), chance)
      <3> DEFINE y == WithText(x, common, chance)
      <3>1. d.e = y
        BY <1>3, <2>5 DEF WithCommon
      <3>2. /\ Kept(y) /\ y.view = 0 /\ y.stray = x.stray
            /\ Right(y) = Right(x) /\ Left(y) = Left(x) \o common
        <4>1. /\ Kept(y) /\ y.view = 0 /\ y.stray = x.stray /\ Right(y) = Right(x)
              /\ Left(y) = IF Refused(x, x.end + Len(common), chance) THEN Left(x) ELSE Left(x) \o common
          BY <2>2, <2>3, WithTextIs
        <4> QED
          BY <2>5, <4>1
      <3> HIDE DEF y
      <3>3. ASSUME ~y.stray PROVE Fills(e, y) /\ Fresh(e, y)
        <4> DEFINE a == SubSeq(Left(e), 1, start)
                   s == lub_string_suffix(Left(e))
        <4>1. Left(y) = a \o common /\ Right(y) = Right(e)
          BY <2>3, <3>2, <3>3
        <4>2. a \in Seq(DOMAIN Rank) /\ s \in Seq(DOMAIN Rank) /\ a \o s = Left(e)
          BY WordStartIs
        <4>3. common \in Seq(DOMAIN Rank) /\ IsPrefix(s, common)
          BY <2>2 DEF Text, WordFits
        <4> HIDE DEF a, s
        <4>9. s \in Seq(DOMAIN Rank)
          BY <4>2
        <4>10. a \in Seq(DOMAIN Rank)
          BY <4>2
        <4>4. PICK u \in Seq(DOMAIN Rank) : common = s \o u
          BY ONLY <4>3, <4>9, PrefixRest
        <4>5. (a \o s) \o u = a \o (s \o u)
          BY ONLY <4>9, <4>10, u \in Seq(DOMAIN Rank), ConcatAssociative, SMTT(30)
        <4>6. Left(y) = Left(e) \o u
          BY <4>1, <4>2, <4>4, <4>5
        <4>7. IsPrefix(Left(e), Left(y))
          BY <2>1, <4>6, PrefixLonger
        <4>8. ASSUME Bang \in ToSet(Left(y)) PROVE Bang \in ToSet(Left(e)) \/ Offers
          <5>1. ToSet(a \o common) = ToSet(a) \cup ToSet(common)
            BY <4>2, <4>3, CharsOfBoth
          <5>2. ToSet(a \o s) = ToSet(a) \cup ToSet(s)
            <6>1. a \in Seq(DOMAIN Rank) /\ s \in Seq(DOMAIN Rank)
              BY <4>2
            <6> QED
              BY ONLY <6>1, CharsOfBoth
          <5>3. Bang \in ToSet(a) \/ Bang \in ToSet(common)
            BY <4>1, <4>8, <5>1
          <5> QED
            BY <2>2, <4>2, <5>2, <5>3 DEF WordFits, Offers
        <4>11. Fresh(e, y)
          BY <3>2, <4>1, <4>8, FreshWith
        <4> QED
          BY <3>2, <4>1, <4>7, <4>11 DEF Fills
      <3>4. Sound(y)
        BY <3>2 DEF Sound, Kept
      <3> QED
        BY <3>1, <3>2, <3>3, <3>4 DEF Outcome, Became
    <2> QED
      BY <2>4, <2>5
  <1> QED
    BY <1>1, <1>2, <1>3

LEMMA DoCompleteIs ==
  ASSUME lines \in Seq(Entries), views \in Views, NEW e, Kept(e), ~e.stray, NEW chance,
         NEW d, d = tinyrl_do_complete(e, chance)
  PROVE  Kept(d.e) /\ Outcome(e, d.e)
  <1> DEFINE matches == ucli_shell_word_generator(views, Left(e))
  <1>1. d = CompletedTo(e, matches, chance)
    BY DEF tinyrl_do_complete, Left
  <1>2. Left(e) \in Text
    BY SidesAre
  <1>3. matches \in Seq(Text)
    BY <1>2, WordsAreTexts
  <1>4. \A w \in ToSet(matches) : WordFits(w, Left(e))
    BY <1>2, WordsFit
  <1> HIDE DEF matches
  <1>5. Kept(d.e) /\ (~e.stray => Outcome(e, d.e))
    BY <1>1, <1>3, <1>4, CompletedIs
  <1> QED
    BY <1>5

(* The keys that complete expand the line first, and leave it when what came of that is
   not what is shown. *)
LEMMA CompleteIs ==
  ASSUME lines \in Seq(Entries), views \in Views, NEW e, Kept(e), NEW chance,
         NEW d, d = ucli_shell_tinyrl_complete(e, chance)
  PROVE  Outcome(e, d.e) /\ (d.status # "NO_MATCH" => Kept(d.e))
  <1> DEFINE x == ucli_shell_tinyrl_expand(e, chance)
  <1>1. d = IF x.stray THEN [e |-> x, status |-> "NO_MATCH"] ELSE tinyrl_do_complete(x, chance)
    BY DEF ucli_shell_tinyrl_complete, CompletedIfShown
  <1>2. \/ x = e
        \/ /\ Sound(x) /\ (e.stray => x.stray)
           /\ ~x.stray => /\ x.view = 0 /\ Right(x) = <<>>
                          /\ Put(Left(x)) /\ Bang \in ToSet(Shown(e))
    BY ExpandedIs
  <1> HIDE DEF x
  <1>3. Outcome(e, x)
    <2>1. CASE x = e
      <3>1. Fills(e, e) /\ Fresh(e, e)
        BY FillsSame DEF Fresh
      <3> QED
        BY <2>1, <3>1 DEF Outcome, Sound, Became, Kept
    <2>2. CASE x # e
      <3>1. ~x.stray => Kept(x)
        BY <1>2, <2>2 DEF Sound
      <3> QED
        BY <1>2, <2>2, <3>1 DEF Outcome, Became
    <2> QED
      BY <2>1, <2>2
  <1>4. CASE x.stray
    <2>1. d.e = x /\ d.status = "NO_MATCH"
      BY <1>1, <1>4
    <2> QED
      BY <1>3, <2>1
  <1>5. CASE ~x.stray
    <2>1. Kept(x)
      BY <1>3, <1>5 DEF Outcome, Sound
    <2>2. d = tinyrl_do_complete(x, chance)
      BY <1>1, <1>5
    <2>3. Kept(d.e) /\ Outcome(x, d.e)
      BY <1>5, <2>1, <2>2, DoCompleteIs
    <2> QED
      BY <1>3, <2>1, <2>3, OutcomeAll
  <1> QED
    BY <1>4, <1>5

LEMMA SpaceIs ==
  ASSUME lines \in Seq(Entries), NEW e, Kept(e), NEW chance,
         NEW d, Outcome(e, d.e), NEW set, d.status \in set => Kept(d.e),
         NEW r, r = WithSpace(d, set, chance)
  PROVE  Outcome(e, r)
  <1>1. CASE d.status \in set
    <2> DEFINE q == d.e
    <2>1. Blank \in Text /\ Blank \in Seq(DOMAIN Rank) /\ ToSet(Blank) = {Space} /\ Bang # Space
      <3>1. <<Space>> \in Seq(DOMAIN Rank)
        BY ViewsAssumption
      <3>2. ToSet(<<Space>>) = {Space}
        BY DEF ToSet
      <3> QED
        BY <3>1, <3>2, EditorAssumption DEF Blank, Text
    <2>2. r = tinyrl_insert_text(q, Blank, chance) /\ Kept(q) /\ Outcome(e, q)
      BY <1>1 DEF WithSpace
    <2> HIDE DEF q
    <2>3. Fills(q, r) /\ r.view = 0 /\ r.stray = q.stray /\ Kept(r)
      BY <2>1, <2>2, InsertFills DEF Fills
    <2>4. Fresh(q, r)
      <3>1. Right(r) = Right(q) /\ (Left(r) = Left(q) \/ Left(r) = Left(q) \o Blank)
        BY <2>1, <2>2, InsertIs
      <3>2. Left(q) \in Seq(DOMAIN Rank)
        BY <2>2, SidesAre
      <3>3. ToSet(Left(q) \o Blank) = ToSet(Left(q)) \cup ToSet(Blank)
        BY <2>1, <3>2, CharsOfBoth
      <3>4. Bang \in ToSet(Left(r)) => Bang \in ToSet(Left(q)) \/ Offers
        BY <2>1, <3>1, <3>3
      <3> QED
        BY <2>2, <2>3, <3>1, <3>4, FreshWith
    <2>5. Outcome(q, r)
      BY <2>3, <2>4 DEF Outcome, Sound, Became, Kept
    <2> QED
      BY <2>2, <2>5, OutcomeAll
  <1>2. CASE d.status \notin set
    BY <1>2 DEF WithSpace
  <1> QED
    BY <1>1, <1>2

(* <Space>: a second attempt is made after an ambiguous completion. *)
LEMMA KeySpaceIs ==
  ASSUME lines \in Seq(Entries), views \in Views, NEW e, Kept(e), NEW chance,
         NEW r, r = ucli_shell_tinyrl_key_space(e, chance)
  PROVE  Outcome(e, r)
  <1> DEFINE once  == ucli_shell_tinyrl_complete(e, chance)
             again == ucli_shell_tinyrl_complete(once.e, chance)
             done  == {"MATCH", "MATCH_WITH_EXTENSIONS", "COMPLETED_MATCH"}
  <1>1. r = IF once.status = "COMPLETED_AMBIGUOUS"
            THEN WithSpace(again, {"MATCH_WITH_EXTENSIONS"}, chance)
            ELSE WithSpace(once, done, chance)
    BY DEF ucli_shell_tinyrl_key_space, SpaceAfter
  <1>2. Outcome(e, once.e) /\ (once.status # "NO_MATCH" => Kept(once.e))
    BY CompleteIs
  <1>3. Kept(once.e) => Outcome(once.e, again.e) /\ (again.status # "NO_MATCH" => Kept(again.e))
    BY CompleteIs
  <1> HIDE DEF once, again
  <1>4. CASE once.status = "COMPLETED_AMBIGUOUS"
    <2>1. r = WithSpace(again, {"MATCH_WITH_EXTENSIONS"}, chance) /\ Kept(once.e)
      BY <1>1, <1>2, <1>4
    <2>2. Outcome(once.e, again.e) /\ (again.status \in {"MATCH_WITH_EXTENSIONS"} => Kept(again.e))
      BY <1>3, <2>1
    <2>3. Outcome(once.e, r)
      BY <2>1, <2>2, SpaceIs
    <2> QED
      BY <1>2, <2>1, <2>3, OutcomeAll
  <1>5. CASE once.status # "COMPLETED_AMBIGUOUS"
    <2>1. r = WithSpace(once, done, chance)
      BY <1>1, <1>5
    <2>2. once.status \in done => Kept(once.e)
      BY <1>2
    <2> HIDE DEF done
    <2> QED
      BY <1>2, <2>1, <2>2, SpaceIs
  <1> QED
    BY <1>4, <1>5

(* <Tab>: what is shown is completed as it is. *)
LEMMA KeyTabIs ==
  ASSUME lines \in Seq(Entries), views \in Views, NEW e, Kept(e), ~e.stray, NEW chance,
         NEW r, r = tinyrl_key_tab(e, chance)
  PROVE  Outcome(e, r)
  <1> DEFINE d    == tinyrl_do_complete(e, chance)
             done == {"COMPLETED_MATCH", "MATCH"}
  <1>1. r = WithSpace(d, done, chance)
    BY DEF tinyrl_key_tab
  <1>2. Kept(d.e) /\ Outcome(e, d.e)
    BY DoCompleteIs
  <1> HIDE DEF d, done
  <1> QED
    BY <1>1, <1>2, SpaceIs

(* <RET>: a line that is no command is completed, and may get a space. *)
LEMMA KeyEnterIs ==
  ASSUME lines \in Seq(Entries), views \in Views, NEW e, Kept(e), NEW chance,
         NEW r, r = ucli_shell_tinyrl_key_enter(e, chance)
  PROVE  Outcome(e, r.e) /\ (r.is = "command" => Kept(r.e))
  <1> DEFINE once == ucli_shell_tinyrl_complete(e, chance)
             more == tinyrl_insert_text(once.e, Blank, chance)
             done == {"MATCH", "MATCH_WITH_EXTENSIONS", "COMPLETED_MATCH"}
  <1>1. \/ r = [e |-> e, is |-> "command"]
        \/ r = [e |-> once.e, is |-> "unknown"]
        \/ r = [e |-> once.e, is |-> "command"] /\ once.status \in done
        \/ once.status \in done /\ r = Begun(once.e, more)
    <2>1. r = IF IsCommand(e) THEN [e |-> e, is |-> "command"] ELSE EnteredAfter(once, chance)
      BY DEF ucli_shell_tinyrl_key_enter
    <2> HIDE DEF once
    <2> QED
      BY <2>1 DEF EnteredAfter
  <1>2. Outcome(e, once.e) /\ (once.status # "NO_MATCH" => Kept(once.e))
    BY CompleteIs
  <1> HIDE DEF once
  <1>3. Outcome(e, e)
    BY FillsSame DEF Fresh, Outcome, Sound, Became, Kept
  <1>4. once.status \in done => Kept(once.e)
    BY <1>2
  <1>5. ASSUME once.status \in done, r = Begun(once.e, more) PROVE Outcome(e, r.e) /\ r.is # "command"
    <2>1. r.e = more /\ r.is # "command"
      <3> HIDE DEF more
      <3> QED
        BY <1>5 DEF Begun
    <2>2. more = WithSpace(once, done, chance)
      BY <1>5 DEF WithSpace
    <2> HIDE DEF more, done
    <2>3. Outcome(e, more)
      BY <1>2, <1>4, <2>2, SpaceIs
    <2> QED
      BY <2>1, <2>3
  <1> HIDE DEF more, done
  <1> QED
    BY <1>1, <1>2, <1>3, <1>4, <1>5

-----------------------------------------------------------------------------
(* What the keys make of a line. *)

LEMMA FrontOfPart ==
  ASSUME NEW S, NEW s \in Seq(S), NEW n \in 1 .. Len(s)
  PROVE  /\ Front(SubSeq(s, 1, n)) = SubSeq(s, 1, n - 1)
         /\ SubSeq(s, 1, n) # <<>>
  <1>1. Len(s) \in Nat /\ n \in 0 .. Len(s) /\ n - 1 \in 0 .. n /\ n \in Nat /\ n # 0
    OBVIOUS
  <1>2. SubSeq(s, 1, n) \in Seq(S) /\ Len(SubSeq(s, 1, n)) = n
    BY <1>1, CutAt
  <1>3. SubSeq(SubSeq(s, 1, n), 1, n - 1) = SubSeq(s, 1, n - 1)
    BY <1>1, PartOfPart
  <1> QED
    BY <1>1, <1>2, <1>3 DEF Front

LEMMA TailOfPart ==
  ASSUME NEW S, NEW s \in Seq(S), NEW p \in Nat, p < Len(s)
  PROVE  /\ Tail(SubSeq(s, p + 1, Len(s))) = SubSeq(s, p + 2, Len(s))
         /\ SubSeq(s, p + 1, Len(s)) # <<>>
  <1> DEFINE a == SubSeq(s, p + 1, Len(s))
             b == SubSeq(s, p + 2, Len(s))
  <1>1. Len(s) \in Nat /\ p \in 0 .. Len(s) /\ p + 1 \in 0 .. Len(s) /\ (p + 1) + 1 = p + 2
    OBVIOUS
  <1>2. a \in Seq(S) /\ Len(a) = Len(s) - p
    BY <1>1, CutAt
  <1>3. b \in Seq(S) /\ Len(b) = Len(s) - (p + 1)
    <2>1. SubSeq(s, (p + 1) + 1, Len(s)) \in Seq(S) /\ Len(SubSeq(s, (p + 1) + 1, Len(s))) = Len(s) - (p + 1)
      BY <1>1, CutAt
    <2> QED
      BY <1>1, <2>1
  <1>4. \A i \in 1 .. Len(s) - p : a[i] = s[p + i]
    <2>1. \A i \in 1 .. (Len(s) - (p + 1)) + 1 : a[i] = s[((p + 1) + i) - 1]
      BY <1>1, PartOf
    <2> HIDE DEF a
    <2> QED
      BY <1>1, <2>1
  <1>5. \A i \in 1 .. Len(s) - (p + 1) : b[i] = s[(p + 1) + i]
    <2>1. \A i \in 1 .. (Len(s) - (p + 2)) + 1 : b[i] = s[((p + 2) + i) - 1]
      BY <1>1, PartOf
    <2> HIDE DEF b
    <2> QED
      BY <1>1, <2>1
  <1> HIDE DEF a, b
  <1>6. a # <<>>
    BY <1>1, <1>2
  <1>7. Tail(a) \in Seq(S) /\ Len(Tail(a)) = Len(a) - 1 /\ \A i \in 1 .. Len(a) - 1 : Tail(a)[i] = a[i + 1]
    BY <1>2, <1>6, HeadTailProperties
  <1>8. Len(Tail(a)) = Len(b) /\ \A i \in 1 .. Len(Tail(a)) : Tail(a)[i] = b[i]
    <2>1. Len(a) - 1 = Len(s) - (p + 1) /\ Len(a) - 1 \in Nat
      BY <1>1, <1>2
    <2>2. ASSUME NEW i \in 1 .. Len(s) - (p + 1) PROVE a[i + 1] = b[i]
      <3>1. i + 1 \in 1 .. Len(s) - p /\ p + (i + 1) = (p + 1) + i
        BY <1>1
      <3>2. a[i + 1] = s[p + (i + 1)] /\ b[i] = s[(p + 1) + i]
        BY <1>4, <1>5, <3>1
      <3> QED
        BY <3>1, <3>2
    <2> QED
      BY <1>3, <1>7, <2>1, <2>2, Zenon
  <1>9. Tail(a) = b
    BY <1>3, <1>7, <1>8, SameSeq
  <1> QED
    BY <1>6, <1>9 DEF a, b

LEMMA BackspaceIs ==
  ASSUME lines \in Seq(Entries), NEW e, Kept(e), e.point > 0,
         NEW r, r = tinyrl_delete_text([e EXCEPT !.point = e.point - 1], e.point - 1, e.point - 1)
  PROVE  /\ Kept(r) /\ r.view = 0 /\ r.stray = e.stray
         /\ Left(e) # <<>> /\ Left(r) = Front(Left(e)) /\ Right(r) = Right(e)
  <1> DEFINE back == e.point - 1
             x    == [e EXCEPT !.point = back]
  <1>1. /\ Shown(e) \in Seq(DOMAIN Rank) /\ e.end = Len(Shown(e)) /\ e.end \in Nat /\ e.point \in Nat /\ e.point <= e.end
        /\ back \in Nat /\ back <= e.end /\ e.point \in 1 .. Len(Shown(e))
    BY SidesAre
  <1>2. Kept(x) /\ x.stray = e.stray /\ x.end = e.end /\ x.point = back /\ Shown(x) = Shown(e)
    BY <1>1, PointAt
  <1> HIDE DEF x
  <1>3. back <= x.end /\ r = tinyrl_delete_text(x, back, back)
    BY <1>1, <1>2 DEF x
  <1> HIDE DEF back
  <1>4. Cut(x, IF back > back THEN back ELSE back, IF back > x.end THEN x.end ELSE back, r)
    BY <1>1, <1>2, <1>3, DeleteIs
  <1>5. Cut(x, back, back, r)
    <2>1. ~(back > back) /\ ~(back > x.end)
      BY <1>1, <1>2
    <2> QED
      BY <1>4, <2>1
  <1>6. PointAfter(x, back, back) = back
    <2>1. ~(back < back) /\ ~(back > back)
      BY <1>1
    <2> QED
      BY <1>2, <2>1 DEF PointAfter
  <1>7. /\ Kept(r) /\ r.view = 0 /\ r.stray = e.stray
        /\ Left(r) = SubSeq(Shown(e), 1, back) /\ Right(r) = SubSeq(Shown(e), back + 2, e.end)
    BY <1>2, <1>5, <1>6 DEF Cut
  <1>8. back = e.point - 1 /\ back + 2 = e.point + 1
    BY <1>1 DEF back
  <1>9. Front(Left(e)) = SubSeq(Shown(e), 1, e.point - 1) /\ Left(e) # <<>>
    BY <1>1, FrontOfPart DEF Left
  <1> QED
    BY <1>1, <1>7, <1>8, <1>9 DEF Right

LEMMA KeyDeleteIs ==
  ASSUME lines \in Seq(Entries), NEW e, Kept(e), e.point < e.end,
         NEW r, r = tinyrl_delete_text(e, e.point, e.point)
  PROVE  /\ Kept(r) /\ r.view = 0 /\ r.stray = e.stray
         /\ Right(e) # <<>> /\ Left(r) = Left(e) /\ Right(r) = Tail(Right(e))
  <1> DEFINE p == e.point
  <1>1. Shown(e) \in Seq(DOMAIN Rank) /\ e.end = Len(Shown(e)) /\ e.end \in Nat /\ p \in Nat /\ p <= e.end /\ p < Len(Shown(e))
    BY SidesAre
  <1>2. Cut(e, IF p > p THEN p ELSE p, IF p > e.end THEN e.end ELSE p, r)
    BY <1>1, DeleteIs
  <1> HIDE DEF p
  <1>3. Cut(e, p, p, r)
    BY <1>1, <1>2
  <1>4. PointAfter(e, p, p) = p
    <2>1. ~(p < p) /\ ~(p > p)
      BY <1>1
    <2> QED
      BY <2>1 DEF PointAfter, p
  <1>5. /\ Kept(r) /\ r.view = 0 /\ r.stray = e.stray
        /\ Left(r) = SubSeq(Shown(e), 1, p) /\ Right(r) = SubSeq(Shown(e), p + 2, e.end)
    BY <1>3, <1>4 DEF Cut
  <1>6. Tail(SubSeq(Shown(e), p + 1, Len(Shown(e)))) = SubSeq(Shown(e), p + 2, Len(Shown(e)))
        /\ SubSeq(Shown(e), p + 1, Len(Shown(e))) # <<>>
    BY <1>1, TailOfPart
  <1> QED
    BY <1>1, <1>5, <1>6 DEF Left, Right, p

(* The text behind the cursor is empty when the cursor is at the end. *)
LEMMA NothingBehind ==
  ASSUME lines \in Seq(Entries), NEW e, Kept(e)
  PROVE  SubSeq(Shown(e), e.end + 2, e.end) = <<>>
  <1>1. e.end \in Nat
    BY SidesAre
  <1>2. e.end + 2 \in Int /\ e.end \in Int /\ e.end < e.end + 2
    BY <1>1
  <1> QED
    BY <1>2, SubSeqEmpty

LEMMA EraseIs ==
  ASSUME lines \in Seq(Entries), NEW e, Kept(e),
         NEW r, r = [tinyrl_delete_text(e, 0, e.point) EXCEPT !.point = 0]
  PROVE  /\ Kept(r) /\ r.view = 0 /\ r.stray = e.stray
         /\ Left(r) = <<>> /\ Right(r) = IF Right(e) = <<>> THEN <<>> ELSE Tail(Right(e))
  <1> DEFINE p == e.point
             x == tinyrl_delete_text(e, 0, p)
             z == 0
  <1>1. /\ Shown(e) \in Seq(DOMAIN Rank) /\ e.end = Len(Shown(e)) /\ e.end \in Nat /\ p \in Nat /\ p <= e.end
        /\ Len(Right(e)) = e.end - p /\ Right(e) \in Seq(DOMAIN Rank) /\ z \in Nat /\ z <= e.end
    BY SidesAre
  <1>2. r = [x EXCEPT !.point = 0]
    OBVIOUS
  <1>3. Cut(e, IF z > p THEN p ELSE z, IF p > e.end THEN e.end ELSE p, x)
    BY <1>1, DeleteIs
  <1> HIDE DEF p, x
  <1>4. Cut(e, 0, p, x)
    <2>1. ~(z > p) /\ ~(p > e.end)
      BY <1>1
    <2> QED
      BY <1>3, <2>1
  <1>5. PointAfter(e, 0, p) = 0
    <2>1. ~(p < 0) /\ ~(p > p)
      BY <1>1
    <2> QED
      BY <2>1 DEF PointAfter, p
  <1>6. /\ Kept(x) /\ x.view = 0 /\ x.stray = e.stray /\ x.point = 0
        /\ Left(x) = SubSeq(Shown(e), 1, 0) /\ Right(x) = SubSeq(Shown(e), p + 2, e.end)
    BY <1>4, <1>5 DEF Cut
  <1>7. r = x
    <2>1. x \in Editor
      BY <1>6 DEF Kept
    <2> QED
      BY <1>2, <1>6, <2>1 DEF Editor
  <1>8. SubSeq(Shown(e), 1, 0) = <<>>
    BY <1>1, SubSeqEmpty
  <1>9. CASE p = e.end
    <2>1. Right(e) = <<>>
      BY <1>1, <1>9
    <2> QED
      BY <1>6, <1>7, <1>8, <1>9, <2>1, NothingBehind
  <1>10. CASE p < e.end
    <2>1. Tail(SubSeq(Shown(e), p + 1, Len(Shown(e)))) = SubSeq(Shown(e), p + 2, Len(Shown(e)))
          /\ SubSeq(Shown(e), p + 1, Len(Shown(e))) # <<>>
      BY <1>1, <1>10, TailOfPart
    <2> QED
      BY <1>1, <1>6, <1>7, <1>8, <2>1 DEF Right, p
  <1> QED
    BY <1>1, <1>9, <1>10

LEMMA KillIs ==
  ASSUME lines \in Seq(Entries), NEW e, Kept(e), NEW stray \in BOOLEAN, e.stray => stray,
         NEW r, r = [tinyrl_delete_text(e, e.point, e.end) EXCEPT !.stray = stray]
  PROVE  /\ Kept(r) /\ r.view = 0 /\ r.stray = stray
         /\ Left(r) = Left(e) /\ Right(r) = <<>>
  <1> DEFINE p == e.point
             n == e.end
             x == tinyrl_delete_text(e, p, n)
  <1>1. /\ Shown(e) \in Seq(DOMAIN Rank) /\ n = Len(Shown(e)) /\ n \in Nat /\ p \in Nat /\ p <= n
    BY SidesAre
  <1>2. r = [x EXCEPT !.stray = stray]
    OBVIOUS
  <1>3. Cut(e, IF p > n THEN n ELSE p, IF n > n THEN n ELSE n, x)
    BY <1>1, DeleteIs
  <1> HIDE DEF p, n, x
  <1>4. Cut(e, p, n, x)
    <2>1. ~(p > n) /\ ~(n > n)
      BY <1>1
    <2> QED
      BY <1>3, <2>1
  <1>5. PointAfter(e, p, n) = p
    <2>1. ~(p < p) /\ ~(p > n)
      BY <1>1
    <2> QED
      BY <2>1 DEF PointAfter, p
  <1>6. /\ Kept(x) /\ x.view = 0 /\ Left(x) = SubSeq(Shown(e), 1, p) /\ Right(x) = SubSeq(Shown(e), n + 2, n)
    BY <1>4, <1>5 DEF Cut, n
  <1>7. SubSeq(Shown(e), n + 2, n) = <<>>
    BY NothingBehind DEF n
  <1>8. /\ r \in Editor /\ r.view = x.view /\ r.buffer = x.buffer /\ r.point = x.point /\ r.end = x.end
        /\ r.size = x.size /\ r.stray = stray
    <2>1. x \in Editor
      BY <1>6 DEF Kept
    <2> QED
      BY <1>2, <2>1 DEF Editor
  <1>9. Shown(r) = Shown(x)
    BY <1>8 DEF Shown
  <1>10. Kept(r)
    BY <1>6, <1>8, <1>9 DEF Kept
  <1> QED
    BY <1>6, <1>7, <1>8, <1>9, <1>10 DEF Left, Right, p

(* An entry of the history is shown, or the buffer again. *)
TextOf(e, v) == IF v = 0 THEN e.buffer ELSE lines[v].line

Viewing(e, v, r) ==
  /\ Kept(r) /\ r.view = v /\ r.stray = e.stray /\ r.buffer = e.buffer
  /\ Left(r) = TextOf(e, v) /\ Right(r) = <<>>

LEMMA ViewIs ==
  ASSUME lines \in Seq(Entries), NEW e, Kept(e), NEW v \in 0 .. Len(lines),
         NEW r, r = [e EXCEPT !.view = v, !.point = Len(TextOf(e, v)), !.end = Len(TextOf(e, v))]
  PROVE  Viewing(e, v, r)
  <1> DEFINE text == TextOf(e, v)
  <1>1. text \in Text /\ text \in Seq(DOMAIN Rank) /\ Len(text) \in Nat
    <2>1. CASE v = 0
      BY <2>1 DEF Kept, Editor, Text, TextOf
    <2>2. CASE v # 0
      <3>1. v \in DOMAIN lines
        BY <2>2
      <3> QED
        BY <2>2, <3>1, EntryText DEF Text, TextOf
    <2> QED
      BY <2>1, <2>2
  <1> DEFINE len == Len(text)
  <1> HIDE DEF len
  <1>2. /\ r \in Editor /\ r.view = v /\ r.point = len /\ r.end = len
        /\ r.stray = e.stray /\ r.buffer = e.buffer /\ r.size = e.size
    BY <1>1 DEF Kept, Editor, len
  <1>3. Shown(r) = text
    BY <1>2 DEF Shown, TextOf
  <1> HIDE DEF text
  <1>4. Kept(r)
    BY <1>1, <1>2, <1>3 DEF Kept, len
  <1>5. SubSeq(text, 1, len) = text /\ SubSeq(text, len + 1, len) = <<>>
    BY <1>1, SubSeqFull, SubSeqEmpty DEF len
  <1>6. Left(r) = SubSeq(text, 1, len) /\ Right(r) = SubSeq(text, len + 1, len)
    BY <1>2, <1>3 DEF Left, Right, len
  <1> QED
    BY <1>2, <1>4, <1>5, <1>6 DEF text, Viewing

(* A space at the end of a line is dropped. *)
LEMMA TrimmedIs ==
  ASSUME lines \in Seq(Entries), NEW e, Kept(e), NEW l, l = Shown(Trimmed(e))
  PROVE  l \in Text /\ \E s \in {<<>>, <<Space>>} : l \o s = Shown(e)
  <1> DEFINE n == e.end
             s == Shown(e)
  <1>1. s \in Seq(DOMAIN Rank) /\ s \in Text /\ n = Len(s) /\ n \in Nat
    BY SidesAre
  <1>2. CASE n > 0 /\ s[n] = Space
    <2> DEFINE x == tinyrl_delete_text(e, n - 1, n)
    <2>1. l = Shown(x)
      BY <1>2 DEF Trimmed
    <2>2. n - 1 \in Nat /\ n - 1 <= n /\ ~(n - 1 > n) /\ ~(n > n) /\ n - 1 \in 0 .. Len(s) /\ (n - 1) + 1 = n
      BY <1>1, <1>2
    <2>3. Cut(e, IF n - 1 > n THEN n ELSE n - 1, IF n > n THEN n ELSE n, x)
      BY <1>1, <2>2, DeleteIs
    <2> HIDE DEF x
    <2>4. Cut(e, n - 1, n, x)
      BY <2>2, <2>3
    <2>5. Kept(x) /\ Shown(x) = SubSeq(s, 1, n - 1) \o SubSeq(s, n + 2, n)
      BY <2>4 DEF Cut
    <2>6. SubSeq(s, n + 2, n) = <<>>
      BY NothingBehind
    <2> DEFINE a == SubSeq(s, 1, n - 1)
    <2>7. a \in Seq(DOMAIN Rank) /\ a \o SubSeq(s, n, Len(s)) = s
      <3> HIDE DEF n, s
      <3>1. SubSeq(s, 1, n - 1) \in Seq(DOMAIN Rank) /\ SubSeq(s, 1, n - 1) \o SubSeq(s, (n - 1) + 1, Len(s)) = s
        BY <1>1, <2>2, CutAt
      <3> QED
        BY <2>2, <3>1
    <2>8. SubSeq(s, n, Len(s)) = <<Space>>
      <3> DEFINE b == SubSeq(s, n, n)
      <3>1. b \in Seq(DOMAIN Rank) /\ Len(b) = 1 /\ b[1] = s[n]
        <4>1. /\ b \in Seq(DOMAIN Rank) /\ Len(b) = IF n <= n THEN (n - n) + 1 ELSE 0
              /\ \A i \in 1 .. (n - n) + 1 : b[i] = s[(n + i) - 1]
          BY <1>1, <1>2, PartOf
        <4> HIDE DEF b, n, s
        <4>2. (n - n) + 1 = 1 /\ n <= n /\ (n + 1) - 1 = n /\ 1 \in 1 .. 1
          BY <1>1
        <4> QED
          BY <4>1, <4>2
      <3> HIDE DEF b
      <3>2. b = <<Space>>
        BY <1>2, <3>1
      <3> QED
        BY <1>1, <3>2 DEF b
    <2>9. l = a
      <3> HIDE DEF a
      <3>1. a \o <<>> = a
        BY <2>7
      <3> QED
        BY <2>1, <2>5, <2>6, <3>1 DEF a
    <2> HIDE DEF a
    <2> QED
      BY <2>7, <2>8, <2>9 DEF Text
  <1>3. CASE ~(n > 0 /\ s[n] = Space)
    <2>1. l = s
      BY <1>3 DEF Trimmed
    <2> HIDE DEF s
    <2>2. s \o <<>> = s
      BY <1>1
    <2> QED
      BY <1>1, <2>1, <2>2 DEF s
  <1> QED
    BY <1>2, <1>3

-----------------------------------------------------------------------------
(* What becomes of a piece of a script, and of the history. *)

(* A piece is as long as the buffer, unless it ends with the line or the script. *)
LEMMA TakenAll ==
  ASSUME NEW S, NEW s \in Seq(S), NEW t, t = Taken_by_fgets(s)
  PROVE  /\ t \in Seq(S) /\ Len(t) \in 0 .. Len(s) /\ Len(t) <= Piece
         /\ \A i \in 1 .. Len(t) : t[i] = s[i]
         /\ \A i \in 1 .. Len(t) - 1 : s[i] # Newline
         /\ \/ Len(t) = Piece \/ Len(t) = Len(s)
            \/ Len(t) > 0 /\ s[Len(t)] = Newline
  <1> DEFINE T == {Piece, Len(s)} \cup {i \in DOMAIN s : s[i] = Newline}
             n == Min(T)
  <1>1. Len(s) \in Nat /\ Piece \in Nat /\ DOMAIN s = 1 .. Len(s)
    BY EditorAssumption
  <1>2. T \subseteq Nat /\ T # {}
    BY <1>1
  <1>3. n \in T /\ \A k \in T : n <= k
    <2>1. \E x \in T : \A y \in T : x <= y
      <3> HIDE DEF T
      <3> QED
        BY <1>2, Smallest
    <2> HIDE DEF T
    <2> QED
      BY <2>1 DEF Min
  <1>4. n \in 0 .. Len(s) /\ n <= Piece
    <2>1. Piece \in T /\ Len(s) \in T
      OBVIOUS
    <2> HIDE DEF n, T
    <2>2. n \in Nat /\ n <= Piece /\ n <= Len(s)
      BY <1>2, <1>3, <2>1
    <2> QED
      BY <1>1, <2>2
  <1>5. \A i \in 1 .. n - 1 : s[i] # Newline
    <2> SUFFICES ASSUME NEW i \in 1 .. n - 1, s[i] = Newline PROVE FALSE
      OBVIOUS
    <2>1. i \in DOMAIN s /\ ~(n <= i)
      BY <1>1, <1>4
    <2>2. i \in T
      BY <2>1
    <2> QED
      BY <1>3, <2>1, <2>2
  <1>6. n = Piece \/ n = Len(s) \/ (n > 0 /\ s[n] = Newline)
    <2> HIDE DEF n
    <2>1. n = Piece \/ n = Len(s) \/ (n \in DOMAIN s /\ s[n] = Newline)
      BY <1>3
    <2>2. n \in DOMAIN s => n > 0
      BY <1>1
    <2> QED
      BY <2>1, <2>2
  <1>7. t = SubSeq(s, 1, n)
    BY DEF Taken_by_fgets
  <1> HIDE DEF n, T
  <1>8. SubSeq(s, 1, n) \in Seq(S) /\ Len(SubSeq(s, 1, n)) = n
    BY <1>4, CutAt
  <1>9. \A i \in 1 .. n : SubSeq(s, 1, n)[i] = s[i]
    BY <1>1, <1>4, PartOf
  <1> QED
    BY <1>4, <1>5, <1>6, <1>7, <1>8, <1>9

LEMMA TakenFits ==
  ASSUME NEW S, NEW s \in Seq(S), NEW t, t = Taken_by_fgets(s)
  PROVE  /\ t \in Seq(S) /\ Len(t) <= Len(s) /\ Len(t) <= Piece
         /\ SubSeq(s, Len(t) + 1, Len(s)) \in Seq(S)
         /\ \A i \in 1 .. Len(t) - 1 : t[i] # Newline
  <1>1. /\ t \in Seq(S) /\ Len(t) \in 0 .. Len(s) /\ Len(t) <= Piece
        /\ \A i \in 1 .. Len(t) : t[i] = s[i]
        /\ \A i \in 1 .. Len(t) - 1 : s[i] # Newline
    BY TakenAll
  <1>2. SubSeq(s, Len(t) + 1, Len(s)) \in Seq(S)
    BY <1>1, CutAt
  <1>3. ASSUME NEW i \in 1 .. Len(t) - 1 PROVE t[i] # Newline
    <2>1. Len(t) \in Nat
      BY <1>1
    <2>2. i \in 1 .. Len(t)
      BY <2>1
    <2>3. t[i] = s[i] /\ s[i] # Newline
      BY <1>1, <2>2
    <2> QED
      BY <2>3
  <1>4. Len(t) <= Len(s)
    <2>1. Len(s) \in Nat
      OBVIOUS
    <2> QED
      BY <1>1, <2>1
  <1> QED
    BY <1>1, <1>2, <1>3, <1>4, Zenon

(* Without its newline, a piece is a text. *)
LEMMA LineText ==
  ASSUME NEW t \in Seq({Newline} \cup DOMAIN Rank), \A i \in 1 .. Len(t) - 1 : t[i] # Newline
  PROVE  WithoutNewline(t) \in Text
  <1> DEFINE S == {Newline} \cup DOMAIN Rank
             n == Len(t)
             m == IF t # <<>> /\ Last(t) = Newline THEN n - 1 ELSE n
             u == SubSeq(t, 1, m)
  <1>1. n \in Nat /\ (t # <<>> => n > 0) /\ \A i \in 1 .. n : t[i] \in S
    BY ElementsOf
  <1>2. m \in 0 .. n /\ \A i \in 1 .. m : t[i] # Newline
    <2>1. CASE t # <<>> /\ Last(t) = Newline
      BY <1>1, <2>1
    <2>2. CASE t = <<>>
      BY <1>1, <2>2
    <2>3. CASE t # <<>> /\ Last(t) # Newline
      <3>1. t[n] # Newline /\ m = n
        BY <2>3 DEF Last
      <3>2. \A i \in 1 .. n : i \in 1 .. n - 1 \/ i = n
        BY <1>1
      <3> QED
        BY <1>1, <3>1, <3>2
    <2> QED
      BY <2>1, <2>2, <2>3
  <1>3. WithoutNewline(t) = u
    <2>1. SubSeq(t, 1, n) = t
      BY CutAt, n \in 0 .. Len(t)
    <2> QED
      BY <2>1 DEF WithoutNewline, Front
  <1> HIDE DEF m
  <1>4. u \in Seq(S) /\ Len(u) = m /\ \A i \in 1 .. m : u[i] = t[i]
    <2>1. u \in Seq(S) /\ Len(u) = m
      BY <1>2, CutAt
    <2>2. \A i \in 1 .. m : u[i] = t[i]
      BY <1>1, <1>2, PartOf
    <2> QED
      BY <2>1, <2>2
  <1>5. \A i \in 1 .. Len(u) : u[i] \in DOMAIN Rank
    BY <1>1, <1>2, <1>4
  <1> HIDE DEF u
  <1>6. u \in Seq(DOMAIN Rank)
    <2>1. Len(u) \in Nat /\ u = [i \in 1 .. Len(u) |-> u[i]]
      BY <1>4
    <2> QED
      BY <1>5, <2>1
  <1> QED
    BY <1>3, <1>6 DEF Text

LEMMA StrippedText ==
  ASSUME NEW s \in Text
  PROVE  Stripped(s) \in Text
  <1> DEFINE n == Len(Span(s, 1, {Space}))
  <1>1. s \in Seq(DOMAIN Rank) /\ Len(s) \in Nat /\ 1 \in 1 .. Len(s) + 1
    BY DEF Text
  <1>2. n \in Nat /\ 1 + n <= Len(s) + 1
    BY <1>1, SpanFits
  <1> HIDE DEF n
  <1>3. n \in 0 .. Len(s)
    BY <1>1, <1>2
  <1>4. SubSeq(s, n + 1, Len(s)) \in Seq(DOMAIN Rank)
    BY <1>1, <1>3, CutAt
  <1> QED
    BY <1>4 DEF Stripped, SkipBlanks, Text, n

(* The entries with one more, and without the one that was the same. *)
LEMMA RememberedIs ==
  ASSUME lines \in Seq(Entries), current \in Nat, NEW l \in Text
  PROVE  /\ Remembered(l) \in Seq(Entries)
         /\ {Remembered(l)[i].line : i \in DOMAIN Remembered(l)} = {lines[i].line : i \in DOMAIN lines} \cup {l}
  <1> DEFINE same == {i \in DOMAIN lines : lines[i].line = l}
             k    == Min(same)
             u    == remove_duplicate(l)
             r    == Remembered(l)
             new  == [line |-> l, index |-> current]
  <1>1. Len(lines) \in Nat /\ DOMAIN lines = 1 .. Len(lines) /\ new \in Entries
    BY DEF Entries
  <1>2. u \in Seq(Entries) /\ {u[i].line : i \in DOMAIN u} \cup {l} = {lines[i].line : i \in DOMAIN lines} \cup {l}
    <2>1. CASE same = {}
      <3>1. u = lines
        BY <2>1 DEF remove_duplicate
      <3> QED
        BY <3>1
    <2>2. CASE same # {}
      <3>1. same \subseteq Nat /\ same \subseteq 1 .. Len(lines)
        BY <1>1
      <3>2. k \in same
        <4>1. \E x \in same : \A y \in same : x <= y
          <5> HIDE DEF same
          <5> QED
            BY <2>2, <3>1, Smallest
        <4> HIDE DEF same
        <4> QED
          BY <4>1 DEF Min
      <3>3. k \in 1 .. Len(lines) /\ lines[k].line = l
        BY <1>1, <3>2
      <3>4. u = RemoveAt(lines, k)
        BY <2>2 DEF remove_duplicate
      <3> HIDE DEF k, same, u
      <3>5. /\ u \in Seq(Entries) /\ Len(u) = Len(lines) - 1
            /\ \A j \in 1 .. Len(lines) - 1 : u[j] = IF j < k THEN lines[j] ELSE lines[j + 1]
        BY <3>3, <3>4, RemovedAt
      <3>6. DOMAIN u = 1 .. Len(lines) - 1
        BY <3>5
      <3>7. ASSUME NEW j \in 1 .. Len(lines) - 1 PROVE \E i \in 1 .. Len(lines) : u[j] = lines[i]
        <4>1. j \in 1 .. Len(lines) /\ j + 1 \in 1 .. Len(lines)
          BY <1>1
        <4> QED
          BY <3>5, <4>1
      <3>8. ASSUME NEW i \in 1 .. Len(lines), i # k PROVE \E j \in 1 .. Len(lines) - 1 : lines[i] = u[j]
        <4>1. CASE i < k
          <5>1. i \in 1 .. Len(lines) - 1
            BY <1>1, <3>3, <4>1
          <5> QED
            BY <3>5, <4>1, <5>1
        <4>2. CASE i > k
          <5>1. i - 1 \in 1 .. Len(lines) - 1 /\ ~(i - 1 < k) /\ (i - 1) + 1 = i
            BY <1>1, <3>3, <4>2
          <5>2. u[i - 1] = lines[(i - 1) + 1]
            BY <3>5, <5>1
          <5> QED
            BY <5>1, <5>2
        <4> QED
          BY <1>1, <3>3, <3>8, <4>1, <4>2
      <3>9. DOMAIN lines = 1 .. Len(lines)
        BY <1>1
      <3>10. ASSUME NEW j \in DOMAIN u PROVE \E i \in DOMAIN lines : u[j].line = lines[i].line
        BY <3>6, <3>7, <3>9
      <3>11. ASSUME NEW i \in DOMAIN lines, lines[i].line # l PROVE \E j \in DOMAIN u : lines[i].line = u[j].line
        <4>1. i # k
          BY <3>3, <3>11
        <4> QED
          BY <3>6, <3>8, <3>9, <4>1
      <3>12. k \in DOMAIN lines /\ lines[k].line = l
        BY <3>3, <3>9
      <3> DEFINE A == {u[i].line : i \in DOMAIN u}
                 B == {lines[i].line : i \in DOMAIN lines}
      <3>13. A \subseteq B
        BY <3>10
      <3>14. B \subseteq A \cup {l}
        BY <3>11
      <3>15. l \in B
        BY <3>12
      <3> HIDE DEF A, B
      <3>16. A \cup {l} = B \cup {l}
        BY <3>13, <3>14, <3>15
      <3> QED
        BY <3>5, <3>16 DEF A, B
    <2> QED
      BY <2>1, <2>2
  <1>3. r = Append(u, new)
    BY DEF Remembered
  <1> HIDE DEF u, r, new
  <1>4. /\ r \in Seq(Entries) /\ Len(r) = Len(u) + 1
        /\ \A i \in 1 .. Len(u) : r[i] = u[i]
        /\ r[Len(u) + 1] = new
    BY <1>1, <1>2, <1>3, Appended
  <1>5. Len(u) \in Nat /\ DOMAIN u = 1 .. Len(u) /\ DOMAIN r = 1 .. Len(u) + 1 /\ new.line = l
    BY <1>2, <1>4 DEF new
  <1>6. \A i \in DOMAIN r : i \in DOMAIN u \/ i = Len(u) + 1
    BY <1>5
  <1>7. \A i \in DOMAIN u : i \in DOMAIN r
    BY <1>5
  <1>8. {r[i].line : i \in DOMAIN r} = {u[i].line : i \in DOMAIN u} \cup {l}
    <2>1. Len(u) + 1 \in DOMAIN r
      BY <1>5
    <2> QED
      BY <1>4, <1>5, <1>6, <1>7, <2>1
  <1> QED
    BY <1>2, <1>4, <1>8 DEF r

-----------------------------------------------------------------------------
(* The invariant: what LineKept says of the editor while nothing is lost, and that all
   texts are texts. *)

EditorInv ==
  /\ mode \in {"idle", "keys", "pieces", "enter"}
  /\ lines \in Seq(Entries) /\ Sound(editor)
  /\ kill \in Text \cup {None}
  /\ current \in Nat \ {0} /\ views \in Views
  /\ stream \in Seq({Newline} \cup DOMAIN Rank)

LEMMA EmptyText ==
  <<>> \in Text /\ Len(<<>>) = 0
  BY DEF Text

LEMMA EmptyIs ==
  ASSUME lines \in Seq(Entries)
  PROVE  Kept(Empty) /\ Empty.view = 0 /\ ~Empty.stray /\ Empty.buffer = <<>> /\ Shown(Empty) = <<>>
  <1>1. 0 \in 0 .. Len(lines)
    OBVIOUS
  <1>2. Empty \in Editor /\ Empty.view = 0 /\ Empty.stray = FALSE /\ Empty.buffer = <<>> /\ Empty.point = 0
        /\ Empty.end = 0 /\ Empty.size = 0
    BY <1>1, EmptyText DEF Empty, Editor
  <1>3. Shown(Empty) = <<>>
    BY <1>2 DEF Shown
  <1> QED
    BY <1>2, <1>3, EmptyText DEF Kept

LEMMA EditorInit ==
  ASSUME Init
  PROVE  EditorInv
  <1>1. lines \in Seq(Entries) /\ stream \in Seq({Newline} \cup DOMAIN Rank)
    BY DEF Init
  <1>2. Sound(editor)
    BY <1>1, EmptyIs DEF Init, Sound, Kept
  <1> QED
    BY <1>1, <1>2 DEF Init, EditorInv

(* The editor after a key. *)
LEMMA KeyKeeps ==
  ASSUME EditorInv, NEW r, Becomes(r), Sound(r), kill' \in Text \cup {None}
  PROVE  EditorInv'
  <1>1. /\ editor' = r /\ lines' = lines /\ mode' = mode /\ current' = current
        /\ views' = views /\ stream' = stream
    BY DEF Becomes, OfReading
  <1>2. Shown(editor)' = Shown(r)
    BY <1>1 DEF Shown
  <1>3. Sound(editor)'
    BY <1>1, <1>2 DEF Sound, Kept, Editor
  <1> QED
    BY <1>1, <1>3 DEF EditorInv

(* Whatever is read, an empty editor is sound. *)
LEMMA EmptyKeeps ==
  ASSUME lines' \in Seq(Entries), editor' = Empty
  PROVE  Sound(editor)'
  <1>1. 0 \in 0 .. Len(lines')
    OBVIOUS
  <1>2. Shown(Empty)' = <<>>
    BY DEF Shown, Empty
  <1> QED
    BY <1>1, <1>2, EmptyText DEF Sound, Kept, Editor, Empty

LEMMA EditorSound ==
  ASSUME EditorInv, ~editor.stray
  PROVE  /\ lines \in Seq(Entries) /\ views \in Views
         /\ Kept(editor) /\ editor \in Editor /\ editor.point \in Nat /\ editor.end \in Nat /\ editor.point <= editor.end
         /\ editor.end = Len(Shown(editor)) /\ editor.view \in 0 .. Len(lines) /\ Len(lines) \in Nat
  BY DEF EditorInv, Sound, Kept, Editor

LEMMA BecomesSound ==
  ASSUME EditorInv, NEW r, Becomes(r)
  PROVE  ~editor.stray
  BY DEF Becomes

(* Every key leaves the editor sound. *)
LEMMA EditingKeeps ==
  ASSUME EditorInv,
         \/ tinyrl_key_default \/ tinyrl_key_start_of_line \/ tinyrl_key_end_of_line
         \/ tinyrl_key_left \/ tinyrl_key_right \/ tinyrl_key_backspace \/ tinyrl_key_delete
         \/ tinyrl_key_erase_line \/ tinyrl_key_kill \/ tinyrl_key_yank
  PROVE  EditorInv'
  <1>1. kill \in Text \cup {None}
    BY DEF EditorInv
  <1>2. ASSUME tinyrl_key_default PROVE EditorInv'
    <2>1. PICK t \in KeyText, chance \in Memory : Becomes(tinyrl_insert_text(editor, t, chance)) /\ UNCHANGED kill
      BY <1>2 DEF tinyrl_key_default
    <2> DEFINE r == tinyrl_insert_text(editor, t, chance)
    <2>2. t \in Text /\ lines \in Seq(Entries) /\ Kept(editor)
      BY <2>1, BecomesSound, EditorSound, EditorAssumption
    <2>3. Kept(r)
      BY <2>2, InsertIs
    <2> HIDE DEF r
    <2>4. Becomes(r) /\ kill' \in Text \cup {None} /\ Sound(r)
      BY <1>1, <2>1, <2>3 DEF Sound, Kept, r
    <2> QED
      BY <2>4, KeyKeeps
  <1>3. ASSUME NEW p \in Nat, Becomes([editor EXCEPT !.point = p]), p <= editor.end, UNCHANGED kill
        PROVE  EditorInv'
    <2> DEFINE r == [editor EXCEPT !.point = p]
    <2>1. lines \in Seq(Entries) /\ Kept(editor)
      BY <1>3, BecomesSound, EditorSound
    <2>2. Kept(r)
      BY <1>3, <2>1, PointAt
    <2> HIDE DEF r
    <2>3. Becomes(r) /\ kill' \in Text \cup {None} /\ Sound(r)
      BY <1>1, <1>3, <2>2 DEF Sound, Kept, r
    <2> QED
      BY <2>3, KeyKeeps
  <1>4. ASSUME tinyrl_key_start_of_line PROVE EditorInv'
    <2>1. Becomes([editor EXCEPT !.point = 0]) /\ UNCHANGED kill
      BY <1>4 DEF tinyrl_key_start_of_line
    <2>2. 0 \in Nat /\ 0 <= editor.end
      BY <2>1, BecomesSound, EditorSound
    <2> QED
      BY <1>3, <2>1, <2>2
  <1>5. ASSUME tinyrl_key_end_of_line PROVE EditorInv'
    <2>1. Becomes([editor EXCEPT !.point = editor.end]) /\ UNCHANGED kill
      BY <1>5 DEF tinyrl_key_end_of_line
    <2>2. editor.end \in Nat /\ editor.end <= editor.end
      BY <2>1, BecomesSound, EditorSound
    <2> QED
      BY <1>3, <2>1, <2>2
  <1>6. ASSUME tinyrl_key_left PROVE EditorInv'
    <2>1. editor.point > 0 /\ Becomes([editor EXCEPT !.point = editor.point - 1]) /\ UNCHANGED kill
      BY <1>6 DEF tinyrl_key_left
    <2>2. editor.point - 1 \in Nat /\ editor.point - 1 <= editor.end
      BY <2>1, BecomesSound, EditorSound
    <2> QED
      BY <1>3, <2>1, <2>2
  <1>7. ASSUME tinyrl_key_right PROVE EditorInv'
    <2>1. editor.point < editor.end /\ Becomes([editor EXCEPT !.point = editor.point + 1]) /\ UNCHANGED kill
      BY <1>7 DEF tinyrl_key_right
    <2>2. editor.point + 1 \in Nat /\ editor.point + 1 <= editor.end
      BY <2>1, BecomesSound, EditorSound
    <2> QED
      BY <1>3, <2>1, <2>2
  <1>8. ASSUME tinyrl_key_backspace PROVE EditorInv'
    <2> DEFINE back == editor.point - 1
               r    == tinyrl_delete_text([editor EXCEPT !.point = editor.point - 1], editor.point - 1, editor.point - 1)
    <2>1. editor.point > 0 /\ Becomes(r) /\ UNCHANGED kill
      BY <1>8 DEF tinyrl_key_backspace
    <2> HIDE DEF r
    <2>2. lines \in Seq(Entries) /\ Kept(editor)
      BY <2>1, BecomesSound, EditorSound
    <2>3. Kept(r)
      BY <2>1, <2>2, BackspaceIs DEF r
    <2>4. kill' \in Text \cup {None} /\ Sound(r)
      BY <1>1, <2>1, <2>3 DEF Sound, Kept
    <2> QED
      BY <2>1, <2>4, KeyKeeps
  <1>9. ASSUME tinyrl_key_delete PROVE EditorInv'
    <2> DEFINE r == tinyrl_delete_text(editor, editor.point, editor.point)
    <2>1. editor.point < editor.end /\ Becomes(r) /\ UNCHANGED kill
      BY <1>9 DEF tinyrl_key_delete
    <2> HIDE DEF r
    <2>2. lines \in Seq(Entries) /\ Kept(editor)
      BY <2>1, BecomesSound, EditorSound
    <2>3. Kept(r)
      BY <2>1, <2>2, KeyDeleteIs DEF r
    <2>4. kill' \in Text \cup {None} /\ Sound(r)
      BY <1>1, <2>1, <2>3 DEF Sound, Kept
    <2> QED
      BY <2>1, <2>4, KeyKeeps
  <1>10. ASSUME tinyrl_key_erase_line PROVE EditorInv'
    <2> DEFINE r == [tinyrl_delete_text(editor, 0, editor.point) EXCEPT !.point = 0]
    <2>1. Becomes(r) /\ UNCHANGED kill
      BY <1>10 DEF tinyrl_key_erase_line
    <2> HIDE DEF r
    <2>2. lines \in Seq(Entries) /\ Kept(editor)
      BY <2>1, BecomesSound, EditorSound
    <2>3. Kept(r)
      BY <2>2, EraseIs DEF r
    <2>4. kill' \in Text \cup {None} /\ Sound(r)
      BY <1>1, <2>1, <2>3 DEF Sound, Kept
    <2> QED
      BY <2>1, <2>4, KeyKeeps
  <1>11. ASSUME tinyrl_key_kill PROVE EditorInv'
    <2> DEFINE stray == editor.view # 0
               s     == editor.buffer
               r     == [tinyrl_delete_text(editor, editor.point, editor.end) EXCEPT !.stray = stray]
    <2>1. Becomes(r) /\ kill' = SubSeq(s, editor.point + 1, Len(s))
      BY <1>11 DEF tinyrl_key_kill
    <2> HIDE DEF r
    <2>2. lines \in Seq(Entries) /\ Kept(editor) /\ editor.point \in Nat /\ ~editor.stray
      BY <2>1, BecomesSound, EditorSound
    <2>3. Kept(r)
      <3>1. stray \in BOOLEAN
        OBVIOUS
      <3> HIDE DEF stray
      <3> QED
        BY <2>2, <3>1, KillIs DEF r
    <2>4. kill' \in Text
      <3>1. s \in Seq(DOMAIN Rank)
        BY <2>2 DEF Kept, Editor, Text
      <3> HIDE DEF s
      <3>2. editor.point + 1 \in Int /\ Len(s) \in Int /\ 1 <= editor.point + 1 /\ Len(s) <= Len(s)
        BY <2>2, <3>1
      <3>3. SubSeq(s, editor.point + 1, Len(s)) \in Seq(DOMAIN Rank)
        BY <3>1, <3>2, PartOf
      <3> QED
        BY <2>1, <3>3 DEF Text
    <2>5. Sound(r)
      BY <2>3 DEF Sound, Kept
    <2> QED
      BY <2>1, <2>4, <2>5, KeyKeeps
  <1>12. ASSUME tinyrl_key_yank PROVE EditorInv'
    <2>1. PICK chance \in Memory : kill # None /\ Becomes(tinyrl_insert_text(editor, kill, chance)) /\ UNCHANGED kill
      BY <1>12 DEF tinyrl_key_yank
    <2> DEFINE r == tinyrl_insert_text(editor, kill, chance)
    <2>2. kill \in Text /\ lines \in Seq(Entries) /\ Kept(editor)
      BY <1>1, <2>1, BecomesSound, EditorSound
    <2>3. Kept(r)
      BY <2>2, InsertIs
    <2> HIDE DEF r
    <2>4. Becomes(r) /\ kill' \in Text \cup {None} /\ Sound(r)
      BY <1>1, <2>1, <2>3 DEF Sound, Kept, r
    <2> QED
      BY <2>4, KeyKeeps
  <1> QED
    BY <1>2, <1>4, <1>5, <1>6, <1>7, <1>8, <1>9, <1>10, <1>11, <1>12

LEMMA ViewingKeeps ==
  ASSUME EditorInv, tinyrl_key_up \/ tinyrl_key_down
  PROVE  EditorInv'
  <1>1. ASSUME NEW v \in 0 .. Len(lines), UNCHANGED kill,
               Becomes(Views_entry(v, TextOf(editor, v)))
        PROVE  EditorInv'
    <2> DEFINE text == TextOf(editor, v)
               r    == [editor EXCEPT !.view = v, !.point = Len(text), !.end = Len(text)]
    <2>1. Becomes(r)
      BY <1>1 DEF Views_entry
    <2>2. lines \in Seq(Entries) /\ Kept(editor)
      BY <2>1, BecomesSound, EditorSound
    <2>3. Kept(r)
      BY <2>2, ViewIs DEF Viewing
    <2> HIDE DEF r
    <2>4. kill' \in Text \cup {None} /\ Sound(r)
      BY <1>1, <2>3 DEF Sound, Kept, EditorInv
    <2> QED
      BY <2>1, <2>4, KeyKeeps
  <1>2. CASE tinyrl_key_up
    <2> DEFINE v == IF editor.view = 0 THEN Len(lines) ELSE editor.view - 1
    <2>1. v # 0 /\ Becomes(Views_entry(v, lines[v].line)) /\ UNCHANGED kill
      BY <1>2 DEF tinyrl_key_up
    <2>2. v \in 0 .. Len(lines)
      <3>1. editor.view \in 0 .. Len(lines) /\ Len(lines) \in Nat
        BY <2>1, BecomesSound, EditorSound
      <3> QED
        BY <3>1
    <2> HIDE DEF v
    <2> QED
      BY <1>1, <2>1, <2>2 DEF TextOf
  <1>3. CASE tinyrl_key_down
    <2>1. editor.view # 0 /\ UNCHANGED kill
      BY <1>3 DEF tinyrl_key_down
    <2>2. CASE editor.view < Len(lines)
      <3> DEFINE v == editor.view + 1
      <3>1. Becomes(Views_entry(v, lines[v].line))
        BY <1>3, <2>2 DEF tinyrl_key_down
      <3>2. v \in 0 .. Len(lines) /\ v # 0
        <4>1. editor.view \in 0 .. Len(lines) /\ Len(lines) \in Nat
          BY <3>1, BecomesSound, EditorSound
        <4> QED
          BY <2>2, <4>1
      <3> HIDE DEF v
      <3> QED
        BY <1>1, <2>1, <3>1, <3>2 DEF TextOf
    <2>3. CASE ~(editor.view < Len(lines))
      <3> DEFINE v == 0
      <3>1. Becomes(Views_entry(v, editor.buffer))
        BY <1>3, <2>3 DEF tinyrl_key_down
      <3>2. v \in 0 .. Len(lines)
        BY <3>1, BecomesSound, EditorSound
      <3>3. v = 0
        OBVIOUS
      <3> HIDE DEF v
      <3> QED
        BY <1>1, <2>1, <3>1, <3>2, <3>3 DEF TextOf
    <2> QED
      BY <2>2, <2>3
  <1> QED
    BY <1>2, <1>3

LEMMA CompletingKeeps ==
  ASSUME EditorInv, KeySpace \/ KeyTab \/ KeyEnterStays
  PROVE  EditorInv'
  <1>1. ASSUME NEW r, Becomes(r), UNCHANGED kill, Outcome(editor, r) PROVE EditorInv'
    <2>1. kill' \in Text \cup {None} /\ Sound(r)
      BY <1>1 DEF Outcome, EditorInv
    <2> QED
      BY <1>1, <2>1, KeyKeeps
  <1>2. ASSUME ~editor.stray PROVE lines \in Seq(Entries) /\ views \in Views /\ Kept(editor)
    BY <1>2, EditorSound
  <1>3. CASE KeySpace
    <2>1. PICK chance \in Chance : Becomes(ucli_shell_tinyrl_key_space(editor, chance)) /\ UNCHANGED kill
      BY <1>3 DEF KeySpace
    <2> DEFINE r == ucli_shell_tinyrl_key_space(editor, chance)
    <2>2. Outcome(editor, r)
      BY <1>2, <2>1, BecomesSound, KeySpaceIs
    <2> HIDE DEF r
    <2> QED
      BY <1>1, <2>1, <2>2 DEF r
  <1>4. CASE KeyTab
    <2>1. PICK chance \in Memory : Becomes(tinyrl_key_tab(editor, chance)) /\ UNCHANGED kill
      BY <1>4 DEF KeyTab
    <2> DEFINE r == tinyrl_key_tab(editor, chance)
    <2>2. Outcome(editor, r)
      BY <1>2, <2>1, BecomesSound, KeyTabIs
    <2> HIDE DEF r
    <2> QED
      BY <1>1, <2>1, <2>2 DEF r
  <1>5. CASE KeyEnterStays
    <2>1. PICK chance \in Chance : Becomes(ucli_shell_tinyrl_key_enter(editor, chance).e) /\ UNCHANGED kill
      BY <1>5 DEF KeyEnterStays
    <2> DEFINE x == ucli_shell_tinyrl_key_enter(editor, chance)
               r == x.e
    <2>2. Outcome(editor, r)
      BY <1>2, <2>1, BecomesSound, KeyEnterIs
    <2> HIDE DEF r
    <2> QED
      BY <1>1, <2>1, <2>2 DEF r
  <1> QED
    BY <1>3, <1>4, <1>5

(* The reading of a line begins and ends with an empty editor. *)
LEMMA ReadlineKeeps ==
  ASSUME EditorInv, tinyrl_readline
  PROVE  EditorInv'
  <1>1. editor' = Empty /\ UNCHANGED <<kill, lines, current, views>> /\ mode' \in {"keys", "pieces"}
    BY DEF tinyrl_readline
  <1>2. stream' \in Seq({Newline} \cup DOMAIN Rank)
    <2>1. stream' = <<>> \/ stream' \in Script \/ stream' = stream
      BY DEF tinyrl_readline
    <2>2. <<>> \in Seq({Newline} \cup DOMAIN Rank)
      OBVIOUS
    <2> QED
      BY <2>1, <2>2, EditorAssumption DEF EditorInv
  <1>3. Sound(editor)'
    BY <1>1, EmptyKeeps DEF EditorInv
  <1> QED
    BY <1>1, <1>2, <1>3 DEF EditorInv

LEMMA ReturnedKeeps ==
  ASSUME EditorInv, NEW l \in Text, Returned(l)
  PROVE  EditorInv'
  <1>1. /\ editor' = Empty /\ mode' = "idle" /\ lines' = Remembered(l) /\ current' = current + 1
        /\ UNCHANGED <<kill, views, stream>>
    BY DEF Returned
  <1>2. lines' \in Seq(Entries)
    <2>1. lines \in Seq(Entries) /\ current \in Nat
      BY DEF EditorInv
    <2> QED
      BY <1>1, <2>1, RememberedIs
  <1>3. Sound(editor)'
    BY <1>1, <1>2, EmptyKeeps
  <1> QED
    BY <1>1, <1>2, <1>3 DEF EditorInv

LEMMA EnteringKeeps ==
  ASSUME EditorInv, tinyrl_key_interrupt \/ KeyEnterReturns
  PROVE  EditorInv'
  <1>1. CASE tinyrl_key_interrupt
    BY <1>1, EmptyText, ReturnedKeeps DEF tinyrl_key_interrupt
  <1>2. CASE KeyEnterReturns
    <2>1. PICK chance \in Chance :
            \E x \in {ucli_shell_tinyrl_key_enter(editor, chance)} :
               /\ x.is = "command" /\ ~x.e.stray
               /\ Returned(Shown(Trimmed(x.e)))
      BY <1>2 DEF KeyEnterReturns
    <2> DEFINE x == ucli_shell_tinyrl_key_enter(editor, chance)
               l == Shown(Trimmed(x.e))
    <2>2. x.is = "command" /\ Returned(l)
      BY <2>1
    <2>3. lines \in Seq(Entries) /\ views \in Views /\ Kept(editor)
      BY <2>2, EditorSound DEF Returned
    <2>4. Kept(x.e)
      BY <2>2, <2>3, KeyEnterIs
    <2> HIDE DEF x
    <2>5. l \in Text
      BY <2>3, <2>4, TrimmedIs
    <2> HIDE DEF l
    <2> QED
      BY <2>2, <2>5, ReturnedKeeps
  <1> QED
    BY <1>1, <1>2

LEMMA EndingKeeps ==
  ASSUME EditorInv, EndOfInput \/ ScriptEnter
  PROVE  EditorInv'
  <1>1. editor' = Empty /\ mode' = "idle" /\ UNCHANGED <<kill, lines, current, views>>
    BY DEF EndOfInput, ScriptEnter
  <1>2. stream' = <<>> \/ stream' = stream
    BY DEF EndOfInput, ScriptEnter
  <1>3. Sound(editor)'
    BY <1>1, EmptyKeeps DEF EditorInv
  <1>4. <<>> \in Seq({Newline} \cup DOMAIN Rank)
    OBVIOUS
  <1> QED
    BY <1>1, <1>2, <1>3, <1>4 DEF EditorInv

(* What a piece of a script makes of the editor, unless something of it is lost. *)
LEMMA PieceIs ==
  ASSUME EditorInv, fgets
  PROVE  /\ ~editor.stray /\ editor' \in Editor
         /\ ~editor'.stray => Fills(editor, editor')
         /\ stream' \in Seq({Newline} \cup DOMAIN Rank)
         /\ mode' \in {"pieces", "idle", "enter"}
         /\ UNCHANGED <<kill, lines, current, views>>
  <1> DEFINE S     == {Newline} \cup DOMAIN Rank
             taken == Taken_by_fgets(stream)
             text  == WithoutNewline(taken)
             s     == Stripped(text)
  <1>1. PICK chance \in Memory :
          editor' = [IF s = <<>> THEN editor ELSE tinyrl_insert_text(editor, s, chance) EXCEPT
                       !.stray = Refused(editor, editor.end + Len(s), chance)]
    BY DEF fgets
  <1>2. /\ ~editor.stray /\ stream' = SubSeq(stream, Len(taken) + 1, Len(stream))
        /\ mode' \in {"pieces", "idle", "enter"} /\ UNCHANGED <<kill, lines, current, views>>
    BY DEF fgets
  <1> DEFINE x     == IF s = <<>> THEN editor ELSE tinyrl_insert_text(editor, s, chance)
             stray == Refused(editor, editor.end + Len(s), chance)
  <1>3. lines \in Seq(Entries) /\ Kept(editor) /\ stream \in Seq(S)
    BY <1>2, EditorSound DEF EditorInv
  <1>4. taken \in Seq(S) /\ stream' \in Seq(S) /\ \A i \in 1 .. Len(taken) - 1 : taken[i] # Newline
    BY <1>2, <1>3, TakenFits
  <1>5. s \in Text
    <2> HIDE DEF taken
    <2>1. text \in Text
      BY <1>4, LineText
    <2> HIDE DEF text
    <2> QED
      BY <2>1, StrippedText
  <1> HIDE DEF s, taken
  <1>6. Fills(editor, x) /\ x.stray = editor.stray
    <2>1. CASE s = <<>>
      BY <1>3, <2>1, FillsSame
    <2>2. CASE s # <<>>
      BY <1>3, <1>5, <2>2, InsertFills
    <2> QED
      BY <2>1, <2>2
  <1>7. editor' = [x EXCEPT !.stray = stray]
    BY <1>1
  <1>8. stray \in BOOLEAN /\ x \in Editor
    BY <1>6 DEF Refused, Memory, Fills, Kept
  <1> HIDE DEF x, stray
  <1>9. editor' \in Editor /\ editor'.stray = stray
    BY <1>7, <1>8 DEF Editor
  <1>10. ASSUME ~stray PROVE editor' = x
    <2>1. x.stray = stray
      BY <1>2, <1>3, <1>6, <1>8, <1>10 DEF Kept, Editor
    <2> QED
      BY <1>7, <1>8, <2>1 DEF Editor
  <1> QED
    BY <1>2, <1>4, <1>6, <1>9, <1>10

LEMMA PieceKeeps ==
  ASSUME EditorInv, fgets
  PROVE  EditorInv'
  <1>1. /\ editor' \in Editor /\ (~editor'.stray => Kept(editor'))
        /\ stream' \in Seq({Newline} \cup DOMAIN Rank)
        /\ mode' \in {"pieces", "idle", "enter"}
        /\ UNCHANGED <<kill, lines, current, views>>
    BY PieceIs DEF Fills
  <1>2. Shown(editor)' = Shown(editor')
    BY <1>1 DEF Shown
  <1>3. Sound(editor)'
    BY <1>1, <1>2 DEF Sound, Kept, Editor
  <1> QED
    BY <1>1, <1>3 DEF EditorInv

LEMMA EditorStep ==
  ASSUME EditorInv, [Next]_vars
  PROVE  EditorInv'
  <1>1. ASSUME UNCHANGED vars PROVE EditorInv'
    BY <1>1 DEF vars, EditorInv, Sound, Kept, Editor, Shown
  <1> QED
    BY <1>1, EditingKeeps, ViewingKeeps, CompletingKeeps, ReadlineKeeps, EnteringKeeps, EndingKeeps, PieceKeeps
       DEF Next, Key

LEMMA InvAlways ==
  Spec => []EditorInv
  BY EditorInit, EditorStep, PTL DEF Spec

(* LineKept holds in every state of the editor, for any characters, views, lengths and
   numbers of lines: while no key has worked on text that was not shown, the end and the
   cursor are those of the line shown, and the buffer has room for what it holds. *)
THEOREM LineIsKept ==
  Spec => []LineKept
  <1>1. EditorInv => LineKept
    <2> SUFFICES ASSUME EditorInv PROVE LineKept
      OBVIOUS
    <2>1. mode \in {"idle", "keys", "pieces", "enter"} /\ editor.view \in 0 .. Len(lines)
      BY DEF EditorInv, Sound, Editor
    <2>2. ASSUME ~editor.stray PROVE editor.end = Len(Shown(editor)) /\ editor.point \in 0 .. editor.end
                                      /\ Len(editor.buffer) <= editor.size
      BY <2>2, EditorSound DEF Kept
    <2> QED
      BY <2>1, <2>2 DEF LineKept
  <1> QED
    BY <1>1, InvAlways, PTL

(* CompletionsOnce holds in every state, for any two views: the iterator over them gives
   each command that completes the text before the cursor once, in their order. *)
THEOREM CompletesOnce ==
  Spec => []CompletionsOnce
  <1>1. EditorInv => CompletionsOnce
    <2> SUFFICES ASSUME EditorInv, ~editor.stray PROVE CompletionsOnce
      BY DEF CompletionsOnce
    <2> DEFINE line == SubSeq(Shown(editor), 1, editor.point)
               L    == Completing(views.local, line)
               G    == Completing(views.global, line)
               c    == Completions(views, line)
    <2>1. views \in Views
      BY DEF EditorInv
    <2>2. c \in Seq(Item(L, G)) /\ InOrder(c, L, G) /\ Results(c) = L \cup G
      BY <2>1, CompletionsAre
    <2>3. \A name \in L \cup G : name \in L <=> name \in views.local
      BY DEF Completing
    <2> HIDE DEF L, G, c
    <2>4. \A n \in DOMAIN c : c[n].result \in L \cup G
      BY <2>2 DEF Results
    <2>5. \A n \in DOMAIN c : c[n].from = "local" <=> c[n].result \in views.local
      BY <2>2, <2>3, <2>4 DEF InOrder
    <2>6. \A m, n \in DOMAIN c : m < n => Before(c[m].result, c[n].result)
      BY <2>2 DEF InOrder
    <2> QED
      BY <2>2, <2>5, <2>6 DEF CompletionsOnce, Results, L, G, c
  <1> QED
    BY <1>1, InvAlways, PTL

-----------------------------------------------------------------------------
(* The lines of a script, from its pieces. *)

Chars == {Newline} \cup DOMAIN Rank

(* All but the blanks at the begin is left. *)
LEMMA BlanksEnd ==
  ASSUME NEW S, NEW s \in Seq(S)
  PROVE  \E j \in 0 .. Len(s) :
           /\ SkipBlanks(s) = SubSeq(s, j + 1, Len(s))
           /\ \A k \in 1 .. j : s[k] = Space
           /\ j < Len(s) => s[j + 1] # Space
  <1>1. Len(s) \in Nat /\ 1 \in 1 .. Len(s) + 1
    OBVIOUS
  <1>2. PICK i \in 1 .. Len(s) + 1 :
           /\ Len(Span(s, 1, {Space})) = i - 1
           /\ \A k \in 1 .. i - 1 : s[k] \in {Space}
           /\ i <= Len(s) => s[i] \notin {Space}
    BY <1>1, SpanIs
  <1> DEFINE j == i - 1
  <1>3. j \in 0 .. Len(s) /\ j + 1 = i
    BY <1>1
  <1>4. SkipBlanks(s) = SubSeq(s, j + 1, Len(s))
    BY <1>2 DEF SkipBlanks
  <1>5. \A k \in 1 .. j : s[k] = Space
    BY <1>2
  <1>6. j < Len(s) => s[j + 1] # Space
    BY <1>1, <1>2, <1>3
  <1> QED
    BY <1>3, <1>4, <1>5, <1>6

(* There is one place only where they can end. *)
LEMMA BlanksEndAt ==
  ASSUME NEW S, NEW s \in Seq(S), NEW j \in 0 .. Len(s),
         \A k \in 1 .. j : s[k] = Space, j < Len(s) => s[j + 1] # Space
  PROVE  SkipBlanks(s) = SubSeq(s, j + 1, Len(s))
  <1>1. PICK i \in 0 .. Len(s) :
           /\ SkipBlanks(s) = SubSeq(s, i + 1, Len(s))
           /\ \A k \in 1 .. i : s[k] = Space
           /\ i < Len(s) => s[i + 1] # Space
    BY BlanksEnd
  <1>2. Len(s) \in Nat
    OBVIOUS
  <1>3. ASSUME i < j PROVE FALSE
    <2>1. i + 1 \in 1 .. j /\ i < Len(s)
      BY <1>2, <1>3
    <2> QED
      BY <1>1, <2>1
  <1>4. ASSUME j < i PROVE FALSE
    <2>1. j + 1 \in 1 .. i /\ j < Len(s)
      BY <1>2, <1>4
    <2> QED
      BY <1>1, <2>1
  <1>5. i = j
    BY <1>2, <1>3, <1>4
  <1> QED
    BY <1>1, <1>5

(* What follows a text that is not blank stays as it is, blanks and all. *)
LEMMA BlanksOfBoth ==
  ASSUME NEW S, NEW s \in Seq(S), NEW t \in Seq(S)
  PROVE  SkipBlanks(s \o t) = IF SkipBlanks(s) = <<>> THEN SkipBlanks(t) ELSE SkipBlanks(s) \o t
  <1> DEFINE m == Len(s)
             n == Len(t)
             u == s \o t
  <1>1. m \in Nat /\ n \in Nat /\ u \in Seq(S) /\ Len(u) = m + n
    BY Both
  <1>2. (\A i \in 1 .. m : u[i] = s[i]) /\ \A i \in 1 .. n : u[m + i] = t[i]
    BY Both
  <1>3. PICK j \in 0 .. m :
           /\ SkipBlanks(s) = SubSeq(s, j + 1, m)
           /\ \A k \in 1 .. j : s[k] = Space
           /\ j < m => s[j + 1] # Space
    BY BlanksEnd
  <1>4. /\ SubSeq(s, 1, j) \in Seq(S) /\ Len(SubSeq(s, 1, j)) = j
        /\ SubSeq(s, j + 1, m) \in Seq(S) /\ Len(SubSeq(s, j + 1, m)) = m - j
        /\ SubSeq(s, 1, j) \o SubSeq(s, j + 1, m) = s
    BY CutAt
  <1>5. CASE j < m
    <2> DEFINE a == SubSeq(s, 1, j)
               b == SubSeq(s, j + 1, m)
    <2>1. b # <<>>
      <3>1. m - j > 0 /\ Len(<<>>) = 0
        BY <1>1, <1>5
      <3>2. Len(b) = m - j
        BY <1>4
      <3> HIDE DEF b
      <3> QED
        BY <3>1, <3>2
    <2>2. j \in 0 .. Len(u) /\ j + 1 \in 1 .. m /\ j < Len(u) /\ \A k \in 1 .. j : k \in 1 .. m
      BY <1>1, <1>5
    <2>3. u[j + 1] # Space /\ \A k \in 1 .. j : u[k] = Space
      BY <1>2, <1>3, <1>5, <2>2
    <2>4. SkipBlanks(u) = SubSeq(u, j + 1, Len(u))
      <3> HIDE DEF u
      <3> QED
        BY <1>1, <2>2, <2>3, BlanksEndAt
    <2>5. a \in Seq(S) /\ b \in Seq(S) /\ Len(a) = j /\ Len(b) = m - j /\ a \o b = s
      BY <1>4
    <2> HIDE DEF a, b
    <2>6. u = a \o (b \o t)
      <3>1. a \in Seq(S) /\ b \in Seq(S)
        BY <2>5
      <3>2. (a \o b) \o t = a \o (b \o t)
        BY ONLY <3>1, t \in Seq(S), ConcatAssociative
      <3> QED
        BY <2>5, <3>2
    <2>7. b \o t \in Seq(S) /\ Len(b \o t) = (m - j) + n
      BY <2>5, Both
    <2>8. SubSeq(u, j + 1, Len(u)) = b \o t
      <3>1. j + ((m - j) + n) = m + n
        BY <1>1
      <3>2. SubSeq(a \o (b \o t), Len(a) + 1, Len(a) + Len(b \o t)) = b \o t
        BY <2>5, <2>7, PartsOf
      <3> QED
        BY <1>1, <2>5, <2>6, <2>7, <3>1, <3>2
    <2> QED
      BY <1>3, <2>1, <2>4, <2>8 DEF b
  <1>6. CASE j = m
    <2>1. SkipBlanks(s) = <<>>
      BY <1>1, <1>3, <1>4, <1>6
    <2>2. PICK i \in 0 .. n :
             /\ SkipBlanks(t) = SubSeq(t, i + 1, n)
             /\ \A k \in 1 .. i : t[k] = Space
             /\ i < n => t[i + 1] # Space
      BY BlanksEnd
    <2> DEFINE a == SubSeq(t, 1, i)
               b == SubSeq(t, i + 1, n)
    <2>3. a \in Seq(S) /\ Len(a) = i /\ b \in Seq(S) /\ Len(b) = n - i /\ a \o b = t
      BY CutAt
    <2>4. m + i \in 0 .. Len(u)
      BY <1>1
    <2>5. ASSUME NEW k \in 1 .. m + i PROVE u[k] = Space
      <3>1. CASE k <= m
        BY <1>1, <1>2, <1>3, <1>6, <3>1
      <3>2. CASE k > m
        <4>1. k - m \in 1 .. i /\ k - m \in 1 .. n /\ m + (k - m) = k
          BY <1>1, <3>2
        <4> QED
          BY <1>2, <2>2, <4>1
      <3> QED
        BY <1>1, <3>1, <3>2
    <2>6. ASSUME m + i < Len(u) PROVE u[(m + i) + 1] # Space
      <3>1. i < n /\ i + 1 \in 1 .. n /\ m + (i + 1) = (m + i) + 1
        BY <1>1, <2>6
      <3>2. u[m + (i + 1)] = t[i + 1]
        BY <1>2, <3>1
      <3> QED
        BY <2>2, <3>1, <3>2
    <2>7. SkipBlanks(u) = SubSeq(u, (m + i) + 1, Len(u))
      <3> HIDE DEF u
      <3> QED
        BY <1>1, <2>4, <2>5, <2>6, BlanksEndAt
    <2> HIDE DEF a, b
    <2>8. u = (s \o a) \o b /\ s \o a \in Seq(S) /\ Len(s \o a) = m + i
      <3>1. a \in Seq(S) /\ b \in Seq(S)
        BY <2>3
      <3>2. (s \o a) \o b = s \o (a \o b)
        BY ONLY <3>1, s \in Seq(S), ConcatAssociative, SMTT(30)
      <3>3. s \o a \in Seq(S) /\ Len(s \o a) = m + Len(a)
        BY <3>1, Both
      <3> QED
        BY <2>3, <3>2, <3>3
    <2>9. SubSeq((s \o a) \o b, Len(s \o a) + 1, Len(s \o a) + Len(b)) = b
      BY <2>3, <2>8, PartsOf
    <2>10. (m + i) + Len(b) = Len(u)
      BY <1>1, <2>3
    <2> QED
      BY <2>1, <2>2, <2>7, <2>8, <2>9, <2>10 DEF b
  <1> QED
    BY <1>1, <1>5, <1>6

(* The first line of a script ends where its first newline is, or with it. *)
LEMMA FirstLineIs ==
  ASSUME NEW s \in Seq(Chars), NEW n \in 0 .. Len(s), \A i \in 1 .. n : s[i] # Newline,
         n < Len(s) => s[n + 1] = Newline
  PROVE  FirstLine(s) = SubSeq(s, 1, n)
  <1> DEFINE set == DOMAIN Rank \ {Newline}
  <1>1. Len(s) \in Nat /\ 1 \in 1 .. Len(s) + 1
    OBVIOUS
  <1>2. PICK j \in 1 .. Len(s) + 1 :
           /\ Span(s, 1, set) = SubSeq(s, 1, j - 1)
           /\ \A k \in 1 .. j - 1 : s[k] \in set
           /\ j <= Len(s) => s[j] \notin set
    <2> HIDE DEF set
    <2> QED
      BY <1>1, SpanIs
  <1>3. ASSUME j <= n PROVE FALSE
    <2>1. j \in 1 .. Len(s) /\ j \in 1 .. n /\ j <= Len(s)
      BY <1>1, <1>3
    <2>2. s[j] \in Chars /\ s[j] # Newline
      BY <2>1, ElementsOf
    <2> QED
      BY <1>2, <2>1, <2>2 DEF Chars
  <1>4. ASSUME j > n + 1 PROVE FALSE
    <2>1. n + 1 \in 1 .. j - 1 /\ n < Len(s)
      BY <1>1, <1>4
    <2> QED
      BY <1>2, <2>1
  <1>5. j = n + 1
    BY <1>1, <1>3, <1>4
  <1>6. j - 1 = n
    BY <1>1, <1>5
  <1> QED
    BY <1>2, <1>6 DEF FirstLine

(* What is put together of the text of a script: the first n characters, in which there
   is no newline. *)
Gathered(n) ==
  /\ n \in 0 .. Len(given) /\ stream = SubSeq(given, n + 1, Len(given))
  /\ \A i \in 1 .. n : given[i] # Newline
  /\ editor.view = 0 /\ editor.buffer = SkipBlanks(SubSeq(given, 1, n))
  /\ editor.point = Len(editor.buffer)

(* As long as nothing is lost, as many characters are read as some full pieces have. *)
PiecesInv ==
  /\ given \in Seq(Chars)
  /\ mode = "pieces" /\ ~editor.stray => \E q \in Nat : Gathered(q * Piece)
  /\ PiecesMakeLines

(* The text of a piece, and how it ends: a full piece without a newline, the end of the
   script, or the end of the line. *)
LEMMA TextOfPiece ==
  ASSUME NEW S, NEW s \in Seq(S), NEW t, t = Taken_by_fgets(s), NEW x, x = WithoutNewline(t)
  PROVE  /\ x \in Seq(S) /\ Len(x) \in 0 .. Len(t) /\ Len(t) \in 0 .. Len(s) /\ Len(t) <= Piece
         /\ x = SubSeq(s, 1, Len(x))
         /\ \A i \in 1 .. Len(x) : s[i] # Newline
         /\ t = <<>> => Len(s) = 0
         /\ Len(x) = Piece => Len(t) = Piece
         /\ x # t => Len(x) + 1 = Len(t) /\ s[Len(x) + 1] = Newline
         /\ x = t => Len(t) = Piece \/ Len(t) = Len(s)
  <1> DEFINE n == Len(t)
             m == IF t # <<>> /\ t[n] = Newline THEN n - 1 ELSE n
  <1>1. /\ t \in Seq(S) /\ n \in 0 .. Len(s) /\ n <= Piece
        /\ \A i \in 1 .. n : t[i] = s[i]
        /\ \A i \in 1 .. n - 1 : s[i] # Newline
        /\ n = Piece \/ n = Len(s) \/ (n > 0 /\ s[n] = Newline)
    BY TakenAll
  <1>2. Len(s) \in Nat /\ n \in Nat /\ Piece \in Nat /\ Piece > 0 /\ (t = <<>> <=> n = 0)
    BY <1>1, EditorAssumption
  <1>3. m \in 0 .. n
    BY <1>2
  <1>4. x = SubSeq(t, 1, m)
    <2>1. SubSeq(t, 1, n) = t
      BY <1>1, CutAt, n \in 0 .. Len(t)
    <2> QED
      BY <2>1 DEF WithoutNewline, Front, Last
  <1>5. m < n <=> t # <<>> /\ t[n] = Newline
    BY <1>2
  <1>6. m < n => m + 1 = n
    BY <1>2
  <1> HIDE DEF m
  <1>7. x \in Seq(S) /\ Len(x) = m /\ \A i \in 1 .. m : x[i] = t[i]
    <2>1. SubSeq(t, 1, m) \in Seq(S) /\ Len(SubSeq(t, 1, m)) = m
      BY <1>1, <1>3, CutAt
    <2>2. \A i \in 1 .. m : SubSeq(t, 1, m)[i] = t[i]
      BY <1>1, <1>2, <1>3, PartOf
    <2> QED
      BY <1>4, <2>1, <2>2
  <1>8. x = SubSeq(s, 1, m)
    <2>1. SubSeq(s, 1, m) \in Seq(S) /\ Len(SubSeq(s, 1, m)) = m
      BY <1>1, <1>3, CutAt
    <2>2. \A i \in 1 .. m : SubSeq(s, 1, m)[i] = s[i]
      BY <1>1, <1>2, <1>3, PartOf
    <2>3. \A i \in 1 .. m : i \in 1 .. n
      BY <1>1, <1>3
    <2> DEFINE y == SubSeq(s, 1, m)
    <2> HIDE DEF y
    <2>4. y \in Seq(S) /\ x \in Seq(S) /\ Len(x) = Len(y)
      BY <1>7, <2>1 DEF y
    <2>5. \A i \in 1 .. Len(x) : x[i] = y[i]
      BY <1>1, <1>7, <2>2, <2>3 DEF y
    <2>6. x = y
      BY ONLY <2>4, <2>5, SameSeq
    <2> QED
      BY <2>6 DEF y
  <1>9. \A i \in 1 .. m : s[i] # Newline
    <2> SUFFICES ASSUME NEW i \in 1 .. m PROVE s[i] # Newline
      OBVIOUS
    <2>1. CASE i \in 1 .. n - 1
      BY <1>1, <2>1
    <2>2. CASE i = n
      <3>1. ~(m < n) /\ n > 0
        BY <1>2, <1>3, <2>2
      <3>2. t[n] # Newline /\ t[n] = s[n]
        BY <1>1, <1>2, <1>5, <3>1
      <3> QED
        BY <2>2, <3>2
    <2>3. i \in 1 .. n - 1 \/ i = n
      BY <1>2, <1>3
    <2> QED
      BY <2>1, <2>2, <2>3
  <1>10. x = t <=> ~(m < n)
    <2>1. ASSUME x = t PROVE ~(m < n)
      BY <1>2, <1>7, <2>1
    <2>2. ASSUME ~(m < n) PROVE x = t
      <3>1. m = n
        BY <1>2, <1>3, <2>2
      <3> QED
        BY <1>1, <1>4, <3>1, CutAt, n \in 0 .. Len(t)
    <2> QED
      BY <2>1, <2>2
  <1>11. t = <<>> => Len(s) = 0
    BY <1>1, <1>2
  <1>12. m = Piece => n = Piece
    BY <1>1, <1>2, <1>3
  <1>13. m < n => s[m + 1] = Newline
    <2> SUFFICES ASSUME m < n PROVE s[m + 1] = Newline
      OBVIOUS
    <2>1. t[n] = Newline /\ m + 1 = n /\ n \in 1 .. n
      BY <1>2, <1>5, <1>6
    <2> QED
      BY <1>1, <2>1
  <1>14. ~(m < n) => n = Piece \/ n = Len(s)
    <2> SUFFICES ASSUME ~(m < n), n # Piece, n # Len(s) PROVE FALSE
      OBVIOUS
    <2>1. n > 0 /\ s[n] = Newline /\ n \in 1 .. n
      BY <1>1, <1>2
    <2>2. t[n] = Newline /\ t # <<>>
      BY <1>1, <1>2, <2>1
    <2> QED
      BY <1>5, <2>2
  <1> QED
    BY <1>1, <1>2, <1>3, <1>6, <1>7, <1>8, <1>9, <1>10, <1>11, <1>12, <1>13, <1>14

(* At the end of the buffer, text is put behind what is there. *)
LEMMA InsertAtEnd ==
  ASSUME lines \in Seq(Entries), NEW c, Kept(c), c.view = 0, c.point = Len(c.buffer),
         NEW text \in Text, NEW chance, ~Refused(c, c.end + Len(text), chance),
         NEW r, r = tinyrl_insert_text(c, text, chance)
  PROVE  r.view = 0 /\ r.buffer = c.buffer \o text /\ r.point = Len(r.buffer)
  <1>1. r = WithText(c, text, chance)
    BY DEF tinyrl_insert_text, changed_line
  <1>2. Kept(r) /\ r.view = 0 /\ Right(r) = Right(c) /\ Left(r) = Left(c) \o text
    BY <1>1, WithTextIs
  <1>3. Shown(c) = c.buffer /\ Shown(r) = r.buffer
    BY <1>2 DEF Shown
  <1>4. /\ Left(c) \in Seq(DOMAIN Rank) /\ Len(Left(c)) = c.point /\ Right(c) \in Seq(DOMAIN Rank)
        /\ Len(Right(c)) = c.end - c.point /\ Left(c) \o Right(c) = c.buffer
        /\ c.end = c.point /\ c.end \in Nat
    <2>1. /\ Left(c) \in Seq(DOMAIN Rank) /\ Len(Left(c)) = c.point /\ Right(c) \in Seq(DOMAIN Rank)
          /\ Len(Right(c)) = c.end - c.point /\ Left(c) \o Right(c) = Shown(c)
          /\ c.end = Len(Shown(c)) /\ c.end \in Nat
      BY SidesAre
    <2> QED
      BY <1>3, <2>1
  <1>5. Right(c) = <<>>
    <2>1. Len(Right(c)) = 0
      BY <1>4
    <2> QED
      BY <1>4, <2>1
  <1>6. Left(r) \in Seq(DOMAIN Rank) /\ Left(r) \o Right(r) = r.buffer /\ Len(Left(r)) = r.point
    BY <1>2, <1>3, SidesAre
  <1>7. Left(c) = c.buffer /\ r.buffer = Left(r)
    <2>1. \A s \in Seq(DOMAIN Rank) : s \o <<>> = s
      OBVIOUS
    <2>2. Left(c) \o <<>> = Left(c) /\ Left(r) \o <<>> = Left(r)
      BY <1>4, <1>6, <2>1
    <2> QED
      BY <1>2, <1>4, <1>5, <1>6, <2>2
  <1> QED
    BY <1>2, <1>6, <1>7

(* A piece of a script is put behind what is there, unless something of it is lost. *)
LEMMA PieceAppends ==
  ASSUME EditorInv, fgets, ~editor'.stray, editor.view = 0, editor.point = Len(editor.buffer),
         NEW x, x = WithoutNewline(Taken_by_fgets(stream))
  PROVE  /\ x \in Text
         /\ editor'.view = 0 /\ editor'.buffer = editor.buffer \o Stripped(x)
         /\ editor'.point = Len(editor'.buffer)
  <1> DEFINE S     == {Newline} \cup DOMAIN Rank
             taken == Taken_by_fgets(stream)
             s     == Stripped(x)
  <1>1. PICK chance \in Memory :
          editor' = [IF s = <<>> THEN editor ELSE tinyrl_insert_text(editor, s, chance) EXCEPT
                       !.stray = Refused(editor, editor.end + Len(s), chance)]
    BY DEF fgets
  <1>2. ~editor.stray
    BY DEF fgets
  <1> DEFINE y     == IF s = <<>> THEN editor ELSE tinyrl_insert_text(editor, s, chance)
             stray == Refused(editor, editor.end + Len(s), chance)
  <1>3. lines \in Seq(Entries) /\ Kept(editor) /\ stream \in Seq(S)
    BY <1>2, EditorSound DEF EditorInv
  <1>4. taken \in Seq(S) /\ \A i \in 1 .. Len(taken) - 1 : taken[i] # Newline
    BY <1>3, TakenFits
  <1>5. x \in Text
    <2>1. x = WithoutNewline(taken)
      OBVIOUS
    <2> HIDE DEF taken
    <2> QED
      BY <1>4, <2>1, LineText
  <1>6. s \in Text
    BY <1>5, StrippedText
  <1> HIDE DEF s, taken
  <1>7. Kept(y) /\ y \in Editor
    <2>1. CASE s = <<>>
      BY <1>3, <2>1 DEF Kept
    <2>2. CASE s # <<>>
      BY <1>3, <1>6, <2>2, InsertFills DEF Fills, Kept
    <2> QED
      BY <2>1, <2>2
  <1>8. editor' = [y EXCEPT !.stray = stray]
    BY <1>1
  <1> HIDE DEF y
  <1>9. editor'.view = y.view /\ editor'.buffer = y.buffer /\ editor'.point = y.point /\ ~stray
    BY <1>7, <1>8 DEF Editor
  <1>10. y.view = 0 /\ y.buffer = editor.buffer \o s /\ y.point = Len(y.buffer)
    <2>1. CASE s = <<>>
      <3>1. y = editor /\ editor.buffer \in Seq(DOMAIN Rank)
        BY <1>3, <2>1 DEF y, Kept, Editor, Text
      <3>2. editor.buffer \o <<>> = editor.buffer
        BY <3>1
      <3> QED
        BY <2>1, <3>1, <3>2
    <2>2. CASE s # <<>>
      <3>1. y = tinyrl_insert_text(editor, s, chance)
        BY <2>2 DEF y
      <3> QED
        BY <1>3, <1>6, <1>9, <3>1, InsertAtEnd, SMTT(30)
    <2> QED
      BY <2>1, <2>2
  <1> QED
    BY <1>5, <1>9, <1>10 DEF s

(* What is behind a place. *)
LEMMA BehindPart ==
  ASSUME NEW S, NEW s \in Seq(S), NEW n \in 0 .. Len(s), NEW t, t = SubSeq(s, n + 1, Len(s))
  PROVE  \A i \in 1 .. Len(t) : t[i] = s[n + i]
  <1>1. /\ SubSeq(s, 1, n) \in Seq(S) /\ Len(SubSeq(s, 1, n)) = n
        /\ t \in Seq(S) /\ SubSeq(s, 1, n) \o t = s
    BY CutAt
  <1> DEFINE a == SubSeq(s, 1, n)
  <1>2. a \in Seq(S) /\ t \in Seq(S) /\ Len(a) = n /\ a \o t = s
    BY <1>1
  <1> HIDE DEF a
  <1>3. a \in Seq(S) /\ t \in Seq(S)
    BY <1>2
  <1>4. \A i \in 1 .. Len(t) : (a \o t)[Len(a) + i] = t[i]
    BY ONLY <1>3, Both
  <1> QED
    BY <1>2, <1>4

Joined(u, a, b) == u = a \o b

(* What is taken from there on. *)
LEMMA StartOfPart ==
  ASSUME NEW S, NEW s \in Seq(S), NEW n \in 0 .. Len(s), NEW t, t = SubSeq(s, n + 1, Len(s)),
         NEW m \in 0 .. Len(t)
  PROVE  /\ n + m \in 0 .. Len(s)
         /\ SubSeq(t, m + 1, Len(t)) = SubSeq(s, (n + m) + 1, Len(s))
         /\ Joined(SubSeq(s, 1, n + m), SubSeq(s, 1, n), SubSeq(t, 1, m))
  <1>1. /\ SubSeq(s, 1, n) \in Seq(S) /\ Len(SubSeq(s, 1, n)) = n
        /\ t \in Seq(S) /\ Len(t) = Len(s) - n /\ SubSeq(s, 1, n) \o t = s
    BY CutAt
  <1> DEFINE a == SubSeq(s, 1, n)
             b == SubSeq(t, 1, m)
             c == SubSeq(t, m + 1, Len(t))
  <1>2. b \in Seq(S) /\ Len(b) = m /\ c \in Seq(S) /\ Len(c) = Len(t) - m /\ b \o c = t
    <2>1. t \in Seq(S) /\ m \in 0 .. Len(t)
      BY <1>1
    <2> QED
      BY ONLY <2>1, CutAt
  <1>3. a \in Seq(S) /\ Len(a) = n /\ a \o t = s
    BY <1>1
  <1>4. Len(s) \in Nat /\ Len(t) \in Nat /\ n \in Nat /\ m \in Nat
    BY <1>1
  <1> HIDE DEF a, b, c
  <1>5. a \o b \in Seq(S) /\ Len(a \o b) = n + m
    BY <1>2, <1>3, Both
  <1>6. (a \o b) \o c = a \o (b \o c)
    <2>1. a \in Seq(S) /\ b \in Seq(S) /\ c \in Seq(S)
      BY <1>2, <1>3
    <2> QED
      BY ONLY <2>1, ConcatAssociative, SMTT(30)
  <1>7. (a \o b) \o c = s
    BY <1>2, <1>3, <1>6
  <1>8. /\ SubSeq((a \o b) \o c, 1, Len(a \o b)) = a \o b
        /\ SubSeq((a \o b) \o c, Len(a \o b) + 1, Len(a \o b) + Len(c)) = c
    BY <1>2, <1>5, PartsOf
  <1>9. (n + m) + Len(c) = Len(s) /\ n + m \in 0 .. Len(s)
    BY <1>1, <1>2, <1>4
  <1> QED
    BY <1>5, <1>7, <1>8, <1>9 DEF a, b, c, Joined

(* What is in the buffer after a piece is the text read so far, without the blanks it
   begins with. *)
LEMMA PieceGathers ==
  ASSUME EditorInv, given \in Seq(Chars), fgets, ~editor'.stray,
         NEW n \in Nat, Gathered(n),
         NEW t, t = Taken_by_fgets(stream), NEW x, x = WithoutNewline(t)
  PROVE  /\ given' = given
         /\ Len(x) \in 0 .. Len(t) /\ Len(t) <= Piece /\ Len(stream) = Len(given) - n
         /\ n + Len(x) \in 0 .. Len(given) /\ n + Len(t) \in 0 .. Len(given)
         /\ stream' = SubSeq(given, (n + Len(t)) + 1, Len(given))
         /\ \A i \in 1 .. n + Len(x) : given[i] # Newline
         /\ editor'.view = 0 /\ editor'.buffer = SkipBlanks(SubSeq(given, 1, n + Len(x)))
         /\ editor'.point = Len(editor'.buffer)
         /\ t = <<>> => Len(stream) = 0
         /\ Len(x) = Piece => Len(t) = Piece
         /\ x # t => n + Len(x) < Len(given) /\ given[(n + Len(x)) + 1] = Newline
         /\ x = t => Len(t) = Piece \/ Len(t) = Len(stream)
  <1> DEFINE p == SubSeq(given, 1, n)
  <1>1. /\ n \in 0 .. Len(given) /\ stream = SubSeq(given, n + 1, Len(given))
        /\ \A i \in 1 .. n : given[i] # Newline
        /\ editor.view = 0 /\ editor.buffer = SkipBlanks(p)
        /\ editor.point = Len(editor.buffer)
    BY DEF Gathered
  <1>2. given' = given /\ stream' = SubSeq(stream, Len(t) + 1, Len(stream)) /\ ~editor.stray
    BY DEF fgets
  <1>3. stream \in Seq(Chars) /\ Len(stream) = Len(given) - n /\ p \in Seq(Chars) /\ Len(given) \in Nat
    BY <1>1, CutAt
  <1>4. /\ x \in Seq(Chars) /\ Len(x) \in 0 .. Len(t) /\ Len(t) \in 0 .. Len(stream) /\ Len(t) <= Piece
        /\ x = SubSeq(stream, 1, Len(x))
        /\ \A i \in 1 .. Len(x) : stream[i] # Newline
        /\ t = <<>> => Len(stream) = 0
        /\ Len(x) = Piece => Len(t) = Piece
        /\ x # t => Len(x) + 1 = Len(t) /\ stream[Len(x) + 1] = Newline
        /\ x = t => Len(t) = Piece \/ Len(t) = Len(stream)
    BY <1>3, TextOfPiece, SMTT(30)
  <1>5. Len(x) \in 0 .. Len(stream) /\ Len(x) \in Nat /\ Len(t) \in Nat /\ Len(stream) \in Nat
    BY <1>3, <1>4
  <1>6. /\ n + Len(x) \in 0 .. Len(given)
        /\ SubSeq(given, 1, n + Len(x)) = p \o SubSeq(stream, 1, Len(x))
        /\ \A i \in 1 .. Len(stream) : stream[i] = given[n + i]
    <2>1. /\ given \in Seq(Chars) /\ n \in 0 .. Len(given) /\ Len(x) \in 0 .. Len(stream)
          /\ stream = SubSeq(given, n + 1, Len(given))
      BY <1>1, <1>5
    <2>2. n + Len(x) \in 0 .. Len(given)
      BY <1>3, <1>5, <2>1
    <2>4. SubSeq(given, 1, n + Len(x)) = SubSeq(given, 1, n) \o SubSeq(stream, 1, Len(x))
      <3>1. Joined(SubSeq(given, 1, n + Len(x)), SubSeq(given, 1, n), SubSeq(stream, 1, Len(x)))
        BY ONLY <2>1, StartOfPart
      <3> QED
        BY <3>1 DEF Joined
    <2>3. \A i \in 1 .. Len(stream) : stream[i] = given[n + i]
      BY ONLY <2>1, BehindPart
    <2> QED
      BY <2>2, <2>3, <2>4
  <1>7. /\ n + Len(t) \in 0 .. Len(given)
        /\ SubSeq(stream, Len(t) + 1, Len(stream)) = SubSeq(given, (n + Len(t)) + 1, Len(given))
    <2>1. /\ given \in Seq(Chars) /\ n \in 0 .. Len(given) /\ Len(t) \in 0 .. Len(stream)
          /\ stream = SubSeq(given, n + 1, Len(given))
      BY <1>1, <1>4
    <2> QED
      BY ONLY <2>1, StartOfPart
  <1>8. \A i \in 1 .. n + Len(x) : given[i] # Newline
    <2> SUFFICES ASSUME NEW i \in 1 .. n + Len(x) PROVE given[i] # Newline
      OBVIOUS
    <2>1. CASE i \in 1 .. n
      BY <1>1, <2>1
    <2>2. CASE i > n
      <3>1. i - n \in 1 .. Len(x) /\ i - n \in 1 .. Len(stream) /\ n + (i - n) = i
        BY <1>5, <2>2
      <3> QED
        BY <1>4, <1>6, <3>1
    <2>3. i \in 1 .. n \/ i > n
      BY <1>5
    <2> QED
      BY <2>1, <2>2, <2>3
  <1>9. x # t => n + Len(x) < Len(given) /\ given[(n + Len(x)) + 1] = Newline
    <2> SUFFICES ASSUME x # t PROVE n + Len(x) < Len(given) /\ given[(n + Len(x)) + 1] = Newline
      OBVIOUS
    <2>1. Len(x) + 1 \in 1 .. Len(stream) /\ n + (Len(x) + 1) = (n + Len(x)) + 1
      BY <1>4, <1>5
    <2>2. n + Len(x) < Len(given)
      BY <1>3, <1>5, <2>1
    <2> QED
      BY <1>4, <1>6, <2>1, <2>2
  <1>10. /\ editor'.view = 0 /\ editor'.buffer = editor.buffer \o Stripped(x)
         /\ editor'.point = Len(editor'.buffer)
    BY <1>1, PieceAppends
  <1> HIDE DEF p
  <1>11. editor.buffer \o Stripped(x) = SkipBlanks(p \o x)
    <2>1. SkipBlanks(p \o x) = IF SkipBlanks(p) = <<>> THEN SkipBlanks(x) ELSE SkipBlanks(p) \o x
      <3>1. p \in Seq(Chars) /\ x \in Seq(Chars)
        BY <1>3, <1>4
      <3> QED
        BY ONLY <3>1, BlanksOfBoth, SMTT(30)
    <2>2. editor.buffer \in Seq(DOMAIN Rank)
      BY DEF EditorInv, Sound, Editor, Text
    <2>3. CASE editor.buffer = <<>>
      <3>1. editor.point = 0
        BY <1>1, <2>3
      <3>2. SkipBlanks(x) \in Seq(Chars)
        <4>1. PICK j \in 0 .. Len(x) : SkipBlanks(x) = SubSeq(x, j + 1, Len(x))
          BY <1>4, BlanksEnd
        <4> QED
          BY <1>4, <4>1, CutAt
      <3>3. <<>> \o SkipBlanks(x) = SkipBlanks(x)
        BY <3>2
      <3> QED
        BY <1>1, <2>1, <2>3, <3>1, <3>3 DEF Stripped
    <2>4. CASE editor.buffer # <<>>
      <3>1. editor.point # 0
        BY <1>1, <2>2, <2>4
      <3> QED
        BY <1>1, <2>1, <2>4, <3>1 DEF Stripped
    <2> QED
      BY <2>3, <2>4
  <1>12. editor'.buffer = SkipBlanks(SubSeq(given, 1, n + Len(x)))
    BY <1>4, <1>6, <1>10, <1>11
  <1> QED
    BY <1>2, <1>3, <1>4, <1>6, <1>7, <1>8, <1>9, <1>10, <1>12

LEMMA FullPieces ==
  ASSUME NEW P \in Nat \ {0}, NEW q \in Nat
  PROVE  q * P \in Nat /\ (q * P) % P = 0 /\ (q + 1) * P = q * P + P
  OBVIOUS

LEMMA PieceGathered ==
  ASSUME EditorInv, PiecesInv, fgets
  PROVE  PiecesInv'
  <1> DEFINE t == Taken_by_fgets(stream)
             x == WithoutNewline(t)
  <1>1. given \in Seq(Chars) /\ mode = "pieces" /\ ~editor.stray /\ given' = given
    BY DEF fgets, PiecesInv
  <1>2. CASE editor'.stray
    BY <1>1, <1>2 DEF PiecesInv, PiecesMakeLines
  <1>3. CASE ~editor'.stray
    <2>1. PICK q \in Nat : Gathered(q * Piece)
      BY <1>1 DEF PiecesInv
    <2> DEFINE n == q * Piece
    <2>2. n \in Nat /\ n % Piece = 0 /\ (q + 1) * Piece = n + Piece /\ Piece \in Nat /\ Piece > 0
      BY EditorAssumption, FullPieces
    <2>3. Gathered(n)
      BY <2>1
    <2> HIDE DEF n
    <2>4. /\ Len(x) \in 0 .. Len(t) /\ Len(t) <= Piece /\ Len(stream) = Len(given) - n
          /\ n + Len(x) \in 0 .. Len(given) /\ n + Len(t) \in 0 .. Len(given)
          /\ stream' = SubSeq(given, (n + Len(t)) + 1, Len(given))
          /\ \A i \in 1 .. n + Len(x) : given[i] # Newline
          /\ editor'.view = 0 /\ editor'.buffer = SkipBlanks(SubSeq(given, 1, n + Len(x)))
          /\ editor'.point = Len(editor'.buffer)
          /\ t = <<>> => Len(stream) = 0
          /\ Len(x) = Piece => Len(t) = Piece
          /\ x # t => n + Len(x) < Len(given) /\ given[(n + Len(x)) + 1] = Newline
          /\ x = t => Len(t) = Piece \/ Len(t) = Len(stream)
      BY <1>1, <1>3, <2>2, <2>3, PieceGathers
    <2>5. \/ t # <<>> /\ Len(x) = Piece /\ mode' = mode /\ ended' = ended
          \/ /\ ~(t # <<>> /\ Len(x) = Piece)
             /\ t = <<>> \/ (Len(t) < Piece /\ x = t /\ editor'.buffer = <<>>)
             /\ mode' = "idle" /\ ended' = TRUE
          \/ /\ t # <<>> /\ Len(x) # Piece /\ mode' = "enter"
      BY DEF fgets
    <2>6. Len(given) \in Nat /\ Len(t) \in Nat /\ Len(x) \in Nat
      BY <1>1, <2>4
    <2> HIDE DEF t, x
    <2>7. CASE t # <<>> /\ Len(x) = Piece /\ mode' = mode /\ ended' = ended
      <3> DEFINE m == (q + 1) * Piece
      <3>1. m = n + Piece /\ q + 1 \in Nat
        BY <2>2
      <3> HIDE DEF m
      <3>2. Gathered(m)'
        BY <1>1, <2>4, <2>6, <2>7, <3>1 DEF Gathered
      <3>3. \E p \in Nat : Gathered(p * Piece)'
        BY <3>1, <3>2 DEF m
      <3> QED
        BY <1>1, <2>7, <3>3 DEF PiecesInv, PiecesMakeLines
    <2>8. CASE mode' = "idle" /\ (t = <<>> \/ (Len(t) < Piece /\ x = t /\ editor'.buffer = <<>>))
      <3>1. ASSUME t = <<>> PROVE Len(given) % Piece = 0
        <4>1. Len(given) = n
          BY <2>2, <2>4, <2>6, <3>1
        <4> QED
          BY <2>2, <4>1
      <3>2. ASSUME Len(t) < Piece, x = t, editor'.buffer = <<>> PROVE SkipBlanks(given) = <<>>
        <4>1. n + Len(x) = Len(given)
          BY <2>2, <2>4, <2>6, <3>2
        <4>2. SubSeq(given, 1, Len(given)) = given
          BY <1>1, SubSeqFull
        <4> QED
          BY <2>4, <3>2, <4>1, <4>2
      <3> QED
        BY <1>1, <2>8, <3>1, <3>2 DEF PiecesInv, PiecesMakeLines
    <2>9. CASE t # <<>> /\ Len(x) # Piece /\ mode' = "enter"
      <3>1. n + Len(x) < Len(given) => given[(n + Len(x)) + 1] = Newline
        <4>1. CASE x # t
          BY <2>4, <4>1
        <4>2. CASE x = t
          <5>1. Len(t) = Len(stream)
            BY <2>4, <2>9, <4>2
          <5> QED
            BY <2>2, <2>4, <2>6, <4>2, <5>1
        <4> QED
          BY <4>1, <4>2
      <3>2. FirstLine(given) = SubSeq(given, 1, n + Len(x))
        BY <1>1, <2>4, <3>1, FirstLineIs
      <3> QED
        BY <1>1, <2>4, <2>9, <3>2 DEF PiecesInv, PiecesMakeLines
    <2> QED
      BY <2>5, <2>7, <2>8, <2>9
  <1> QED
    BY <1>2, <1>3

(* Everything else that is done leaves the gathering alone: it begins with no character
   read, and it ends with an empty editor. *)
LEMMA OthersGather ==
  ASSUME EditorInv, PiecesInv, [Next]_vars, ~fgets
  PROVE  PiecesInv'
  <1>1. ASSUME UNCHANGED vars PROVE PiecesInv'
    BY <1>1 DEF vars, PiecesInv, PiecesMakeLines, Gathered
  <1>2. ASSUME NEW r, Becomes(r) PROVE PiecesInv'
    <2>1. mode' = "keys" /\ given' = given
      BY <1>2 DEF Becomes, OfReading
    <2> QED
      BY <2>1 DEF PiecesInv, PiecesMakeLines
  <1>3. ASSUME Key PROVE PiecesInv'
    <2>1. \E r : Becomes(r)
      BY <1>3 DEF Key, tinyrl_key_default, tinyrl_key_start_of_line, tinyrl_key_end_of_line,
                  tinyrl_key_left, tinyrl_key_right, tinyrl_key_backspace, tinyrl_key_delete,
                  tinyrl_key_erase_line, tinyrl_key_kill, tinyrl_key_yank,
                  tinyrl_key_up, tinyrl_key_down, KeySpace, KeyTab, KeyEnterStays
    <2> QED
      BY <1>2, <2>1
  <1>4. ASSUME mode' = "idle", editor' = Empty, given' \in Seq(Chars) PROVE PiecesInv'
    BY <1>4 DEF PiecesInv, PiecesMakeLines
  <1>5. CASE tinyrl_key_interrupt \/ KeyEnterReturns \/ EndOfInput
    <2>1. mode' = "idle" /\ editor' = Empty /\ given' = given
      BY <1>5 DEF tinyrl_key_interrupt, KeyEnterReturns, EndOfInput, Returned
    <2> QED
      BY <1>4, <2>1 DEF PiecesInv
  <1>6. CASE ScriptEnter
    <2>1. mode' = "idle" /\ editor' = Empty /\ given' = <<>>
      BY <1>6 DEF ScriptEnter
    <2> QED
      BY <1>4, <2>1
  <1>7. CASE tinyrl_readline
    <2>1. editor' = Empty /\ given' = stream' /\ mode' \in {"keys", "pieces"}
      BY <1>7 DEF tinyrl_readline
    <2>2. given' \in Seq(Chars)
      <3>1. EditorInv'
        BY <1>7, ReadlineKeeps
      <3> QED
        BY <2>1, <3>1 DEF EditorInv, Chars
    <2>3. Gathered(0)'
      <3>1. 0 \in 0 .. Len(given')
        BY <2>2
      <3>2. SubSeq(given', 1, Len(given')) = given' /\ SubSeq(given', 1, 0) = <<>>
        BY <2>2, <3>1, CutAt, SubSeqFull
      <3>3. SkipBlanks(<<>>) = <<>>
        <4>1. <<>> \in Seq(Chars) /\ Len(<<>>) = 0
          OBVIOUS
        <4>2. PICK j \in 0 .. Len(<<>>) : SkipBlanks(<<>>) = SubSeq(<<>>, j + 1, Len(<<>>))
          BY <4>1, BlanksEnd
        <4>3. Len(SubSeq(<<>>, j + 1, Len(<<>>))) = 0 /\ SubSeq(<<>>, j + 1, Len(<<>>)) \in Seq(Chars)
          BY <4>1, CutAt
        <4> QED
          BY <4>2, <4>3
      <3>4. \A i \in 1 .. 0 : given'[i] # Newline
        OBVIOUS
      <3>5. editor'.view = 0 /\ editor'.buffer = <<>> /\ editor'.point = Len(<<>>)
        BY <2>1 DEF Empty
      <3>6. SubSeq(given', 0 + 1, Len(given')) = stream'
        BY <2>1, <3>2
      <3> QED
        BY <3>1, <3>2, <3>3, <3>4, <3>5, <3>6 DEF Gathered
    <2>4. \E q \in Nat : Gathered(q * Piece)'
      <3>1. 0 * Piece = 0
        BY EditorAssumption
      <3> QED
        BY <2>3, <3>1
    <2> QED
      BY <2>1, <2>2, <2>4 DEF PiecesInv, PiecesMakeLines
  <1> QED
    BY <1>1, <1>3, <1>5, <1>6, <1>7 DEF Next

LEMMA GatheringInit ==
  ASSUME Init
  PROVE  PiecesInv
  <1>1. given \in Seq(Chars) /\ mode = "idle" /\ ended = FALSE
    BY DEF Init
  <1> QED
    BY <1>1 DEF PiecesInv, PiecesMakeLines

LEMMA GatheringStep ==
  ASSUME EditorInv, PiecesInv, [Next]_vars
  PROVE  PiecesInv'
  BY PieceGathered, OthersGather

(* PiecesMakeLines holds in every state, for scripts of any length and buffers of any
   size: a line that fgets() returns in pieces is put together as it is in the script,
   without the blanks it begins with, and a reading ends without a line only at the end
   of the script, with nothing but blanks left or a last line that fills its pieces. *)
THEOREM MakesLines ==
  Spec => []PiecesMakeLines
  <1>1. Init => EditorInv /\ PiecesInv
    BY EditorInit, GatheringInit
  <1>2. EditorInv /\ PiecesInv /\ [Next]_vars => (EditorInv /\ PiecesInv)'
    BY EditorStep, GatheringStep
  <1>3. EditorInv /\ PiecesInv => PiecesMakeLines
    BY DEF PiecesInv
  <1> QED
    BY <1>1, <1>2, <1>3, PTL DEF Spec

-----------------------------------------------------------------------------
(* What a reference stands for, and a line with the lines its references stand for. *)

(* f[n] is the first n of some sequences one after the other. *)
Flattened(f, ss) == f[0] = <<>> /\ \A n \in 1 .. Len(ss) : f[n] = f[n - 1] \o ss[n]

LEMMA FlattenIs ==
  ASSUME NEW S, NEW ss \in Seq(Seq(S))
  PROVE  \E f \in [0 .. Len(ss) -> Seq(S)] : Flattened(f, ss) /\ f[Len(ss)] = FlattenSeq(ss)
  <1> DEFINE N == Len(ss)
             T == Seq(S)
             A == [p \in (1 .. N) \X T |-> p[2] \o ss[p[1]]]
  <1>1. N \in Nat /\ (ss = <<>> <=> N = 0) /\ \A i \in 1 .. N : ss[i] \in T
    BY ElementsOf
  <1>2. <<>> \in T
    BY EmptySeq
  <1>3. A \in [(1 .. N) \X T -> T]
    <2> SUFFICES ASSUME NEW p \in (1 .. N) \X T PROVE p[2] \o ss[p[1]] \in T
      OBVIOUS
    <2>1. p[2] \in Seq(S) /\ ss[p[1]] \in Seq(S)
      BY <1>1
    <2> QED
      BY <2>1, Both
  <1>4. PICK f \in [0 .. N -> T] : Recursive(f, N, <<>>, A)
    <2> HIDE DEF A, T, N
    <2> QED
      BY <1>1, <1>2, <1>3, RecursionExists
  <1>5. f[0] = <<>> /\ \A n \in 1 .. N : f[n] = A[<<n, f[n - 1]>>] /\ f[n - 1] \in T
    <2> HIDE DEF A, T, N
    <2> QED
      <3>1. \A n \in 0 .. N : f[n] = IF n = 0 THEN <<>> ELSE A[<<n, f[n - 1]>>]
        BY <1>4 DEF Recursive
      <3>2. 0 \in 0 .. N /\ \A n \in 1 .. N : n \in 0 .. N /\ n # 0
        BY <1>1
      <3>3. \A n \in 1 .. N : f[n - 1] \in T
        BY <1>1
      <3> QED
        BY <3>1, <3>2, <3>3, Zenon
  <1>6. \A n \in 1 .. N : f[n] = f[n - 1] \o ss[n] /\ f[n - 1] \in T
    <2> SUFFICES ASSUME NEW n \in 1 .. N PROVE A[<<n, f[n - 1]>>] = f[n - 1] \o ss[n]
      BY <1>5
    <2>1. <<n, f[n - 1]>> \in (1 .. N) \X T
      BY <1>5
    <2> QED
      BY <2>1
  <1>7. Flattened(f, ss)
    BY <1>5, <1>6, Zenon DEF Flattened
  <1>8. f[N] = FlattenSeq(ss)
    <2>1. CASE N = 0
      BY <1>1, <1>5, <2>1 DEF FlattenSeq
    <2>2. CASE N # 0
      <3> DEFINE P(g) == g = [i \in 1 .. N |-> IF i = 1 THEN ss[i] ELSE g[i - 1] \o ss[i]]
                 fl == CHOOSE g : P(g)
                 g0 == [i \in 1 .. N |-> f[i]]
                 U == {n \in 0 .. N : n = 0 \/ fl[n] = f[n]}
      <3>1. FlattenSeq(ss) = fl[N]
        BY <2>2 DEF FlattenSeq
      <3>2. f[1] = ss[1]
        <4>1. 1 \in 1 .. N
          BY <1>1, <2>2
        <4>2. ss[1] \in Seq(S) /\ 1 - 1 = 0
          BY <1>1, <4>1
        <4>3. f[1] = f[1 - 1] \o ss[1]
          BY <1>6, <4>1, Zenon
        <4>4. f[1] = <<>> \o ss[1]
          BY <1>5, <4>2, <4>3, Zenon
        <4> QED
          BY <4>2, <4>4, ConcatEmptySeq
      <3>3. P(g0)
        <4>1. ASSUME NEW i \in 1 .. N
              PROVE  f[i] = IF i = 1 THEN ss[i] ELSE g0[i - 1] \o ss[i]
          <5>1. CASE i = 1
            BY <3>2, <5>1
          <5>2. CASE i # 1
            <6>1. i - 1 \in 1 .. N
              BY <1>1, <5>2
            <6>2. g0[i - 1] = f[i - 1]
              BY <6>1
            <6> QED
              BY <1>6, <5>2, <6>2
          <5> QED
            BY <5>1, <5>2
        <4> QED
          BY <4>1
      <3>4. P(fl)
        <4> HIDE DEF P, g0
        <4> QED
          BY <3>3
      <3> HIDE DEF fl
      <3>5. \A i \in 1 .. N : fl[i] = IF i = 1 THEN ss[i] ELSE fl[i - 1] \o ss[i]
        BY <3>4
      <3>6. ASSUME NEW n \in 1 .. N, n - 1 \in U PROVE n \in U
        <4>1. CASE n = 1
          BY <1>1, <3>2, <3>5, <4>1
        <4>2. CASE n # 1
          <5>1. fl[n - 1] = f[n - 1]
            BY <1>1, <3>6, <4>2
          <5>2. fl[n] = fl[n - 1] \o ss[n]
            BY <3>5, <4>2
          <5>3. fl[n] = f[n]
            BY <1>6, <5>1, <5>2
          <5> QED
            BY <5>3
        <4> QED
          BY <4>1, <4>2
      <3>7. 0 \in U /\ N \in 0 .. N
        BY <1>1
      <3> HIDE DEF U
      <3>8. \A n \in 0 .. N : n \in U
        BY ONLY <1>1, <3>6, <3>7, UpTo
      <3>9. N \in U
        BY <3>7, <3>8
      <3> QED
        BY <2>2, <3>1, <3>9 DEF U
    <2> QED
      BY <2>1, <2>2
  <1> QED
    BY <1>7, <1>8

(* Where there is nothing to be added, it stays as it is. *)
LEMMA FlattenedAlong ==
  ASSUME NEW f, NEW ss, Flattened(f, ss), NEW S, f \in [0 .. Len(ss) -> Seq(S)], Len(ss) \in Nat,
         NEW a \in 0 .. Len(ss), NEW b \in a .. Len(ss), \A n \in a + 1 .. b : ss[n] = <<>>
  PROVE  f[b] = f[a]
  <1> DEFINE N == b - a
             U == {n \in 0 .. N : f[a + n] = f[a]}
  <1>1. N \in Nat /\ a + N = b /\ a + 0 = a /\ N \in 0 .. N
    OBVIOUS
  <1>2. 0 \in U
    BY <1>1
  <1>3. ASSUME NEW n \in 1 .. N, n - 1 \in U PROVE n \in U
    <2>1. a + n \in 1 .. Len(ss) /\ a + n \in a + 1 .. b /\ (a + n) - 1 = a + (n - 1)
          /\ a + (n - 1) \in 0 .. Len(ss)
      BY <1>1
    <2>2. f[a + n] = f[a + (n - 1)] \o <<>>
      BY <2>1 DEF Flattened
    <2>3. f[a + (n - 1)] \o <<>> = f[a + (n - 1)]
      BY <2>1, ConcatEmptySeq
    <2> QED
      BY <1>3, <2>2, <2>3
  <1> HIDE DEF U
  <1>4. \A n \in 0 .. N : n \in U
    BY ONLY <1>1, <1>2, <1>3, UpTo
  <1>5. N \in U
    BY <1>1, <1>4
  <1> QED
    BY <1>1, <1>5 DEF U

LEMMA ValueIs ==
  ASSUME NEW s \in Seq(DOMAIN Digit)
  PROVE  Value(s) \in Nat
  <1> DEFINE N == Len(s)
             A == [p \in (1 .. N) \X Nat |-> 10 * p[2] + Digit[s[p[1]]]]
             P(g) == g = [i \in 0 .. N |-> IF i = 0 THEN 0 ELSE 10 * g[i - 1] + Digit[s[i]]]
             v == CHOOSE g : P(g)
  <1>1. N \in Nat /\ \A i \in 1 .. N : Digit[s[i]] \in Nat
    <2>1. N \in Nat /\ \A i \in 1 .. N : s[i] \in DOMAIN Digit
      BY ElementsOf
    <2>2. \A c \in DOMAIN Digit : Digit[c] \in 0 .. 9
      BY EditorAssumption
    <2> QED
      BY <2>1, <2>2
  <1>2. Value(s) = v[N]
    BY DEF Value
  <1> HIDE DEF N
  <1>3. A \in [(1 .. N) \X Nat -> Nat]
    <2> SUFFICES ASSUME NEW p \in (1 .. N) \X Nat PROVE 10 * p[2] + Digit[s[p[1]]] \in Nat
      OBVIOUS
    <2>1. p[2] \in Nat /\ Digit[s[p[1]]] \in Nat
      BY <1>1
    <2> QED
      BY <2>1
  <1>4. PICK f \in [0 .. N -> Nat] : Recursive(f, N, 0, A)
    <2> HIDE DEF A
    <2> QED
      BY <1>1, <1>3, RecursionExists
  <1>5. P(f)
    <2>1. ASSUME NEW n \in 0 .. N
          PROVE  (IF n = 0 THEN 0 ELSE A[<<n, f[n - 1]>>]) = IF n = 0 THEN 0 ELSE 10 * f[n - 1] + Digit[s[n]]
      <3>1. n # 0 => n \in 1 .. N /\ f[n - 1] \in Nat
        BY <1>1
      <3> QED
        BY <3>1
    <2> QED
      BY <1>4, <2>1, Zenon DEF Recursive
  <1>6. P(v)
    <2> HIDE DEF P
    <2> QED
      BY <1>5
  <1> HIDE DEF v
  <1>7. v[0] = 0 /\ \A n \in 1 .. N : v[n] = 10 * v[n - 1] + Digit[s[n]]
    <2>1. \A n \in 0 .. N : v[n] = IF n = 0 THEN 0 ELSE 10 * v[n - 1] + Digit[s[n]]
      BY <1>6
    <2>2. 0 \in 0 .. N /\ \A n \in 1 .. N : n \in 0 .. N /\ n # 0
      BY <1>1
    <2> QED
      BY <2>1, <2>2, Zenon
  <1> DEFINE U == {n \in 0 .. N : v[n] \in Nat}
  <1>8. 0 \in U /\ N \in 0 .. N
    BY <1>1, <1>7
  <1>9. ASSUME NEW n \in 1 .. N, n - 1 \in U PROVE n \in U
    <2>1. v[n - 1] \in Nat /\ n \in 0 .. N
      BY <1>9
    <2>2. v[n] = 10 * v[n - 1] + Digit[s[n]] /\ Digit[s[n]] \in Nat
      BY <1>1, <1>7
    <2>3. v[n] \in Nat
      BY ONLY <2>1, <2>2
    <2> QED
      BY <2>1, <2>3
  <1> HIDE DEF U
  <1>10. \A n \in 0 .. N : n \in U
    BY ONLY <1>1, <1>8, <1>9, UpTo
  <1> QED
    BY <1>2, <1>8, <1>10 DEF U

(* The digits of a reference are read as the number that it has from place i on. *)
LEMMA NumberIs ==
  ASSUME NEW text \in Seq(DOMAIN Rank), NEW p \in 1 .. Len(text), NEW j \in p + 1 .. Len(text) + 1,
         j <= Len(text) => text[j] \notin RefChar,
         NEW run, run = SubSeq(text, p, j - 1), NEW i \in {2, 3},
         NEW F, F = SubSeq(run, i, Len(run)), F # <<>>, ToSet(F) \subseteq DOMAIN Digit
  PROVE  /\ Span(text, (p + i) - 1, DOMAIN Digit) = F /\ Value(F) \in Nat
         /\ (p + i) - 1 \in p + 1 .. j - 1
         /\ \A k \in (p + i) - 1 .. j - 1 : text[k] \in DOMAIN Digit
  <1> DEFINE S == DOMAIN Rank
             m == (p + i) - 1
  <1>1. Len(text) \in Nat /\ p \in Nat /\ 1 <= p /\ j \in Nat /\ j - 1 <= Len(text) /\ p <= j - 1 /\ i \in Nat
        /\ 1 <= i
    OBVIOUS
  <1>2. /\ run \in Seq(S) /\ Len(run) = j - p
        /\ \A n \in 1 .. j - p : run[n] = text[(p + n) - 1]
    <2>1. /\ run \in Seq(S) /\ Len(run) = (IF p <= j - 1 THEN ((j - 1) - p) + 1 ELSE 0)
          /\ \A n \in 1 .. ((j - 1) - p) + 1 : run[n] = text[(p + n) - 1]
      <3>1. p \in Int /\ j - 1 \in Int /\ 1 <= p /\ j - 1 <= Len(text)
        BY <1>1
      <3>2. /\ SubSeq(text, p, j - 1) \in Seq(S)
            /\ Len(SubSeq(text, p, j - 1)) = (IF p <= j - 1 THEN ((j - 1) - p) + 1 ELSE 0)
            /\ \A n \in 1 .. ((j - 1) - p) + 1 : SubSeq(text, p, j - 1)[n] = text[(p + n) - 1]
        BY <3>1, PartOf
      <3> QED
        BY <3>2, Zenon
    <2>2. ((j - 1) - p) + 1 = j - p
      BY <1>1
    <2> QED
      BY <1>1, <2>1, <2>2
  <1>3. /\ F \in Seq(S) /\ Len(F) = (IF i <= Len(run) THEN (Len(run) - i) + 1 ELSE 0)
        /\ \A n \in 1 .. (Len(run) - i) + 1 : F[n] = run[(i + n) - 1]
    <2>1. run \in Seq(S) /\ Len(run) \in Int /\ Len(run) <= Len(run) /\ i \in Int /\ 1 <= i
      BY <1>1, <1>2
    <2>2. /\ SubSeq(run, i, Len(run)) \in Seq(S)
          /\ Len(SubSeq(run, i, Len(run))) = (IF i <= Len(run) THEN (Len(run) - i) + 1 ELSE 0)
          /\ \A n \in 1 .. (Len(run) - i) + 1 : SubSeq(run, i, Len(run))[n] = run[(i + n) - 1]
      BY ONLY <2>1, PartOf
    <2> QED
      BY <2>2, Zenon
  <1>4. /\ Len(F) \in Nat \ {0} /\ Len(F) = j - m /\ m \in p + 1 .. j - 1
        /\ \A n \in 1 .. j - m : F[n] = text[(m + n) - 1]
    <2>1. Len(F) \in Nat \ {0}
      BY <1>3, ElementsOf
    <2>2. i <= j - p /\ Len(F) = ((j - p) - i) + 1
      BY <1>1, <1>2, <1>3, <2>1
    <2>3. m \in p + 1 .. j - 1 /\ Len(F) = j - m
      BY <1>1, <2>2
    <2>4. ASSUME NEW n \in 1 .. j - m PROVE F[n] = text[(m + n) - 1]
      <3>1. n \in 1 .. ((j - p) - i) + 1 /\ (i + n) - 1 \in 1 .. j - p
            /\ (p + ((i + n) - 1)) - 1 = (m + n) - 1
        BY <1>1, <2>2
      <3>2. F[n] = run[(i + n) - 1]
        BY <1>2, <1>3, <3>1
      <3>3. run[(i + n) - 1] = text[(p + ((i + n) - 1)) - 1]
        BY <1>2, <3>1
      <3> QED
        BY <3>1, <3>2, <3>3
    <2> QED
      BY <2>1, <2>3, <2>4
  <1>5. F \in Seq(DOMAIN Digit) /\ \A n \in 1 .. Len(F) : F[n] \in DOMAIN Digit
    <2>1. \A n \in 1 .. Len(F) : F[n] \in DOMAIN Digit
      <3>1. \A n \in 1 .. Len(F) : F[n] \in ToSet(F)
        <4>1. F \in Seq(S)
          BY <1>3
        <4> QED
          BY ONLY <4>1, ElementsOf
      <3> QED
        BY <3>1
    <2>2. F \in [1 .. Len(F) -> S] /\ Len(F) \in Nat
      BY <1>3, LenProperties
    <2>3. F \in [1 .. Len(F) -> DOMAIN Digit]
      BY <2>1, <2>2
    <2> QED
      <3>1. F \in UNION {[1 .. n -> DOMAIN Digit] : n \in Nat}
        BY <2>2, <2>3, Zenon
      <3>2. F \in Seq(DOMAIN Digit)
        BY <3>1, SeqDef, Zenon
      <3> QED
        BY <2>1, <3>2
  <1>6. ASSUME NEW k \in m .. j - 1 PROVE text[k] \in DOMAIN Digit
    <2>1. (k - m) + 1 \in 1 .. j - m /\ (m + ((k - m) + 1)) - 1 = k
      BY <1>1, <1>4
    <2>2. F[(k - m) + 1] = text[k] /\ F[(k - m) + 1] \in DOMAIN Digit
      BY <1>4, <1>5, <2>1
    <2> QED
      BY <2>2
  <1>7. \A n \in 1 .. Len(F) : F[n] = text[(m + n) - 1]
    BY <1>4
  <1>8. m \in 1 .. Len(text) + 1 /\ m \in Nat
    BY <1>1, <1>4
  <1> HIDE DEF m
  <1> DEFINE D == Span(text, m, DOMAIN Digit)
  <1>9. PICK e \in m .. Len(text) + 1 :
          /\ D = SubSeq(text, m, e - 1) /\ D \in Seq(S) /\ Len(D) = e - m
          /\ \A k \in m .. e - 1 : text[k] \in DOMAIN Digit
          /\ e <= Len(text) => text[e] \notin DOMAIN Digit
    <2>1. text \in Seq(S) /\ m \in 1 .. Len(text) + 1
      BY <1>8
    <2> DEFINE digits == DOMAIN Digit
    <2> HIDE DEF S, digits
    <2>2. \E e \in m .. Len(text) + 1 :
            /\ Span(text, m, digits) = SubSeq(text, m, e - 1)
            /\ Span(text, m, digits) \in Seq(S) /\ Len(Span(text, m, digits)) = e - m
            /\ \A k \in m .. e - 1 : text[k] \in digits
            /\ e <= Len(text) => text[e] \notin digits
      BY ONLY <2>1, SpanIs
    <2> QED
      BY <2>2, Zenon DEF digits
  <1>10. e = j
    <2>1. CASE e < j
      <3>1. e \in m .. j - 1 /\ e <= Len(text)
        BY <1>1, <1>8, <2>1
      <3> QED
        BY <1>6, <1>9, <3>1
    <2>2. CASE j < e
      <3>1. j \in m .. e - 1 /\ j <= Len(text)
        BY <1>1, <1>4, <1>8, <2>2
      <3>2. text[j] \in RefChar
        BY <1>9, <3>1 DEF RefChar
      <3> QED
        BY <3>1, <3>2
    <2> QED
      BY <1>1, <1>8, <2>1, <2>2
  <1>11. \A n \in 1 .. Len(D) : D[n] = text[(m + n) - 1]
    <2>1. m \in Int /\ e - 1 \in Int /\ 1 <= m /\ e - 1 <= Len(text) /\ (((e - 1) - m) + 1) = e - m
      BY <1>1, <1>8
    <2>2. \A n \in 1 .. ((e - 1) - m) + 1 : SubSeq(text, m, e - 1)[n] = text[(m + n) - 1]
      BY <2>1, PartOf
    <2>3. D = SubSeq(text, m, e - 1) /\ Len(D) = ((e - 1) - m) + 1
      BY <1>9, <2>1
    <2> HIDE DEF D
    <2> QED
      BY <2>2, <2>3
  <1>12. D \in Seq(S) /\ Len(D) = Len(F)
    BY <1>4, <1>9, <1>10
  <1> HIDE DEF D
  <1>13. D = F
    <2>1. \A n \in 1 .. Len(D) : D[n] = F[n]
      BY <1>7, <1>11, <1>12
    <2> QED
      BY <1>3, <1>12, <2>1, SameSeq
  <1>14. Value(F) \in Nat
    BY <1>5, ValueIs
  <1> QED
    BY <1>4, <1>6, <1>13, <1>14 DEF D, m

(* Where no space follows, the number is read from there on. *)
LEMMA ScanIs ==
  ASSUME NEW text \in Seq(DOMAIN Rank), NEW p \in 1 .. Len(text), p + 1 <= Len(text),
         text[p + 1] # Space, NEW chance, NEW m,
         m = (IF text[p + 1] = Minus THEN p + 2 ELSE p + 1),
         NEW digits, digits = Span(text, m, DOMAIN Digit), digits # <<>>
  PROVE  ScannedNumber(text, p, chance) = IF text[p + 1] = Minus THEN - Value(digits) ELSE Value(digits)
  <1> DEFINE blanks == Span(text, p + 1, {Space})
             at == p + 1 + Len(blanks)
             signed == at <= Len(text) /\ text[at] = Minus
             read == Span(text, IF signed THEN at + 1 ELSE at, DOMAIN Digit)
  <1>1. Len(text) \in Nat /\ p \in Nat /\ p + 1 \in 1 .. Len(text) + 1
    OBVIOUS
  <1>2. PICK e \in p + 1 .. Len(text) + 1 :
          /\ Len(blanks) = e - (p + 1)
          /\ \A k \in p + 1 .. e - 1 : text[k] \in {Space}
    BY <1>1, SpanIs
  <1>3. e = p + 1
    <2>1. e > p + 1 => p + 1 \in p + 1 .. e - 1
      BY <1>1
    <2> QED
      BY <1>1, <1>2, <2>1
  <1>4. at = p + 1
    BY <1>1, <1>2, <1>3
  <1>5. signed <=> text[p + 1] = Minus
    BY <1>4
  <1>6. at + 1 = p + 2 /\ ~(at > Len(text))
    BY <1>1, <1>4
  <1> DEFINE from == IF signed THEN at + 1 ELSE at
  <1>7. ScannedNumber(text, p, chance) =
          IF at > Len(text) THEN chance.number
          ELSE IF Span(text, from, DOMAIN Digit) = <<>> THEN None
          ELSE IF signed THEN - Value(Span(text, from, DOMAIN Digit)) ELSE Value(Span(text, from, DOMAIN Digit))
    BY DEF ScannedNumber
  <1>8. from = m
    BY <1>4, <1>5, <1>6
  <1> HIDE DEF from, signed, at
  <1> QED
    BY <1>5, <1>6, <1>7, <1>8, Zenon

(* A reference that stands for a line is found to be one of that line, and its characters
   up to the next that is not of its kind have no other reference in them. *)
LEMMA ReferenceIs ==
  ASSUME NEW text \in Seq(DOMAIN Rank), NEW p \in 1 .. Len(text), text[p] = Bang, NEW chance,
         lines \in Seq(Entries), NEW run, run = Span(text, p, RefChar),
         NEW meaning, meaning = Meaning(run), tinyrl_history_get(meaning) # {}
  PROVE  /\ Offset(text, p, chance) = meaning /\ meaning # None
         /\ p + Len(run) \in p + 1 .. Len(text) + 1
         /\ p + Len(run) <= Len(text) => text[p + Len(run)] \notin RefChar
         /\ \A k \in p + 1 .. (p + Len(run)) - 1 : text[k] = Bang => text[k - 1] = Bang
  <1>1. Len(text) \in Nat /\ p \in Nat /\ 1 <= p /\ p <= Len(text) /\ p \in 1 .. Len(text) + 1
    OBVIOUS
  <1>2. /\ Bang # Minus /\ Bang # Space /\ Minus # Space /\ Bang \in RefChar
        /\ \A c \in DOMAIN Digit : c # Bang /\ c # Minus /\ c # Space
        /\ None \notin Int
    BY EditorAssumption DEF RefChar
  <1>3. PICK j \in p .. Len(text) + 1 :
          /\ run = SubSeq(text, p, j - 1) /\ run \in Seq(DOMAIN Rank) /\ Len(run) = j - p
          /\ \A k \in p .. j - 1 : text[k] \in RefChar
          /\ j <= Len(text) => text[j] \notin RefChar
    <2>1. PICK j \in p .. Len(text) + 1 :
            /\ Span(text, p, RefChar) = SubSeq(text, p, j - 1)
            /\ Span(text, p, RefChar) \in Seq(DOMAIN Rank) /\ Len(Span(text, p, RefChar)) = j - p
            /\ \A k \in p .. j - 1 : text[k] \in RefChar
            /\ j <= Len(text) => text[j] \notin RefChar
      BY <1>1, SpanIs
    <2> QED
      BY <2>1, Zenon
  <1>4. j \in p + 1 .. Len(text) + 1 /\ p + Len(run) = j
    BY <1>1, <1>2, <1>3
  <1>5. \A n \in 1 .. Len(run) : run[n] = text[(p + n) - 1]
    <2>1. /\ p \in Int /\ j - 1 \in Int /\ 1 <= p /\ j - 1 <= Len(text)
          /\ ((j - 1) - p) + 1 = Len(run)
      BY <1>1, <1>3, <1>4
    <2>2. \A n \in 1 .. ((j - 1) - p) + 1 : SubSeq(text, p, j - 1)[n] = text[(p + n) - 1]
      BY <2>1, PartOf
    <2> QED
      BY <1>3, <2>1, <2>2, Zenon
  <1>6. meaning \in Int /\ meaning # None
    <2>1. PICK i \in DOMAIN lines : lines[i].index = meaning
      BY DEF tinyrl_history_get
    <2>2. lines[i] \in Entries
      BY EntryText
    <2> QED
      BY <1>2, <2>1, <2>2 DEF Entries
  <1> DEFINE From(i) == SubSeq(run, i, Len(run))
             IsNumber(i) == From(i) # <<>> /\ ToSet(From(i)) \subseteq DOMAIN Digit
             Goal == /\ Offset(text, p, chance) = meaning
                     /\ \A k \in p + 1 .. j - 1 : text[k] = Bang => text[k - 1] = Bang
  <1>7. meaning = IF run = <<Bang, Bang>> THEN current - 1
                  ELSE IF IsNumber(2) THEN Value(From(2))
                  ELSE IF IsNumber(3) /\ run[2] = Minus /\ Value(From(3)) > 0
                  THEN current - 1 - Value(From(3))
                  ELSE None
    BY DEF Meaning
  <1>8. ASSUME NEW i \in {2, 3}, IsNumber(i)
        PROVE  /\ Span(text, (p + i) - 1, DOMAIN Digit) = From(i) /\ Value(From(i)) \in Nat
               /\ (p + i) - 1 \in p + 1 .. j - 1
               /\ \A k \in (p + i) - 1 .. j - 1 : text[k] \in DOMAIN Digit
    <2> DEFINE F == From(i)
    <2>1. F = SubSeq(run, i, Len(run)) /\ F # <<>> /\ ToSet(F) \subseteq DOMAIN Digit
      BY <1>8
    <2> HIDE DEF F
    <2>2. run = SubSeq(text, p, j - 1) /\ (j <= Len(text) => text[j] \notin RefChar)
      BY <1>3
    <2>3. /\ Span(text, (p + i) - 1, DOMAIN Digit) = F /\ Value(F) \in Nat
          /\ (p + i) - 1 \in p + 1 .. j - 1
          /\ \A k \in (p + i) - 1 .. j - 1 : text[k] \in DOMAIN Digit
      <3>1. j \in p + 1 .. Len(text) + 1
        BY <1>4
      <3>2. text \in Seq(DOMAIN Rank) /\ p \in 1 .. Len(text) /\ i \in {2, 3}
        BY <1>8
      <3> QED
        BY ONLY <2>1, <2>2, <3>1, <3>2, NumberIs, Zenon
    <2> QED
      BY <2>3 DEF F
  <1> HIDE DEF From, IsNumber
  <1>9. ASSUME run = <<Bang, Bang>> PROVE Goal
    <2>1. Len(run) = 2 /\ run[2] = Bang
      BY <1>9
    <2>2. text[p + 1] = Bang /\ p + 1 <= Len(text) /\ j = p + 2
      <3>1. j = p + 2 /\ (p + 2) - 1 = p + 1 /\ 2 \in 1 .. Len(run)
        BY <1>1, <1>4, <2>1
      <3>2. run[2] = text[(p + 2) - 1]
        BY <1>5, <3>1
      <3> QED
        BY <1>1, <1>3, <2>1, <3>1, <3>2
    <2>3. meaning = current - 1
      BY <1>7, <1>9
    <2>4. p < Len(text)
      BY <1>1, <2>2
    <2>5. Offset(text, p, chance) = current - 1
      BY <2>2, <2>4 DEF Offset
    <2>6. \A k \in p + 1 .. j - 1 : k - 1 = p
      BY <1>1, <2>2
    <2> QED
      BY <2>3, <2>5, <2>6
  <1>10. ASSUME run # <<Bang, Bang>>, IsNumber(2) PROVE Goal
    <2> DEFINE digits == From(2)
    <2>1. /\ Span(text, p + 1, DOMAIN Digit) = digits /\ Value(digits) \in Nat /\ digits # <<>>
          /\ p + 1 \in p + 1 .. j - 1
          /\ \A k \in p + 1 .. j - 1 : text[k] \in DOMAIN Digit
      <3>1. (p + 2) - 1 = p + 1 /\ 2 \in {2, 3}
        BY <1>1
      <3>2. digits # <<>>
        BY <1>10 DEF IsNumber
      <3>3. /\ Span(text, (p + 2) - 1, DOMAIN Digit) = digits /\ Value(digits) \in Nat
            /\ (p + 2) - 1 \in p + 1 .. j - 1
            /\ \A k \in (p + 2) - 1 .. j - 1 : text[k] \in DOMAIN Digit
        BY <1>8, <1>10, <3>1
      <3> QED
        BY <3>1, <3>2, <3>3
    <2> HIDE DEF digits
    <2>2. meaning = Value(digits)
      BY <1>7, <1>10 DEF digits
    <2>3. text[p + 1] \in DOMAIN Digit /\ p + 1 <= Len(text) /\ p < Len(text)
      BY <1>1, <1>4, <2>1
    <2>4. text[p + 1] # Bang /\ text[p + 1] # Minus /\ text[p + 1] # Space
      BY <1>2, <2>3
    <2>5. ScannedNumber(text, p, chance) = Value(digits)
      BY <2>1, <2>3, <2>4, ScanIs
    <2>6. Offset(text, p, chance) = Value(digits)
      <3>1. ~(Value(digits) < 0)
        BY <2>1
      <3> QED
        BY <2>4, <2>5, <3>1, Zenon DEF Offset
    <2>7. \A k \in p + 1 .. j - 1 : text[k] # Bang
      BY <1>2, <2>1
    <2> QED
      BY <2>2, <2>6, <2>7
  <1>11. ASSUME run # <<Bang, Bang>>, ~IsNumber(2) PROVE Goal
    <2> DEFINE digits == From(3)
    <2>1. /\ IsNumber(3) /\ run[2] = Minus /\ Value(digits) > 0
          /\ meaning = current - 1 - Value(digits)
      BY <1>6, <1>7, <1>11
    <2>2. /\ Span(text, p + 2, DOMAIN Digit) = digits /\ Value(digits) \in Nat /\ digits # <<>>
          /\ p + 2 \in p + 1 .. j - 1
          /\ \A k \in p + 2 .. j - 1 : text[k] \in DOMAIN Digit
      <3>1. (p + 3) - 1 = p + 2 /\ 3 \in {2, 3}
        BY <1>1
      <3>2. digits # <<>>
        BY <2>1 DEF IsNumber
      <3>3. /\ Span(text, (p + 3) - 1, DOMAIN Digit) = digits /\ Value(digits) \in Nat
            /\ (p + 3) - 1 \in p + 1 .. j - 1
            /\ \A k \in (p + 3) - 1 .. j - 1 : text[k] \in DOMAIN Digit
        BY <1>8, <2>1, <3>1
      <3> QED
        BY <3>1, <3>2, <3>3
    <2> HIDE DEF digits
    <2>3. text[p + 1] = Minus /\ p + 1 <= Len(text) /\ p < Len(text)
      <3>1. 2 \in 1 .. Len(run) /\ (p + 2) - 1 = p + 1 /\ p + 1 <= Len(text) /\ p < Len(text)
        BY <1>1, <1>4, <2>2
      <3>2. run[2] = text[(p + 2) - 1]
        BY <1>5, <3>1
      <3> QED
        BY <2>1, <3>1, <3>2
    <2>4. text[p + 1] # Bang /\ text[p + 1] # Space
      BY <1>2, <2>3
    <2>5. ScannedNumber(text, p, chance) = - Value(digits)
      BY <2>2, <2>3, <2>4, ScanIs
    <2>6. Offset(text, p, chance) = current - 1 + (- Value(digits))
      <3>1. - Value(digits) < 0 /\ - Value(digits) \in Int
        BY <2>1, <2>2
      <3>2. - Value(digits) # None
        BY <1>2, <3>1
      <3> QED
        BY <2>4, <2>5, <3>1, <3>2, Zenon DEF Offset
    <2>7. current - 1 + (- Value(digits)) = current - 1 - Value(digits)
      BY <2>2
    <2>8. \A k \in p + 1 .. j - 1 : text[k] # Bang
      <3>1. \A k \in p + 1 .. j - 1 : k = p + 1 \/ k \in p + 2 .. j - 1
        BY <1>1, <1>4
      <3> QED
        BY <1>2, <2>2, <2>3, <3>1
    <2> QED
      BY <2>1, <2>6, <2>7, <2>8
  <1>12. Goal
    BY <1>9, <1>10, <1>11
  <1> QED
    BY <1>3, <1>4, <1>6, <1>12

(* What comes in the place of the character at place j. *)
PutAt(text, j) ==
  IF j \in ReferenceStarts(text)
  THEN lines[CHOOSE i \in tinyrl_history_get(Meaning(Span(text, j, RefChar))) : TRUE].line
  ELSE IF \E r \in ReferenceStarts(text) : r < j /\ j < r + Len(Span(text, r, RefChar)) THEN <<>>
  ELSE <<text[j]>>

Puts(text) == [j \in DOMAIN text |-> PutAt(text, j)]

LEMMA ReferredIs ==
  ASSUME NEW text
  PROVE  Referred(text) = FlattenSeq(Puts(text))
  <1> DEFINE Runs == {[at |-> i, run |-> Span(text, i, RefChar)] : i \in ReferenceStarts(text)}
             Given(j) == IF \E r \in Runs : r.at = j
                         THEN lines[CHOOSE i \in tinyrl_history_get(Meaning(Span(text, j, RefChar))) : TRUE].line
                         ELSE IF \E r \in Runs : r.at < j /\ j < r.at + Len(r.run) THEN <<>>
                         ELSE <<text[j]>>
  <1>1. Referred(text) = FlattenSeq([j \in DOMAIN text |-> Given(j)])
    BY DEF Referred
  <1>2. ASSUME NEW j PROVE Given(j) = PutAt(text, j)
    <2>1. Given(j) = IF \E r \in Runs : r.at = j
                     THEN lines[CHOOSE i \in tinyrl_history_get(Meaning(Span(text, j, RefChar))) : TRUE].line
                     ELSE IF \E r \in Runs : r.at < j /\ j < r.at + Len(r.run) THEN <<>>
                     ELSE <<text[j]>>
      OBVIOUS
    <2> HIDE DEF Given
    <2> DEFINE Run(i) == [at |-> i, run |-> Span(text, i, RefChar)]
    <2>2. \A i \in ReferenceStarts(text) : Run(i) \in Runs
      OBVIOUS
    <2>3. \A r \in Runs : r.at \in ReferenceStarts(text) /\ r.run = Span(text, r.at, RefChar)
      OBVIOUS
    <2>4. \A i : Run(i).at = i /\ Run(i).run = Span(text, i, RefChar)
      OBVIOUS
    <2> HIDE DEF Runs, Run
    <2>5. (\E r \in Runs : r.at = j) <=> j \in ReferenceStarts(text)
      BY <2>2, <2>3, <2>4, Zenon
    <2>6. (\E r \in Runs : r.at < j /\ j < r.at + Len(r.run))
            <=> \E r \in ReferenceStarts(text) : r < j /\ j < r + Len(Span(text, r, RefChar))
      BY <2>2, <2>3, <2>4, Zenon
    <2> QED
      BY <2>1, <2>5, <2>6, Zenon DEF PutAt
  <1> HIDE DEF Given
  <1>3. [j \in DOMAIN text |-> Given(j)] = Puts(text)
    BY <1>2 DEF Puts
  <1> QED
    BY <1>1, <1>3

LEMMA PutsAre ==
  ASSUME NEW text \in Seq(DOMAIN Rank), lines \in Seq(Entries), AllResolve(text)
  PROVE  /\ Puts(text) \in Seq(Seq(DOMAIN Rank)) /\ Len(Puts(text)) = Len(text)
         /\ \A j \in 1 .. Len(text) : Puts(text)[j] = PutAt(text, j)
         /\ \A j \in 1 .. Len(text) : PutAt(text, j) \in Seq(DOMAIN Rank)
  <1> DEFINE S == DOMAIN Rank
  <1>1. Len(text) \in Nat /\ DOMAIN text = 1 .. Len(text) /\ \A j \in 1 .. Len(text) : text[j] \in S
    BY ElementsOf
  <1>2. ASSUME NEW j \in 1 .. Len(text) PROVE PutAt(text, j) \in Seq(S)
    <2>1. CASE j \in ReferenceStarts(text)
      <3> DEFINE entry == tinyrl_history_get(Meaning(Span(text, j, RefChar)))
                 k == CHOOSE i \in entry : TRUE
      <3>1. entry # {} /\ entry \subseteq DOMAIN lines
        BY <2>1 DEF AllResolve, tinyrl_history_get
      <3> HIDE DEF entry
      <3>2. k \in DOMAIN lines
        BY <3>1
      <3> HIDE DEF k
      <3>3. lines[k].line \in Seq(S)
        BY <3>2, EntryText
      <3>4. PutAt(text, j) = lines[k].line
        BY <2>1 DEF PutAt, k, entry
      <3> QED
        BY <3>3, <3>4
    <2>2. CASE j \notin ReferenceStarts(text)
      <3>1. PutAt(text, j) = <<>> \/ PutAt(text, j) = <<text[j]>>
        BY <2>2 DEF PutAt
      <3>2. <<>> \in Seq(S) /\ <<text[j]>> \in Seq(S)
        BY <1>1, EmptySeq
      <3> QED
        BY <3>1, <3>2
    <2> QED
      BY <2>1, <2>2
  <1>3. Puts(text) \in [1 .. Len(text) -> Seq(S)]
    BY <1>1, <1>2 DEF Puts
  <1>4. Puts(text) \in Seq(Seq(S)) /\ Len(Puts(text)) = Len(text)
    BY <1>1, <1>3
  <1>5. \A j \in 1 .. Len(text) : Puts(text)[j] = PutAt(text, j)
    BY <1>1 DEF Puts
  <1> QED
    BY <1>2, <1>4, <1>5

(* The loop has put out what it has passed, and is behind the references it has passed
   and what belongs to them. *)
Place(text, y) == IF y.p <= Len(text) THEN y.p - 1 ELSE Len(text)

Passed(text, y, f) ==
  /\ y \in Expansion /\ y.going /\ y.start + y.len = y.p /\ y.start <= Len(text) + 1
  /\ y.p > 1 /\ y.p <= Len(text) + 1 => text[y.p - 1] # Bang
  /\ \A r \in ReferenceStarts(text) : r < y.p => r + Len(Span(text, r, RefChar)) <= y.start
  /\ y.expanded <=> \E r \in ReferenceStarts(text) : r < y.p
  /\ Joined(f[Place(text, y)], y.out, SubSeq(text, y.start, Place(text, y)))

(* A part of a text that goes on with one more character. *)
LEMMA OneMore ==
  ASSUME NEW S, NEW s \in Seq(S), NEW a \in Seq(S), NEW m \in Nat, NEW p \in Nat,
         1 <= m, m <= p, p <= Len(s), NEW c, Joined(c, a, SubSeq(s, m, p - 1))
  PROVE  Joined(c \o <<s[p]>>, a, SubSeq(s, m, p))
  <1>1. Len(s) \in Nat /\ m \in Nat /\ p \in Nat /\ 1 <= m /\ m <= p /\ p <= Len(s)
    OBVIOUS
  <1> DEFINE l == SubSeq(s, m, p - 1)
             e == SubSeq(s, p, p)
  <1>2. l \in Seq(S)
    BY <1>1, PartOf
  <1>3. e \in Seq(S) /\ e = <<s[p]>>
    <2>1. e \in Seq(S) /\ Len(e) = 1 /\ \A i \in 1 .. 1 : e[i] = s[(p + i) - 1]
      <3>1. p \in Int /\ 1 <= p /\ p <= Len(s) /\ (p - p) + 1 = 1 /\ p <= p
        BY <1>1
      <3>2. /\ e \in Seq(S) /\ Len(e) = (IF p <= p THEN (p - p) + 1 ELSE 0)
            /\ \A i \in 1 .. (p - p) + 1 : e[i] = s[(p + i) - 1]
        BY <3>1, PartOf
      <3> QED
        BY <3>1, <3>2
    <2> HIDE DEF e
    <2>2. e[1] = s[p]
      BY <1>1, <2>1
    <2>3. <<s[p]>> \in Seq(S) /\ Len(<<s[p]>>) = 1 /\ <<s[p]>>[1] = s[p]
      BY <1>1
    <2>4. e = <<s[p]>>
      BY <2>1, <2>2, <2>3, SameSeq
    <2> QED
      BY <2>1, <2>4
  <1>4. l \o e = SubSeq(s, m, p)
    <2>1. m \in 1 .. Len(s) + 1 /\ p - 1 \in m - 1 .. Len(s) /\ p \in p - 1 .. Len(s) /\ (p - 1) + 1 = p
      BY <1>1
    <2>2. SubSeq(s, m, p - 1) \o SubSeq(s, (p - 1) + 1, p) = SubSeq(s, m, p)
      BY <2>1, ConcatAdjacentSubSeq
    <2> QED
      BY <2>1, <2>2
  <1> HIDE DEF l, e
  <1>5. (a \o l) \o e = a \o (l \o e)
    <2>1. a \in Seq(S) /\ l \in Seq(S) /\ e \in Seq(S)
      BY <1>2, <1>3
    <2> QED
      BY ONLY <2>1, ConcatAssociative
  <1>6. c = a \o l
    BY DEF Joined, l
  <1>7. c \o <<s[p]>> = a \o SubSeq(s, m, p)
    BY <1>3, <1>4, <1>5, <1>6, Zenon
  <1> QED
    BY <1>7, Zenon DEF Joined

(* A character that is not part of a reference is passed. *)
LEMMA CharPassed ==
  ASSUME NEW text \in Seq(DOMAIN Rank), lines \in Seq(Entries), AllResolve(text),
         NEW f \in [0 .. Len(text) -> Seq(DOMAIN Rank)], Flattened(f, Puts(text)),
         NEW p \in 1 .. Len(text), text[p] # Bang, NEW start \in 1 .. p,
         \A r \in ReferenceStarts(text) : r < p => r + Len(Span(text, r, RefChar)) <= start,
         NEW out \in Seq(DOMAIN Rank), Joined(f[p - 1], out, SubSeq(text, start, p - 1))
  PROVE  Joined(f[p], out, SubSeq(text, start, p))
  <1>1. Len(text) \in Nat /\ p \in Nat /\ start \in Nat /\ 1 <= start /\ start <= p /\ p <= Len(text)
        /\ DOMAIN text = 1 .. Len(text)
    BY ElementsOf
  <1>2. p \notin ReferenceStarts(text)
    BY DEF ReferenceStarts
  <1>3. ~\E r \in ReferenceStarts(text) : r < p /\ p < r + Len(Span(text, r, RefChar))
    <2> SUFFICES ASSUME NEW r \in ReferenceStarts(text), r < p, p < r + Len(Span(text, r, RefChar))
                 PROVE  FALSE
      OBVIOUS
    <2>1. r \in 1 .. Len(text)
      BY <1>1 DEF ReferenceStarts
    <2>2. Len(Span(text, r, RefChar)) \in Nat
      BY <1>1, <2>1, SpanFits
    <2>3. r + Len(Span(text, r, RefChar)) <= start
      OBVIOUS
    <2> QED
      BY <1>1, <2>1, <2>2, <2>3
  <1>4. PutAt(text, p) = <<text[p]>>
    BY <1>2, <1>3, Zenon DEF PutAt
  <1>5. Puts(text)[p] = PutAt(text, p) /\ Len(Puts(text)) = Len(text)
    BY PutsAre
  <1>6. f[p] = f[p - 1] \o <<text[p]>>
    <2>1. p \in 1 .. Len(Puts(text))
      BY <1>5
    <2>2. f[p] = f[p - 1] \o Puts(text)[p]
      BY <2>1, Zenon DEF Flattened
    <2> QED
      BY <1>4, <1>5, <2>2, Zenon
  <1>7. Joined(f[p - 1] \o <<text[p]>>, out, SubSeq(text, start, p))
    <2>1. start \in Nat /\ p \in Nat /\ 1 <= start /\ start <= p /\ p <= Len(text)
      BY <1>1
    <2> QED
      BY <2>1, OneMore
  <1> QED
    BY <1>6, <1>7, Zenon

(* What a reference at p puts out, up to the character after it. *)
LEMMA ReferencePassed ==
  ASSUME NEW text \in Seq(DOMAIN Rank), lines \in Seq(Entries), AllResolve(text),
         NEW f \in [0 .. Len(text) -> Seq(DOMAIN Rank)], Flattened(f, Puts(text)),
         NEW p \in ReferenceStarts(text), NEW after, after = p + Len(Span(text, p, RefChar)),
         after \in p + 1 .. Len(text) + 1,
         \A k \in p + 1 .. after - 1 : text[k] = Bang => text[k - 1] = Bang,
         NEW out, Joined(out, f[p - 1], PutAt(text, p))
  PROVE  f[after - 1] = out
  <1>1. Len(text) \in Nat /\ p \in Nat /\ p \in 1 .. Len(text) /\ after \in Nat /\ p <= after - 1
        /\ after - 1 <= Len(text) /\ DOMAIN text = 1 .. Len(text)
    <2>1. Len(text) \in Nat /\ DOMAIN text = 1 .. Len(text)
      BY ElementsOf
    <2>2. p \in DOMAIN text
      BY DEF ReferenceStarts
    <2>3. p \in 1 .. Len(text)
      BY <2>1, <2>2
    <2>4. after \in p + 1 .. Len(text) + 1
      OBVIOUS
    <2> QED
      BY ONLY <2>1, <2>3, <2>4
  <1>2. /\ Len(Puts(text)) = Len(text)
        /\ \A j \in 1 .. Len(text) : Puts(text)[j] = PutAt(text, j)
    BY PutsAre
  <1>3. f[p] = out
    <2>1. p \in 1 .. Len(Puts(text))
      BY <1>1, <1>2
    <2>2. f[p] = f[p - 1] \o Puts(text)[p]
      BY <2>1, Zenon DEF Flattened
    <2> QED
      BY <1>1, <1>2, <2>2, Zenon DEF Joined
  <1>4. ASSUME NEW k \in p + 1 .. after - 1 PROVE Puts(text)[k] = <<>>
    <2>1. k \in 1 .. Len(text) /\ k # 1 /\ p < k /\ k < after
      BY <1>1
    <2>2. k \notin ReferenceStarts(text)
      BY <2>1 DEF ReferenceStarts
    <2>3. \E r \in ReferenceStarts(text) : r < k /\ k < r + Len(Span(text, r, RefChar))
      BY <2>1
    <2>4. PutAt(text, k) = <<>>
      BY <2>2, <2>3, Zenon DEF PutAt
    <2> QED
      BY <1>2, <2>1, <2>4
  <1>5. f[after - 1] = f[p]
    <2>1. p \in 0 .. Len(Puts(text)) /\ after - 1 \in p .. Len(Puts(text)) /\ Len(Puts(text)) \in Nat
      BY <1>1, <1>2
    <2>2. f \in [0 .. Len(Puts(text)) -> Seq(DOMAIN Rank)]
      BY <1>2
    <2> QED
      BY ONLY Flattened(f, Puts(text)), <1>4, <2>1, <2>2, FlattenedAlong
  <1> QED
    BY <1>3, <1>5

LEMMA CharStep ==
  ASSUME NEW text \in Seq(DOMAIN Rank), NEW chance, lines \in Seq(Entries), AllResolve(text),
         NEW f \in [0 .. Len(text) -> Seq(DOMAIN Rank)], Flattened(f, Puts(text)),
         NEW y, Passed(text, y, f), y.p <= Len(text), text[y.p] # Bang,
         NEW z, z = Round(text, chance, y)
  PROVE  Passed(text, z, f) /\ z.p > y.p
  <1> DEFINE p == y.p
  <1>1. /\ y \in Expansion /\ y.going /\ y.start + y.len = p
        /\ \A r \in ReferenceStarts(text) : r < p => r + Len(Span(text, r, RefChar)) <= y.start
        /\ y.expanded <=> \E r \in ReferenceStarts(text) : r < p
        /\ Joined(f[Place(text, y)], y.out, SubSeq(text, y.start, Place(text, y)))
    BY DEF Passed
  <1>2. /\ p \in Nat \ {0} /\ y.start \in Nat \ {0} /\ y.len \in Nat /\ y.out \in Text /\ y.expanded \in BOOLEAN
        /\ y.out \in Seq(DOMAIN Rank)
    BY <1>1 DEF Expansion, Text
  <1>3. Len(text) \in Nat /\ DOMAIN text = 1 .. Len(text)
    BY ElementsOf
  <1>4. p \in 1 .. Len(text) /\ y.start \in 1 .. p /\ Place(text, y) = p - 1
    <2>1. p <= Len(text) /\ Len(text) \in Nat
      BY <1>3
    <2>2. Place(text, y) = p - 1
      BY <2>1, Zenon DEF Place
    <2>3. y.start + y.len = p /\ p \in Nat /\ 1 <= p /\ y.start \in Nat /\ 1 <= y.start /\ y.len \in Nat
      BY <1>1, <1>2
    <2> HIDE DEF p
    <2>4. p \in 1 .. Len(text) /\ y.start \in 1 .. p /\ y.start + y.len - 1 = p - 1
      BY ONLY <2>1, <2>3
    <2> QED
      BY <2>2, <2>4
  <1>5. z = [y EXCEPT !.p = p + 1, !.len = y.len + 1]
    <2>1. ~(~y.going \/ y.p > Len(text))
      BY <1>1, <1>2, <1>3
    <2> QED
      BY <2>1 DEF Round
  <1>6. /\ z \in Expansion /\ z.p = p + 1 /\ z.len = y.len + 1
        /\ z.start = y.start /\ z.expanded = y.expanded /\ z.out = y.out /\ z.going = y.going
    <2>1. p + 1 \in Nat \ {0} /\ y.len + 1 \in Nat
      BY <1>2
    <2>2. z \in Expansion
      <3>1. y \in Expansion /\ y.out \in Text
        BY <1>1, <1>2
      <3> DEFINE q == p + 1
                 len == y.len + 1
      <3>2. q \in Nat \ {0} /\ len \in Nat
        BY <2>1
      <3>3. z = [y EXCEPT !.p = q, !.len = len]
        BY <1>5
      <3> HIDE DEF q, len
      <3>4. [y EXCEPT !.p = q, !.len = len] \in Expansion
        BY ONLY <3>1, <3>2, ExpansionWith
      <3> QED
        BY <3>3, <3>4
    <2> QED
      BY <1>1, <1>5, <2>2 DEF Expansion
  <1>7. Place(text, z) = p
    BY <1>3, <1>4, <1>6 DEF Place
  <1>8. Joined(f[p], y.out, SubSeq(text, y.start, p))
    <2> DEFINE start == y.start
               out == y.out
    <2>1. start \in 1 .. p /\ out \in Seq(DOMAIN Rank) /\ Joined(f[p - 1], out, SubSeq(text, start, p - 1))
      BY <1>1, <1>2, <1>4
    <2>2. /\ \A r \in ReferenceStarts(text) : r < p => r + Len(Span(text, r, RefChar)) <= start
          /\ p \in 1 .. Len(text) /\ text[p] # Bang
      BY <1>1, <1>4
    <2> HIDE DEF start, out, p
    <2>3. Joined(f[p], out, SubSeq(text, start, p))
      BY ONLY text \in Seq(DOMAIN Rank), lines \in Seq(Entries), AllResolve(text),
              f \in [0 .. Len(text) -> Seq(DOMAIN Rank)], Flattened(f, Puts(text)),
              <2>1, <2>2, CharPassed
    <2> QED
      BY <2>3 DEF start, out
  <1>9. p \notin ReferenceStarts(text) /\ \A r \in ReferenceStarts(text) : r \in Nat
    BY <1>3 DEF ReferenceStarts
  <1>10. \A r \in ReferenceStarts(text) : r < z.p <=> r < p
    BY <1>2, <1>6, <1>9
  <1>11. z.start + z.len = z.p /\ z.start <= Len(text) + 1 /\ z.p > y.p /\ z.p - 1 = p
    <2>1. z.p = p + 1 /\ z.len = y.len + 1 /\ z.start = y.start
      BY <1>6
    <2>2. /\ y.start + y.len = p /\ p \in Nat /\ y.start \in Nat /\ y.len \in Nat /\ p <= Len(text)
          /\ y.start <= p /\ Len(text) \in Nat
      BY <1>1, <1>2, <1>3, <1>4
    <2> HIDE DEF p
    <2>3. z.start + z.len = z.p /\ z.start <= Len(text) + 1 /\ z.p > p /\ z.p - 1 = p
      BY ONLY <2>1, <2>2
    <2> QED
      BY <2>3 DEF p
  <1>12. Joined(f[Place(text, z)], z.out, SubSeq(text, z.start, Place(text, z)))
    BY <1>6, <1>7, <1>8, Zenon
  <1>13. /\ \A r \in ReferenceStarts(text) : r < z.p => r + Len(Span(text, r, RefChar)) <= z.start
         /\ z.expanded <=> \E r \in ReferenceStarts(text) : r < z.p
    BY <1>1, <1>6, <1>10, Zenon
  <1>14. text[z.p - 1] # Bang
    BY <1>11
  <1> QED
    BY <1>1, <1>6, <1>11, <1>12, <1>13, <1>14, Zenon DEF Passed

LEMMA ReferenceStep ==
  ASSUME NEW text \in Seq(DOMAIN Rank), NEW chance, lines \in Seq(Entries), AllResolve(text),
         NEW f \in [0 .. Len(text) -> Seq(DOMAIN Rank)], Flattened(f, Puts(text)),
         NEW y, Passed(text, y, f), y.p <= Len(text), text[y.p] = Bang,
         NEW z, z = Round(text, chance, y)
  PROVE  Passed(text, z, f) /\ z.p > y.p
  <1> DEFINE p == y.p
             run == Span(text, p, RefChar)
             meaning == Meaning(run)
             after == p + Len(run)
             entry == tinyrl_history_get(meaning)
             got == lines[CHOOSE i \in entry : TRUE].line
             plain == SubSeq(text, y.start, y.start + y.len - 1)
             out == y.out \o plain \o got
  <1>1. /\ y \in Expansion /\ y.going /\ y.start + y.len = p
        /\ y.p > 1 /\ y.p <= Len(text) + 1 => text[y.p - 1] # Bang
        /\ \A r \in ReferenceStarts(text) : r < p => r + Len(Span(text, r, RefChar)) <= y.start
        /\ Joined(f[Place(text, y)], y.out, SubSeq(text, y.start, Place(text, y)))
    BY DEF Passed
  <1>2. /\ p \in Nat \ {0} /\ y.start \in Nat \ {0} /\ y.len \in Nat /\ y.out \in Text
        /\ y.out \in Seq(DOMAIN Rank)
    BY <1>1 DEF Expansion, Text
  <1>3. Len(text) \in Nat /\ DOMAIN text = 1 .. Len(text)
    BY ElementsOf
  <1>4. p \in 1 .. Len(text) /\ y.start \in 1 .. p /\ Place(text, y) = p - 1 /\ y.start + y.len - 1 = p - 1
    <2>1. p <= Len(text) /\ Len(text) \in Nat
      BY <1>3
    <2>2. Place(text, y) = p - 1
      BY <2>1, Zenon DEF Place
    <2>3. y.start + y.len = p /\ p \in Nat /\ 1 <= p /\ y.start \in Nat /\ 1 <= y.start /\ y.len \in Nat
      BY <1>1, <1>2
    <2> HIDE DEF p
    <2>4. p \in 1 .. Len(text) /\ y.start \in 1 .. p /\ y.start + y.len - 1 = p - 1
      BY ONLY <2>1, <2>3
    <2> QED
      BY <2>2, <2>4
  <1>5. p \in ReferenceStarts(text)
    <2>1. p = 1 \/ text[p - 1] # Bang
      BY <1>1, <1>3, <1>4
    <2> QED
      BY <1>3, <1>4, <2>1 DEF ReferenceStarts
  <1>6. entry # {}
    BY <1>5 DEF AllResolve
  <1> HIDE DEF entry, p
  <1>7. /\ Offset(text, p, chance) = meaning /\ meaning # None
        /\ after \in p + 1 .. Len(text) + 1
        /\ after <= Len(text) => text[after] \notin RefChar
        /\ \A k \in p + 1 .. after - 1 : text[k] = Bang => text[k - 1] = Bang
    <2>1. text[p] = Bang /\ tinyrl_history_get(Meaning(run)) # {}
      BY <1>6 DEF p, entry
    <2> QED
      BY <1>4, <2>1, ReferenceIs
  <1>8. z = [p |-> after + 1, start |-> after, len |-> 1, going |-> TRUE, expanded |-> TRUE, out |-> out]
    <2>1. ~(~y.going \/ y.p > Len(text))
      BY <1>1, <1>2, <1>3 DEF p
    <2>2. z = AtReference(y, text, chance)
      BY <2>1 DEF Round
    <2>3. Offset(text, y.p, chance) = meaning /\ tinyrl_history_get(Offset(text, y.p, chance)) = entry
      BY <1>7 DEF p, entry
    <2> HIDE DEF meaning
    <2> QED
      BY <1>6, <1>7, <2>2, <2>3 DEF AtReference, p
  <1>9. PutAt(text, p) = got
    BY <1>5 DEF PutAt, entry
  <1>10. got \in Seq(DOMAIN Rank)
    BY <1>4, <1>9, PutsAre
  <1>11. y.out \o plain = f[p - 1]
    BY <1>1, <1>4, Zenon DEF Joined
  <1> HIDE DEF got, plain
  <1>12. Joined(out, f[p - 1], PutAt(text, p))
    BY <1>9, <1>11 DEF Joined
  <1> HIDE DEF out
  <1>13. f[after - 1] = out
    <2> HIDE DEF after
    <2>1. after = p + Len(Span(text, p, RefChar))
      BY DEF after
    <2>2. after \in p + 1 .. Len(text) + 1 /\ \A k \in p + 1 .. after - 1 : text[k] = Bang => text[k - 1] = Bang
      BY <1>7
    <2> QED
      BY <1>5, <1>12, <2>1, <2>2, ReferencePassed
  <1>14. out \in Text /\ out \in Seq(DOMAIN Rank)
    <2>1. after - 1 \in 0 .. Len(text)
      BY <1>2, <1>3, <1>7
    <2>2. f[after - 1] \in Seq(DOMAIN Rank)
      BY <2>1
    <2> QED
      BY <1>13, <2>2 DEF Text
  <1>15. after \in Nat \ {0} /\ p < after /\ after <= Len(text) + 1 /\ after + 1 \in Nat \ {0} /\ (after + 1) - 1 = after
    BY <1>2, <1>3, <1>7
  <1>16. /\ z \in Expansion /\ z.going = TRUE /\ z.expanded = TRUE /\ z.start = after /\ z.p = after + 1
         /\ z.len = 1 /\ z.out = out
    BY <1>8, <1>14, <1>15 DEF Expansion
  <1>17. \A r \in ReferenceStarts(text) : r < after + 1 => r + Len(Span(text, r, RefChar)) <= after
    <2> SUFFICES ASSUME NEW r \in ReferenceStarts(text), r < after + 1
                 PROVE  r + Len(Span(text, r, RefChar)) <= after
      OBVIOUS
    <2>1. r \in 1 .. Len(text) /\ r \in Nat /\ text[r] = Bang /\ (r = 1 \/ text[r - 1] # Bang)
      BY <1>3 DEF ReferenceStarts
    <2>2. CASE r < p
      <3>1. Len(Span(text, r, RefChar)) \in Nat
        BY <2>1, SpanFits
      <3>2. r + Len(Span(text, r, RefChar)) <= y.start
        BY <1>1, <2>2
      <3>3. y.start <= p /\ y.start \in Nat
        BY <1>2, <1>4
      <3> HIDE DEF after
      <3> QED
        BY <1>2, <1>15, <2>1, <3>1, <3>2, <3>3
    <2>3. CASE r = p
      BY <1>15, <2>3
    <2>4. CASE p < r /\ r < after
      <3>1. r \in p + 1 .. after - 1 /\ r # 1
        BY <1>2, <1>15, <2>1, <2>4
      <3> QED
        BY <1>7, <2>1, <3>1
    <2>5. CASE r = after
      <3>1. text[after] \notin RefChar /\ Bang \in RefChar
        BY <1>7, <1>15, <2>1, <2>5 DEF RefChar
      <3> QED
        BY <2>1, <2>5, <3>1
    <2> HIDE DEF after
    <2> QED
      BY <1>2, <1>15, <2>1, <2>2, <2>3, <2>4, <2>5
  <1>18. after <= Len(text) => text[after] # Bang
    BY <1>7 DEF RefChar
  <1>19. Joined(f[Place(text, z)], out, SubSeq(text, after, Place(text, z)))
    <2>1. Joined(f[after - 1], out, SubSeq(text, after, after - 1))
      <3> HIDE DEF after
      <3>1. SubSeq(text, after, after - 1) = <<>>
        <4>1. after \in Int /\ after - 1 \in Int /\ after - 1 < after
          BY <1>15
        <4> QED
          BY <4>1, SubSeqEmpty
      <3>2. out \o <<>> = out
        BY <1>14, ConcatEmptySeq
      <3> QED
        BY <1>13, <3>1, <3>2, Zenon DEF Joined
    <2>2. CASE after <= Len(text)
      <3>1. Place(text, z) = after
        <4>1. z.p = after + 1
          BY <1>16
        <4> HIDE DEF after
        <4>2. after = Len(text) \/ after + 1 <= Len(text)
          <5>1. Len(text) \in Nat /\ after \in Nat /\ after <= Len(text)
            BY <1>3, <1>15, <2>2
          <5> QED
            BY ONLY <5>1
        <4>3. CASE after = Len(text)
          <5>1. ~(after + 1 <= Len(text))
            BY <1>3, <4>3
          <5> QED
            BY <4>1, <4>3, <5>1, Zenon DEF Place
        <4>4. CASE after + 1 <= Len(text)
          <5>1. (after + 1) - 1 = after
            BY <1>15
          <5> QED
            BY <4>1, <4>4, <5>1, Zenon DEF Place
        <4> QED
          BY <4>2, <4>3, <4>4
      <3>2. /\ \A r \in ReferenceStarts(text) : r < after => r + Len(Span(text, r, RefChar)) <= after
            /\ after \in 1 .. Len(text) /\ after \in 1 .. after /\ text[after] # Bang
        <4>1. \A r \in ReferenceStarts(text) : r < after => r < after + 1
          BY <1>3, <1>15 DEF ReferenceStarts
        <4> QED
          BY <1>3, <1>15, <1>17, <1>18, <2>2, <4>1
      <3> HIDE DEF after
      <3>3. Joined(f[after], out, SubSeq(text, after, after))
        BY <1>14, <2>1, <3>2, CharPassed
      <3> QED
        BY <3>1, <3>3, Zenon
    <2>3. CASE after = Len(text) + 1
      <3>1. Place(text, z) = after - 1
        <4>1. z.p = after + 1
          BY <1>16
        <4> HIDE DEF after
        <4>2. ~(after + 1 <= Len(text)) /\ after - 1 = Len(text)
          BY <1>3, <2>3
        <4> QED
          BY <4>1, <4>2, Zenon DEF Place
      <3> HIDE DEF after
      <3> QED
        BY <2>1, <3>1, Zenon
    <2> HIDE DEF after
    <2>4. after <= Len(text) \/ after = Len(text) + 1
      BY <1>3, <1>15
    <2> QED
      BY <2>2, <2>3, <2>4, Zenon
  <1>20. \E r \in ReferenceStarts(text) : r < after + 1
    BY <1>2, <1>5, <1>15
  <1> HIDE DEF after
  <1>21. z.start + z.len = z.p /\ z.start <= Len(text) + 1 /\ z.p > y.p
    BY <1>2, <1>15, <1>16 DEF p
  <1>22. z.p > 1 /\ z.p <= Len(text) + 1 => text[z.p - 1] # Bang
    <2>1. z.p <= Len(text) + 1 => after <= Len(text)
      BY <1>3, <1>15, <1>16
    <2>2. z.p - 1 = after
      BY <1>15, <1>16
    <2> QED
      BY <1>18, <2>1, <2>2
  <1> QED
    BY <1>16, <1>17, <1>19, <1>20, <1>21, <1>22, Zenon DEF Passed

LEMMA PassedStep ==
  ASSUME NEW text \in Seq(DOMAIN Rank), NEW chance, lines \in Seq(Entries), AllResolve(text),
         NEW f \in [0 .. Len(text) -> Seq(DOMAIN Rank)], Flattened(f, Puts(text)),
         NEW y, Passed(text, y, f), NEW n \in Nat, y.p > n \/ y.p > Len(text),
         NEW z, z = Round(text, chance, y)
  PROVE  Passed(text, z, f) /\ (z.p > n + 1 \/ z.p > Len(text))
  <1>1. y.going /\ y.p \in Nat /\ Len(text) \in Nat
    BY DEF Passed, Expansion
  <1>2. CASE y.p > Len(text)
    <2>1. z = y
      BY <1>2 DEF Round
    <2> QED
      BY <1>2, <2>1
  <1>3. CASE ~(y.p > Len(text))
    <2>1. y.p <= Len(text) /\ y.p > n
      BY <1>1, <1>3
    <2>2. Passed(text, z, f) /\ z.p > y.p
      BY <2>1, CharStep, ReferenceStep
    <2>3. z.p \in Nat
      BY <2>2 DEF Passed, Expansion
    <2> QED
      BY <1>1, <2>1, <2>2, <2>3
  <1> QED
    BY <1>2, <1>3

(* A line whose references all resolve is expanded to the line with each replaced. *)
LEMMA ExpandsTo ==
  ASSUME NEW text \in Text, NEW chance, lines \in Seq(Entries), AllResolve(text)
  PROVE  tinyrl_history_expand(text, chance) =
           [expanded |-> ReferenceStarts(text) # {}, out |-> Referred(text)]
  <1> DEFINE L == Len(text)
             N == Len(text) + 1
  <1>1. /\ text \in Seq(DOMAIN Rank) /\ L \in Nat /\ N \in Nat /\ N = L + 1 /\ DOMAIN text = 1 .. L
    BY ElementsOf DEF Text
  <1>2. PICK f \in [0 .. L -> Seq(DOMAIN Rank)] : Flattened(f, Puts(text)) /\ f[L] = Referred(text)
    <2>1. Puts(text) \in Seq(Seq(DOMAIN Rank)) /\ Len(Puts(text)) = L
      BY <1>1, PutsAre
    <2>2. \E f \in [0 .. Len(Puts(text)) -> Seq(DOMAIN Rank)] :
             Flattened(f, Puts(text)) /\ f[Len(Puts(text))] = FlattenSeq(Puts(text))
      BY <2>1, FlattenIs
    <2> QED
      BY <2>1, <2>2, ReferredIs
  <1>3. PICK up : /\ up[0] = FirstRound
                  /\ \A n \in 1 .. L + 1 : up[n] = Round(text, chance, up[n - 1])
                  /\ tinyrl_history_expand(text, chance) =
                       [expanded |-> up[L + 1].expanded,
                        out |-> up[L + 1].out \o SubSeq(text, up[L + 1].start, Min({up[L + 1].start + up[L + 1].len - 1, L}))]
    BY ExpandsInRounds
  <1> DEFINE T == {n \in 0 .. N : Passed(text, up[n], f) /\ (up[n].p > n \/ up[n].p > L)}
             last == up[L + 1]
             stop == Min({last.start + last.len - 1, L})
  <1>4. N \in T
    <2>1. 0 \in T
      <3>1. Passed(text, FirstRound, f)
        <4>1. FirstRound \in Expansion
          <5>1. <<>> \in Text
            BY EmptySeq DEF Text
          <5> QED
            BY <5>1 DEF FirstRound, Expansion
        <4>2. Place(text, FirstRound) = 0
          BY <1>1 DEF Place, FirstRound
        <4>3. Joined(f[0], <<>>, SubSeq(text, 1, 0))
          <5>1. SubSeq(text, 1, 0) = <<>>
            <6>1. 1 \in Int /\ 0 \in Int /\ 0 < 1
              OBVIOUS
            <6> QED
              BY ONLY <1>1, <6>1, SubSeqEmpty
          <5>2. f[0] = <<>>
            BY <1>2, Zenon DEF Flattened
          <5>3. <<>> \o <<>> = <<>>
            BY ONLY <<>> \in Text, EmptySeq, ConcatEmptySeq
          <5> QED
            BY <5>1, <5>2, <5>3, Zenon DEF Joined
        <4>4. \A r \in ReferenceStarts(text) : ~(r < 1)
          BY <1>1 DEF ReferenceStarts
        <4>5. /\ FirstRound.p = 1 /\ FirstRound.start = 1 /\ FirstRound.len = 0 /\ FirstRound.going = TRUE
              /\ FirstRound.expanded = FALSE /\ FirstRound.out = <<>>
          BY DEF FirstRound
        <4>6. ~(1 > 1) /\ 1 + 0 = 1 /\ 1 <= Len(text) + 1
          BY <1>1
        <4>7. FirstRound.going /\ ~FirstRound.expanded
          BY <4>5
        <4> QED
          BY <4>1, <4>2, <4>3, <4>4, <4>5, <4>6, <4>7, Zenon DEF Passed
      <3>2. FirstRound.p > 0
        BY DEF FirstRound
      <3> QED
        BY <1>1, <1>3, <3>1, <3>2
    <2>2. ASSUME NEW n \in 1 .. N, n - 1 \in T PROVE n \in T
      <3>1. n - 1 \in Nat /\ (n - 1) + 1 = n /\ n \in 0 .. N
        BY <1>1
      <3>2. Passed(text, up[n - 1], f) /\ (up[n - 1].p > n - 1 \/ up[n - 1].p > Len(text))
        BY <2>2
      <3>3. up[n] = Round(text, chance, up[n - 1])
        BY <1>3
      <3> DEFINE y == up[n - 1]
                 z == up[n]
                 m == n - 1
      <3> HIDE DEF y, z, m
      <3>4. Passed(text, z, f) /\ (z.p > m + 1 \/ z.p > Len(text))
        <4>1. m \in Nat /\ Passed(text, y, f) /\ (y.p > m \/ y.p > Len(text)) /\ z = Round(text, chance, y)
          BY <3>1, <3>2, <3>3 DEF m, y, z
        <4>2. text \in Seq(DOMAIN Rank) /\ f \in [0 .. Len(text) -> Seq(DOMAIN Rank)] /\ Flattened(f, Puts(text))
          BY <1>1, <1>2
        <4> QED
          BY ONLY lines \in Seq(Entries), AllResolve(text), <4>1, <4>2, PassedStep
      <3> QED
        BY <3>1, <3>4 DEF m, z
    <2> HIDE DEF T, N
    <2>3. N \in Nat /\ N \in 0 .. N
      BY <1>1
    <2>4. \A n \in 0 .. N : n \in T
      BY ONLY <2>1, <2>2, <2>3, UpTo
    <2> QED
      BY <2>3, <2>4
  <1>5. Passed(text, last, f) /\ last.p > L
    <2>1. last.p \in Nat
      BY <1>4 DEF Passed, Expansion
    <2> QED
      BY <1>1, <1>4, <2>1
  <1> HIDE DEF T, last, N
  <1>6. /\ last.p \in Nat /\ last.start + last.len = last.p /\ last.start \in Nat /\ last.len \in Nat
        /\ last.expanded \in BOOLEAN
    BY <1>5 DEF Passed, Expansion
  <1>7. Place(text, last) = L
    BY <1>1, <1>5, <1>6 DEF Place
  <1>8. stop = L
    <2>1. last.start + last.len - 1 \in Int /\ L \in Int /\ L <= last.start + last.len - 1
      BY <1>1, <1>5, <1>6
    <2> DEFINE a == last.start + last.len - 1
    <2> HIDE DEF a
    <2>2. a \in Int /\ L \in Int /\ L <= a
      BY <2>1 DEF a
    <2>3. Min({a, L}) \in {a, L} /\ Min({a, L}) <= a /\ Min({a, L}) <= L
      BY <2>2, MinOfTwo
    <2>4. Min({a, L}) = L
      BY <2>2, <2>3
    <2> QED
      BY <2>4 DEF a
  <1>9. Referred(text) = last.out \o SubSeq(text, last.start, stop)
    <2>1. Joined(f[L], last.out, SubSeq(text, last.start, L))
      BY <1>5, <1>7, Zenon DEF Passed
    <2> HIDE DEF stop
    <2> QED
      BY <1>2, <1>8, <2>1, Zenon DEF Joined
  <1>10. last.expanded = (ReferenceStarts(text) # {})
    <2>1. last.expanded <=> \E r \in ReferenceStarts(text) : r < last.p
      BY <1>5 DEF Passed
    <2>2. \A r \in ReferenceStarts(text) : r < last.p
      BY <1>1, <1>5, <1>6 DEF ReferenceStarts
    <2> QED
      BY <1>6, <2>1, <2>2
  <1>11. tinyrl_history_expand(text, chance) =
           [expanded |-> last.expanded, out |-> last.out \o SubSeq(text, last.start, stop)]
    BY <1>3, Zenon DEF last
  <1> HIDE DEF stop
  <1> QED
    BY <1>9, <1>10, <1>11, Zenon

(* ExpandsReferences holds in every state, for lines of any length and a history of any
   size: a line whose references are all to lines that are held becomes the line with
   each of them replaced by the line it stands for and every other character kept in
   its place (tinyrl_history_expand). *)
THEOREM ExpandsAll ==
  Spec => []ExpandsReferences
  <1>1. Init => EditorInv
    BY EditorInit
  <1>2. EditorInv /\ [Next]_vars => EditorInv'
    BY EditorStep
  <1>3. EditorInv => ExpandsReferences
    <2> SUFFICES ASSUME EditorInv, ~editor.stray, AllResolve(Shown(editor)), NEW chance \in Chance
                 PROVE  tinyrl_history_expand(Shown(editor), chance) =
                          [expanded |-> ReferenceStarts(Shown(editor)) # {}, out |-> Referred(Shown(editor))]
      BY DEF ExpandsReferences
    <2> DEFINE text == Shown(editor)
    <2>1. text \in Text /\ lines \in Seq(Entries)
      BY EditorSound, ShownIs DEF EditorInv, Kept
    <2> HIDE DEF text
    <2>2. AllResolve(text)
      BY DEF text
    <2> QED
      BY <2>1, <2>2, ExpandsTo DEF text
  <1> QED
    BY <1>1, <1>2, <1>3, PTL DEF Spec

-----------------------------------------------------------------------------
(* The editor implements the text with a cursor of EditBuffer. *)

HeldLines == {lines[i].line : i \in DOMAIN lines}

(* What EditBuffer sees of a step. *)
LEMMA SeenAs ==
  ASSUME EditorInv, ~editor.stray, NEW r, editor' = r, lines' = lines
  PROVE  /\ Left(editor)' = Left(r) /\ Right(editor)' = Right(r) /\ Shown(editor)' = Shown(r)
         /\ HeldLines' = HeldLines
         /\ Left(editor) \o Right(editor) = Shown(editor)
  <1>1. Shown(editor)' = Shown(r)
    BY DEF Shown
  <1>2. Left(editor)' = Left(r) /\ Right(editor)' = Right(r)
    BY <1>1 DEF Left, Right
  <1>3. Left(editor) \o Right(editor) = Shown(editor)
    BY EditorSound, SidesAre
  <1> QED
    BY <1>1, <1>2, <1>3 DEF HeldLines

(* A key that worked on text that was not shown. *)
LEMMA LosesStep ==
  ASSUME ~editor.stray, editor'.stray
  PROVE  Buffer!ENext
  BY DEF Buffer!ENext

(* After an edit the buffer is what is shown. *)
LEMMA EditedIs ==
  ASSUME EditorInv, ~editor.stray, NEW r, editor' = r, lines' = lines, Kept(r), r.view = 0
  PROVE  Buffer!Edited
  <1>1. Left(editor)' = Left(r) /\ Right(editor)' = Right(r)
    BY SeenAs
  <1>2. lines \in Seq(Entries)
    BY EditorSound
  <1>3. Left(r) \o Right(r) = r.buffer
    <2>1. Left(r) \o Right(r) = Shown(r)
      BY <1>2, SidesAre
    <2> QED
      BY <2>1 DEF Shown
  <1>4. editor'.buffer = Left(editor)' \o Right(editor)'
    BY <1>1, <1>3
  <1>5. ~(editor'.view # 0)
    OBVIOUS
  <1> QED
    BY <1>4, <1>5 DEF Buffer!Edited, Left, Right

LEMMA TypeStep ==
  ASSUME EditorInv, ~editor.stray, NEW r, editor' = r, lines' = lines, kill' = kill, Fills(editor, r), ~r.stray
  PROVE  [Buffer!ENext]_(Buffer!evars)
  <1>1. /\ Left(editor)' = Left(r) /\ Right(editor)' = Right(r) /\ HeldLines' = HeldLines
    BY SeenAs
  <1>2. CASE r = editor
    <2>1. Shown(editor)' = Shown(editor) /\ editor' = editor
      BY <1>2, SeenAs
    <2> QED
      BY <1>1, <2>1 DEF Buffer!evars, HeldLines
  <1>3. CASE r # editor
    <2>1. Buffer!Edited
      BY <1>3, EditedIs DEF Fills
    <2>2. IsPrefix(Left(editor), Left(editor)') /\ Right(editor)' = Right(editor)
      BY <1>1 DEF Fills
    <2>3. Buffer!Type
      BY <1>1, <2>1, <2>2 DEF Buffer!Type, Buffer!IsPrefix, IsPrefix, Left, Right, HeldLines
    <2>4. editor'.stray = editor.stray
      BY EditorSound DEF Fills, Kept, Editor
    <2> QED
      BY <2>3, <2>4 DEF Buffer!ENext
  <1> QED
    BY <1>2, <1>3

LEMMA SubstituteStep ==
  ASSUME EditorInv, ~editor.stray, NEW r, editor' = r, lines' = lines, kill' = kill, ~r.stray,
         Kept(r), r.view = 0, Right(r) = <<>>, Put(Left(r)), Bang \in ToSet(Shown(editor)) \/ Offers
  PROVE  Buffer!ENext
  <1>1. /\ Left(editor)' = Left(r) /\ Right(editor)' = Right(r) /\ HeldLines' = HeldLines
        /\ Left(editor) \o Right(editor) = Shown(editor)
    BY SeenAs
  <1>2. Buffer!Edited
    BY EditedIs
  <1>3. Buffer!Replaced(Left(r))
    <2>1. Bang \in ToSet(Left(editor) \o Right(editor)) \/ \E s \in Offered : Bang \in ToSet(s)
      BY <1>1 DEF Offers
    <2>2. \E l \in HeldLines : Holds(Left(r), l)
      BY DEF Put, HeldLines
    <2> QED
      BY <2>1, <2>2 DEF Buffer!Replaced, Buffer!text, Buffer!ToSet, ToSet, Holds, HeldLines, Left, Right
  <1>4. Buffer!Replaced(Left(editor)')
    BY <1>1, <1>3
  <1>5. Buffer!Substitute
    BY <1>1, <1>2, <1>4 DEF Buffer!Substitute, Left, Right, HeldLines
  <1>6. editor'.stray = editor.stray
    BY EditorSound DEF Kept, Editor
  <1> QED
    BY <1>5, <1>6 DEF Buffer!ENext

LEMMA OutcomeStep ==
  ASSUME EditorInv, ~editor.stray, NEW r, editor' = r, lines' = lines, kill' = kill, Outcome(editor, r)
  PROVE  [Buffer!ENext]_(Buffer!evars)
  <1>1. CASE r.stray
    BY <1>1, LosesStep
  <1>2. CASE ~r.stray
    BY <1>2, TypeStep, SubstituteStep DEF Outcome, Became
  <1> QED
    BY <1>1, <1>2

(* The cursor has moved. *)
LEMMA MoveStep ==
  ASSUME EditorInv, ~editor.stray, NEW p \in Nat, p <= editor.end, editor' = [editor EXCEPT !.point = p],
         lines' = lines, kill' = kill
  PROVE  Buffer!ENext
  <1> DEFINE r == [editor EXCEPT !.point = p]
  <1>1. /\ Kept(r) /\ r.view = editor.view /\ r.stray = editor.stray /\ r.buffer = editor.buffer
        /\ Shown(r) = Shown(editor) /\ lines \in Seq(Entries)
    BY EditorSound, PointAt
  <1>2. editor' = r
    OBVIOUS
  <1> HIDE DEF r
  <1>3. /\ Left(editor)' = Left(r) /\ Right(editor)' = Right(r) /\ HeldLines' = HeldLines
        /\ Left(editor) \o Right(editor) = Shown(editor)
    BY <1>2, SeenAs
  <1>4. Left(r) \o Right(r) = Shown(r)
    BY <1>1, SidesAre
  <1>5. Left(editor)' \o Right(editor)' = Left(editor) \o Right(editor)
    BY <1>1, <1>3, <1>4
  <1>6. Buffer!Move
    BY <1>1, <1>2, <1>3, <1>5 DEF Buffer!Move, Buffer!text, Left, Right, HeldLines
  <1> QED
    BY <1>1, <1>2, <1>6 DEF Buffer!ENext

(* An empty editor: a line is left. *)
LEMMA EmptySeen ==
  ASSUME editor' = Empty
  PROVE  Left(editor)' = <<>> /\ Right(editor)' = <<>> /\ Buffer!Edited /\ ~editor'.stray
  <1>1. Shown(editor)' = <<>> /\ editor'.point = 0 /\ editor'.buffer = <<>> /\ editor'.view = 0 /\ editor'.stray = FALSE
    BY DEF Shown, Empty
  <1>2. Left(editor)' = <<>> /\ Right(editor)' = <<>>
    <2>1. SubSeq(<<>>, 1, 0) = <<>> /\ SubSeq(<<>>, 0 + 1, Len(<<>>)) = <<>>
      OBVIOUS
    <2> QED
      BY <1>1, <2>1 DEF Left, Right
  <1>3. Left(editor)' \o Right(editor)' = <<>>
    BY <1>2
  <1>4. Buffer!Edited
    BY <1>1, <1>3 DEF Buffer!Edited, Left, Right
  <1> QED
    BY <1>1, <1>2, <1>4

LEMMA LeaveStep ==
  ASSUME EditorInv, ~editor.stray, editor' = Empty, lines' = lines, kill' = kill
  PROVE  Buffer!ENext
  <1>1. Buffer!Leave
    BY EmptySeen DEF Buffer!Leave, Left, Right
  <1>2. editor'.stray = editor.stray
    BY EditorSound, EmptySeen DEF Kept, Editor, Empty
  <1> QED
    BY <1>1, <1>2 DEF Buffer!ENext

(* The keys that take text out. *)
LEMMA TakingStep ==
  ASSUME EditorInv, tinyrl_key_backspace \/ tinyrl_key_delete \/ tinyrl_key_erase_line \/ tinyrl_key_kill
  PROVE  Buffer!ENext
  <1>1. ASSUME NEW r, Becomes(r), Kept(r), r.view = 0
        PROVE  /\ Buffer!Edited
               /\ Left(editor)' = Left(r) /\ Right(editor)' = Right(r) /\ HeldLines' = HeldLines
               /\ ~r.stray => editor'.stray = editor.stray
    <2>1. editor' = r /\ lines' = lines /\ ~editor.stray
      BY <1>1 DEF Becomes, OfReading
    <2>2. ~r.stray => editor'.stray = editor.stray
      BY <1>1, <2>1, EditorSound DEF Kept, Editor
    <2> QED
      BY <1>1, <2>1, <2>2, EditedIs, SeenAs
  <1>2. CASE tinyrl_key_backspace
    <2> DEFINE back == editor.point - 1
               r    == tinyrl_delete_text([editor EXCEPT !.point = editor.point - 1], editor.point - 1, editor.point - 1)
    <2>1. editor.point > 0 /\ Becomes(r) /\ kill' = kill
      BY <1>2 DEF tinyrl_key_backspace
    <2> HIDE DEF r
    <2>2. lines \in Seq(Entries) /\ Kept(editor) /\ ~editor.stray
      BY <2>1, BecomesSound, EditorSound
    <2>3. /\ Kept(r) /\ r.view = 0 /\ r.stray = editor.stray
          /\ Left(editor) # <<>> /\ Left(r) = Front(Left(editor)) /\ Right(r) = Right(editor)
      BY <2>1, <2>2, BackspaceIs DEF r
    <2>4. /\ Buffer!Edited /\ editor'.stray = editor.stray /\ HeldLines' = HeldLines
          /\ Left(editor)' = Front(Left(editor)) /\ Right(editor)' = Right(editor)
      BY <1>1, <2>1, <2>2, <2>3
    <2>5. Buffer!Edit(Front(Left(editor)), Right(editor))
      BY <2>1, <2>4 DEF Buffer!Edit, Left, Right, HeldLines
    <2>6. Buffer!Backspace
      BY <2>3, <2>5 DEF Buffer!Backspace, Buffer!Front, Front, Left, Right
    <2> QED
      BY <2>2, <2>4, <2>6 DEF Buffer!ENext
  <1>3. CASE tinyrl_key_delete
    <2> DEFINE r == tinyrl_delete_text(editor, editor.point, editor.point)
    <2>1. editor.point < editor.end /\ Becomes(r) /\ kill' = kill
      BY <1>3 DEF tinyrl_key_delete
    <2> HIDE DEF r
    <2>2. lines \in Seq(Entries) /\ Kept(editor) /\ ~editor.stray
      BY <2>1, BecomesSound, EditorSound
    <2>3. /\ Kept(r) /\ r.view = 0 /\ r.stray = editor.stray
          /\ Right(editor) # <<>> /\ Left(r) = Left(editor) /\ Right(r) = Tail(Right(editor))
      BY <2>1, <2>2, KeyDeleteIs DEF r
    <2>4. /\ Buffer!Edited /\ editor'.stray = editor.stray /\ HeldLines' = HeldLines
          /\ Left(editor)' = Left(editor) /\ Right(editor)' = Tail(Right(editor))
      BY <1>1, <2>1, <2>2, <2>3
    <2>5. Buffer!Edit(Left(editor), Tail(Right(editor)))
      BY <2>1, <2>4 DEF Buffer!Edit, Left, Right, HeldLines
    <2>6. Buffer!Delete
      BY <2>3, <2>5 DEF Buffer!Delete, Left, Right
    <2> QED
      BY <2>2, <2>4, <2>6 DEF Buffer!ENext
  <1>4. CASE tinyrl_key_erase_line
    <2> DEFINE r    == [tinyrl_delete_text(editor, 0, editor.point) EXCEPT !.point = 0]
               rest == IF Right(editor) = <<>> THEN <<>> ELSE Tail(Right(editor))
    <2>1. Becomes(r) /\ kill' = kill
      BY <1>4 DEF tinyrl_key_erase_line
    <2> HIDE DEF r
    <2>2. lines \in Seq(Entries) /\ Kept(editor) /\ ~editor.stray
      BY <2>1, BecomesSound, EditorSound
    <2>3. Kept(r) /\ r.view = 0 /\ r.stray = editor.stray /\ Left(r) = <<>> /\ Right(r) = rest
      BY <2>2, EraseIs DEF r
    <2>4. /\ Buffer!Edited /\ editor'.stray = editor.stray /\ HeldLines' = HeldLines
          /\ Left(editor)' = <<>> /\ Right(editor)' = rest
      BY <1>1, <2>1, <2>2, <2>3
    <2>5. Buffer!Edit(<<>>, rest)
      <3> HIDE DEF rest
      <3> QED
        BY <2>1, <2>4 DEF Buffer!Edit, Left, Right, HeldLines
    <2>6. Buffer!Erase
      BY <2>5 DEF Buffer!Erase, Left, Right
    <2> QED
      BY <2>2, <2>4, <2>6 DEF Buffer!ENext
  <1>5. CASE tinyrl_key_kill
    <2> DEFINE stray == editor.view # 0
               s     == editor.buffer
               r     == [tinyrl_delete_text(editor, editor.point, editor.end) EXCEPT !.stray = stray]
    <2>1. Becomes(r) /\ kill' = SubSeq(s, editor.point + 1, Len(s))
      BY <1>5 DEF tinyrl_key_kill
    <2> HIDE DEF r
    <2>2. lines \in Seq(Entries) /\ Kept(editor) /\ ~editor.stray
      BY <2>1, BecomesSound, EditorSound
    <2>3. stray \in BOOLEAN
      OBVIOUS
    <2> HIDE DEF stray
    <2>4. Kept(r) /\ r.view = 0 /\ r.stray = stray /\ Left(r) = Left(editor) /\ Right(r) = <<>>
      BY <2>2, <2>3, KillIs DEF r
    <2>5. CASE stray
      <3>1. editor'.stray
        BY <2>1, <2>4, <2>5 DEF Becomes
      <3> QED
        BY <2>2, <3>1, LosesStep
    <2>6. CASE ~stray
      <3>1. Shown(editor) = s
        BY <2>6 DEF stray, Shown
      <3>2. kill' = Right(editor) /\ Right(editor) \in Text
        BY <2>1, <2>2, <3>1, SidesAre DEF Right
      <3>3. (IF kill = None THEN <<>> ELSE kill)' = Right(editor)
        BY <3>2, EditorAssumption
      <3>4. /\ Buffer!Edited /\ editor'.stray = editor.stray /\ HeldLines' = HeldLines
            /\ Left(editor)' = Left(editor) /\ Right(editor)' = <<>>
        BY <1>1, <2>1, <2>4, <2>6
      <3>5. Buffer!Kill
        BY <3>3, <3>4 DEF Buffer!Kill, Left, Right, HeldLines
      <3> QED
        BY <2>2, <3>4, <3>5 DEF Buffer!ENext
    <2> QED
      BY <2>5, <2>6
  <1> QED
    BY <1>2, <1>3, <1>4, <1>5

(* The keys that put text in, or complete it. *)
LEMMA PuttingStep ==
  ASSUME EditorInv, tinyrl_key_default \/ tinyrl_key_yank \/ KeySpace \/ KeyTab \/ KeyEnterStays
  PROVE  [Buffer!ENext]_(Buffer!evars)
  <1>1. ASSUME NEW r, Becomes(r), UNCHANGED kill, Outcome(editor, r) PROVE [Buffer!ENext]_(Buffer!evars)
    <2>1. editor' = r /\ lines' = lines /\ ~editor.stray /\ kill' = kill
      BY <1>1 DEF Becomes, OfReading
    <2> QED
      BY <1>1, <2>1, OutcomeStep
  <1>2. ASSUME ~editor.stray PROVE lines \in Seq(Entries) /\ views \in Views /\ Kept(editor)
    BY <1>2, EditorSound
  <1>3. ASSUME NEW t \in Text, NEW chance, Becomes(tinyrl_insert_text(editor, t, chance)), UNCHANGED kill
        PROVE  [Buffer!ENext]_(Buffer!evars)
    <2> DEFINE r == tinyrl_insert_text(editor, t, chance)
    <2>1. editor' = r /\ lines' = lines /\ ~editor.stray /\ kill' = kill
      BY <1>3 DEF Becomes, OfReading
    <2>2. Fills(editor, r) /\ r.stray = editor.stray
      BY <1>2, <2>1, InsertFills
    <2> HIDE DEF r
    <2>3. ~r.stray
      BY <2>1, <2>2
    <2> QED
      BY <2>1, <2>2, <2>3, TypeStep
  <1>4. CASE tinyrl_key_default
    <2>1. PICK t \in KeyText, chance \in Memory : Becomes(tinyrl_insert_text(editor, t, chance)) /\ UNCHANGED kill
      BY <1>4 DEF tinyrl_key_default
    <2>2. t \in Text
      BY EditorAssumption
    <2> QED
      BY <1>3, <2>1, <2>2
  <1>5. CASE tinyrl_key_yank
    <2>1. PICK chance \in Memory : kill # None /\ Becomes(tinyrl_insert_text(editor, kill, chance)) /\ UNCHANGED kill
      BY <1>5 DEF tinyrl_key_yank
    <2>2. kill \in Text
      BY <2>1 DEF EditorInv
    <2> QED
      BY <1>3, <2>1, <2>2
  <1>6. CASE KeySpace
    <2>1. PICK chance \in Chance : Becomes(ucli_shell_tinyrl_key_space(editor, chance)) /\ UNCHANGED kill
      BY <1>6 DEF KeySpace
    <2> DEFINE r == ucli_shell_tinyrl_key_space(editor, chance)
    <2>2. Outcome(editor, r)
      BY <1>2, <2>1, BecomesSound, KeySpaceIs
    <2> HIDE DEF r
    <2> QED
      BY <1>1, <2>1, <2>2 DEF r
  <1>7. CASE KeyTab
    <2>1. PICK chance \in Memory : Becomes(tinyrl_key_tab(editor, chance)) /\ UNCHANGED kill
      BY <1>7 DEF KeyTab
    <2> DEFINE r == tinyrl_key_tab(editor, chance)
    <2>2. Outcome(editor, r)
      BY <1>2, <2>1, BecomesSound, KeyTabIs
    <2> HIDE DEF r
    <2> QED
      BY <1>1, <2>1, <2>2 DEF r
  <1>8. CASE KeyEnterStays
    <2>1. PICK chance \in Chance : Becomes(ucli_shell_tinyrl_key_enter(editor, chance).e) /\ UNCHANGED kill
      BY <1>8 DEF KeyEnterStays
    <2> DEFINE x == ucli_shell_tinyrl_key_enter(editor, chance)
               r == x.e
    <2>2. Outcome(editor, r)
      BY <1>2, <2>1, BecomesSound, KeyEnterIs
    <2> HIDE DEF r
    <2> QED
      BY <1>1, <2>1, <2>2 DEF r
  <1> QED
    BY <1>4, <1>5, <1>6, <1>7, <1>8

(* The keys that move the cursor. *)
LEMMA MovingStep ==
  ASSUME EditorInv, \/ tinyrl_key_start_of_line \/ tinyrl_key_end_of_line
                    \/ tinyrl_key_left \/ tinyrl_key_right
  PROVE  Buffer!ENext
  <1>1. ASSUME NEW p \in Nat, Becomes([editor EXCEPT !.point = p]), p <= editor.end, UNCHANGED kill
        PROVE  Buffer!ENext
    <2>1. editor' = [editor EXCEPT !.point = p] /\ lines' = lines /\ ~editor.stray /\ kill' = kill
      BY <1>1 DEF Becomes, OfReading
    <2> QED
      BY <1>1, <2>1, MoveStep
  <1>2. CASE tinyrl_key_start_of_line
    <2>1. Becomes([editor EXCEPT !.point = 0]) /\ UNCHANGED kill
      BY <1>2 DEF tinyrl_key_start_of_line
    <2>2. 0 \in Nat /\ 0 <= editor.end
      BY <2>1, BecomesSound, EditorSound
    <2> QED
      BY <1>1, <2>1, <2>2
  <1>3. CASE tinyrl_key_end_of_line
    <2>1. Becomes([editor EXCEPT !.point = editor.end]) /\ UNCHANGED kill
      BY <1>3 DEF tinyrl_key_end_of_line
    <2>2. editor.end \in Nat /\ editor.end <= editor.end
      BY <2>1, BecomesSound, EditorSound
    <2> QED
      BY <1>1, <2>1, <2>2
  <1>4. CASE tinyrl_key_left
    <2>1. editor.point > 0 /\ Becomes([editor EXCEPT !.point = editor.point - 1]) /\ UNCHANGED kill
      BY <1>4 DEF tinyrl_key_left
    <2>2. editor.point - 1 \in Nat /\ editor.point - 1 <= editor.end
      BY <2>1, BecomesSound, EditorSound
    <2> QED
      BY <1>1, <2>1, <2>2
  <1>5. CASE tinyrl_key_right
    <2>1. editor.point < editor.end /\ Becomes([editor EXCEPT !.point = editor.point + 1]) /\ UNCHANGED kill
      BY <1>5 DEF tinyrl_key_right
    <2>2. editor.point + 1 \in Nat /\ editor.point + 1 <= editor.end
      BY <2>1, BecomesSound, EditorSound
    <2> QED
      BY <1>1, <2>1, <2>2
  <1> QED
    BY <1>2, <1>3, <1>4, <1>5

(* The keys that show another line. *)
LEMMA ViewingStep ==
  ASSUME EditorInv, tinyrl_key_up \/ tinyrl_key_down
  PROVE  Buffer!ENext
  <1>1. ASSUME NEW v \in 0 .. Len(lines), UNCHANGED kill, Becomes(Views_entry(v, TextOf(editor, v)))
        PROVE  /\ editor'.view = v /\ editor'.stray = editor.stray /\ editor'.buffer = editor.buffer
               /\ ~editor.stray
               /\ Left(editor)' = TextOf(editor, v) /\ Right(editor)' = <<>> /\ HeldLines' = HeldLines
    <2> DEFINE r == [editor EXCEPT !.view = v, !.point = Len(TextOf(editor, v)), !.end = Len(TextOf(editor, v))]
    <2>1. editor' = r /\ lines' = lines /\ ~editor.stray
      BY <1>1 DEF Views_entry, Becomes, OfReading
    <2>2. /\ r.view = v /\ r.stray = editor.stray /\ r.buffer = editor.buffer
          /\ Left(r) = TextOf(editor, v) /\ Right(r) = <<>>
      <3>1. lines \in Seq(Entries) /\ Kept(editor)
        BY <2>1, EditorSound
      <3>2. Viewing(editor, v, r)
        BY <3>1, ViewIs
      <3> HIDE DEF r
      <3> QED
        BY <3>2 DEF Viewing
    <2> HIDE DEF r
    <2> QED
      BY <2>1, <2>2, SeenAs
  <1>2. ASSUME NEW v \in 1 .. Len(lines), UNCHANGED kill, Becomes(Views_entry(v, TextOf(editor, v)))
        PROVE  Buffer!ENext
    <2>1. lines \in Seq(Entries) /\ v \in 0 .. Len(lines) /\ v # 0 /\ v \in DOMAIN lines
      BY <1>2, BecomesSound, EditorSound
    <2>2. /\ editor'.view = v /\ editor'.stray = editor.stray /\ editor'.buffer = editor.buffer
          /\ ~editor.stray
          /\ Left(editor)' = TextOf(editor, v) /\ Right(editor)' = <<>> /\ HeldLines' = HeldLines
      BY <1>1, <1>2, <2>1
    <2> DEFINE l == lines[v].line
    <2>3. l \in HeldLines /\ TextOf(editor, v) = l
      BY <2>1 DEF HeldLines, TextOf
    <2> HIDE DEF l
    <2>4. Left(editor)' = l
      BY <2>2, <2>3
    <2>5. (editor'.view # 0) = TRUE
      BY <2>1, <2>2
    <2>6. Buffer!Recall(l)
      BY <1>2, <2>2, <2>4, <2>5 DEF Buffer!Recall, Left, Right, HeldLines
    <2> QED
      BY <2>2, <2>3, <2>6 DEF Buffer!ENext, HeldLines
  <1>3. CASE tinyrl_key_up
    <2> DEFINE v == IF editor.view = 0 THEN Len(lines) ELSE editor.view - 1
    <2>1. v # 0 /\ Becomes(Views_entry(v, lines[v].line)) /\ UNCHANGED kill
      BY <1>3 DEF tinyrl_key_up
    <2>2. v \in 1 .. Len(lines)
      <3>1. editor.view \in 0 .. Len(lines) /\ Len(lines) \in Nat
        BY <2>1, BecomesSound, EditorSound
      <3> QED
        BY <2>1, <3>1
    <2> HIDE DEF v
    <2>3. TextOf(editor, v) = lines[v].line
      BY <2>1 DEF TextOf
    <2> QED
      BY <1>2, <2>1, <2>2, <2>3
  <1>4. CASE tinyrl_key_down
    <2>1. editor.view # 0 /\ UNCHANGED kill
      BY <1>4 DEF tinyrl_key_down
    <2>2. CASE editor.view < Len(lines)
      <3> DEFINE v == editor.view + 1
      <3>1. Becomes(Views_entry(v, lines[v].line))
        BY <1>4, <2>2 DEF tinyrl_key_down
      <3>2. v \in 1 .. Len(lines) /\ v # 0
        <4>1. editor.view \in 0 .. Len(lines) /\ Len(lines) \in Nat
          BY <3>1, BecomesSound, EditorSound
        <4> QED
          BY <2>2, <4>1
      <3> HIDE DEF v
      <3>3. TextOf(editor, v) = lines[v].line
        BY <3>2 DEF TextOf
      <3> QED
        BY <1>2, <2>1, <3>1, <3>2, <3>3
    <2>3. CASE ~(editor.view < Len(lines))
      <3> DEFINE v == 0
      <3>1. Becomes(Views_entry(v, editor.buffer))
        BY <1>4, <2>3 DEF tinyrl_key_down
      <3>2. v \in 0 .. Len(lines) /\ v = 0
        BY <3>1, BecomesSound, EditorSound
      <3> HIDE DEF v
      <3>3. TextOf(editor, v) = editor.buffer
        BY <3>2 DEF TextOf
      <3>4. /\ editor'.view = v /\ editor'.stray = editor.stray /\ editor'.buffer = editor.buffer
            /\ ~editor.stray
            /\ Left(editor)' = editor.buffer /\ Right(editor)' = <<>> /\ HeldLines' = HeldLines
        BY <1>1, <2>1, <3>1, <3>2, <3>3
      <3>5. (editor'.view # 0) = FALSE
        BY <3>2, <3>4
      <3>6. Buffer!Return
        BY <2>1, <3>4, <3>5 DEF Buffer!Return, Left, Right, HeldLines
      <3> QED
        BY <3>4, <3>6 DEF Buffer!ENext
    <2> QED
      BY <2>2, <2>3
  <1> QED
    BY <1>3, <1>4

(* A text is at the end of what it was put at the end of. *)
LEMMA SuffixLonger ==
  ASSUME NEW S, NEW s \in Seq(S), NEW t \in Seq(S)
  PROVE  IsSuffix(t, s \o t)
  <1> DEFINE u == s \o t
             a == Reverse(t)
             b == Reverse(u)
             m == Len(s)
             n == Len(t)
  <1>1. m \in Nat /\ n \in Nat /\ u \in Seq(S) /\ Len(u) = m + n /\ \A i \in 1 .. n : u[m + i] = t[i]
    BY Both
  <1> HIDE DEF u
  <1>2. a \in Seq(S) /\ Len(a) = n /\ \A i \in 1 .. n : a[i] = t[(n - i) + 1]
    <2>1. \A i \in 1 .. n : (n - i) + 1 \in 1 .. n
      BY <1>1
    <2>2. \A i \in 1 .. n : t[i] \in S
      BY ElementsOf
    <2> QED
      BY <1>1, <2>1, <2>2 DEF Reverse
  <1>3. b \in Seq(S) /\ Len(b) = m + n /\ \A i \in 1 .. m + n : b[i] = u[((m + n) - i) + 1]
    <2>1. \A i \in 1 .. m + n : ((m + n) - i) + 1 \in 1 .. m + n
      BY <1>1
    <2>2. \A i \in 1 .. m + n : u[i] \in S
      BY <1>1, ElementsOf
    <2>3. b = [i \in 1 .. m + n |-> u[((m + n) - i) + 1]]
      BY <1>1 DEF Reverse
    <2>4. m + n \in Nat
      BY <1>1
    <2> QED
      BY <2>1, <2>2, <2>3, <2>4
  <1> HIDE DEF a, b
  <1>4. Len(a) <= Len(b)
    BY <1>1, <1>2, <1>3
  <1>5. ASSUME NEW i \in 1 .. Len(a) PROVE a[i] = b[i]
    <2>1. i \in 1 .. n /\ i \in 1 .. m + n /\ (n - i) + 1 \in 1 .. n /\ ((m + n) - i) + 1 = m + ((n - i) + 1)
      BY <1>1, <1>2
    <2>2. u[m + ((n - i) + 1)] = t[(n - i) + 1]
      BY <1>1, <2>1
    <2> QED
      BY <1>2, <1>3, <2>1, <2>2
  <1>6. IsPrefix(a, b)
    BY <1>2, <1>3, <1>4, <1>5, PrefixIs
  <1> QED
    BY <1>6 DEF IsSuffix, a, b, u

(* A line that is entered and remembered. *)
LEMMA ReturnedStep ==
  ASSUME EditorInv, NEW l \in Text, Returned(l),
         \/ l = <<>>
         \/ \E x : /\ Kept(x) /\ ~x.stray /\ Outcome(editor, x)
                   /\ \E s \in {<<>>, <<Space>>} : l \o s = Shown(x)
  PROVE  Buffer!ENext
  <1>1. /\ ~editor.stray /\ editor' = Empty /\ lines' = Remembered(l) /\ kill' = kill
    BY DEF Returned
  <1>2. lines \in Seq(Entries) /\ Kept(editor) /\ current \in Nat
    BY <1>1, EditorSound DEF EditorInv
  <1>3. HeldLines' = HeldLines \cup {l}
    BY <1>1, <1>2, RememberedIs DEF HeldLines
  <1>4. Left(editor)' = <<>> /\ Right(editor)' = <<>> /\ Buffer!Edited
    BY <1>1, EmptySeen
  <1>5. editor'.stray = editor.stray
    BY <1>1, <1>2 DEF Kept, Editor, Empty
  <1>6. l = <<>> \/ \E s \in {<<>>, <<Space>>} : Buffer!Filled(l \o s) \/ Buffer!Replaced(l \o s)
    <2>1. ASSUME NEW x, Kept(x), ~x.stray, Outcome(editor, x) PROVE Buffer!Filled(Shown(x)) \/ Buffer!Replaced(Shown(x))
      <3> DEFINE t == Shown(x)
      <3>1. /\ Left(editor) \in Seq(DOMAIN Rank) /\ Right(editor) \in Seq(DOMAIN Rank)
            /\ Left(editor) \o Right(editor) = Shown(editor)
        BY <1>2, SidesAre
      <3>2. Left(x) \in Seq(DOMAIN Rank) /\ Right(x) \in Seq(DOMAIN Rank) /\ Left(x) \o Right(x) = t
        BY <1>2, <2>1, SidesAre
      <3> HIDE DEF t
      <3>3. CASE Fills(editor, x)
        <4> DEFINE a == Left(editor)
                   b == Right(editor)
                   c == Left(x)
        <4>1. /\ a \in Seq(DOMAIN Rank) /\ b \in Seq(DOMAIN Rank) /\ c \in Seq(DOMAIN Rank)
              /\ IsPrefix(a, c)
          BY <3>1, <3>2, <3>3 DEF Fills
        <4>2. t = c \o b
          BY <3>2, <3>3 DEF Fills
        <4> HIDE DEF a, b, c
        <4>3. IsPrefix(c, c \o b) /\ c \o b \in Seq(DOMAIN Rank)
          BY ONLY <4>1, PrefixLonger, Both
        <4>4. IsPrefix(a, c \o b)
          BY ONLY <4>1, <4>3, PrefixAll
        <4>5. IsSuffix(b, c \o b)
          BY ONLY <4>1, SuffixLonger
        <4>6. Len(c \o b) >= Len(a \o b)
          <5>1. Len(c \o b) = Len(c) + Len(b) /\ Len(a \o b) = Len(a) + Len(b)
            BY ONLY <4>1, Both
          <5>2. Len(a) <= Len(c) /\ Len(a) \in Nat /\ Len(b) \in Nat /\ Len(c) \in Nat
            BY <4>1 DEF IsPrefix
          <5> QED
            BY ONLY <5>1, <5>2
        <4>7. Buffer!Filled(t)
          BY <4>2, <4>4, <4>5, <4>6
          DEF a, b, Buffer!Filled, Buffer!text, Buffer!IsPrefix, IsPrefix, Buffer!IsSuffix, IsSuffix,
              Buffer!Reverse, Reverse, Left, Right
        <4> QED
          BY <4>7 DEF t
      <3>4. CASE /\ Right(x) = <<>>
                 /\ Put(Left(x)) /\ (Bang \in ToSet(Shown(editor)) \/ Offers)
        <4>1. t = Left(x)
          <5>1. Left(x) \o <<>> = Left(x)
            BY <3>2
          <5> QED
            BY <3>2, <3>4, <5>1
        <4>2. Bang \in ToSet(Left(editor) \o Right(editor)) \/ \E s \in Offered : Bang \in ToSet(s)
          BY <3>1, <3>4 DEF Offers
        <4>3. \E h \in HeldLines : Holds(t, h)
          BY <3>4, <4>1 DEF Put, HeldLines
        <4>4. Buffer!Replaced(t)
          BY <4>2, <4>3 DEF Buffer!Replaced, Buffer!text, Buffer!ToSet, ToSet, Holds, HeldLines, Left, Right
        <4> QED
          BY <4>4 DEF t
      <3> QED
        BY <2>1, <3>3, <3>4 DEF Outcome, Became
    <2> QED
      BY <2>1
  <1>7. Buffer!Enter(l)
    BY <1>1, <1>3, <1>4, <1>6 DEF Buffer!Enter, Left, Right, HeldLines
  <1>8. l \in HeldLines'
    BY <1>3
  <1> QED
    BY <1>1, <1>5, <1>7, <1>8 DEF Buffer!ENext, HeldLines

LEMMA EnteringStep ==
  ASSUME EditorInv, tinyrl_key_interrupt \/ KeyEnterReturns
  PROVE  Buffer!ENext
  <1>1. CASE tinyrl_key_interrupt
    BY <1>1, EmptyText, ReturnedStep DEF tinyrl_key_interrupt
  <1>2. CASE KeyEnterReturns
    <2>1. PICK chance \in Chance :
            \E x \in {ucli_shell_tinyrl_key_enter(editor, chance)} :
               /\ x.is = "command" /\ ~x.e.stray
               /\ Returned(Shown(Trimmed(x.e)))
      BY <1>2 DEF KeyEnterReturns
    <2> DEFINE x == ucli_shell_tinyrl_key_enter(editor, chance)
               y == x.e
               l == Shown(Trimmed(y))
    <2>2. x.is = "command" /\ ~y.stray /\ Returned(l)
      BY <2>1
    <2>3. lines \in Seq(Entries) /\ views \in Views /\ Kept(editor)
      BY <2>2, EditorSound DEF Returned
    <2>4. Kept(y) /\ Outcome(editor, y)
      BY <2>2, <2>3, KeyEnterIs
    <2> HIDE DEF x, y
    <2>5. l \in Text /\ \E s \in {<<>>, <<Space>>} : l \o s = Shown(y)
      BY <2>3, <2>4, TrimmedIs
    <2> HIDE DEF l
    <2> QED
      BY <2>2, <2>4, <2>5, ReturnedStep
  <1> QED
    BY <1>1, <1>2

LEMMA PieceStep ==
  ASSUME EditorInv, fgets
  PROVE  [Buffer!ENext]_(Buffer!evars)
  <1>1. /\ ~editor.stray /\ (~editor'.stray => Fills(editor, editor'))
        /\ lines' = lines /\ kill' = kill
    BY PieceIs
  <1>2. CASE editor'.stray
    BY <1>1, <1>2, LosesStep
  <1>3. CASE ~editor'.stray
    BY <1>1, <1>3, TypeStep
  <1> QED
    BY <1>2, <1>3

LEMMA BufferStep ==
  ASSUME EditorInv, [Next]_vars
  PROVE  [Buffer!ENext]_(Buffer!evars)
  <1>1. CASE UNCHANGED vars
    BY <1>1 DEF vars, Buffer!evars, Shown
  <1>2. CASE tinyrl_readline \/ EndOfInput \/ ScriptEnter
    <2>1. ~editor.stray /\ editor' = Empty /\ lines' = lines /\ kill' = kill
      BY <1>2 DEF tinyrl_readline, EndOfInput, ScriptEnter
    <2> QED
      BY <2>1, LeaveStep
  <1> QED
    BY <1>1, <1>2, PuttingStep, TakingStep, MovingStep, ViewingStep, EnteringStep, PieceStep
       DEF Next, Key

(* The editor of tinyrl.c, with the keys of shell_tinyrl.c, does with the line, the killed
   text, the draft and the lines that were entered what EditBuffer promises, whatever is
   typed and however long the lines are: a completion adds to the text at the cursor, an
   expansion happens only where there is a reference, and a key that would work on text
   that is not shown is told apart from all of these. *)
THEOREM ImplementsTheBuffer ==
  Spec => ImplementsEditBuffer
  <1>1. Init => Buffer!EInit
    <2> SUFFICES ASSUME Init PROVE Buffer!EInit
      OBVIOUS
    <2>1. Shown(editor) = <<>> /\ editor.point = 0 /\ editor.buffer = <<>> /\ editor.view = 0 /\ editor.stray = FALSE
      BY DEF Init, Shown, Empty
    <2>2. SubSeq(<<>>, 1, 0) = <<>> /\ SubSeq(<<>>, 0 + 1, Len(<<>>)) = <<>>
      OBVIOUS
    <2>3. {lines[i].line : i \in DOMAIN lines} = {}
      BY DEF Init
    <2>4. (editor.view # 0) = FALSE
      BY <2>1
    <2> QED
      BY <2>1, <2>2, <2>3, <2>4 DEF Buffer!EInit, Init
  <1>2. EditorInv /\ [Next]_vars => [Buffer!ENext]_(Buffer!evars)
    BY BufferStep
  <1> QED
    BY <1>1, <1>2, InvAlways, PTL DEF Spec, ImplementsEditBuffer, Buffer!ESpec
=============================================================================
