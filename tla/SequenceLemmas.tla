--------------------------- MODULE SequenceLemmas ---------------------------
(***************************************************************************)
(* Facts about sequences and linked lists that the proofs of several       *)
(* components need, and the libraries do not state.                        *)
(***************************************************************************)
EXTENDS Integers, Sequences, FiniteSets, SequencesExt, FiniteSetsExt, Functions,
        SequenceTheorems, FiniteSetTheorems, NaturalsInduction, WellFoundedInduction, TLAPS

-----------------------------------------------------------------------------
(* The elements of a sequence. *)

LEMMA ElementsOf ==
  ASSUME NEW S, NEW s \in Seq(S)
  PROVE  /\ Len(s) \in Nat /\ DOMAIN s = 1 .. Len(s) /\ (s = <<>> <=> Len(s) = 0)
         /\ \A i \in 1 .. Len(s) : s[i] \in S /\ s[i] \in ToSet(s)
         /\ \A t \in ToSet(s) : t \in S /\ \E i \in 1 .. Len(s) : t = s[i]
  <1>1. Len(s) \in Nat /\ DOMAIN s = 1 .. Len(s) /\ (s = <<>> <=> Len(s) = 0)
    BY EmptySeq, LenProperties
  <1>2. \A i \in 1 .. Len(s) : s[i] \in S
    BY <1>1, ElementOfSeq
  <1> QED
    BY <1>1, <1>2 DEF ToSet

(* A sequence without repetition is no longer than the set it is drawn from. *)
LEMMA InjectiveFits ==
  ASSUME NEW S, IsFiniteSet(S), NEW s \in Seq(S), IsInjective(s)
  PROVE  /\ IsFiniteSet(ToSet(s)) /\ Cardinality(ToSet(s)) = Len(s)
         /\ Len(s) <= Cardinality(S)
  <1> DEFINE T == ToSet(s)
  <1>1. T \subseteq S /\ IsFiniteSet(T) /\ Cardinality(T) <= Cardinality(S)
    <2>1. T \subseteq S
      BY ElementsOf
    <2> QED
      BY <2>1, FS_Subset
  <1>2. s \in Injection(1 .. Len(s), T) /\ s \in Surjection(1 .. Len(s), T)
    <2>1. s \in [1 .. Len(s) -> T]
      BY ElementsOf, LenProperties
    <2> QED
      BY <2>1, ElementsOf DEF Injection, Surjection
  <1>3. Cardinality(1 .. Len(s)) = Cardinality(T)
    BY <1>1, <1>2, FS_Injection
  <1>4. Cardinality(1 .. Len(s)) = Len(s)
    <2>1. Cardinality(1 .. Len(s)) = IF 1 > Len(s) THEN 0 ELSE Len(s) - 1 + 1
      BY ElementsOf, FS_Interval, 1 \in Int, Len(s) \in Int
    <2> QED
      BY <2>1, ElementsOf
  <1> QED
    BY <1>1, <1>3, <1>4

(* An element is put at the end. *)
LEMMA Appended ==
  ASSUME NEW S, NEW s \in Seq(S), NEW t \in S
  PROVE  /\ Append(s, t) \in Seq(S) /\ Append(s, t) # <<>>
         /\ Len(Append(s, t)) = Len(s) + 1
         /\ \A i \in 1 .. Len(s) : Append(s, t)[i] = s[i]
         /\ Append(s, t)[Len(s) + 1] = t
         /\ ToSet(Append(s, t)) = ToSet(s) \cup {t}
         /\ IsInjective(s) /\ t \notin ToSet(s) => IsInjective(Append(s, t))
  <1> DEFINE a == Append(s, t)
  <1>1. /\ a \in Seq(S) /\ Len(a) = Len(s) + 1 /\ Len(s) \in Nat
        /\ DOMAIN a = 1 .. Len(s) + 1 /\ DOMAIN s = 1 .. Len(s)
        /\ \A i \in 1 .. Len(s) : a[i] = s[i]
        /\ a[Len(s) + 1] = t
    OBVIOUS
  <1>2. a # <<>>
    BY AppendProperties
  <1> HIDE DEF a
  <1>3. ToSet(a) = ToSet(s) \cup {t}
    BY <1>1 DEF ToSet
  <1>4. IsInjective(s) /\ t \notin ToSet(s) => IsInjective(a)
    BY <1>1 DEF IsInjective, ToSet
  <1> QED
    BY <1>1, <1>2, <1>3, <1>4 DEF a

(* An element is put first. *)
LEMMA Prepended ==
  ASSUME NEW S, NEW s \in Seq(S), NEW t \in S
  PROVE  /\ <<t>> \o s \in Seq(S)
         /\ ToSet(<<t>> \o s) = ToSet(s) \cup {t}
         /\ IsInjective(s) /\ t \notin ToSet(s) => IsInjective(<<t>> \o s)
  <1> DEFINE a == <<t>> \o s
             n == Len(s)
  <1>1. n \in Nat /\ DOMAIN s = 1 .. n
    BY ElementsOf
  <1>2. /\ a \in Seq(S) /\ Len(a) = n + 1 /\ DOMAIN a = 1 .. n + 1
        /\ a[1] = t /\ \A i \in 1 .. n : a[i + 1] = s[i]
    <2>1. <<t>> \in Seq(S) /\ Len(<<t>>) = 1
      OBVIOUS
    <2>2. /\ a \in Seq(S) /\ Len(a) = Len(<<t>>) + Len(s)
          /\ \A i \in 1 .. Len(<<t>>) + Len(s) :
               a[i] = IF i <= Len(<<t>>) THEN <<t>>[i] ELSE s[i - Len(<<t>>)]
      BY <2>1, ConcatProperties
    <2>3. Len(a) = n + 1 /\ \A i \in 1 .. n + 1 : a[i] = IF i <= 1 THEN t ELSE s[i - 1]
      BY <1>1, <2>1, <2>2
    <2> HIDE DEF a, n
    <2>4. DOMAIN a = 1 .. n + 1
      BY <2>2, <2>3, ElementsOf
    <2>5. ASSUME NEW i \in 1 .. n PROVE a[i + 1] = s[i]
      <3>1. i + 1 \in 1 .. n + 1 /\ ~(i + 1 <= 1) /\ (i + 1) - 1 = i
        BY <1>1
      <3> QED
        BY <2>3, <3>1
    <2> QED
      BY <1>1, <2>2, <2>3, <2>4, <2>5
  <1> HIDE DEF a, n
  <1>3. \A i \in 1 .. n + 1 : i = 1 \/ \E j \in 1 .. n : i = j + 1
    <2> TAKE i \in 1 .. n + 1
    <2>1. i = 1 \/ (i - 1 \in 1 .. n /\ i = (i - 1) + 1)
      BY <1>1
    <2> QED
      BY <2>1
  <1>4. ToSet(a) = ToSet(s) \cup {t}
    <2>1. \A i \in 1 .. n : i + 1 \in 1 .. n + 1
      BY <1>1
    <2>2. 1 \in 1 .. n + 1
      BY <1>1
    <2>3. ASSUME NEW x \in ToSet(a) PROVE x \in ToSet(s) \cup {t}
      <3>1. PICK i \in 1 .. n + 1 : x = a[i]
        BY <1>2 DEF ToSet
      <3>2. CASE i = 1
        BY <1>2, <3>1, <3>2
      <3>3. CASE i # 1
        <4>1. PICK j \in 1 .. n : i = j + 1
          BY <1>3, <3>3
        <4> QED
          BY <1>1, <1>2, <3>1, <4>1 DEF ToSet
      <3> QED
        BY <3>2, <3>3
    <2>4. ASSUME NEW x \in ToSet(s) \cup {t} PROVE x \in ToSet(a)
      <3>1. x = t \/ \E j \in 1 .. n : x = s[j]
        BY <1>1 DEF ToSet
      <3>2. \E i \in 1 .. n + 1 : x = a[i]
        BY <1>2, <2>1, <2>2, <3>1
      <3> QED
        BY <1>2, <3>2 DEF ToSet
    <2> QED
      BY <2>3, <2>4
  <1>5. IsInjective(s) /\ t \notin ToSet(s) => IsInjective(a)
    <2> SUFFICES ASSUME IsInjective(s), t \notin ToSet(s),
                        NEW i \in 1 .. n + 1, NEW j \in 1 .. n + 1, a[i] = a[j]
                 PROVE  i = j
      BY <1>2 DEF IsInjective
    <2>1. \A k \in 1 .. n : s[k] # t
      BY <1>1 DEF ToSet
    <2>2. \A k, m \in 1 .. n : s[k] = s[m] => k = m
      BY <1>1 DEF IsInjective
    <2>3. CASE i = 1
      BY <1>2, <1>3, <2>1, <2>3
    <2>4. CASE i # 1
      <3>1. PICK k \in 1 .. n : i = k + 1
        BY <1>3, <2>4
      <3>2. j # 1
        BY <1>2, <2>1, <3>1
      <3>3. PICK m \in 1 .. n : j = m + 1
        BY <1>3, <3>2
      <3>4. k = m
        BY <1>2, <2>2, <3>1, <3>3
      <3> QED
        BY <3>1, <3>3, <3>4
    <2> QED
      BY <2>3, <2>4
  <1> QED
    BY <1>2, <1>4, <1>5 DEF a

(* The first element is taken off a sequence without repetition. *)
LEMMA TailOf ==
  ASSUME NEW S, NEW s \in Seq(S), s # <<>>, IsInjective(s)
  PROVE  /\ Tail(s) \in Seq(S) /\ Len(Tail(s)) = Len(s) - 1
         /\ \A i \in 1 .. Len(s) - 1 : Tail(s)[i] = s[i + 1]
         /\ Tail(s) = <<>> <=> Len(s) = 1
         /\ ToSet(Tail(s)) = ToSet(s) \ {s[1]}
         /\ IsInjective(Tail(s))
  <1> DEFINE n == Len(s)
             a == Tail(s)
  <1>1. /\ a \in Seq(S) /\ Len(a) = n - 1 /\ n \in Nat \ {0}
        /\ \A i \in 1 .. n - 1 : a[i] = s[i + 1]
    BY HeadTailProperties, ElementsOf
  <1>2. DOMAIN s = 1 .. n /\ \A i, j \in 1 .. n : s[i] = s[j] => i = j
    BY ElementsOf DEF IsInjective
  <1> HIDE DEF a, n
  <1>3. DOMAIN a = 1 .. n - 1 /\ (a = <<>> <=> n = 1)
    <2>1. DOMAIN a = 1 .. Len(a) /\ (a = <<>> <=> Len(a) = 0)
      BY <1>1, ElementsOf
    <2> QED
      BY <1>1, <2>1
  <1>4. ASSUME NEW x \in ToSet(a) PROVE x \in ToSet(s) /\ x # s[1]
    <2>1. PICK i \in 1 .. n - 1 : x = s[i + 1]
      BY <1>1, <1>3 DEF ToSet
    <2>2. i + 1 \in 1 .. n /\ i + 1 # 1 /\ 1 \in 1 .. n
      BY <1>1
    <2> QED
      BY <1>2, <2>1, <2>2 DEF ToSet
  <1>5. ASSUME NEW x \in ToSet(s), x # s[1] PROVE x \in ToSet(a)
    <2>1. PICK i \in 1 .. n : x = s[i]
      BY <1>2 DEF ToSet
    <2>2. i - 1 \in 1 .. n - 1 /\ (i - 1) + 1 = i
      BY <1>1, <1>5, <2>1
    <2>3. a[i - 1] = x
      BY <1>1, <2>1, <2>2
    <2> QED
      BY <1>3, <2>2, <2>3 DEF ToSet
  <1>6. IsInjective(a)
    <2> SUFFICES ASSUME NEW i \in 1 .. n - 1, NEW j \in 1 .. n - 1, a[i] = a[j] PROVE i = j
      BY <1>3 DEF IsInjective
    <2>1. i + 1 \in 1 .. n /\ j + 1 \in 1 .. n /\ s[i + 1] = s[j + 1]
      BY <1>1
    <2>2. i + 1 = j + 1
      BY <1>2, <2>1
    <2> QED
      BY <2>2
  <1>7. ToSet(a) = ToSet(s) \ {s[1]}
    BY <1>4, <1>5
  <1> QED
    BY <1>1, <1>3, <1>6, <1>7 DEF a, n

(* An element is taken out. *)
LEMMA RemovedAt ==
  ASSUME NEW S, NEW s \in Seq(S), NEW i \in 1 .. Len(s)
  PROVE  /\ RemoveAt(s, i) \in Seq(S) /\ Len(RemoveAt(s, i)) = Len(s) - 1
         /\ \A j \in 1 .. Len(s) - 1 : RemoveAt(s, i)[j] = IF j < i THEN s[j] ELSE s[j + 1]
  <1> DEFINE n == Len(s)
             a == SubSeq(s, 1, i - 1)
             b == SubSeq(s, i + 1, n)
  <1>1. n \in Nat /\ i \in Nat /\ 1 <= i /\ i <= n
    OBVIOUS
  <1>2. \A j \in 1 .. n : s[j] \in S
    BY ElementOfSeq
  <1> HIDE DEF n
  <1>3. /\ a \in Seq(S) /\ Len(a) = i - 1
        /\ \A j \in 1 .. i - 1 : a[j] = s[j]
    <2>1. i - 1 \in Int /\ \A j \in 1 .. i - 1 : s[j] \in S
      BY <1>1, <1>2
    <2>2. /\ a \in Seq(S)
          /\ Len(a) = IF 1 <= i - 1 THEN (i - 1) - 1 + 1 ELSE 0
          /\ \A j \in 1 .. (i - 1) - 1 + 1 : a[j] = s[1 + j - 1]
      BY <2>1, SubSeqProperties
    <2> HIDE DEF a
    <2> QED
      BY <1>1, <2>2
  <1>4. /\ b \in Seq(S) /\ Len(b) = n - i
        /\ \A j \in 1 .. n - i : b[j] = s[i + j]
    <2>1. i + 1 \in Int /\ n \in Int /\ \A j \in i + 1 .. n : s[j] \in S
      BY <1>1, <1>2
    <2>2. /\ b \in Seq(S)
          /\ Len(b) = IF i + 1 <= n THEN n - (i + 1) + 1 ELSE 0
          /\ \A j \in 1 .. n - (i + 1) + 1 : b[j] = s[(i + 1) + j - 1]
      BY <2>1, SubSeqProperties
    <2> HIDE DEF b
    <2> QED
      BY <1>1, <2>2
  <1>5. RemoveAt(s, i) = a \o b
    BY DEF RemoveAt, n
  <1> HIDE DEF a, b
  <1>6. /\ a \o b \in Seq(S)
        /\ Len(a \o b) = n - 1
        /\ \A j \in 1 .. n - 1 : (a \o b)[j] = IF j <= i - 1 THEN a[j] ELSE b[j - (i - 1)]
    <2>1. /\ a \o b \in Seq(S)
          /\ Len(a \o b) = Len(a) + Len(b)
          /\ \A j \in 1 .. Len(a) + Len(b) :
               (a \o b)[j] = IF j <= Len(a) THEN a[j] ELSE b[j - Len(a)]
      BY <1>3, <1>4, ConcatProperties
    <2>2. Len(a) = i - 1 /\ Len(a) + Len(b) = n - 1
      BY <1>1, <1>3, <1>4
    <2> QED
      BY <2>1, <2>2
  <1>7. ASSUME NEW j \in 1 .. n - 1
        PROVE  (a \o b)[j] = IF j < i THEN s[j] ELSE s[j + 1]
    <2>1. CASE j < i
      <3>1. j \in 1 .. i - 1
        BY <1>1, <2>1
      <3> QED
        BY <1>3, <1>6, <2>1, <3>1
    <2>2. CASE ~(j < i)
      <3>1. /\ ~(j <= i - 1) /\ j - (i - 1) \in 1 .. n - i
            /\ i + (j - (i - 1)) = j + 1
        BY <1>1, <2>2
      <3> QED
        BY <1>4, <1>6, <2>2, <3>1
    <2> QED
      BY <2>1, <2>2
  <1> QED
    BY <1>5, <1>6, <1>7 DEF n

LEMMA RemovedElement ==
  ASSUME NEW S, NEW s \in Seq(S), NEW i \in 1 .. Len(s), IsInjective(s)
  PROVE  IsInjective(RemoveAt(s, i)) /\ ToSet(RemoveAt(s, i)) = ToSet(s) \ {s[i]}
  <1> DEFINE n == Len(s)
             a == RemoveAt(s, i)
  <1>1. /\ n \in Nat /\ i \in 1 .. n /\ DOMAIN s = 1 .. n
        /\ \A j, k \in 1 .. n : s[j] = s[k] => j = k
    BY ElementsOf DEF IsInjective
  <1>2. /\ a \in Seq(S) /\ Len(a) = n - 1
        /\ \A j \in 1 .. n - 1 : a[j] = IF j < i THEN s[j] ELSE s[j + 1]
    BY RemovedAt
  <1> HIDE DEF a, n
  <1>3. DOMAIN a = 1 .. n - 1
    BY <1>2, ElementsOf
  <1>4. ASSUME NEW j \in 1 .. n - 1, NEW k \in 1 .. n - 1, a[j] = a[k] PROVE j = k
    <2> DEFINE J == IF j < i THEN j ELSE j + 1
               K == IF k < i THEN k ELSE k + 1
    <2>1. J \in 1 .. n /\ K \in 1 .. n
      BY <1>1
    <2>2. s[J] = s[K]
      BY <1>2, <1>4
    <2>3. J = K
      BY <1>1, <2>1, <2>2
    <2> QED
      BY <1>1, <2>3
  <1>5. ASSUME NEW x \in ToSet(a) PROVE x \in ToSet(s) /\ x # s[i]
    <2>1. PICK j \in 1 .. n - 1 : x = a[j]
      BY <1>3 DEF ToSet
    <2>2. PICK k \in 1 .. n : k # i /\ x = s[k]
      BY <1>1, <1>2, <2>1
    <2> QED
      BY <1>1, <2>2 DEF ToSet
  <1>6. ASSUME NEW x \in ToSet(s), x # s[i] PROVE x \in ToSet(a)
    <2>1. PICK k \in 1 .. n : x = s[k] /\ k # i
      BY <1>1, <1>6 DEF ToSet
    <2>2. PICK j \in 1 .. n - 1 : a[j] = x
      <3>1. CASE k < i
        <4>1. k \in 1 .. n - 1
          BY <1>1, <3>1
        <4> QED
          BY <1>2, <2>1, <3>1, <4>1
      <3>2. CASE ~(k < i)
        <4>1. k - 1 \in 1 .. n - 1 /\ ~(k - 1 < i) /\ (k - 1) + 1 = k
          BY <1>1, <2>1, <3>2
        <4> QED
          BY <1>2, <2>1, <4>1
      <3> QED
        BY <3>1, <3>2
    <2> QED
      BY <1>3, <2>2 DEF ToSet
  <1>7. ToSet(a) = ToSet(s) \ {s[i]}
    BY <1>5, <1>6
  <1>8. IsInjective(a)
    BY <1>3, <1>4 DEF IsInjective
  <1> QED
    BY <1>7, <1>8 DEF a

-----------------------------------------------------------------------------
(* Linked lists.  What a list holds is read by walking its links from its first     *)
(* element, a function defined by recursion; but two walks that differ do so at a   *)
(* first step, and there they cannot.  So a sequence that agrees with every link is *)
(* what is read.                                                                    *)

(* A set of numbers has a least one. *)
LEMMA Smallest ==
  ASSUME NEW T, T \subseteq Nat, T # {}
  PROVE  \E x \in T : \A y \in T : x <= y
  <1>1. IsWellFoundedOn(OpToRel(<, Nat), Nat)
    BY NatLessThanWellFounded
  <1>2. PICK x \in T : \A y \in T : ~(<<y, x>> \in OpToRel(<, Nat))
    BY <1>1, WFMin
  <1>3. ASSUME NEW y \in T PROVE x <= y
    <2>1. ~(y < x)
      BY <1>2 DEF OpToRel
    <2> QED
      BY <2>1
  <1> QED
    BY <1>3

(* f is a walk of N steps along the links A from h. *)
IsWalk(f, N, h, A) == f = [n \in 0 .. N |-> IF n = 0 THEN h ELSE A[f[n - 1]]]

LEMMA WalkSteps ==
  ASSUME NEW N \in Nat, NEW h, NEW A, NEW f, IsWalk(f, N, h, A)
  PROVE  f[0] = h /\ \A n \in 0 .. N : n # 0 => f[n] = A[f[n - 1]]
  <1>1. \A n \in 0 .. N : f[n] = IF n = 0 THEN h ELSE A[f[n - 1]]
    BY DEF IsWalk
  <1>2. 0 \in 0 .. N
    OBVIOUS
  <1> QED
    BY <1>1, <1>2, Zenon

(* There is one such walk. *)
LEMMA OneWalk ==
  ASSUME NEW N \in Nat, NEW h, NEW A, NEW c, NEW g, IsWalk(c, N, h, A), IsWalk(g, N, h, A)
  PROVE  c = g
  <1>1. /\ c[0] = h /\ \A n \in 0 .. N : n # 0 => c[n] = A[c[n - 1]]
        /\ g[0] = h /\ \A n \in 0 .. N : n # 0 => g[n] = A[g[n - 1]]
    BY WalkSteps
  <1>2. \A n \in 0 .. N : c[n] = g[n]
    <2> DEFINE Bad == {n \in 0 .. N : c[n] # g[n]}
    <2> SUFFICES ASSUME Bad # {} PROVE FALSE
      OBVIOUS
    <2>0. Bad \subseteq Nat
      OBVIOUS
    <2>1. PICK x \in Bad : \A y \in Bad : x <= y
      <3> HIDE DEF Bad
      <3> QED BY <2>0, Smallest
    <2>2. x \in 0 .. N /\ x # 0 /\ x \in Nat
      BY <1>1, <2>1
    <2>3. x - 1 \in 0 .. N /\ x - 1 \notin Bad
      BY <2>1, <2>2
    <2>4. c[x - 1] = g[x - 1]
      BY <2>3
    <2>5. c[x] = A[c[x - 1]] /\ g[x] = A[g[x - 1]]
      BY <1>1, <2>2, Zenon
    <2>6. c[x] = g[x]
      BY <2>4, <2>5, Zenon
    <2> QED
      BY <2>6
  <1>3. c = [n \in 0 .. N |-> c[n]] /\ g = [n \in 0 .. N |-> g[n]]
    <2>1. c = [n \in 0 .. N |-> IF n = 0 THEN h ELSE A[c[n - 1]]]
      BY DEF IsWalk
    <2>2. g = [n \in 0 .. N |-> IF n = 0 THEN h ELSE A[g[n - 1]]]
      BY DEF IsWalk
    <2>3. c = [n \in 0 .. N |-> c[n]]
      BY <2>1
    <2> QED
      BY <2>2, <2>3
  <1>4. [n \in 0 .. N |-> c[n]] = [n \in 0 .. N |-> g[n]]
    BY <1>2
  <1> QED
    BY <1>3, <1>4, Zenon

(* From h on, up to none, the links A join the elements of s one after the other. *)
Joins(A, h, none, s) ==
  /\ h = IF s = <<>> THEN none ELSE s[1]
  /\ A[none] = none
  /\ \A i \in 1 .. Len(s) : A[s[i]] = IF i = Len(s) THEN none ELSE s[i + 1]

(* Such a list is walked one element after the other. *)
LEMMA WalkExists ==
  ASSUME NEW S, NEW none, none \notin S, NEW N \in Nat, NEW s \in Seq(S), Len(s) <= N,
         NEW h, NEW A, Joins(A, h, none, s)
  PROVE  /\ IsWalk([n \in 0 .. N |-> IF n < Len(s) THEN s[n + 1] ELSE none], N, h, A)
         /\ \E f : IsWalk(f, N, h, A)
  <1> DEFINE g == [n \in 0 .. N |-> IF n < Len(s) THEN s[n + 1] ELSE none]
  <1>1. Len(s) \in Nat /\ (s = <<>> <=> Len(s) = 0) /\ \A i \in 1 .. Len(s) : s[i] \in S
    BY ElementsOf
  <1>0. /\ h = IF s = <<>> THEN none ELSE s[1]
        /\ A[none] = none
        /\ \A i \in 1 .. Len(s) : A[s[i]] = IF i = Len(s) THEN none ELSE s[i + 1]
    BY DEF Joins
  <1>2. IsWalk(g, N, h, A)
    <2> SUFFICES ASSUME NEW n \in 0 .. N
                 PROVE  g[n] = IF n = 0 THEN h ELSE A[g[n - 1]]
      BY DEF IsWalk
    <2>1. CASE n = 0
      BY <1>0, <1>1, <2>1
    <2>2. CASE n # 0 /\ n - 1 < Len(s)
      <3>1. n - 1 \in 0 .. N /\ n \in 1 .. Len(s) /\ g[n - 1] = s[n]
        BY <1>1, <2>2
      <3> QED
        BY <1>0, <1>1, <2>2, <3>1
    <2>3. CASE n # 0 /\ ~(n - 1 < Len(s))
      <3>1. n - 1 \in 0 .. N /\ g[n - 1] = none
        BY <1>1, <2>3
      <3>2. g[n] = none
        BY <1>1, <2>3
      <3> QED
        BY <1>0, <2>3, <3>1, <3>2
    <2> QED
      BY <2>1, <2>2, <2>3
  <1> QED
    BY <1>2

(* The walk reads that sequence. *)
LEMMA WalkReads ==
  ASSUME NEW S, NEW none, none \notin S, NEW N \in Nat, NEW s \in Seq(S), Len(s) <= N,
         NEW h, NEW A, Joins(A, h, none, s),
         NEW c, IsWalk(c, N, h, A)
  PROVE  [i \in 1 .. Cardinality({n \in 0 .. N : c[n] # none}) |-> c[i - 1]] = s
  <1> DEFINE g == [n \in 0 .. N |-> IF n < Len(s) THEN s[n + 1] ELSE none]
             d == {n \in 0 .. N : c[n] # none}
  <1>1. Len(s) \in Nat /\ (s = <<>> <=> Len(s) = 0) /\ \A i \in 1 .. Len(s) : s[i] \in S
    BY ElementsOf
  <1>2. IsWalk(g, N, h, A)
    BY WalkExists
  <1>3. c = g
    <2> HIDE DEF g
    <2> QED BY <1>2, OneWalk
  <1>4. d = 0 .. Len(s) - 1
    BY <1>1, <1>3
  <1>5. Cardinality(0 .. Len(s) - 1) = Len(s)
    <2>1. Cardinality(0 .. Len(s) - 1) = IF 0 > Len(s) - 1 THEN 0 ELSE (Len(s) - 1) - 0 + 1
      BY <1>1, FS_Interval, 0 \in Int, Len(s) - 1 \in Int
    <2> QED
      BY <1>1, <2>1
  <1>6. \A i \in 1 .. Len(s) : g[i - 1] = s[i]
    BY <1>1
  <1>7. s = [i \in 1 .. Len(s) |-> s[i]]
    BY LenProperties
  <1>8. Cardinality(d) = Len(s)
    BY <1>4, <1>5
  <1> HIDE DEF d, g
  <1>9. [i \in 1 .. Cardinality(d) |-> c[i - 1]] = [i \in 1 .. Len(s) |-> s[i]]
    BY <1>3, <1>6, <1>8
  <1> QED
    BY <1>7, <1>9 DEF d
-----------------------------------------------------------------------------
(* Recursive functions.  The prover cannot do induction over a formula, but it can     *)
(* over a set: of the numbers that are not in it there would be a least one.           *)

(* A set that has 0, and with each number below N the next one, has all up to N. *)
LEMMA UpTo ==
  ASSUME NEW N \in Nat, NEW T, 0 \in T, \A n \in 1 .. N : n - 1 \in T => n \in T
  PROVE  \A n \in 0 .. N : n \in T
  <1> DEFINE Bad == {n \in 0 .. N : n \notin T}
  <1> SUFFICES ASSUME Bad # {} PROVE FALSE
    OBVIOUS
  <1>1. Bad \subseteq Nat
    OBVIOUS
  <1>2. PICK x \in Bad : \A y \in Bad : x <= y
    <2> HIDE DEF Bad
    <2> QED
      BY <1>1, Smallest
  <1>3. x \in 1 .. N /\ x - 1 \in 0 .. N
    BY <1>2
  <1>4. x - 1 \notin Bad
    BY <1>2, <1>3
  <1> QED
    BY <1>2, <1>3, <1>4

(* A function with the first value h, and the others made from the one before by A. *)
Recursive(f, N, h, A) == f = [n \in 0 .. N |-> IF n = 0 THEN h ELSE A[<<n, f[n - 1]>>]]

(* There is one, if A is a function on a set. *)
LEMMA RecursionExists ==
  ASSUME NEW S, NEW h \in S, NEW N \in Nat, NEW A \in [(1 .. N) \X S -> S]
  PROVE  \E f \in [0 .. N -> S] : Recursive(f, N, h, A)
  <1> DEFINE T == {k \in 0 .. N : \E f \in [0 .. k -> S] : Recursive(f, k, h, A)}
  <1>1. 0 \in T
    <2> DEFINE f == [n \in 0 .. 0 |-> h]
    <2>1. f \in [0 .. 0 -> S]
      OBVIOUS
    <2>2. Recursive(f, 0, h, A)
      BY DEF Recursive
    <2> QED
      BY <2>1, <2>2
  <1>2. ASSUME NEW n \in 1 .. N, n - 1 \in T PROVE n \in T
    <2>1. PICK f \in [0 .. n - 1 -> S] : Recursive(f, n - 1, h, A)
      BY <1>2
    <2>2. \A k \in 0 .. n - 1 : f[k] = IF k = 0 THEN h ELSE A[<<k, f[k - 1]>>]
      BY <2>1 DEF Recursive
    <2> DEFINE g == [k \in 0 .. n |-> IF k = n THEN A[<<n, f[n - 1]>>] ELSE f[k]]
    <2>3. f[n - 1] \in S /\ <<n, f[n - 1]>> \in (1 .. N) \X S
      BY <1>2
    <2>4. g \in [0 .. n -> S]
      BY <1>2, <2>3
    <2>5. g[n - 1] = f[n - 1] /\ \A k \in 1 .. n - 1 : g[k - 1] = f[k - 1]
      BY <1>2
    <2>6. \A k \in 0 .. n : g[k] = IF k = 0 THEN h ELSE A[<<k, g[k - 1]>>]
      <3> TAKE k \in 0 .. n
      <3>1. CASE k = n
        <4>1. g[n] = A[<<n, f[n - 1]>>] /\ n # 0
          BY <1>2
        <4> HIDE DEF g
        <4> QED
          BY <2>5, <3>1, <4>1, Zenon
      <3>2. CASE k # n
        <4>1. k \in 0 .. n - 1 /\ g[k] = f[k] /\ (k # 0 => k \in 1 .. n - 1)
          BY <1>2, <3>2
        <4>2. k # 0 => g[k - 1] = f[k - 1]
          BY <2>5, <4>1
        <4> HIDE DEF g
        <4> QED
          BY <2>2, <4>1, <4>2
      <3> QED
        BY <3>1, <3>2
    <2>7. Recursive(g, n, h, A)
      <3>1. g = [k \in 0 .. n |-> g[k]]
        BY <2>4
      <3> HIDE DEF g
      <3>2. [k \in 0 .. n |-> g[k]] = [k \in 0 .. n |-> IF k = 0 THEN h ELSE A[<<k, g[k - 1]>>]]
        BY <2>6
      <3> QED
        BY <3>1, <3>2, Zenon DEF Recursive
    <2> QED
      BY <1>2, <2>4, <2>7
  <1> HIDE DEF T
  <1>3. N \in T
    BY <1>1, <1>2, UpTo
  <1> QED
    BY <1>3 DEF T

(* And its values are in that set, whichever it is. *)
LEMMA RecursionWithin ==
  ASSUME NEW S, NEW h \in S, NEW N \in Nat, NEW A \in [(1 .. N) \X S -> S],
         NEW f, Recursive(f, N, h, A)
  PROVE  /\ f \in [0 .. N -> S] /\ f[0] = h
         /\ \A n \in 1 .. N : f[n] = A[<<n, f[n - 1]>>] /\ f[n - 1] \in S
  <1>1. f[0] = h /\ \A n \in 1 .. N : f[n] = A[<<n, f[n - 1]>>]
    <2>1. \A n \in 0 .. N : f[n] = IF n = 0 THEN h ELSE A[<<n, f[n - 1]>>]
      BY DEF Recursive
    <2>2. 0 \in 0 .. N /\ \A n \in 1 .. N : n \in 0 .. N /\ n # 0
      OBVIOUS
    <2> QED
      BY <2>1, <2>2, Zenon
  <1> DEFINE T == {n \in 0 .. N : f[n] \in S}
  <1>2. 0 \in T
    BY <1>1
  <1>3. ASSUME NEW n \in 1 .. N, n - 1 \in T PROVE n \in T
    <2>1. <<n, f[n - 1]>> \in (1 .. N) \X S
      BY <1>3
    <2> QED
      BY <1>1, <2>1
  <1>4. \A n \in 0 .. N : n \in T
    <2> HIDE DEF T
    <2> QED
      BY <1>2, <1>3, UpTo
  <1>5. f = [n \in 0 .. N |-> IF n = 0 THEN h ELSE A[<<n, f[n - 1]>>]]
    BY DEF Recursive
  <1>6. f = [n \in 0 .. N |-> f[n]]
    BY <1>5
  <1>7. \A n \in 0 .. N : f[n] \in S
    BY <1>4
  <1>8. \A n \in 1 .. N : n - 1 \in 0 .. N
    OBVIOUS
  <1> QED
    BY <1>1, <1>6, <1>7, <1>8
=============================================================================
