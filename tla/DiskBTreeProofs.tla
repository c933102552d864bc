--------------------------- MODULE DiskBTreeProofs ---------------------------
(***************************************************************************)
(* Proofs about DiskBTree, for every set of keys, every capacity of at     *)
(* least two entries, and trees of any height: the pages always form a B+  *)
(* tree, which implements an ordered set of pairs and answers every range  *)
(* exactly.                                                                *)
(*                                                                         *)
(* The invariant TreeInv (at the end) says that there is a way to measure  *)
(* the tree: a height for every page, and the interval of keys that        *)
(* belongs to it (Shape).  The measures are not state of the program.      *)
(* Every operation is shown to take a measured tree to one that can be     *)
(* measured again: a leaf changes, a page splits (Open is the tree whose   *)
(* parent does not know the new page yet), the parent learns of it, the    *)
(* split climbs to the root; siblings lend an entry or merge.  The         *)
(* searches then find what the measures say, and the chain of the leaves   *)
(* lists them by their intervals.                                          *)
(*                                                                         *)
(* The theorems assume MaxSame = 1, an index with no two rows of one key   *)
(* at a time: with equal keys the code loses entries, as the configuration *)
(* MCDiskBTreeSame shows.                                                  *)
(***************************************************************************)
EXTENDS DiskBTree, FiniteSetTheorems, SequenceTheorems, TLAPS

-----------------------------------------------------------------------------
(***************************************************************************)
(* Numbers and sequences.                                                  *)
(***************************************************************************)

\* A bounded set of numbers has a greatest one; a set of numbers has a least one.
LEMMA Greatest ==
  ASSUME NEW S \in SUBSET Nat, S # {}, NEW b \in Nat, \A n \in S : n <= b
  PROVE  \E m \in S : \A n \in S : n <= m
<1> SUFFICES ASSUME \A m \in S : \E n \in S : n > m
             PROVE  FALSE
  OBVIOUS
<1> DEFINE D == {i \in 0 .. b : \E n \in S : i <= n}
           f == [i \in D |-> i + 1]
<1>1. IsFiniteSet(D)
  <2>1. IsFiniteSet(0 .. b)
    BY FS_Interval
  <2>2. D \in SUBSET (0 .. b)
    OBVIOUS
  <2> HIDE DEF D
  <2> QED
    BY <2>1, <2>2, FS_Subset
<1>2. \A i \in D : i + 1 \in D \ {0}
  OBVIOUS
<1>3. f \in Injection(D, D \ {0})
  BY <1>2 DEF Injection, IsInjective
<1>4. 0 \in D
  <2>1. PICK n \in S : n \in Nat
    OBVIOUS
  <2>2. 0 \in 0 .. b /\ 0 <= n
    BY <2>1
  <2> QED
    BY <2>1, <2>2
<1>5. Cardinality(D \ {0}) = Cardinality(D) - 1 /\ IsFiniteSet(D \ {0})
  BY <1>1, <1>4, FS_RemoveElement
<1>6. Cardinality(D) <= Cardinality(D \ {0}) /\ Cardinality(D) \in Nat
  BY <1>1, <1>3, <1>5, FS_Injection, FS_CardinalityType
<1> QED
  BY <1>5, <1>6

LEMMA MinIs ==
  ASSUME NEW S \in SUBSET Nat, S # {}
  PROVE  Min(S) \in S /\ \A n \in S : Min(S) <= n
<1>1. PICK b \in S : b \in Nat
  OBVIOUS
<1> DEFINE T == {d \in 0 .. b : b - d \in S}
<1>2. T \in SUBSET Nat /\ 0 \in T /\ \A d \in T : d <= b
  BY <1>1
<1>3. PICK m \in T : \A d \in T : d <= m
  <2> HIDE DEF T
  <2> QED
    BY <1>1, <1>2, Greatest
<1>4. b - m \in S
  BY <1>3
<1>5. ASSUME NEW n \in S PROVE b - m <= n
  <2>1. n \in Nat /\ b \in Nat /\ m \in 0 .. b
    BY <1>1, <1>3
  <2>2. CASE n > b
    BY <2>1, <2>2
  <2>3. CASE n <= b
    <3>1. b - n \in 0 .. b /\ b - (b - n) = n
      BY <2>1, <2>3
    <3>2. b - n \in T
      BY <3>1
    <3> QED
      BY <2>1, <3>1, <3>2, <1>3
  <2> QED
    BY <2>1, <2>2, <2>3
<1>6. \E x \in S : \A n \in S : x <= n
  BY <1>4, <1>5
<1> QED
  BY <1>6 DEF Min

\* How often keys come before k: Position divides an ascending sequence.
Ascending(s) == \A i, j \in 1 .. Len(s) : i < j => s[i] < s[j]

LEMMA PositionIs ==
  ASSUME NEW s \in Seq(Int), Ascending(s), NEW k \in Int
  PROVE  /\ Position(s, k) \in 0 .. Len(s)
         /\ \A i \in 1 .. Len(s) : i <= Position(s, k) <=> s[i] <= k
<1> DEFINE I == {i \in 1 .. Len(s) : k < s[i]}
<1>1. Position(s, k) = LET i == IF I # {} THEN Min(I) ELSE 0 IN IF i = 0 THEN Len(s) ELSE i - 1
  BY DEF Position, SelectInSeq
<1>2. I \in SUBSET Nat /\ Len(s) \in Nat /\ \A i \in 1 .. Len(s) : s[i] \in Int
  OBVIOUS
<1>3. CASE I = {}
  BY <1>1, <1>2, <1>3
<1>4. CASE I # {}
  <2> DEFINE m == Min(I)
  <2>1. m \in I /\ \A i \in I : m <= i
    <3> HIDE DEF I
    <3> QED
      BY <1>2, <1>4, MinIs
  <2> HIDE DEF m
  <2>2. m \in 1 .. Len(s) /\ k < s[m] /\ Position(s, k) = m - 1
    BY <1>1, <1>4, <2>1 DEF m
  <2>3. ASSUME NEW i \in 1 .. Len(s) PROVE i <= m - 1 <=> s[i] <= k
    <3>1. CASE i < m
      <4>1. i \notin I
        BY <2>1, <2>2, <3>1
      <4> QED
        BY <1>2, <2>2, <3>1, <4>1
    <3>2. CASE i = m
      BY <1>2, <2>2, <3>2
    <3>3. CASE i > m
      <4>1. s[m] < s[i]
        BY <2>2, <3>3 DEF Ascending
      <4> QED
        BY <1>2, <2>2, <3>3, <4>1
    <3> QED
      BY <2>2, <3>1, <3>2, <3>3
  <2> QED
    BY <1>2, <2>2, <2>3
<1> QED
  BY <1>3, <1>4

\* What becomes of the positions when an element enters or leaves a sequence.
LEMMA InsertAtIs ==
  ASSUME NEW S, NEW s \in Seq(S), NEW i \in 1 .. Len(s) + 1, NEW e \in S
  PROVE  /\ InsertAt(s, i, e) \in Seq(S) /\ Len(InsertAt(s, i, e)) = Len(s) + 1
         /\ \A j \in 1 .. Len(s) + 1 :
              InsertAt(s, i, e)[j] = IF j < i THEN s[j] ELSE IF j = i THEN e ELSE s[j - 1]
<1> DEFINE a == SubSeq(s, 1, i - 1)
           b == SubSeq(s, i, Len(s))
           c == a \o <<e>>
<1>1. Len(s) \in Nat /\ i \in Nat /\ \A j \in 1 .. Len(s) : s[j] \in S
  OBVIOUS
<1>2. a \in Seq(S) /\ Len(a) = i - 1 /\ \A j \in 1 .. i - 1 : a[j] = s[j]
  <2>1. /\ a \in Seq(S) /\ Len(a) = IF 1 <= i - 1 THEN (i - 1) - 1 + 1 ELSE 0
        /\ \A j \in 1 .. (i - 1) - 1 + 1 : a[j] = s[1 + j - 1]
    BY <1>1, SubSeqProperties
  <2> HIDE DEF a
  <2> QED
    BY <1>1, <2>1
<1>3. b \in Seq(S) /\ Len(b) = Len(s) - i + 1 /\ \A j \in 1 .. Len(s) - i + 1 : b[j] = s[i + j - 1]
  <2>1. /\ b \in Seq(S) /\ Len(b) = IF i <= Len(s) THEN Len(s) - i + 1 ELSE 0
        /\ \A j \in 1 .. Len(s) - i + 1 : b[j] = s[i + j - 1]
    BY <1>1, SubSeqProperties
  <2> HIDE DEF b
  <2> QED
    BY <1>1, <2>1
<1> HIDE DEF a, b
<1>4. c \in Seq(S) /\ Len(c) = i /\ \A j \in 1 .. i : c[j] = IF j < i THEN s[j] ELSE e
  <2>1. <<e>> \in Seq(S) /\ Len(<<e>>) = 1 /\ <<e>>[1] = e
    OBVIOUS
  <2>2. /\ c \in Seq(S) /\ Len(c) = Len(a) + Len(<<e>>)
        /\ \A j \in 1 .. Len(a) + Len(<<e>>) : c[j] = IF j <= Len(a) THEN a[j] ELSE <<e>>[j - Len(a)]
    BY <1>2, <2>1, ConcatProperties
  <2> HIDE DEF c
  <2>3. ASSUME NEW j \in 1 .. i PROVE c[j] = IF j < i THEN s[j] ELSE e
    <3>1. CASE j < i
      BY <1>1, <1>2, <2>1, <2>2, <3>1
    <3>2. CASE j = i
      BY <1>1, <1>2, <2>1, <2>2, <3>2
    <3> QED
      BY <1>1, <3>1, <3>2
  <2> QED
    BY <1>1, <1>2, <2>1, <2>2, <2>3
<1> HIDE DEF c
<1>5. /\ c \o b \in Seq(S) /\ Len(c \o b) = Len(c) + Len(b)
      /\ \A j \in 1 .. Len(c) + Len(b) : (c \o b)[j] = IF j <= Len(c) THEN c[j] ELSE b[j - Len(c)]
  BY <1>3, <1>4, ConcatProperties
<1>6. InsertAt(s, i, e) = c \o b
  BY DEF InsertAt, a, b, c
<1>7. ASSUME NEW j \in 1 .. Len(s) + 1
      PROVE  (c \o b)[j] = IF j < i THEN s[j] ELSE IF j = i THEN e ELSE s[j - 1]
  <2>1. CASE j <= i
    BY <1>1, <1>3, <1>4, <1>5, <2>1
  <2>2. CASE j > i
    <3>1. (c \o b)[j] = b[j - i] /\ j - i \in 1 .. Len(s) - i + 1
      BY <1>1, <1>3, <1>4, <1>5, <2>2
    <3>2. b[j - i] = s[i + (j - i) - 1] /\ i + (j - i) - 1 = j - 1
      BY <1>1, <1>3, <3>1
    <3> QED
      BY <1>1, <2>2, <3>1, <3>2
  <2>3. j <= i \/ j > i
    BY <1>1
  <2> QED
    BY <2>1, <2>2, <2>3
<1> QED
  BY <1>1, <1>3, <1>4, <1>5, <1>6, <1>7

LEMMA RemoveAtIs ==
  ASSUME NEW S, NEW s \in Seq(S), NEW i \in 1 .. Len(s)
  PROVE  /\ RemoveAt(s, i) \in Seq(S) /\ Len(RemoveAt(s, i)) = Len(s) - 1
         /\ \A j \in 1 .. Len(s) - 1 : RemoveAt(s, i)[j] = IF j < i THEN s[j] ELSE s[j + 1]
<1> DEFINE a == SubSeq(s, 1, i - 1)
           b == SubSeq(s, i + 1, Len(s))
<1>1. Len(s) \in Nat /\ i \in Nat /\ i <= Len(s) /\ 1 <= i /\ \A j \in 1 .. Len(s) : s[j] \in S
  OBVIOUS
<1>2. a \in Seq(S) /\ Len(a) = i - 1 /\ \A j \in 1 .. i - 1 : a[j] = s[j]
  <2>1. /\ a \in Seq(S) /\ Len(a) = IF 1 <= i - 1 THEN (i - 1) - 1 + 1 ELSE 0
        /\ \A j \in 1 .. (i - 1) - 1 + 1 : a[j] = s[1 + j - 1]
    BY <1>1, SubSeqProperties
  <2> HIDE DEF a
  <2> QED
    BY <1>1, <2>1
<1>3. b \in Seq(S) /\ Len(b) = Len(s) - i /\ \A j \in 1 .. Len(s) - i : b[j] = s[i + j]
  <2>1. /\ b \in Seq(S) /\ Len(b) = IF i + 1 <= Len(s) THEN Len(s) - (i + 1) + 1 ELSE 0
        /\ \A j \in 1 .. Len(s) - (i + 1) + 1 : b[j] = s[i + 1 + j - 1]
    BY <1>1, SubSeqProperties
  <2> HIDE DEF b
  <2> QED
    BY <1>1, <2>1
<1> HIDE DEF a, b
<1>4. /\ a \o b \in Seq(S) /\ Len(a \o b) = Len(a) + Len(b)
      /\ \A j \in 1 .. Len(a) + Len(b) : (a \o b)[j] = IF j <= Len(a) THEN a[j] ELSE b[j - Len(a)]
  BY <1>2, <1>3, ConcatProperties
<1>5. RemoveAt(s, i) = a \o b
  BY DEF RemoveAt, a, b
<1>6. ASSUME NEW j \in 1 .. Len(s) - 1
      PROVE  (a \o b)[j] = IF j < i THEN s[j] ELSE s[j + 1]
  <2>1. CASE j < i
    BY <1>1, <1>2, <1>3, <1>4, <2>1
  <2>2. CASE j >= i
    <3>1. (a \o b)[j] = b[j - (i - 1)] /\ j - (i - 1) \in 1 .. Len(s) - i
      BY <1>1, <1>2, <1>3, <1>4, <2>2
    <3>2. b[j - (i - 1)] = s[i + (j - (i - 1))] /\ i + (j - (i - 1)) = j + 1
      BY <1>1, <1>3, <3>1
    <3> QED
      BY <1>1, <2>2, <3>1, <3>2
  <2>3. j < i \/ j >= i
    BY <1>1
  <2> QED
    BY <2>1, <2>2, <2>3
<1>7. Len(a \o b) = Len(s) - 1
  BY <1>1, <1>2, <1>3, <1>4
<1> QED
  BY <1>4, <1>5, <1>6, <1>7

LEMMA HalvesAre ==
  ASSUME NEW S, NEW s \in Seq(S), NEW m \in 0 .. Len(s)
  PROVE  /\ Low(s, m) \in Seq(S) /\ Len(Low(s, m)) = m /\ \A j \in 1 .. m : Low(s, m)[j] = s[j]
         /\ High(s, m) \in Seq(S) /\ Len(High(s, m)) = Len(s) - m
         /\ \A j \in 1 .. Len(s) - m : High(s, m)[j] = s[m + j]
<1>1. Len(s) \in Nat /\ m \in Nat /\ m <= Len(s) /\ \A j \in 1 .. Len(s) : s[j] \in S
  OBVIOUS
<1>2. Low(s, m) \in Seq(S) /\ Len(Low(s, m)) = m /\ \A j \in 1 .. m : Low(s, m)[j] = s[j]
  <2> DEFINE a == SubSeq(s, 1, m)
  <2>1. /\ a \in Seq(S) /\ Len(a) = IF 1 <= m THEN m - 1 + 1 ELSE 0
        /\ \A j \in 1 .. m - 1 + 1 : a[j] = s[1 + j - 1]
    BY <1>1, SubSeqProperties
  <2>2. Low(s, m) = a
    BY DEF Low
  <2> HIDE DEF a
  <2> QED
    BY <1>1, <2>1, <2>2
<1>3. /\ High(s, m) \in Seq(S) /\ Len(High(s, m)) = Len(s) - m
      /\ \A j \in 1 .. Len(s) - m : High(s, m)[j] = s[m + j]
  <2> DEFINE b == SubSeq(s, m + 1, Len(s))
  <2>1. /\ b \in Seq(S) /\ Len(b) = IF m + 1 <= Len(s) THEN Len(s) - (m + 1) + 1 ELSE 0
        /\ \A j \in 1 .. Len(s) - (m + 1) + 1 : b[j] = s[m + 1 + j - 1]
    BY <1>1, SubSeqProperties
  <2>2. High(s, m) = b
    BY DEF High
  <2> HIDE DEF b
  <2> QED
    BY <1>1, <2>1, <2>2
<1> QED
  BY <1>2, <1>3

Halved(S, s, m, a, b) ==
  /\ a \in Seq(S) /\ Len(a) = m /\ \A j \in 1 .. m : a[j] = s[j]
  /\ b \in Seq(S) /\ Len(b) = Len(s) - m /\ \A j \in 1 .. Len(s) - m : b[j] = s[m + j]

LEMMA HalvedIs ==
  ASSUME NEW S, NEW s \in Seq(S), NEW m \in 0 .. Len(s)
  PROVE  Halved(S, s, m, Low(s, m), High(s, m))
BY HalvesAre DEF Halved

\* Two sequences one after the other.
Joint(S, a, b, z) ==
  /\ z \in Seq(S) /\ Len(z) = Len(a) + Len(b)
  /\ \A j \in 1 .. Len(a) + Len(b) : z[j] = IF j <= Len(a) THEN a[j] ELSE b[j - Len(a)]

LEMMA JointIs ==
  ASSUME NEW S, NEW a \in Seq(S), NEW b \in Seq(S)
  PROVE  Joint(S, a, b, a \o b)
BY ConcatProperties DEF Joint


-----------------------------------------------------------------------------
(***************************************************************************)
(* Ways along next.                                                        *)
(***************************************************************************)

\* The pages on a way get lower, by some measure of height.
Descends(next, height, b) ==
  /\ NoPage \notin DOMAIN next /\ b \in Nat
  /\ height \in [DOMAIN next -> 0 .. b]
  /\ \A q \in DOMAIN next : next[q] # NoPage => /\ next[q] \in DOMAIN next
                                               /\ height[next[q]] < height[q]

\* f collects what the pages hold along next.
Collects(f, next, held) ==
  /\ DOMAIN f = DOMAIN next /\ f = [q \in DOMAIN f |-> f[q]]
  /\ \A q \in DOMAIN next :
       f[q] = held[q] \o (IF next[q] = NoPage THEN <<>> ELSE f[next[q]])

\* There is such a function: one that satisfies the equation up to any height
\* gives one that does so a step higher.
LEMMA CollectorExists ==
  ASSUME NEW next, NEW height, NEW b, Descends(next, height, b), NEW held
  PROVE  \E f : Collects(f, next, held)
<1> DEFINE D == DOMAIN next
           F(f) == [q \in D |-> held[q] \o (IF next[q] = NoPage THEN <<>> ELSE f[next[q]])]
           Upto(f, n) == \A q \in D : height[q] < n => f[q] = F(f)[q]
           S == {n \in Nat : ~\E f : Upto(f, n)}
<1>1. /\ b \in Nat /\ \A q \in D : height[q] \in Nat /\ height[q] < b + 1
      /\ \A q \in D : next[q] # NoPage => next[q] \in D /\ height[next[q]] < height[q]
  BY DEF Descends
<1>2. S = {}
  <2> SUFFICES ASSUME S # {} PROVE FALSE
    OBVIOUS
  <2>1. PICK m \in Nat : m \in S /\ \A n \in S : m <= n
    <3>1. Min(S) \in S /\ \A n \in S : Min(S) <= n
      <4>1. S \in SUBSET Nat
        OBVIOUS
      <4> HIDE DEF S
      <4> QED
        BY <4>1, MinIs
    <3> QED
      BY <3>1
  <2>2. Upto(next, 0)
    <3>1. \A q \in D : ~(height[q] < 0)
      BY <1>1
    <3> QED
      BY <3>1
  <2>3. m # 0
    BY <2>1, <2>2
  <2>4. m - 1 \in Nat /\ ~(m <= m - 1)
    BY <2>3
  <2>5. PICK f : Upto(f, m - 1)
    BY <2>1, <2>4
  <2>6. Upto(F(f), m)
    <3> SUFFICES ASSUME NEW q \in D, height[q] < m
                 PROVE  F(f)[q] = F(F(f))[q]
      OBVIOUS
    <3>1. CASE next[q] = NoPage
      BY <3>1
    <3>2. CASE next[q] # NoPage
      <4>1. next[q] \in D /\ height[next[q]] < m - 1
        BY <1>1, <3>2
      <4>2. f[next[q]] = F(f)[next[q]]
        BY <2>5, <4>1
      <4>3. F(f)[q] = held[q] \o f[next[q]] /\ F(F(f))[q] = held[q] \o F(f)[next[q]]
        BY <3>2
      <4> QED
        BY <4>2, <4>3
    <3> QED
      BY <3>1, <3>2
  <2> QED
    BY <2>1, <2>6
<1>3. PICK f : Upto(f, b + 1)
  <2>1. b + 1 \in Nat
    BY <1>1
  <2> QED
    BY <1>2, <2>1
<1>4. \A q \in D : f[q] = F(f)[q]
  BY <1>1, <1>3
<1>5. \A q \in D : F(f)[q] = held[q] \o (IF next[q] = NoPage THEN <<>> ELSE F(f)[next[q]])
  <2>1. \A q \in D : next[q] # NoPage => f[next[q]] = F(f)[next[q]]
    BY <1>1, <1>4
  <2> QED
    BY <2>1
<1>6. DOMAIN F(f) = D /\ F(f) = [q \in DOMAIN F(f) |-> F(f)[q]]
  OBVIOUS
<1> HIDE DEF F
<1> QED
  BY <1>5, <1>6 DEF Collects

\* Path is what its definition says it is.
LEMMA PathIs ==
  ASSUME NEW next, NEW height, NEW b, Descends(next, height, b), NEW p \in DOMAIN next
  PROVE  Path(next, p) = <<p>> \o (IF next[p] = NoPage THEN <<>> ELSE Path(next, next[p]))
<1> DEFINE F(f) == [q \in DOMAIN next |-> <<q>> \o (IF next[q] = NoPage THEN <<>> ELSE f[next[q]])]
<1>1. PICK held : \A q \in DOMAIN next : held[q] = <<q>>
  <2>1. \A q \in DOMAIN next : [x \in DOMAIN next |-> <<x>>][q] = <<q>>
    OBVIOUS
  <2> QED
    BY <2>1
<1>2. PICK f : Collects(f, next, held)
  BY CollectorExists
<1>5. f = F(f)
  <2>1. /\ DOMAIN F(f) = DOMAIN next /\ F(f) = [q \in DOMAIN F(f) |-> F(f)[q]]
        /\ \A q \in DOMAIN next : F(f)[q] = <<q>> \o (IF next[q] = NoPage THEN <<>> ELSE f[next[q]])
    OBVIOUS
  <2> HIDE DEF F
  <2>2. \A q \in DOMAIN next : f[q] = F(f)[q]
    BY <1>1, <1>2, <2>1 DEF Collects
  <2> QED
    BY <1>2, <2>1, <2>2 DEF Collects
<1>6. (CHOOSE g : g = F(g)) = F(CHOOSE g : g = F(g))
  BY <1>5
<1>7. \A q : Path(next, q) = (CHOOSE g : g = F(g))[q]
  BY DEF Path
<1>8. (CHOOSE g : g = F(g))[p] = F(CHOOSE g : g = F(g))[p]
  BY <1>6
<1> DEFINE h == CHOOSE g : g = F(g)
<1>9. h[p] = <<p>> \o (IF next[p] = NoPage THEN <<>> ELSE h[next[p]])
  <2>1. h[p] = F(h)[p]
    BY <1>8
  <2> HIDE DEF h
  <2> QED
    BY <2>1
<1> HIDE DEF h
<1>10. \A q : Path(next, q) = h[q]
  BY <1>7 DEF h
<1> QED
  BY <1>9, <1>10

\* A way starts at p, follows next, and ends where next does.
IsWay(w, next, p) ==
  /\ w \in Seq(DOMAIN next) /\ Len(w) \in Nat \ {0} /\ w[1] = p
  /\ \A i \in 1 .. Len(w) - 1 : next[w[i]] = w[i + 1] /\ next[w[i]] # NoPage
  /\ next[w[Len(w)]] = NoPage

LEMMA PathIsWay ==
  ASSUME NEW next, NEW height, NEW b, Descends(next, height, b)
  PROVE  \A p \in DOMAIN next : IsWay(Path(next, p), next, p)
<1> DEFINE D == DOMAIN next
           S == {n \in Nat : \E p \in D : height[p] = n /\ ~IsWay(Path(next, p), next, p)}
<1>1. /\ b \in Nat /\ \A q \in D : height[q] \in Nat
      /\ \A q \in D : next[q] # NoPage => next[q] \in D /\ height[next[q]] < height[q]
  BY DEF Descends
<1>2. S = {}
  <2> SUFFICES ASSUME S # {} PROVE FALSE
    OBVIOUS
  <2>1. PICK m \in Nat : m \in S /\ \A n \in S : m <= n
    <3>1. Min(S) \in S /\ \A n \in S : Min(S) <= n
      <4>1. S \in SUBSET Nat
        OBVIOUS
      <4> HIDE DEF S
      <4> QED
        BY <4>1, MinIs
    <3> QED
      BY <3>1
  <2>2. PICK p \in D : height[p] = m /\ ~IsWay(Path(next, p), next, p)
    BY <2>1
  <2>3. Path(next, p) = <<p>> \o (IF next[p] = NoPage THEN <<>> ELSE Path(next, next[p]))
    BY PathIs
  <2>4. <<p>> \in Seq(D) /\ Len(<<p>>) = 1 /\ <<p>>[1] = p
    OBVIOUS
  <2>5. CASE next[p] = NoPage
    <3>1. Path(next, p) = <<p>>
      BY <2>3, <2>4, <2>5, ConcatEmptySeq
    <3> QED
      BY <2>2, <2>4, <2>5, <3>1 DEF IsWay
  <2>6. CASE next[p] # NoPage
    <3> DEFINE q == next[p]
               w == Path(next, q)
               u == Path(next, p)
    <3>1. q \in D /\ height[q] \in Nat /\ height[q] < m
      BY <1>1, <2>2, <2>6
    <3>2. IsWay(w, next, q)
      <4>1. height[q] \notin S
        BY <2>1, <3>1
      <4> QED
        BY <3>1, <4>1
    <3>3. u = <<p>> \o w
      BY <2>3, <2>6
    <3> HIDE DEF w, u
    <3>4. w \in Seq(D) /\ Len(w) \in Nat \ {0} /\ w[1] = q
      BY <3>2 DEF IsWay
    <3>5. /\ u \in Seq(D) /\ Len(u) = 1 + Len(w)
          /\ \A i \in 1 .. 1 + Len(w) : u[i] = IF i <= 1 THEN p ELSE w[i - 1]
      <4>1. /\ <<p>> \o w \in Seq(D) /\ Len(<<p>> \o w) = 1 + Len(w)
            /\ \A i \in 1 .. 1 + Len(w) : (<<p>> \o w)[i] = IF i <= 1 THEN <<p>>[i] ELSE w[i - 1]
        BY <2>4, <3>4, ConcatProperties
      <4>2. \A i \in 1 .. 1 + Len(w) : i <= 1 => i = 1
        BY <3>4
      <4> QED
        BY <2>4, <3>3, <4>1, <4>2
    <3>6. u[1] = p /\ \A i \in 2 .. Len(u) : u[i] = w[i - 1]
      BY <3>4, <3>5
    <3>7. ASSUME NEW i \in 1 .. Len(u) - 1
          PROVE  next[u[i]] = u[i + 1] /\ next[u[i]] # NoPage
      <4>1. CASE i = 1
        BY <2>6, <3>4, <3>5, <3>6, <4>1
      <4>2. CASE i # 1
        <5>1. i - 1 \in 1 .. Len(w) - 1 /\ i \in 2 .. Len(u) /\ i + 1 \in 2 .. Len(u)
          BY <3>4, <3>5, <4>2
        <5>2. u[i] = w[i - 1] /\ u[i + 1] = w[i]
          BY <3>6, <5>1
        <5>3. next[w[i - 1]] = w[(i - 1) + 1] /\ next[w[i - 1]] # NoPage
          BY <3>2, <5>1 DEF IsWay
        <5> QED
          BY <5>1, <5>2, <5>3
      <4> QED
        BY <4>1, <4>2
    <3>8. next[u[Len(u)]] = NoPage
      <4>1. u[Len(u)] = w[Len(w)]
        BY <3>4, <3>5
      <4> QED
        BY <3>2, <4>1 DEF IsWay
    <3>9. IsWay(u, next, p)
      BY <3>4, <3>5, <3>6, <3>7, <3>8 DEF IsWay
    <3> QED
      BY <2>2, <3>9 DEF u
  <2> QED
    BY <2>5, <2>6
<1> QED
  BY <1>1, <1>2

\* A set that next does not leave holds the whole way.
LEMMA WayStays ==
  ASSUME NEW w, NEW next, NEW p, IsWay(w, next, p), NEW A, p \in A,
         \A q \in DOMAIN next \cap A : next[q] # NoPage => next[q] \in A
  PROVE  \A i \in 1 .. Len(w) : w[i] \in A
<1> DEFINE S == {i \in 1 .. Len(w) : w[i] \notin A}
<1>1. /\ Len(w) \in Nat \ {0} /\ w[1] = p /\ \A i \in 1 .. Len(w) : w[i] \in DOMAIN next
      /\ \A i \in 1 .. Len(w) - 1 : next[w[i]] = w[i + 1] /\ next[w[i]] # NoPage
  <2>1. Len(w) \in Nat \ {0} /\ w \in Seq(DOMAIN next)
    BY DEF IsWay
  <2>2. \A i \in 1 .. Len(w) : w[i] \in DOMAIN next
    BY <2>1
  <2> QED
    BY <2>1, <2>2 DEF IsWay
<1>2. S = {}
  <2> SUFFICES ASSUME S # {} PROVE FALSE
    OBVIOUS
  <2>1. PICK m \in Nat : m \in S /\ \A n \in S : m <= n
    <3>1. Min(S) \in S /\ \A n \in S : Min(S) <= n
      <4>1. S \in SUBSET Nat
        OBVIOUS
      <4> HIDE DEF S
      <4> QED
        BY <4>1, MinIs
    <3> QED
      BY <3>1
  <2>2. m \in 1 .. Len(w) /\ w[m] \notin A /\ m # 1
    BY <1>1, <2>1
  <2>3. m - 1 \in 1 .. Len(w) /\ m - 1 \in 1 .. Len(w) - 1 /\ ~(m <= m - 1)
    BY <1>1, <2>2
  <2>4. w[m - 1] \in A
    BY <2>1, <2>3
  <2>5. next[w[m - 1]] = w[m] /\ next[w[m - 1]] # NoPage
    <3>1. next[w[m - 1]] = w[(m - 1) + 1] /\ next[w[m - 1]] # NoPage
      BY <1>1, <2>3
    <3> QED
      BY <2>2, <3>1
  <2> QED
    BY <1>1, <2>2, <2>3, <2>4, <2>5
<1> QED
  BY <1>2

\* It goes down all the time, and so comes to a page once.
LEMMA WayDescends ==
  ASSUME NEW w, NEW next, NEW p, IsWay(w, next, p), NEW height, NEW b, Descends(next, height, b)
  PROVE  /\ \A i, j \in 1 .. Len(w) : i < j => height[w[j]] < height[w[i]]
         /\ \A i, j \in 1 .. Len(w) : w[i] = w[j] => i = j
<1>1. /\ Len(w) \in Nat \ {0} /\ \A i \in 1 .. Len(w) : w[i] \in DOMAIN next /\ height[w[i]] \in Nat
      /\ \A i \in 1 .. Len(w) - 1 : next[w[i]] = w[i + 1] /\ next[w[i]] # NoPage
  <2>1. Len(w) \in Nat \ {0} /\ w \in Seq(DOMAIN next)
    BY DEF IsWay
  <2>2. \A i \in 1 .. Len(w) : w[i] \in DOMAIN next
    BY <2>1
  <2>3. \A q \in DOMAIN next : height[q] \in Nat
    BY DEF Descends
  <2> QED
    BY <2>1, <2>2, <2>3 DEF IsWay
<1>2. \A i \in 1 .. Len(w) - 1 : height[w[i + 1]] < height[w[i]]
  BY <1>1 DEF Descends
<1>3. ASSUME NEW i \in 1 .. Len(w)
      PROVE  \A j \in 1 .. Len(w) : i < j => height[w[j]] < height[w[i]]
  <2> DEFINE S == {j \in 1 .. Len(w) : i < j /\ ~(height[w[j]] < height[w[i]])}
  <2> SUFFICES ASSUME S # {} PROVE FALSE
    OBVIOUS
  <2>1. PICK m \in Nat : m \in S /\ \A n \in S : m <= n
    <3>1. Min(S) \in S /\ \A n \in S : Min(S) <= n
      <4>1. S \in SUBSET Nat
        OBVIOUS
      <4> HIDE DEF S
      <4> QED
        BY <4>1, MinIs
    <3> QED
      BY <3>1
  <2>2. m \in 1 .. Len(w) /\ i < m /\ ~(height[w[m]] < height[w[i]])
    BY <2>1
  <2>3. m - 1 \in 1 .. Len(w) - 1 /\ m - 1 \in 1 .. Len(w) /\ (m - 1) + 1 = m /\ ~(m <= m - 1)
    BY <1>1, <2>2
  <2>4. height[w[m]] < height[w[m - 1]]
    BY <1>2, <2>3
  <2>5. i = m - 1 \/ height[w[m - 1]] < height[w[i]]
    BY <2>1, <2>2, <2>3
  <2> QED
    BY <1>1, <2>2, <2>3, <2>4, <2>5
<1>4. ASSUME NEW i \in 1 .. Len(w), NEW j \in 1 .. Len(w), w[i] = w[j] PROVE i = j
  BY <1>1, <1>3, <1>4
<1> QED
  BY <1>3, <1>4

-----------------------------------------------------------------------------
(***************************************************************************)
(* The shape of a tree.                                                    *)
(***************************************************************************)

\* A cut of the keys, by those from it on, and the cut at k.
Cuts == {A \in SUBSET Int : \A x \in A, y \in Int : x <= y => y \in A}
From(k) == {x \in Int : k <= x}

\* k belongs under page p: between the cuts that p itself, or its parent, says.
In(v, p, k) == k \in v[p].lo /\ k \notin v[p].hi
Under(v, p, k) == k \in v[p].lo /\ k \notin v[p].far

\* v measures tree t: its height, the interval that a page holds (from lo to
\* before hi), and the one that its parent takes it to hold (to before far).  The
\* two differ only while a split is on its way up.  No page is without keys that
\* belong to it, and the root has them all.
Measured(t, v) ==
  /\ v \in [DOMAIN t -> [height : Nat, lo : Cuts, hi : Cuts, far : Cuts]]
  /\ \A p \in DOMAIN t : /\ v[p].height <= v[Root].height
                         /\ v[p].far \subseteq v[p].hi /\ \E k \in Int : In(v, p, k)
  /\ v[Root].lo = Int /\ v[Root].far = {}

\* The keys of page p ascend, within its interval.
NodeOK(K, t, v, p) ==
  LET n == t[p]
  IN  /\ n = [leaf |-> n.leaf, keys |-> n.keys, vals |-> n.vals, next |-> n.next]
      /\ n.leaf \in BOOLEAN /\ n.keys \in Seq(K) /\ Ascending(n.keys)
      /\ \A i \in 1 .. Len(n.keys) : In(v, p, n.keys[i])

\* The RIDs of rows whose key is in K.
RidsOf(K) == K \X (1 .. Copies)

\* A leaf is followed by the leaf that starts where it ends.
LeafOK(K, t, v, p) ==
  LET n == t[p]
  IN  /\ v[p].height = 0 /\ n.vals \in Seq(RidsOf(K)) /\ Len(n.vals) = Len(n.keys)
      /\ IF v[p].hi = {} THEN n.next = NoPage
         ELSE n.next \in DOMAIN t /\ t[n.next].leaf /\ v[n.next].lo = v[p].hi

\* The i-th child of page p; new is a page no node knows yet.
ChildOK(t, v, new, p, i) ==
  LET n == t[p]
      c == n.vals[i]
  IN  /\ c \in DOMAIN t \ {Root, new} /\ v[c].height + 1 = v[p].height
      /\ v[c].lo = (IF i = 1 THEN v[p].lo ELSE From(n.keys[i - 1]))
      /\ v[c].far = (IF i = Len(n.vals) THEN v[p].hi ELSE From(n.keys[i]))

\* An inner page has a child before, between and after its keys, and the children
\* divide its interval at the keys, a level below.
InnerOK(t, v, new, p) ==
  LET n == t[p]
  IN  /\ n.vals \in Seq(Nat) /\ Len(n.vals) = Len(n.keys) + 1 /\ n.next = NoPage
      /\ \A i \in 1 .. Len(n.vals) : ChildOK(t, v, new, p, i)

HasParent(t, p) ==
  \E q \in DOMAIN t : ~t[q].leaf /\ \E i \in 1 .. Len(t[q].vals) : t[q].vals[i] = p

\* A tree, in which new is the one page without a parent; NoPage if all have one.
Shape(K, t, v, new) ==
  /\ IsFiniteSet(DOMAIN t) /\ DOMAIN t \in SUBSET Nat /\ Root \in DOMAIN t
  /\ Measured(t, v)
  /\ \A p \in DOMAIN t : NodeOK(K, t, v, p)
  /\ \A p \in DOMAIN t : t[p].leaf => LeafOK(K, t, v, p)
  /\ \A p \in DOMAIN t : ~t[p].leaf => InnerOK(t, v, new, p)
  /\ \A p \in DOMAIN t \ {Root, new} : HasParent(t, p)

LEMMA KeysAre ==
  ASSUME NEW K \in SUBSET Int, NEW s \in Seq(K)
  PROVE  s \in Seq(Int) /\ Len(s) \in Nat /\ \A i \in 1 .. Len(s) : s[i] \in K /\ s[i] \in Int
<1>1. \A i \in 1 .. Len(s) : s[i] \in K
  BY ElementOfSeq
<1>2. s \in Seq(Int)
  BY SeqMonotonic
<1> QED
  BY <1>1, <1>2, LenProperties

\* What the measures of a page are.
LEMMA Measures ==
  ASSUME NEW K, NEW t, NEW v, NEW new, Shape(K, t, v, new), NEW p \in DOMAIN t
  PROVE  /\ v[p].height \in 0 .. v[Root].height /\ v[p].height \in Nat /\ v[Root].height \in Nat
         /\ v[p].lo \in Cuts /\ v[p].hi \in Cuts /\ v[p].far \in Cuts
         /\ v[p].far \subseteq v[p].hi /\ \E k \in Int : In(v, p, k)
<1>1. Root \in DOMAIN t /\ v \in [DOMAIN t -> [height : Nat, lo : Cuts, hi : Cuts, far : Cuts]]
  BY DEF Shape, Measured
<1>2. v[Root].height \in Nat /\ v[p].height \in Nat
  BY <1>1
<1> QED
  BY <1>1, <1>2 DEF Shape, Measured

\* Keys on the two sides of a cut.
LEMMA CutOrder ==
  ASSUME NEW A \in Cuts, NEW x \in Int, NEW y \in Int, x <= y
  PROVE  x \in A => y \in A
BY DEF Cuts

LEMMA FromIsCut == ASSUME NEW k \in Int PROVE From(k) \in Cuts /\ \A x \in Int : x \in From(k) <=> k <= x
BY DEF From, Cuts

\* A key under an inner page is under one child, the one that ChildFor goes to.
LEMMA ChildIs ==
  ASSUME NEW K \in SUBSET Int, NEW t, NEW v, NEW new, Shape(K, t, v, new),
         NEW p \in DOMAIN t, ~t[p].leaf, NEW k \in Int
  PROVE  LET n == t[p]
             i == Position(n.keys, k) + 1
         IN  /\ n.keys \in Seq(Int) /\ Len(n.keys) \in Nat /\ i \in 1 .. Len(n.vals)
             /\ ChildFor(n, k) = n.vals[i]
             /\ In(v, p, k) => /\ Under(v, n.vals[i], k)
                               /\ \A j \in 1 .. Len(n.vals) : Under(v, n.vals[j], k) => j = i
<1> DEFINE n == t[p]
           m == Position(n.keys, k)
<1>1. /\ n.keys \in Seq(K) /\ Ascending(n.keys) /\ Len(n.vals) = Len(n.keys) + 1
      /\ \A i \in 1 .. Len(n.vals) : ChildOK(t, v, new, p, i)
  BY DEF Shape, NodeOK, InnerOK
<1>2. n.keys \in Seq(Int) /\ Len(n.keys) \in Nat /\ \A i \in 1 .. Len(n.keys) : n.keys[i] \in Int
  BY <1>1, KeysAre
<1>3. m \in 0 .. Len(n.keys) /\ \A i \in 1 .. Len(n.keys) : i <= m <=> n.keys[i] <= k
  BY <1>1, <1>2, PositionIs
<1>4. ChildFor(n, k) = n.vals[m + 1]
  BY DEF ChildFor
<1>5. ASSUME In(v, p, k)
      PROVE  Under(v, n.vals[m + 1], k)
  <2>1. m + 1 \in 1 .. Len(n.vals) /\ ChildOK(t, v, new, p, m + 1)
    BY <1>1, <1>2, <1>3
  <2>2. k \in v[n.vals[m + 1]].lo
    <3>1. CASE m = 0
      BY <1>5, <2>1, <3>1 DEF ChildOK, In
    <3>2. CASE m # 0
      <4>1. m \in 1 .. Len(n.keys) /\ n.keys[m] <= k /\ (m + 1) - 1 = m /\ m + 1 # 1
        BY <1>2, <1>3, <3>2
      <4>2. v[n.vals[m + 1]].lo = From(n.keys[m])
        BY <2>1, <4>1 DEF ChildOK
      <4> QED
        BY <1>2, <4>1, <4>2 DEF From
    <3> QED
      BY <3>1, <3>2
  <2>3. k \notin v[n.vals[m + 1]].far
    <3>1. CASE m = Len(n.keys)
      BY <1>1, <1>5, <2>1, <3>1 DEF ChildOK, In
    <3>2. CASE m # Len(n.keys)
      <4>1. m + 1 \in 1 .. Len(n.keys) /\ ~(n.keys[m + 1] <= k) /\ m + 1 # Len(n.vals)
        BY <1>1, <1>2, <1>3, <3>2
      <4>2. v[n.vals[m + 1]].far = From(n.keys[m + 1])
        BY <2>1, <4>1 DEF ChildOK
      <4> QED
        BY <4>1, <4>2 DEF From
    <3> QED
      BY <3>1, <3>2
  <2> QED
    BY <2>2, <2>3 DEF Under
<1>6. ASSUME NEW j \in 1 .. Len(n.vals), Under(v, n.vals[j], k)
      PROVE  j = m + 1
  <2>1. ChildOK(t, v, new, p, j)
    BY <1>1
  <2>2. j <= m + 1
    <3>1. CASE j = 1
      BY <1>3, <3>1
    <3>2. CASE j # 1
      <4>1. j - 1 \in 1 .. Len(n.keys)
        BY <1>1, <1>2, <3>2
      <4>2. k \in From(n.keys[j - 1])
        BY <1>6, <2>1, <3>2 DEF ChildOK, Under
      <4>3. n.keys[j - 1] <= k
        BY <4>2 DEF From
      <4>4. j - 1 <= m
        BY <1>3, <4>1, <4>3
      <4>5. m \in Nat /\ Len(n.keys) \in Nat
        BY <1>2, <1>3
      <4> HIDE DEF m, n
      <4> QED
        BY ONLY <4>1, <4>4, <4>5, j \in 1 .. Len(n.vals)
    <3> QED
      BY <3>1, <3>2
  <2>3. j > m
    <3>1. CASE j = Len(n.vals)
      BY <1>1, <1>2, <1>3, <3>1
    <3>2. CASE j # Len(n.vals)
      <4>1. j \in 1 .. Len(n.keys)
        BY <1>1, <1>2, <3>2
      <4>2. k \notin From(n.keys[j])
        BY <1>6, <2>1, <3>2 DEF ChildOK, Under
      <4>3. ~(n.keys[j] <= k)
        BY <4>2 DEF From
      <4> QED
        BY <1>2, <1>3, <4>1, <4>3
    <3> QED
      BY <3>1, <3>2
  <2> QED
    BY <1>1, <1>2, <1>3, <2>2, <2>3
<1> QED
  BY <1>1, <1>2, <1>3, <1>4, <1>5, <1>6

ChildAt(t, v, p, k, i) ==
  /\ i \in 1 .. Len(t[p].vals) /\ ChildFor(t[p], k) = t[p].vals[i]
  /\ In(v, p, k) => Under(v, t[p].vals[i], k)

LEMMA ChildAtIs ==
  ASSUME NEW K \in SUBSET Int, NEW t, NEW v, NEW new, Shape(K, t, v, new),
         NEW p \in DOMAIN t, ~t[p].leaf, NEW k \in Int
  PROVE  \E i : ChildAt(t, v, p, k, i)
<1> DEFINE i == Position(t[p].keys, k) + 1
<1>1. /\ i \in 1 .. Len(t[p].vals) /\ ChildFor(t[p], k) = t[p].vals[i]
      /\ In(v, p, k) => Under(v, t[p].vals[i], k)
  BY ChildIs
<1> HIDE DEF i
<1> QED
  BY ONLY <1>1 DEF ChildAt

\* What is under a child is in its parent.
LEMMA ChildIn ==
  ASSUME NEW K \in SUBSET Int, NEW t, NEW v, NEW new, Shape(K, t, v, new),
         NEW p \in DOMAIN t, ~t[p].leaf, NEW i \in 1 .. Len(t[p].vals),
         NEW k \in Int, Under(v, t[p].vals[i], k)
  PROVE  In(v, p, k)
<1> DEFINE n == t[p]
<1>1. /\ n.keys \in Seq(K) /\ Len(n.vals) = Len(n.keys) + 1 /\ ChildOK(t, v, new, p, i)
      /\ \A j \in 1 .. Len(n.keys) : In(v, p, n.keys[j])
  BY DEF Shape, NodeOK, InnerOK
<1>2. Len(n.keys) \in Nat /\ \A j \in 1 .. Len(n.keys) : n.keys[j] \in Int
  BY <1>1, KeysAre
<1>3. v[p].lo \in Cuts /\ v[p].hi \in Cuts
  BY Measures
<1>4. k \in v[p].lo
  <2>1. CASE i = 1
    BY <1>1, <2>1 DEF ChildOK, Under
  <2>2. CASE i # 1
    <3>1. i - 1 \in 1 .. Len(n.keys)
      BY <1>1, <1>2, <2>2
    <3>2. n.keys[i - 1] <= k
      BY <1>1, <2>2 DEF ChildOK, Under, From
    <3> QED
      BY <1>1, <1>2, <1>3, <3>1, <3>2, CutOrder DEF In
  <2> QED
    BY <2>1, <2>2
<1>5. k \notin v[p].hi
  <2>1. CASE i = Len(n.vals)
    BY <1>1, <2>1 DEF ChildOK, Under
  <2>2. CASE i # Len(n.vals)
    <3>1. i \in 1 .. Len(n.keys)
      BY <1>1, <1>2, <2>2
    <3>2. ~(n.keys[i] <= k)
      BY <1>1, <2>2 DEF ChildOK, Under, From
    <3>3. k <= n.keys[i]
      BY <1>2, <3>1, <3>2
    <3> QED
      BY <1>1, <1>2, <1>3, <3>1, <3>3, CutOrder DEF In
  <2> QED
    BY <2>1, <2>2
<1> QED
  BY <1>4, <1>5 DEF In

-----------------------------------------------------------------------------
(***************************************************************************)
(* What the searches find.                                                 *)
(***************************************************************************)

Step(t, k) == [p \in DOMAIN t |-> IF t[p].leaf THEN NoPage ELSE ChildFor(t[p], k)]

LEMMA StepDescends ==
  ASSUME NEW K \in SUBSET Int, NEW t, NEW v, NEW new, Shape(K, t, v, new), NEW k \in Int
  PROVE  Descends(Step(t, k), [p \in DOMAIN t |-> v[p].height], v[Root].height)
<1> DEFINE h == [p \in DOMAIN t |-> v[p].height]
           b == v[Root].height
<1>1. NoPage \notin DOMAIN t /\ Root \in DOMAIN t /\ DOMAIN Step(t, k) = DOMAIN t
  BY TreeAssumption DEF Shape, Step
<1>2. b \in Nat /\ h \in [DOMAIN t -> 0 .. b]
  BY <1>1, Measures
<1>3. ASSUME NEW q \in DOMAIN t, Step(t, k)[q] # NoPage
      PROVE  Step(t, k)[q] \in DOMAIN t /\ h[Step(t, k)[q]] < h[q]
  <2> DEFINE i == Position(t[q].keys, k) + 1
             c == t[q].vals[i]
  <2>1. ~t[q].leaf /\ Step(t, k)[q] = ChildFor(t[q], k)
    BY <1>3 DEF Step
  <2>2. i \in 1 .. Len(t[q].vals) /\ ChildFor(t[q], k) = c
    BY <2>1, ChildIs
  <2>3. ChildOK(t, v, new, q, i)
    BY <2>1, <2>2 DEF Shape, InnerOK
  <2>4. c \in DOMAIN t /\ v[c].height + 1 = v[q].height
    BY <2>3 DEF ChildOK
  <2>5. v[c].height \in Nat /\ v[q].height \in Nat
    <3>1. \A x \in DOMAIN t : v[x].height \in Nat
      BY Measures
    <3> QED
      BY <2>4, <3>1
  <2>6. v[c].height < v[q].height
    BY <2>4, <2>5
  <2> QED
    BY <2>1, <2>2, <2>4, <2>6
<1> QED
  BY <1>1, <1>2, <1>3 DEF Descends

\* The way to key k goes from the root through inner pages to a leaf.
LEMMA WayToIs ==
  ASSUME NEW K \in SUBSET Int, NEW t, NEW v, NEW new, Shape(K, t, v, new), NEW k \in Int
  PROVE  LET w == WayTo(t, k)
         IN  /\ IsWay(w, Step(t, k), Root)
             /\ Len(w) \in Nat \ {0} /\ w[1] = Root /\ \A i \in 1 .. Len(w) : w[i] \in DOMAIN t
             /\ \A i \in 1 .. Len(w) - 1 : ~t[w[i]].leaf /\ w[i + 1] = ChildFor(t[w[i]], k)
             /\ t[w[Len(w)]].leaf
             /\ \A i, j \in 1 .. Len(w) : w[i] = w[j] => i = j
<1> DEFINE w == WayTo(t, k)
<1>1. Descends(Step(t, k), [p \in DOMAIN t |-> v[p].height], v[Root].height)
  BY StepDescends
<1>2. DOMAIN Step(t, k) = DOMAIN t /\ Root \in DOMAIN t /\ NoPage \notin DOMAIN t
  BY TreeAssumption DEF Step, Shape
<1>3. w = Path(Step(t, k), Root)
  BY DEF WayTo, Step
<1> HIDE DEF w
<1>4. IsWay(w, Step(t, k), Root)
  BY <1>1, <1>2, <1>3, PathIsWay
<1>5. \A i, j \in 1 .. Len(w) : w[i] = w[j] => i = j
  BY <1>1, <1>4, WayDescends
<1>6. Len(w) \in Nat \ {0} /\ w[1] = Root /\ w \in Seq(DOMAIN t)
  BY <1>2, <1>4 DEF IsWay
<1>7. \A i \in 1 .. Len(w) : w[i] \in DOMAIN t
  BY <1>6
<1>8. ASSUME NEW i \in 1 .. Len(w) - 1
      PROVE  ~t[w[i]].leaf /\ w[i + 1] = ChildFor(t[w[i]], k)
  <2>1. Step(t, k)[w[i]] = w[i + 1] /\ Step(t, k)[w[i]] # NoPage
    BY <1>4 DEF IsWay
  <2>2. w[i] \in DOMAIN t
    BY <1>6, <1>7
  <2> QED
    BY <2>1, <2>2 DEF Step
<1>9. t[w[Len(w)]].leaf
  <2> SUFFICES ASSUME ~t[w[Len(w)]].leaf PROVE FALSE
    OBVIOUS
  <2>1. PICK q \in DOMAIN t : Step(t, k)[q] = NoPage /\ ~t[q].leaf
    BY <1>4, <1>6, <1>7 DEF IsWay
  <2>2. PICK i \in 1 .. Len(t[q].vals) : ChildFor(t[q], k) = t[q].vals[i]
    <3>1. /\ Position(t[q].keys, k) + 1 \in 1 .. Len(t[q].vals)
          /\ ChildFor(t[q], k) = t[q].vals[Position(t[q].keys, k) + 1]
      BY <2>1, ChildIs
    <3> QED
      BY <3>1
  <2>3. t[q].vals[i] \in DOMAIN t
    BY <2>1 DEF Shape, InnerOK, ChildOK
  <2> QED
    BY <1>2, <2>1, <2>2, <2>3 DEF Step
<1> QED
  BY <1>4, <1>5, <1>6, <1>7, <1>8, <1>9 DEF w

\* A page that k is under is on the way to k, unless it hangs from a new page
\* that no node knows.
LEMMA OnWay ==
  ASSUME NEW K \in SUBSET Int, NEW t, NEW v, NEW new, Shape(K, t, v, new), NEW k \in Int
  PROVE  \A p \in DOMAIN t \ {new} :
           (Under(v, p, k) /\ (new \in DOMAIN t => v[new].height <= v[p].height))
             => \E i \in 1 .. Len(WayTo(t, k)) : WayTo(t, k)[i] = p
<1> DEFINE w == WayTo(t, k)
           On(p) == \E i \in 1 .. Len(w) : w[i] = p
           Off(p) == /\ Under(v, p, k) /\ (new \in DOMAIN t => v[new].height <= v[p].height)
                     /\ ~On(p)
           S == {d \in Nat : \E p \in DOMAIN t \ {new} : v[p].height + d = v[Root].height /\ Off(p)}
<1>1. /\ Len(w) \in Nat \ {0} /\ w[1] = Root /\ \A i \in 1 .. Len(w) : w[i] \in DOMAIN t
      /\ \A i \in 1 .. Len(w) - 1 : ~t[w[i]].leaf /\ w[i + 1] = ChildFor(t[w[i]], k)
      /\ t[w[Len(w)]].leaf
  BY WayToIs
<1> HIDE DEF w
<1>2. S = {}
  <2> SUFFICES ASSUME S # {} PROVE FALSE
    OBVIOUS
  <2>1. PICK m \in Nat : m \in S /\ \A n \in S : m <= n
    <3>1. Min(S) \in S /\ \A n \in S : Min(S) <= n
      <4>1. S \in SUBSET Nat
        OBVIOUS
      <4> HIDE DEF S
      <4> QED
        BY <4>1, MinIs
    <3> QED
      BY <3>1
  <2>2. PICK p \in DOMAIN t \ {new} : v[p].height + m = v[Root].height /\ Off(p)
    BY <2>1
  <2>3. p # Root
    BY <1>1, <2>2
  <2>4. HasParent(t, p)
    BY <2>2, <2>3 DEF Shape
  <2>5. PICK q \in DOMAIN t : ~t[q].leaf /\ \E i \in 1 .. Len(t[q].vals) : t[q].vals[i] = p
    BY <2>4 DEF HasParent
  <2>6. PICK i \in 1 .. Len(t[q].vals) : t[q].vals[i] = p
    BY <2>5
  <2>7. In(v, q, k)
    BY <2>2, <2>5, <2>6, ChildIn
  <2>8. v[p].height + 1 = v[q].height
    BY <2>5, <2>6 DEF Shape, InnerOK, ChildOK
  <2>9. v[p].height \in Nat /\ v[q].height \in 0 .. v[Root].height /\ v[q].far \subseteq v[q].hi
    <3>1. \A x \in DOMAIN t : /\ v[x].height \in Nat /\ v[x].height \in 0 .. v[Root].height
                              /\ v[x].far \subseteq v[x].hi
      BY Measures
    <3> QED
      BY <3>1
  <2>10. q # new /\ Under(v, q, k) /\ (new \in DOMAIN t => v[new].height <= v[q].height)
    <3>1. v[q].height > v[p].height
      BY <2>8, <2>9
    <3>2. new \in DOMAIN t => v[new].height \in Nat
      <4>1. \A x \in DOMAIN t : v[x].height \in Nat
        BY Measures
      <4> QED
        BY <4>1
    <3> QED
      BY <2>2, <2>7, <2>9, <3>1, <3>2 DEF Under, In
  <2>11. m - 1 \in Nat /\ v[q].height + (m - 1) = v[Root].height /\ ~(m <= m - 1)
    <3>1. v[Root].height \in Nat
      BY <2>5, Measures
    <3>2. v[p].height + m = v[Root].height
      BY <2>2
    <3> QED
      BY ONLY <2>8, <2>9, <3>1, <3>2, m \in Nat
  <2>12. On(q)
    BY <2>1, <2>5, <2>10, <2>11
  <2>13. PICK j \in 1 .. Len(w) : w[j] = q
    BY <2>12
  <2>14. j \in 1 .. Len(w) - 1 /\ j + 1 \in 1 .. Len(w)
    BY <1>1, <2>5, <2>13
  <2>15. w[j + 1] = ChildFor(t[q], k)
    BY <1>1, <2>13, <2>14
  <2>16. ChildFor(t[q], k) = p
    <3> DEFINE c == Position(t[q].keys, k) + 1
    <3>1. ChildFor(t[q], k) = t[q].vals[c] /\ \A l \in 1 .. Len(t[q].vals) : Under(v, t[q].vals[l], k) => l = c
      BY <2>5, <2>7, ChildIs
    <3>2. i = c
      BY <2>2, <2>6, <3>1
    <3> QED
      BY <2>6, <3>1, <3>2
  <2> QED
    BY <2>2, <2>14, <2>15, <2>16
<1> QED
  <2> SUFFICES ASSUME NEW p \in DOMAIN t \ {new}, Off(p) PROVE FALSE
    BY DEF w
  <2>1. v[p].height \in 0 .. v[Root].height /\ v[Root].height \in Nat
    BY Measures
  <2>2. v[Root].height - v[p].height \in Nat /\ v[p].height + (v[Root].height - v[p].height) = v[Root].height
    BY <2>1
  <2>3. v[Root].height - v[p].height \in S
    BY <2>2
  <2> QED
    BY <1>2, <2>3

\* Where x is first in s.
PlaceOf(s, x) == LET I == {i \in 1 .. Len(s) : s[i] = x} IN IF I # {} THEN Min(I) ELSE 0

LEMMA PlaceIs ==
  ASSUME NEW s, Len(s) \in Nat, NEW x
  PROVE  /\ PlaceOf(s, x) # 0 => PlaceOf(s, x) \in 1 .. Len(s) /\ s[PlaceOf(s, x)] = x
         /\ \A i \in 1 .. Len(s) : s[i] = x => PlaceOf(s, x) # 0
<1> DEFINE I == {i \in 1 .. Len(s) : s[i] = x}
<1>1. CASE I = {}
  BY <1>1 DEF PlaceOf
<1>2. CASE I # {}
  <2>1. Min(I) \in I
    <3>1. I \in SUBSET Nat
      OBVIOUS
    <3> HIDE DEF I
    <3> QED
      BY <1>2, <3>1, MinIs
  <2>2. PlaceOf(s, x) = Min(I)
    BY <1>2 DEF PlaceOf
  <2>3. PlaceOf(s, x) \in I
    BY <2>1, <2>2
  <2> QED
    BY <2>3
<1> QED
  BY <1>1, <1>2

\* A tree with no split on its way: the parents know what their children hold.
Closed(K, t, v) == Shape(K, t, v, NoPage) /\ \A p \in DOMAIN t : v[p].far = v[p].hi

LEMMA NoPageIsNone ==
  ASSUME NEW K, NEW t, NEW v, NEW new, Shape(K, t, v, new)
  PROVE  NoPage \notin DOMAIN t
BY TreeAssumption DEF Shape

\* One leaf holds what belongs to k, and FindLeafPage finds it.
LEMMA LeafIs ==
  ASSUME NEW K \in SUBSET Int, NEW t, NEW v, Closed(K, t, v), NEW k \in Int
  PROVE  LET p == FindLeafPage(t, k)
         IN  /\ p \in DOMAIN t /\ t[p].leaf /\ In(v, p, k)
             /\ \A q \in DOMAIN t : (t[q].leaf /\ In(v, q, k)) => q = p
<1> DEFINE w == WayTo(t, k)
           A == {p \in DOMAIN t : In(v, p, k)}
<1>1. Shape(K, t, v, NoPage) /\ NoPage \notin DOMAIN t
  BY NoPageIsNone DEF Closed
<1>2. /\ IsWay(w, Step(t, k), Root)
      /\ Len(w) \in Nat \ {0} /\ w[1] = Root /\ \A i \in 1 .. Len(w) : w[i] \in DOMAIN t
      /\ \A i \in 1 .. Len(w) - 1 : ~t[w[i]].leaf /\ w[i + 1] = ChildFor(t[w[i]], k)
      /\ t[w[Len(w)]].leaf
  <2>1. K \in SUBSET Int /\ Shape(K, t, v, NoPage) /\ k \in Int
    BY <1>1
  <2> QED
    BY ONLY <2>1, WayToIs
<1>3. \A i \in 1 .. Len(w) : w[i] \in A
  <2>1. Root \in A
    <3>1. Root \in DOMAIN t /\ v[Root].lo = Int /\ v[Root].hi = {}
      BY <1>1 DEF Closed, Shape, Measured
    <3> QED
      BY <3>1 DEF In
  <2>2. ASSUME NEW q \in DOMAIN Step(t, k) \cap A, Step(t, k)[q] # NoPage
        PROVE  Step(t, k)[q] \in A
    <3>1. q \in DOMAIN t /\ In(v, q, k) /\ ~t[q].leaf /\ Step(t, k)[q] = ChildFor(t[q], k)
      BY <2>2 DEF Step
    <3>2. PICK i \in 1 .. Len(t[q].vals) : ChildFor(t[q], k) = t[q].vals[i] /\ Under(v, t[q].vals[i], k)
      <4>1. \E i : ChildAt(t, v, q, k, i)
        BY <1>1, <3>1, ChildAtIs
      <4> QED
        BY ONLY <3>1, <4>1 DEF ChildAt
    <3>3. t[q].vals[i] \in DOMAIN t
      BY <1>1, <3>1 DEF Shape, InnerOK, ChildOK
    <3>4. In(v, t[q].vals[i], k)
      BY <3>2, <3>3 DEF Closed, In, Under
    <3> QED
      BY <3>1, <3>2, <3>3, <3>4
  <2> HIDE DEF A, w
  <2> QED
    BY <1>2, <2>1, <2>2, WayStays
<1>4. FindLeafPage(t, k) = w[Len(w)]
  BY DEF FindLeafPage, Last
<1>5. ASSUME NEW q \in DOMAIN t, t[q].leaf, In(v, q, k)
      PROVE  q = w[Len(w)]
  <2>1. Under(v, q, k) /\ q # NoPage
    BY <1>1, <1>5 DEF Closed, In, Under
  <2>2. PICK i \in 1 .. Len(w) : w[i] = q
    BY <1>1, <2>1, OnWay
  <2>3. i = Len(w)
    <3> HIDE DEF w
    <3> QED
      BY <1>2, <1>5, <2>2
  <2> QED
    BY <2>2, <2>3
<1>6. w[Len(w)] \in A
  BY <1>2, <1>3
<1> HIDE DEF w
<1> QED
  BY <1>2, <1>4, <1>5, <1>6

LEMMA OneChild ==
  ASSUME NEW K \in SUBSET Int, NEW t, NEW v, NEW new, Shape(K, t, v, new),
         NEW p \in DOMAIN t, ~t[p].leaf, NEW i \in 1 .. Len(t[p].vals), NEW j \in 1 .. Len(t[p].vals),
         NEW k \in Int, Under(v, t[p].vals[i], k), Under(v, t[p].vals[j], k)
  PROVE  i = j
<1> DEFINE m == Position(t[p].keys, k) + 1
<1>1. In(v, p, k)
  BY ChildIn
<1>2. /\ ChildFor(t[p], k) = t[p].vals[m]
      /\ \A y \in 1 .. Len(t[p].vals) : Under(v, t[p].vals[y], k) => y = m
  BY <1>1, ChildIs
<1> HIDE DEF m
<1> QED
  BY <1>2

\* A page above the new one hangs from one place of one inner page.
LEMMA OneParent ==
  ASSUME NEW K \in SUBSET Int, NEW t, NEW v, NEW new, Shape(K, t, v, new),
         NEW c \in DOMAIN t, new \in DOMAIN t => v[new].height <= v[c].height,
         NEW q \in DOMAIN t, ~t[q].leaf, NEW i \in 1 .. Len(t[q].vals), t[q].vals[i] = c,
         NEW r \in DOMAIN t, ~t[r].leaf, NEW j \in 1 .. Len(t[r].vals), t[r].vals[j] = c
  PROVE  q = r /\ i = j
<1>1. PICK k \in Int : Under(v, c, k)
  <2>1. v[c].far \subseteq v[c].hi /\ \E k \in Int : In(v, c, k)
    BY Measures
  <2> QED
    BY <2>1 DEF In, Under
<1> DEFINE w == WayTo(t, k)
<1>2. /\ Len(w) \in Nat \ {0} /\ \A a \in 1 .. Len(w) : w[a] \in DOMAIN t
      /\ \A a \in 1 .. Len(w) - 1 : ~t[w[a]].leaf /\ w[a + 1] = ChildFor(t[w[a]], k)
      /\ t[w[Len(w)]].leaf
      /\ \A a, b \in 1 .. Len(w) : w[a] = w[b] => a = b
  BY WayToIs
<1>3. ASSUME NEW x \in DOMAIN t, ~t[x].leaf, NEW l \in 1 .. Len(t[x].vals), t[x].vals[l] = c
      PROVE  \E a \in 1 .. Len(w) - 1 : w[a] = x /\ w[a + 1] = c
  <2>1. In(v, x, k)
    BY <1>1, <1>3, ChildIn
  <2>2. ChildFor(t[x], k) = c
    <3> DEFINE m == Position(t[x].keys, k) + 1
    <3>1. ChildFor(t[x], k) = t[x].vals[m] /\ \A y \in 1 .. Len(t[x].vals) : Under(v, t[x].vals[y], k) => y = m
      BY <1>3, <2>1, ChildIs
    <3>2. l = m
      BY <1>1, <1>3, <3>1
    <3> QED
      BY <1>3, <3>1, <3>2
  <2>3. x # new /\ (new \in DOMAIN t => v[new].height <= v[x].height)
    <3>1. v[c].height + 1 = v[x].height
      <4>1. InnerOK(t, v, new, x)
        BY <1>3 DEF Shape
      <4>2. ChildOK(t, v, new, x, l)
        BY <1>3, <4>1 DEF InnerOK
      <4> QED
        BY ONLY <1>3, <4>2 DEF ChildOK
    <3>2. \A y \in DOMAIN t : v[y].height \in Nat
      BY Measures
    <3> QED
      BY <3>1, <3>2
  <2>4. Under(v, x, k)
    <3>1. v[x].far \subseteq v[x].hi
      BY Measures
    <3> QED
      BY <2>1, <3>1 DEF In, Under
  <2>5. PICK a \in 1 .. Len(w) : w[a] = x
    BY <2>3, <2>4, OnWay
  <2>6. a \in 1 .. Len(w) - 1
    <3> HIDE DEF w
    <3> QED
      BY <1>2, <1>3, <2>5
  <2> QED
    BY <1>2, <2>2, <2>5, <2>6
<1> HIDE DEF w
<1>4. PICK a \in 1 .. Len(w) - 1 : w[a] = q /\ w[a + 1] = c
  BY <1>3
<1>5. PICK b \in 1 .. Len(w) - 1 : w[b] = r /\ w[b + 1] = c
  BY <1>3
<1>6. a = b
  <2>1. a + 1 \in 1 .. Len(w) /\ b + 1 \in 1 .. Len(w)
    BY <1>2
  <2>2. a + 1 = b + 1
    BY <1>2, <1>4, <1>5, <2>1
  <2> QED
    BY <2>2
<1>7. q = r
  BY <1>4, <1>5, <1>6
<1>8. i = j
  <2>1. j \in 1 .. Len(t[q].vals) /\ t[q].vals[j] = c
    BY <1>7
  <2>2. Under(v, t[q].vals[i], k) /\ Under(v, t[q].vals[j], k)
    BY <1>1, <2>1
  <2>3. /\ K \in SUBSET Int /\ Shape(K, t, v, new) /\ q \in DOMAIN t /\ ~t[q].leaf
        /\ i \in 1 .. Len(t[q].vals)
    OBVIOUS
  <2> QED
    BY ONLY <1>1, <2>1, <2>2, <2>3, OneChild
<1> QED
  BY <1>7, <1>8

\* FindParent finds the parent of a page that the hint is under.
LEMMA ParentIs ==
  ASSUME NEW K \in SUBSET Int, NEW t, NEW v, NEW new, Shape(K, t, v, new), NEW k \in Int,
         NEW c \in DOMAIN t \ {Root, new}, Under(v, c, k),
         new \in DOMAIN t => v[new].height <= v[c].height
  PROVE  LET p == FindParent(t, c, k)
         IN  /\ p \in DOMAIN t /\ ~t[p].leaf /\ p # NoPage
             /\ \E i \in 1 .. Len(t[p].vals) : t[p].vals[i] = c
<1> DEFINE w == WayTo(t, k)
           m == PlaceOf(w, c)
<1>1. /\ IsWay(w, Step(t, k), Root)
      /\ Len(w) \in Nat \ {0} /\ w[1] = Root /\ \A a \in 1 .. Len(w) : w[a] \in DOMAIN t
      /\ \A a \in 1 .. Len(w) - 1 : ~t[w[a]].leaf /\ w[a + 1] = ChildFor(t[w[a]], k)
  <2>1. PICK y : y = WayTo(t, k)
    OBVIOUS
  <2>2. /\ IsWay(y, Step(t, k), Root)
        /\ Len(y) \in Nat \ {0} /\ y[1] = Root /\ \A a \in 1 .. Len(y) : y[a] \in DOMAIN t
        /\ \A a \in 1 .. Len(y) - 1 : ~t[y[a]].leaf /\ y[a + 1] = ChildFor(t[y[a]], k)
    BY <2>1, WayToIs
  <2> QED
    BY ONLY <2>1, <2>2
<1>2. PICK a \in 1 .. Len(w) : w[a] = c
  BY OnWay
<1>3. m \in 1 .. Len(w) /\ w[m] = c
  BY <1>1, <1>2, PlaceIs
<1>4. m # 1 /\ FindParent(t, c, k) = (IF m <= 1 THEN NoPage ELSE w[m - 1])
  BY <1>1, <1>3 DEF FindParent, SelectInSeq, PlaceOf
<1> HIDE DEF w, m
<1>5. m - 1 \in 1 .. Len(w) - 1 /\ m - 1 \in 1 .. Len(w) /\ (m - 1) + 1 = m /\ ~(m <= 1)
  BY <1>1, <1>3, <1>4
<1> DEFINE p == w[m - 1]
<1>6. p \in DOMAIN t /\ ~t[p].leaf /\ c = ChildFor(t[p], k) /\ FindParent(t, c, k) = p
  BY <1>1, <1>3, <1>4, <1>5
<1>7. p # NoPage
  BY <1>6, NoPageIsNone
<1> HIDE DEF p
<1>8. \E i \in 1 .. Len(t[p].vals) : t[p].vals[i] = c
  <2>1. /\ Position(t[p].keys, k) + 1 \in 1 .. Len(t[p].vals)
        /\ ChildFor(t[p], k) = t[p].vals[Position(t[p].keys, k) + 1]
    <3>1. K \in SUBSET Int /\ Shape(K, t, v, new) /\ p \in DOMAIN t /\ ~t[p].leaf /\ k \in Int
      BY <1>6
    <3> QED
      BY ONLY <3>1, ChildIs
  <2> QED
    BY <1>6, <2>1
<1> QED
  BY <1>6, <1>7, <1>8

-----------------------------------------------------------------------------
(***************************************************************************)
(* What an operation leaves as it was.                                     *)
(***************************************************************************)

\* Page c looks the same to the node above it, and to the leaf before it.
SameBelow(t, v, u, w, c) ==
  c \in DOMAIN u /\ w[c].height = v[c].height /\ w[c].lo = v[c].lo /\ w[c].far = v[c].far
SameAfter(t, v, u, w, c) ==
  c \in DOMAIN u /\ u[c].leaf = t[c].leaf /\ w[c].lo = v[c].lo

PageOK(K, t, v, new, p) ==
  /\ NodeOK(K, t, v, p)
  /\ t[p].leaf => LeafOK(K, t, v, p)
  /\ ~t[p].leaf => InnerOK(t, v, new, p)

LEMMA PageKept ==
  ASSUME NEW K, NEW t, NEW v, NEW new, Shape(K, t, v, new),
         NEW u, NEW w, NEW x, NEW p \in DOMAIN t, u[p] = t[p],
         w[p].height = v[p].height, w[p].lo = v[p].lo, w[p].hi = v[p].hi,
         t[p].leaf /\ t[p].next # NoPage => SameAfter(t, v, u, w, t[p].next),
         ~t[p].leaf => \A i \in 1 .. Len(t[p].vals) :
                         SameBelow(t, v, u, w, t[p].vals[i]) /\ t[p].vals[i] # x
  PROVE  PageOK(K, u, w, x, p)
<1>1. NodeOK(K, t, v, p) /\ NoPage \notin DOMAIN t
  BY NoPageIsNone DEF Shape
<1>2. NodeOK(K, u, w, p)
  BY <1>1 DEF NodeOK, In
<1>3. CASE t[p].leaf
  <2>1. LeafOK(K, t, v, p)
    BY <1>3 DEF Shape
  <2>2. LeafOK(K, u, w, p)
    BY <1>1, <1>3, <2>1 DEF LeafOK, SameAfter
  <2> QED
    BY <1>2, <1>3, <2>2 DEF PageOK
<1>4. CASE ~t[p].leaf
  <2>1. InnerOK(t, v, new, p)
    BY <1>4 DEF Shape
  <2>2. ASSUME NEW i \in 1 .. Len(u[p].vals)
        PROVE  ChildOK(u, w, x, p, i)
    <3>1. ChildOK(t, v, new, p, i) /\ SameBelow(t, v, u, w, t[p].vals[i]) /\ t[p].vals[i] # x
      BY <1>4, <2>1 DEF InnerOK
    <3> QED
      BY <3>1 DEF ChildOK, SameBelow
  <2>3. InnerOK(u, w, x, p)
    BY <2>1, <2>2 DEF InnerOK
  <2> QED
    BY <1>2, <1>4, <2>3 DEF PageOK
<1> QED
  BY <1>3, <1>4

LEMMA ShapeIs ==
  ASSUME NEW K, NEW t, NEW v, NEW new,
         IsFiniteSet(DOMAIN t), DOMAIN t \in SUBSET Nat, Root \in DOMAIN t, Measured(t, v),
         \A p \in DOMAIN t : PageOK(K, t, v, new, p),
         \A p \in DOMAIN t \ {Root, new} : HasParent(t, p)
  PROVE  Shape(K, t, v, new)
BY DEF Shape, PageOK

\* The pairs in a leaf, and in all leaves.
Holds(n, e) == \E i \in 1 .. Len(n.keys) : e = <<n.keys[i], n.vals[i]>>
Has(t, e) == \E p \in DOMAIN t : t[p].leaf /\ Holds(t[p], e)

\* t with other entries in leaf p.
LEMMA LeafChanged ==
  ASSUME NEW K, NEW t, NEW v, Closed(K, t, v), NEW p \in DOMAIN t, t[p].leaf,
         NEW ks \in Seq(K), NEW rs \in Seq(RidsOf(K)), Len(rs) = Len(ks),
         Ascending(ks), \A i \in 1 .. Len(ks) : In(v, p, ks[i]),
         NEW u, DOMAIN u = DOMAIN t, u[p] = Leaf(ks, rs, t[p].next),
         \A q \in DOMAIN t \ {p} : u[q] = t[q]
  PROVE  Closed(K, u, v)
<1>1. Shape(K, t, v, NoPage)
  BY DEF Closed
<1>2. \A q \in DOMAIN t : u[q].leaf = t[q].leaf
  <2>1. t[p].leaf = TRUE
    BY <1>1 DEF Shape, NodeOK
  <2>2. u[p].leaf = TRUE
    BY DEF Leaf
  <2> QED
    BY <2>1, <2>2
<1>3. ASSUME NEW q \in DOMAIN t PROVE PageOK(K, u, v, NoPage, q)
  <2>1. NodeOK(K, t, v, q) /\ (t[q].leaf => LeafOK(K, t, v, q)) /\ (~t[q].leaf => InnerOK(t, v, NoPage, q))
    BY <1>1 DEF Shape
  <2>2. CASE q # p
    <3>1. u[q] = t[q]
      BY <2>2
    <3>2. t[q].leaf /\ t[q].next # NoPage => SameAfter(t, v, u, v, t[q].next)
      BY <1>2, <2>1 DEF LeafOK, SameAfter
    <3>3. ~t[q].leaf => \A i \in 1 .. Len(t[q].vals) :
                          SameBelow(t, v, u, v, t[q].vals[i]) /\ t[q].vals[i] # NoPage
      BY <2>1 DEF InnerOK, ChildOK, SameBelow
    <3> QED
      BY <1>1, <3>1, <3>2, <3>3, PageKept
  <2>3. CASE q = p
    <3>1. /\ u[p] = [leaf |-> TRUE, keys |-> ks, vals |-> rs, next |-> t[p].next]
          /\ u[p].leaf = TRUE /\ u[p].keys = ks /\ u[p].vals = rs /\ u[p].next = t[p].next
      BY DEF Leaf
    <3>2. NodeOK(K, u, v, p)
      BY <3>1 DEF NodeOK
    <3>3. LeafOK(K, u, v, p)
      BY <1>2, <2>1, <2>3, <3>1 DEF LeafOK
    <3> QED
      BY <2>3, <3>1, <3>2, <3>3 DEF PageOK
  <2> QED
    BY <2>2, <2>3
<1>4. ASSUME NEW q \in DOMAIN u \ {Root, NoPage} PROVE HasParent(u, q)
  <2>1. HasParent(t, q)
    BY <1>1, <1>4 DEF Shape
  <2> QED
    BY <2>1 DEF HasParent
<1>5. Measured(u, v)
  BY <1>1 DEF Shape, Measured
<1>6. Shape(K, u, v, NoPage)
  <2>1. IsFiniteSet(DOMAIN u) /\ DOMAIN u \in SUBSET Nat /\ Root \in DOMAIN u
    BY <1>1 DEF Shape
  <2> QED
    BY <1>3, <1>4, <1>5, <2>1, ShapeIs
<1> QED
  BY <1>6 DEF Closed

\* Sequences stay in order.
LEMMA InsertAscends ==
  ASSUME NEW s \in Seq(Int), Ascending(s), NEW i \in 1 .. Len(s) + 1, NEW k \in Int,
         \A j \in 1 .. Len(s) : (j < i => s[j] < k) /\ (j >= i => k < s[j])
  PROVE  Ascending(InsertAt(s, i, k))
<1> DEFINE z == InsertAt(s, i, k)
<1>1. Len(s) \in Nat /\ \A j \in 1 .. Len(s) : s[j] \in Int
  OBVIOUS
<1>2. /\ z \in Seq(Int) /\ Len(z) = Len(s) + 1
      /\ \A j \in 1 .. Len(s) + 1 : z[j] = IF j < i THEN s[j] ELSE IF j = i THEN k ELSE s[j - 1]
  BY InsertAtIs
<1> HIDE DEF z
<1>3. SUFFICES ASSUME NEW a \in 1 .. Len(z), NEW b \in 1 .. Len(z), a < b
               PROVE  z[a] < z[b]
  BY DEF Ascending, z
<1>4. CASE b < i
  <2>0. Len(z) = Len(s) + 1 /\ Len(s) \in Nat
    BY <1>1, <1>2
  <2>1. a \in 1 .. Len(s) /\ b \in 1 .. Len(s) /\ a < i
    BY ONLY <2>0, <1>3, <1>4, i \in 1 .. Len(s) + 1
  <2>2. a \in 1 .. Len(s) + 1 /\ b \in 1 .. Len(s) + 1
    BY ONLY <1>2, <1>3
  <2>3. z[a] = s[a] /\ z[b] = s[b]
    BY ONLY <1>2, <1>4, <2>1, <2>2
  <2> QED
    BY <1>3, <2>1, <2>3 DEF Ascending
<1>5. CASE b = i
  <2>1. a \in 1 .. Len(s) /\ z[a] = s[a] /\ z[b] = k
    BY <1>1, <1>2, <1>3, <1>5
  <2> QED
    BY <1>3, <1>5, <2>1
<1>6. CASE b > i
  <2>1. b - 1 \in 1 .. Len(s) /\ z[b] = s[b - 1] /\ b - 1 >= i
    BY <1>1, <1>2, <1>6
  <2>2. CASE a < i
    <3>1. a \in 1 .. Len(s) + 1 /\ a \in 1 .. Len(s)
      BY ONLY <1>1, <1>2, <1>3, <2>2, i \in 1 .. Len(s) + 1
    <3>2. z[a] = s[a]
      BY ONLY <1>2, <2>2, <3>1
    <3>3. s[a] < k /\ k < s[b - 1]
      BY <2>1, <2>2, <3>1
    <3> QED
      BY <1>1, <2>1, <3>1, <3>2, <3>3
  <2>3. CASE a = i
    BY <1>1, <1>2, <2>1, <2>3
  <2>4. CASE a > i
    <3>1. a - 1 \in 1 .. Len(s) /\ z[a] = s[a - 1] /\ a - 1 < b - 1
      BY <1>1, <1>2, <1>3, <2>4
    <3> QED
      BY <2>1, <3>1 DEF Ascending
  <2>5. a < i \/ a = i \/ a > i
    BY <1>1, <1>2
  <2> QED
    BY <2>2, <2>3, <2>4, <2>5
<1>7. b < i \/ b = i \/ b > i
  BY <1>1, <1>2
<1> QED
  BY <1>4, <1>5, <1>6, <1>7

LEMMA RemoveAscends ==
  ASSUME NEW s \in Seq(Int), Ascending(s), NEW i \in 1 .. Len(s)
  PROVE  Ascending(RemoveAt(s, i))
<1> DEFINE z == RemoveAt(s, i)
<1>1. Len(s) \in Nat /\ \A j \in 1 .. Len(s) : s[j] \in Int
  OBVIOUS
<1>2. Len(z) = Len(s) - 1 /\ \A j \in 1 .. Len(s) - 1 : z[j] = IF j < i THEN s[j] ELSE s[j + 1]
  BY RemoveAtIs
<1> HIDE DEF z
<1>3. SUFFICES ASSUME NEW a \in 1 .. Len(z), NEW b \in 1 .. Len(z), a < b
               PROVE  z[a] < z[b]
  BY DEF Ascending, z
<1> DEFINE at(j) == IF j < i THEN j ELSE j + 1
<1>4. at(a) \in 1 .. Len(s) /\ at(b) \in 1 .. Len(s) /\ at(a) < at(b)
  BY <1>1, <1>2, <1>3
<1>5. z[a] = s[at(a)] /\ z[b] = s[at(b)]
  BY <1>1, <1>2, <1>3
<1> QED
  BY <1>4, <1>5 DEF Ascending

LEMMA HalvesAscend ==
  ASSUME NEW s \in Seq(Int), Ascending(s), NEW m \in 0 .. Len(s)
  PROVE  Ascending(Low(s, m)) /\ Ascending(High(s, m))
<1>1. Len(s) \in Nat
  OBVIOUS
<1>2. /\ Len(Low(s, m)) = m /\ \A j \in 1 .. m : Low(s, m)[j] = s[j]
      /\ Len(High(s, m)) = Len(s) - m /\ \A j \in 1 .. Len(s) - m : High(s, m)[j] = s[m + j]
  BY HalvesAre
<1>3. ASSUME NEW a \in 1 .. m, NEW b \in 1 .. m, a < b PROVE Low(s, m)[a] < Low(s, m)[b]
  BY <1>1, <1>2, <1>3 DEF Ascending
<1>4. ASSUME NEW a \in 1 .. Len(s) - m, NEW b \in 1 .. Len(s) - m, a < b
      PROVE  High(s, m)[a] < High(s, m)[b]
  <2>1. m + a \in 1 .. Len(s) /\ m + b \in 1 .. Len(s) /\ m + a < m + b
    BY <1>1, <1>4
  <2> QED
    BY <1>2, <2>1 DEF Ascending
<1> QED
  BY <1>2, <1>3, <1>4 DEF Ascending

-----------------------------------------------------------------------------
(***************************************************************************)
(* The entries of a leaf.                                                  *)
(***************************************************************************)

\* e is the i-th key with the i-th value, for some i.
Paired(ks, rs, e) == \E i \in 1 .. Len(ks) : e = <<ks[i], rs[i]>>

\* The keys of a leaf, ascending, and a value for each.
Parallel(K, R, ks, rs) == ks \in Seq(K) /\ rs \in Seq(R) /\ Len(rs) = Len(ks) /\ Ascending(ks)

Entered(ks, rs, k, r, a, b) ==
  /\ Len(a) = Len(ks) + 1
  /\ \A j \in 1 .. Len(a) : a[j] = k \/ \E l \in 1 .. Len(ks) : a[j] = ks[l]
  /\ \A e : Paired(a, b, e) <=> (Paired(ks, rs, e) \/ e = <<k, r>>)

LEMMA PairInserted ==
  ASSUME NEW K \in SUBSET Int, NEW R, NEW ks, NEW rs, Parallel(K, R, ks, rs), NEW k \in K, NEW r \in R,
         \A j \in 1 .. Len(ks) : ks[j] # k
  PROVE  LET i == Position(ks, k) + 1
             a == InsertAt(ks, i, k)
             b == InsertAt(rs, i, r)
         IN  Parallel(K, R, a, b) /\ Entered(ks, rs, k, r, a, b)
<1> DEFINE i == Position(ks, k) + 1
<1>0. ks \in Seq(K) /\ rs \in Seq(R) /\ Len(rs) = Len(ks) /\ Ascending(ks)
  BY DEF Parallel
<1> DEFINE a == InsertAt(ks, i, k)
           b == InsertAt(rs, i, r)
<1>1. ks \in Seq(Int) /\ Len(ks) \in Nat /\ \A j \in 1 .. Len(ks) : ks[j] \in K /\ ks[j] \in Int
  BY <1>0, KeysAre
<1>2. k \in Int /\ i \in 1 .. Len(ks) + 1 /\ \A j \in 1 .. Len(ks) : j < i <=> ks[j] <= k
  <2>1. /\ Position(ks, k) \in 0 .. Len(ks)
        /\ \A j \in 1 .. Len(ks) : j <= Position(ks, k) <=> ks[j] <= k
    BY <1>0, <1>1, PositionIs
  <2>2. k \in Int
    OBVIOUS
  <2> QED
    BY <1>1, <2>1, <2>2
<1> HIDE DEF i
<1>3. /\ a \in Seq(K) /\ Len(a) = Len(ks) + 1
      /\ \A j \in 1 .. Len(ks) + 1 : a[j] = IF j < i THEN ks[j] ELSE IF j = i THEN k ELSE ks[j - 1]
  <2>1. ks \in Seq(K) /\ k \in K /\ i \in 1 .. Len(ks) + 1
    BY <1>0, <1>2
  <2> QED
    BY ONLY <2>1, InsertAtIs
<1>4. /\ b \in Seq(R) /\ Len(b) = Len(rs) + 1
      /\ \A j \in 1 .. Len(rs) + 1 : b[j] = IF j < i THEN rs[j] ELSE IF j = i THEN r ELSE rs[j - 1]
  <2>1. i \in 1 .. Len(rs) + 1
    BY <1>0, <1>2
  <2>2. rs \in Seq(R) /\ r \in R
    BY <1>0
  <2> QED
    BY ONLY <2>1, <2>2, InsertAtIs
<1> HIDE DEF a, b
<1>5. Ascending(a)
  <2>1. \A j \in 1 .. Len(ks) : (j < i => ks[j] < k) /\ (j >= i => k < ks[j])
    BY <1>1, <1>2
  <2> QED
    BY <1>0, <1>1, <1>2, <2>1, InsertAscends DEF a
<1>6. ASSUME NEW j \in 1 .. Len(a)
      PROVE  \/ j = i /\ a[j] = k /\ b[j] = r
             \/ \E l \in 1 .. Len(ks) : a[j] = ks[l] /\ b[j] = rs[l]
  <2>1. CASE j = i
    BY <1>1, <1>0, <1>3, <1>4, <2>1
  <2>2. CASE j < i
    <3>1. j \in 1 .. Len(ks) /\ a[j] = ks[j] /\ b[j] = rs[j]
      BY <1>1, <1>2, <1>0, <1>3, <1>4, <2>2
    <3> QED
      BY <3>1
  <2>3. CASE j > i
    <3>1. j - 1 \in 1 .. Len(ks) /\ a[j] = ks[j - 1] /\ b[j] = rs[j - 1]
      BY <1>1, <1>2, <1>0, <1>3, <1>4, <2>3
    <3> QED
      BY <3>1
  <2> QED
    BY <1>1, <1>2, <1>3, <2>1, <2>2, <2>3
<1>7. ASSUME NEW j \in 1 .. Len(ks) PROVE \E l \in 1 .. Len(a) : a[l] = ks[j] /\ b[l] = rs[j]
  <2>1. CASE j < i
    <3>1. j \in 1 .. Len(a) /\ a[j] = ks[j] /\ b[j] = rs[j]
      BY <1>1, <1>0, <1>3, <1>4, <2>1
    <3> QED
      BY <3>1
  <2>2. CASE j >= i
    <3>1. j + 1 \in 1 .. Len(a) /\ ~(j + 1 < i) /\ j + 1 # i /\ (j + 1) - 1 = j
      BY <1>1, <1>2, <1>3, <2>2
    <3>2. a[j + 1] = ks[j] /\ b[j + 1] = rs[j]
      BY <1>1, <1>2, <1>0, <1>3, <1>4, <3>1
    <3> QED
      BY <3>1, <3>2
  <2> QED
    BY <1>1, <1>2, <2>1, <2>2
<1>8. ASSUME NEW e PROVE Paired(a, b, e) <=> (Paired(ks, rs, e) \/ e = <<k, r>>)
  <2>1. Paired(a, b, e) => Paired(ks, rs, e) \/ e = <<k, r>>
    BY <1>6 DEF Paired
  <2>2. Paired(ks, rs, e) => Paired(a, b, e)
    <3>1. ASSUME NEW j \in 1 .. Len(ks), e = <<ks[j], rs[j]>> PROVE Paired(a, b, e)
      <4>1. PICK l \in 1 .. Len(a) : a[l] = ks[j] /\ b[l] = rs[j]
        BY <1>7
      <4> QED
        BY <3>1, <4>1 DEF Paired
    <3> QED
      BY <3>1 DEF Paired
  <2>3. i \in 1 .. Len(a) /\ a[i] = k /\ b[i] = r
    <3>1. i \in 1 .. Len(ks) + 1 /\ ~(i < i) /\ Len(rs) = Len(ks)
      BY <1>0, <1>1, <1>2
    <3> QED
      BY <3>1, <1>3, <1>4
  <2>4. e = <<k, r>> => Paired(a, b, e)
    BY <2>3 DEF Paired
  <2> QED
    BY <2>1, <2>2, <2>4
<1>9. \A j \in 1 .. Len(a) : a[j] = k \/ \E l \in 1 .. Len(ks) : a[j] = ks[l]
  BY <1>6
<1>10. Len(b) = Len(a)
  BY <1>0, <1>3, <1>4
<1> QED
  BY <1>0, <1>3, <1>4, <1>5, <1>8, <1>9, <1>10 DEF a, b, i, Parallel, Entered

-----------------------------------------------------------------------------
(***************************************************************************)
(* Insertion.                                                              *)
(***************************************************************************)

\* Insert before any split: the leaf gets the pair, the tree stays measured by v.
LEMMA InsertIntoLeafIs ==
  ASSUME NEW K \in SUBSET Int, NEW t, NEW v, Closed(K, t, v), NEW p \in DOMAIN t, t[p].leaf,
         NEW k \in K, In(v, p, k), \A i \in 1 .. Len(t[p].keys) : t[p].keys[i] # k,
         NEW r \in RidsOf(K)
  PROVE  LET u == InsertIntoLeaf(t, p, k, r)
         IN  /\ Closed(K, u, v) /\ DOMAIN u = DOMAIN t /\ \A q \in DOMAIN t \ {p} : u[q] = t[q]
             /\ u[p].leaf /\ Len(u[p].keys) = Len(t[p].keys) + 1
             /\ \A e : Has(u, e) <=> (Has(t, e) \/ e = <<k, r>>)
<1> DEFINE n == t[p]
           i == Position(n.keys, k) + 1
           ks == InsertAt(n.keys, i, k)
           rs == InsertAt(n.vals, i, r)
           u == InsertIntoLeaf(t, p, k, r)
<1>1. NodeOK(K, t, v, p) /\ LeafOK(K, t, v, p)
  BY DEF Closed, Shape
<1>0. /\ n = [leaf |-> TRUE, keys |-> n.keys, vals |-> n.vals, next |-> n.next]
      /\ \A j \in 1 .. Len(n.keys) : In(v, p, n.keys[j])
  BY <1>1 DEF NodeOK
<1>2. Parallel(K, RidsOf(K), n.keys, n.vals)
  BY <1>1 DEF NodeOK, LeafOK, Parallel
<1>3. Parallel(K, RidsOf(K), ks, rs) /\ Entered(n.keys, n.vals, k, r, ks, rs)
  BY <1>2, PairInserted
<1>4. /\ ks \in Seq(K) /\ rs \in Seq(RidsOf(K)) /\ Len(rs) = Len(ks) /\ Ascending(ks)
      /\ Len(ks) = Len(n.keys) + 1
      /\ \A j \in 1 .. Len(ks) : ks[j] = k \/ \E l \in 1 .. Len(n.keys) : ks[j] = n.keys[l]
      /\ \A e : Paired(ks, rs, e) <=> (Paired(n.keys, n.vals, e) \/ e = <<k, r>>)
  <2> HIDE DEF ks, rs, n
  <2> QED
    BY <1>3 DEF Parallel, Entered
<1>5. u = [t EXCEPT ![p].keys = ks, ![p].vals = rs]
  BY DEF InsertIntoLeaf
<1> HIDE DEF i, ks, rs, u
<1>6. DOMAIN u = DOMAIN t /\ u[p] = Leaf(ks, rs, n.next) /\ \A q \in DOMAIN t \ {p} : u[q] = t[q]
  BY <1>0, <1>5 DEF Leaf
<1>7. \A j \in 1 .. Len(ks) : In(v, p, ks[j])
  BY <1>0, <1>4
<1>8. Closed(K, u, v)
  BY <1>4, <1>6, <1>7, LeafChanged
<1>9. u[p].leaf /\ u[p].keys = ks /\ u[p].vals = rs
  BY <1>6 DEF Leaf
<1>10. ASSUME NEW e PROVE Has(u, e) <=> (Has(t, e) \/ e = <<k, r>>)
  <2>1. Holds(u[p], e) <=> (Holds(n, e) \/ e = <<k, r>>)
    <3>1. Paired(ks, rs, e) <=> (Paired(n.keys, n.vals, e) \/ e = <<k, r>>)
      BY <1>4
    <3>2. Holds(u[p], e) <=> Paired(ks, rs, e)
      BY ONLY <1>9 DEF Holds, Paired
    <3>3. Holds(n, e) <=> Paired(n.keys, n.vals, e)
      BY ONLY DEF Holds, Paired
    <3> QED
      BY ONLY <3>1, <3>2, <3>3
  <2> QED
    BY <1>6, <1>9, <2>1 DEF Has
<1> QED
  BY <1>4, <1>6, <1>8, <1>9, <1>10 DEF u

\* The entries of a leaf that is halved.
LEMMA PairHalved ==
  ASSUME NEW K \in SUBSET Int, NEW R, NEW ks, NEW rs, Parallel(K, R, ks, rs),
         NEW m \in 1 .. Len(ks) - 1
  PROVE  LET a == Low(ks, m)
             b == Low(rs, m)
             c == High(ks, m)
             d == High(rs, m)
         IN  /\ Parallel(K, R, a, b) /\ Len(a) = m /\ \A j \in 1 .. Len(a) : a[j] = ks[j] /\ a[j] < ks[m + 1]
             /\ Parallel(K, R, c, d) /\ Len(c) = Len(ks) - m
             /\ \A j \in 1 .. Len(c) : c[j] = ks[m + j] /\ ks[m + 1] <= c[j]
             /\ \A e : Paired(ks, rs, e) <=> (Paired(a, b, e) \/ Paired(c, d, e))
<1> DEFINE a == Low(ks, m)
           b == Low(rs, m)
           c == High(ks, m)
           d == High(rs, m)
<1>0. ks \in Seq(K) /\ rs \in Seq(R) /\ Len(rs) = Len(ks) /\ Ascending(ks)
  BY DEF Parallel
<1>1. ks \in Seq(Int) /\ Len(ks) \in Nat /\ \A j \in 1 .. Len(ks) : ks[j] \in K /\ ks[j] \in Int
  BY <1>0, KeysAre
<1>2. m \in 0 .. Len(ks) /\ m \in 0 .. Len(rs)
  BY <1>0, <1>1
<1>3. /\ a \in Seq(K) /\ Len(a) = m /\ \A j \in 1 .. m : a[j] = ks[j]
      /\ c \in Seq(K) /\ Len(c) = Len(ks) - m /\ \A j \in 1 .. Len(ks) - m : c[j] = ks[m + j]
  BY ONLY <1>0, <1>2, HalvesAre
<1>4. /\ b \in Seq(R) /\ Len(b) = m /\ \A j \in 1 .. m : b[j] = rs[j]
      /\ d \in Seq(R) /\ Len(d) = Len(rs) - m /\ \A j \in 1 .. Len(rs) - m : d[j] = rs[m + j]
  BY ONLY <1>0, <1>2, HalvesAre
<1>5. Ascending(a) /\ Ascending(c)
  BY <1>0, <1>1, <1>2, HalvesAscend
<1> HIDE DEF a, b, c, d
<1>6. ASSUME NEW j \in 1 .. Len(a) PROVE a[j] < ks[m + 1]
  <2>1. j \in 1 .. Len(ks) /\ m + 1 \in 1 .. Len(ks) /\ j < m + 1
    BY <1>1, <1>3
  <2> QED
    BY <1>0, <1>3, <2>1 DEF Ascending
<1>7. ASSUME NEW j \in 1 .. Len(c) PROVE ks[m + 1] <= c[j]
  <2>1. m + j \in 1 .. Len(ks) /\ m + 1 \in 1 .. Len(ks) /\ c[j] = ks[m + j]
    BY <1>1, <1>3
  <2>2. CASE j = 1
    BY <1>1, <2>1, <2>2
  <2>3. CASE j # 1
    <3>1. m + 1 < m + j
      BY <2>3
    <3>2. ks[m + 1] < ks[m + j]
      BY <1>0, <2>1, <3>1 DEF Ascending
    <3> QED
      BY <1>1, <2>1, <3>2
  <2> QED
    BY <2>2, <2>3
<1>8. ASSUME NEW e PROVE Paired(ks, rs, e) <=> (Paired(a, b, e) \/ Paired(c, d, e))
  <2>1. ASSUME NEW j \in 1 .. Len(ks), e = <<ks[j], rs[j]>> PROVE Paired(a, b, e) \/ Paired(c, d, e)
    <3>1. CASE j <= m
      <4>1. j \in 1 .. Len(a) /\ a[j] = ks[j] /\ b[j] = rs[j]
        BY <1>1, <1>3, <1>4, <3>1
      <4> QED
        BY <2>1, <4>1 DEF Paired
    <3>2. CASE j > m
      <4>1. j - m \in 1 .. Len(c) /\ j - m \in 1 .. Len(ks) - m /\ m + (j - m) = j
        BY <1>1, <1>3, <3>2
      <4>2. c[j - m] = ks[j] /\ d[j - m] = rs[j]
        BY <1>0, <1>3, <1>4, <4>1
      <4> QED
        BY <2>1, <4>1, <4>2 DEF Paired
    <3> QED
      BY <1>1, <3>1, <3>2
  <2>2. ASSUME NEW j \in 1 .. Len(a), e = <<a[j], b[j]>> PROVE Paired(ks, rs, e)
    <3>1. j \in 1 .. Len(ks) /\ a[j] = ks[j] /\ b[j] = rs[j]
      BY <1>1, <1>3, <1>4
    <3> QED
      BY <2>2, <3>1 DEF Paired
  <2>3. ASSUME NEW j \in 1 .. Len(c), e = <<c[j], d[j]>> PROVE Paired(ks, rs, e)
    <3>1. m + j \in 1 .. Len(ks) /\ j \in 1 .. Len(ks) - m
      BY <1>1, <1>3
    <3>2. c[j] = ks[m + j] /\ d[j] = rs[m + j]
      BY <1>0, <1>3, <1>4, <3>1
    <3> QED
      BY <2>3, <3>1, <3>2 DEF Paired
  <2> QED
    BY <2>1, <2>2, <2>3 DEF Paired
<1>9. Parallel(K, R, a, b) /\ Parallel(K, R, c, d)
  BY <1>0, <1>3, <1>4, <1>5 DEF Parallel
<1>10. Len(a) = m /\ Len(c) = Len(ks) - m /\ (\A j \in 1 .. Len(a) : a[j] = ks[j]) /\ \A j \in 1 .. Len(c) : c[j] = ks[m + j]
  BY <1>3
<1> QED
  BY <1>6, <1>7, <1>8, <1>9, <1>10 DEF a, b, c, d

Removed(K, R, ks, rs, i, a, b) ==
  /\ Parallel(K, R, a, b) /\ Len(a) = Len(ks) - 1
  /\ \A j \in 1 .. Len(a) : \E l \in 1 .. Len(ks) : a[j] = ks[l]
  /\ \A e : Paired(a, b, e) <=> (Paired(ks, rs, e) /\ e # <<ks[i], rs[i]>>)

LEMMA PairRemoved ==
  ASSUME NEW K, K \in SUBSET Int, NEW R, NEW ks, NEW rs, Parallel(K, R, ks, rs),
         NEW i, i \in 1 .. Len(ks)
  PROVE  Removed(K, R, ks, rs, i, RemoveAt(ks, i), RemoveAt(rs, i))
<1> DEFINE a == RemoveAt(ks, i)
           b == RemoveAt(rs, i)
<1>0. ks \in Seq(K) /\ rs \in Seq(R) /\ Len(rs) = Len(ks) /\ Ascending(ks)
  BY DEF Parallel
<1>1. ks \in Seq(Int) /\ Len(ks) \in Nat /\ \A j \in 1 .. Len(ks) : ks[j] \in K /\ ks[j] \in Int
  BY <1>0, KeysAre
<1>2. i \in 1 .. Len(ks) /\ i \in 1 .. Len(rs)
  BY <1>0, <1>1
<1>3. /\ a \in Seq(K) /\ Len(a) = Len(ks) - 1
      /\ \A j \in 1 .. Len(ks) - 1 : a[j] = IF j < i THEN ks[j] ELSE ks[j + 1]
  BY ONLY <1>0, <1>2, RemoveAtIs
<1>4. /\ b \in Seq(R) /\ Len(b) = Len(rs) - 1
      /\ \A j \in 1 .. Len(rs) - 1 : b[j] = IF j < i THEN rs[j] ELSE rs[j + 1]
  BY ONLY <1>0, <1>2, RemoveAtIs
<1>5. Ascending(a)
  BY <1>0, <1>1, RemoveAscends
<1> HIDE DEF a, b
<1>6. ASSUME NEW j \in 1 .. Len(a)
      PROVE  \E l \in 1 .. Len(ks) : a[j] = ks[l] /\ b[j] = rs[l] /\ l # i
  <2>1. j \in 1 .. Len(ks) - 1 /\ j \in 1 .. Len(rs) - 1 /\ j \in Nat
    BY <1>0, <1>1, <1>3
  <2>2. CASE j < i
    <3>1. j \in 1 .. Len(ks) /\ a[j] = ks[j] /\ b[j] = rs[j] /\ j # i
      BY <1>1, <1>3, <1>4, <2>1, <2>2
    <3> QED
      BY <3>1
  <2>3. CASE ~(j < i)
    <3>1. j + 1 \in 1 .. Len(ks) /\ a[j] = ks[j + 1] /\ b[j] = rs[j + 1] /\ j + 1 # i
      BY <1>1, <1>3, <1>4, <2>1, <2>3
    <3> QED
      BY <3>1
  <2> QED
    BY <2>2, <2>3
<1>7. ASSUME NEW l \in 1 .. Len(ks), l # i
      PROVE  \E j \in 1 .. Len(a) : a[j] = ks[l] /\ b[j] = rs[l]
  <2>1. CASE l < i
    <3>1. l \in 1 .. Len(ks) - 1 /\ l \in 1 .. Len(rs) - 1 /\ l \in 1 .. Len(a)
      BY <1>0, <1>1, <1>3, <2>1
    <3>2. a[l] = ks[l] /\ b[l] = rs[l]
      BY <1>3, <1>4, <2>1, <3>1
    <3> QED
      BY <3>1, <3>2
  <2>2. CASE l > i
    <3>1. l - 1 \in 1 .. Len(ks) - 1 /\ l - 1 \in 1 .. Len(rs) - 1 /\ l - 1 \in 1 .. Len(a)
          /\ ~(l - 1 < i) /\ (l - 1) + 1 = l
      BY <1>0, <1>1, <1>3, <2>2
    <3>2. a[l - 1] = ks[l] /\ b[l - 1] = rs[l]
      BY <1>3, <1>4, <3>1
    <3> QED
      BY <3>1, <3>2
  <2> QED
    BY <1>1, <1>7, <2>1, <2>2
<1>8. ASSUME NEW l \in 1 .. Len(ks), l # i PROVE ks[l] # ks[i]
  <2>1. l < i \/ i < l
    BY <1>1, <1>8
  <2>2. ks[l] < ks[i] \/ ks[i] < ks[l]
    BY <1>0, <2>1 DEF Ascending
  <2> QED
    BY <1>1, <2>2
<1>9. ASSUME NEW e PROVE Paired(a, b, e) <=> (Paired(ks, rs, e) /\ e # <<ks[i], rs[i]>>)
  <2>1. ASSUME NEW j \in 1 .. Len(a), e = <<a[j], b[j]>>
        PROVE  Paired(ks, rs, e) /\ e # <<ks[i], rs[i]>>
    <3>1. PICK l \in 1 .. Len(ks) : a[j] = ks[l] /\ b[j] = rs[l] /\ l # i
      BY <1>6
    <3>2. ks[l] # ks[i]
      BY <1>8, <3>1
    <3> QED
      BY <2>1, <3>1, <3>2 DEF Paired
  <2>2. ASSUME NEW l \in 1 .. Len(ks), e = <<ks[l], rs[l]>>, e # <<ks[i], rs[i]>>
        PROVE  Paired(a, b, e)
    <3>1. PICK j \in 1 .. Len(a) : a[j] = ks[l] /\ b[j] = rs[l]
      BY <1>7, <2>2
    <3> QED
      BY <2>2, <3>1 DEF Paired
  <2> QED
    BY <2>1, <2>2 DEF Paired
<1>10. Parallel(K, R, a, b)
  BY <1>0, <1>3, <1>4, <1>5 DEF Parallel
<1>11. Len(a) = Len(ks) - 1 /\ \A j \in 1 .. Len(a) : \E l \in 1 .. Len(ks) : a[j] = ks[l]
  BY <1>3, <1>6
<1>12. Removed(K, R, ks, rs, i, a, b)
  BY <1>9, <1>10, <1>11 DEF Removed
<1> QED
  BY <1>12 DEF a, b

-----------------------------------------------------------------------------
(***************************************************************************)
(* Splits.                                                                 *)
(***************************************************************************)

LEMMA NewPageIs ==
  ASSUME NEW t, IsFiniteSet(DOMAIN t), Cardinality(DOMAIN t) <= 2 * MaxPages
  PROVE  NewPage(t) \in Nat \ DOMAIN t /\ \A q \in 0 .. NewPage(t) - 1 : q \in DOMAIN t
<1> DEFINE F == {q \in 0 .. 2 * MaxPages : q \notin DOMAIN t}
<1>1. MaxPages \in Nat /\ 2 * MaxPages \in Nat
  BY TreeAssumption
<1>2. F # {}
  <2> SUFFICES ASSUME F = {} PROVE FALSE
    OBVIOUS
  <2>1. (0 .. 2 * MaxPages) \in SUBSET DOMAIN t
    OBVIOUS
  <2>2. Cardinality(0 .. 2 * MaxPages) = 2 * MaxPages - 0 + 1
    BY <1>1, FS_Interval
  <2>3. Cardinality(0 .. 2 * MaxPages) <= Cardinality(DOMAIN t)
    BY <2>1, FS_Subset
  <2>4. Cardinality(DOMAIN t) \in Nat
    BY FS_CardinalityType
  <2> QED
    BY <1>1, <2>2, <2>3, <2>4
<1>3. Min(F) \in F /\ \A n \in F : Min(F) <= n
  <2>1. F \in SUBSET Nat
    BY <1>1
  <2> HIDE DEF F
  <2> QED
    BY <1>2, <2>1, MinIs
<1>4. \E p \in 0 .. 2 * MaxPages : p \notin DOMAIN t /\ \A q \in 0 .. p - 1 : q \in DOMAIN t
  <2>1. PICK p \in F : \A n \in F : p <= n
    BY <1>3
  <2>2. ASSUME NEW q \in 0 .. p - 1 PROVE q \in DOMAIN t
    <3>1. p \in 0 .. 2 * MaxPages
      BY <2>1
    <3>2. q \in 0 .. 2 * MaxPages /\ ~(p <= q)
      BY <1>1, <3>1
    <3> QED
      BY <2>1, <3>2
  <2> QED
    BY <2>1, <2>2
<1>5. /\ NewPage(t) \in 0 .. 2 * MaxPages /\ NewPage(t) \notin DOMAIN t
      /\ \A q \in 0 .. NewPage(t) - 1 : q \in DOMAIN t
  BY <1>4 DEF NewPage
<1> QED
  BY <1>1, <1>5

\* The tree of a split: the parent does not know the page on the right.
Open(K, s, v) ==
  /\ Shape(K, s.tree, v, s.right)
  /\ s.left \in DOMAIN s.tree /\ s.right \in DOMAIN s.tree \ {Root, s.left} /\ s.key \in K
  /\ v[s.left].hi = From(s.key) /\ v[s.right].lo = From(s.key)
  /\ v[s.left].far = v[s.right].hi /\ v[s.left].height = v[s.right].height
  /\ \A q \in DOMAIN s.tree \ {s.left} : v[q].far = v[q].hi

\* Page p gives what is from key on to the page sib.
Divided(t, v, p, sib, key) ==
  [q \in DOMAIN t \cup {sib} |->
     IF q = p THEN [height |-> v[p].height, lo |-> v[p].lo, hi |-> From(key), far |-> v[p].far]
     ELSE IF q = sib THEN [height |-> v[p].height, lo |-> From(key), hi |-> v[p].hi, far |-> v[p].far]
     ELSE v[q]]

IsDivided(t, v, p, sib, key, w) ==
  /\ w[p] = [height |-> v[p].height, lo |-> v[p].lo, hi |-> From(key), far |-> v[p].far]
  /\ w[sib] = [height |-> v[p].height, lo |-> From(key), hi |-> v[p].hi, far |-> v[p].far]
  /\ \A q \in DOMAIN t \ {p} : w[q] = v[q]
  /\ \A k \in Int : In(w, p, k) <=> (In(v, p, k) /\ k < key)
  /\ \A k \in Int : In(w, sib, k) <=> (In(v, p, k) /\ key <= k)
  /\ \A u : DOMAIN u = DOMAIN t \cup {sib} => Measured(u, w)

LEMMA DividedIs ==
  ASSUME NEW K \in SUBSET Int, NEW t, NEW v, Closed(K, t, v), NEW p \in DOMAIN t,
         NEW sib \in Nat \ DOMAIN t, NEW key \in K, In(v, p, key),
         NEW k0 \in Int, In(v, p, k0), k0 < key
  PROVE  IsDivided(t, v, p, sib, key, Divided(t, v, p, sib, key))
<1> DEFINE w == Divided(t, v, p, sib, key)
<1>1. Shape(K, t, v, NoPage)
  BY DEF Closed
<1>2. /\ v[p].lo \in Cuts /\ v[p].hi \in Cuts /\ v[p].far \in Cuts /\ v[p].height \in Nat
      /\ v[p].far = v[p].hi /\ v[p].height <= v[Root].height /\ v[Root].height \in Nat
  BY <1>1, Measures DEF Closed, Shape, Measured
<1>3. /\ w[p] = [height |-> v[p].height, lo |-> v[p].lo, hi |-> From(key), far |-> v[p].far]
      /\ w[sib] = [height |-> v[p].height, lo |-> From(key), hi |-> v[p].hi, far |-> v[p].far]
      /\ \A q \in DOMAIN t \ {p} : w[q] = v[q]
      /\ DOMAIN w = DOMAIN t \cup {sib}
  BY DEF Divided
<1>4. key \in Int /\ From(key) \in Cuts /\ \A x \in Int : x \in From(key) <=> key <= x
  BY FromIsCut
<1> HIDE DEF w
<1>5. ASSUME NEW k \in Int PROVE In(w, p, k) <=> (In(v, p, k) /\ k < key)
  <2>1. w[p].lo = v[p].lo /\ w[p].hi = From(key)
    BY <1>3
  <2>2. k < key => k \notin v[p].hi
    BY <1>2, <1>4, CutOrder DEF In
  <2> QED
    BY <1>4, <2>1, <2>2 DEF In
<1>6. ASSUME NEW k \in Int PROVE In(w, sib, k) <=> (In(v, p, k) /\ key <= k)
  <2>1. w[sib].lo = From(key) /\ w[sib].hi = v[p].hi
    BY <1>3
  <2>2. key <= k => k \in v[p].lo
    BY <1>2, <1>4, CutOrder DEF In
  <2> QED
    BY <1>4, <2>1, <2>2 DEF In
<1>7. ASSUME NEW u, DOMAIN u = DOMAIN t \cup {sib} PROVE Measured(u, w)
  <2>0. /\ v \in [DOMAIN t -> [height : Nat, lo : Cuts, hi : Cuts, far : Cuts]] /\ Root \in DOMAIN t
        /\ \A q \in DOMAIN t : /\ v[q].height <= v[Root].height
                               /\ v[q].far \subseteq v[q].hi /\ \E k \in Int : In(v, q, k)
        /\ v[Root].lo = Int /\ v[Root].far = {}
    BY <1>1 DEF Shape, Measured
  <2>1. \A q \in DOMAIN u : q = p \/ q = sib \/ (q \in DOMAIN t \ {p} /\ w[q] = v[q])
    BY <1>3, <1>7
  <2>2. ASSUME NEW q \in DOMAIN u PROVE w[q] \in [height : Nat, lo : Cuts, hi : Cuts, far : Cuts]
    BY <1>2, <1>3, <1>4, <2>0, <2>1
  <2>3. w[Root].height = v[Root].height /\ w[Root].lo = v[Root].lo /\ w[Root].far = v[Root].far
    BY <1>3, <2>0
  <2>4. v[p].hi \subseteq From(key)
    <3>1. ASSUME NEW x \in v[p].hi PROVE x \in From(key)
      <4>1. x \in Int
        BY <1>2 DEF Cuts
      <4>2. ~(x <= key)
        BY <1>2, <1>4, <4>1, CutOrder DEF In
      <4> QED
        BY <1>4, <4>1, <4>2
    <3> QED
      BY <3>1
  <2>5. ASSUME NEW q \in DOMAIN u
        PROVE  w[q].height <= w[Root].height /\ w[q].far \subseteq w[q].hi /\ \E k \in Int : In(w, q, k)
    <3>1. CASE q = p
      <4>1. In(w, p, k0)
        BY <1>5
      <4> QED
        BY <1>2, <1>3, <2>3, <2>4, <3>1, <4>1
    <3>2. CASE q = sib
      <4>1. In(w, sib, key)
        BY <1>4, <1>6
      <4> QED
        BY <1>2, <1>3, <1>4, <2>3, <3>2, <4>1
    <3>3. CASE q \in DOMAIN t \ {p}
      BY <1>3, <2>0, <2>3, <3>3 DEF In
    <3> QED
      BY <2>1, <3>1, <3>2, <3>3
  <2> QED
    <3>1. w \in [DOMAIN u -> [height : Nat, lo : Cuts, hi : Cuts, far : Cuts]]
      <4>1. w = [q \in DOMAIN w |-> w[q]]
        BY DEF w, Divided
      <4> QED
        BY <1>3, <1>7, <2>2, <4>1
    <3> QED
      BY <2>0, <2>3, <2>5, <3>1 DEF Measured
<1> QED
  BY <1>3, <1>5, <1>6, <1>7 DEF w, IsDivided

LEMMA SplitOpens ==
  ASSUME NEW K \in SUBSET Int, NEW t, NEW v, Closed(K, t, v), NEW p \in DOMAIN t,
         NEW sib \in Nat \ DOMAIN t, NEW key \in K, In(v, p, key),
         NEW k0 \in Int, In(v, p, k0), k0 < key,
         NEW u, DOMAIN u = DOMAIN t \cup {sib}, \A q \in DOMAIN t \ {p} : u[q] = t[q],
         u[p].leaf = t[p].leaf,
         NEW w, w = Divided(t, v, p, sib, key),
         PageOK(K, u, w, sib, p), PageOK(K, u, w, sib, sib),
         \A c \in DOMAIN t \ {Root} : HasParent(u, c)
  PROVE  Open(K, [tree |-> u, left |-> p, key |-> key, right |-> sib], w)
<1>1. Shape(K, t, v, NoPage) /\ \A q \in DOMAIN t : v[q].far = v[q].hi
  BY DEF Closed
<1>2. /\ w[p] = [height |-> v[p].height, lo |-> v[p].lo, hi |-> From(key), far |-> v[p].far]
      /\ w[sib] = [height |-> v[p].height, lo |-> From(key), hi |-> v[p].hi, far |-> v[p].far]
      /\ \A q \in DOMAIN t \ {p} : w[q] = v[q]
      /\ Measured(u, w)
  <2>1. /\ K \in SUBSET Int /\ Closed(K, t, v) /\ p \in DOMAIN t /\ sib \in Nat \ DOMAIN t /\ key \in K
        /\ In(v, p, key) /\ k0 \in Int /\ In(v, p, k0) /\ k0 < key /\ DOMAIN u = DOMAIN t \cup {sib}
    OBVIOUS
  <2>2. w = Divided(t, v, p, sib, key)
    OBVIOUS
  <2>3. IsDivided(t, v, p, sib, key, w)
    BY ONLY <2>1, <2>2, DividedIs
  <2> QED
    BY ONLY <2>1, <2>3 DEF IsDivided
<1>3. ASSUME NEW q \in DOMAIN t PROVE w[q].height = v[q].height /\ w[q].lo = v[q].lo /\ w[q].far = v[q].far
  BY <1>2
<1>4. ASSUME NEW q \in DOMAIN t \ {p} PROVE PageOK(K, u, w, sib, q)
  <2>1. (t[q].leaf => LeafOK(K, t, v, q)) /\ (~t[q].leaf => InnerOK(t, v, NoPage, q))
    BY <1>1 DEF Shape
  <2>2. u[q] = t[q] /\ w[q] = v[q]
    BY <1>2
  <2>3. ASSUME t[q].leaf, t[q].next # NoPage PROVE SameAfter(t, v, u, w, t[q].next)
    <3>1. t[q].next \in DOMAIN t
      BY <2>1, <2>3 DEF LeafOK
    <3> QED
      BY <1>3, <3>1 DEF SameAfter
  <2>4. ASSUME ~t[q].leaf, NEW i \in 1 .. Len(t[q].vals)
        PROVE  SameBelow(t, v, u, w, t[q].vals[i]) /\ t[q].vals[i] # sib
    <3>1. t[q].vals[i] \in DOMAIN t
      BY <2>1, <2>4 DEF InnerOK, ChildOK
    <3> QED
      BY <1>3, <3>1 DEF SameBelow
  <2> QED
    BY <1>1, <2>2, <2>3, <2>4, PageKept
<1>5. ASSUME NEW q \in DOMAIN u PROVE PageOK(K, u, w, sib, q)
  BY <1>4
<1>6. IsFiniteSet(DOMAIN t) /\ DOMAIN t \in SUBSET Nat /\ Root \in DOMAIN t
  BY <1>1 DEF Shape
<1>7. IsFiniteSet(DOMAIN u) /\ DOMAIN u \in SUBSET Nat /\ Root \in DOMAIN u /\ sib # Root
  BY <1>6, FS_AddElement
<1>8. Shape(K, u, w, sib)
  BY <1>2, <1>5, <1>7, ShapeIs
<1> DEFINE s == [tree |-> u, left |-> p, key |-> key, right |-> sib]
<1>9. s.tree = u /\ s.left = p /\ s.key = key /\ s.right = sib
  OBVIOUS
<1> HIDE DEF s
<1>10. /\ p \in DOMAIN u /\ sib \in DOMAIN u \ {Root, p}
       /\ w[p].hi = From(key) /\ w[sib].lo = From(key)
       /\ w[p].far = w[sib].hi /\ w[p].height = w[sib].height
  BY <1>1, <1>2, <1>7
<1>11. \A q \in DOMAIN u \ {p} : w[q].far = w[q].hi
  BY <1>1, <1>2
<1> QED
  BY <1>8, <1>9, <1>10, <1>11 DEF Open, s

\* What a split does to the tree as a whole: page p is divided, the rest stays.
SplitOf(t, v, s, w, p) ==
  /\ s.left = p /\ s.right = NewPage(t) /\ s.right \in Nat \ DOMAIN t
  /\ DOMAIN s.tree = DOMAIN t \cup {s.right}
  /\ \A q \in DOMAIN t \ {p} : s.tree[q] = t[q]
  /\ s.tree[p].leaf = t[p].leaf /\ s.tree[s.right].leaf = t[p].leaf
  /\ w[p].height = v[p].height
  /\ \A e : Has(s.tree, e) <=> Has(t, e)

\* SplitLeaf leaves an open tree.
LEMMA SplitLeafIs ==
  ASSUME NEW K \in SUBSET Int, NEW t, NEW v, Closed(K, t, v), NEW p \in DOMAIN t, t[p].leaf,
         Len(t[p].keys) >= 2, Cardinality(DOMAIN t) <= 2 * MaxPages
  PROVE  LET s == SplitLeaf(t, p)
         IN  /\ \E w : Open(K, s, w) /\ SplitOf(t, v, s, w, p)
             /\ Len(s.tree[p].keys) = Len(t[p].keys) \div 2
             /\ Len(s.tree[s.right].keys) = Len(t[p].keys) - Len(t[p].keys) \div 2
<1> DEFINE n == t[p]
           m == Len(n.keys) \div 2
           sib == NewPage(t)
           a == Low(n.keys, m)
           b == Low(n.vals, m)
           c == High(n.keys, m)
           d == High(n.vals, m)
           u == Put([t EXCEPT ![p] = Leaf(a, b, sib)], sib, Leaf(c, d, n.next))
           key == n.keys[m + 1]
           s == SplitLeaf(t, p)
           w == Divided(t, v, p, sib, key)
<1>1. /\ Shape(K, t, v, NoPage) /\ IsFiniteSet(DOMAIN t) /\ NodeOK(K, t, v, p) /\ LeafOK(K, t, v, p)
      /\ \A q \in DOMAIN t : v[q].far = v[q].hi
  BY DEF Closed, Shape
<1>2. Parallel(K, RidsOf(K), n.keys, n.vals)
  BY <1>1 DEF NodeOK, LeafOK, Parallel
<1>3. /\ n.keys \in Seq(Int) /\ Len(n.keys) \in Nat
      /\ \A i \in 1 .. Len(n.keys) : n.keys[i] \in K /\ n.keys[i] \in Int
  BY <1>2, KeysAre DEF Parallel
<1>4. m \in 1 .. Len(n.keys) - 1 /\ m + 1 \in 1 .. Len(n.keys)
  <2>1. \A x \in Nat : x >= 2 => x \div 2 \in 1 .. x - 1 /\ x \div 2 + 1 \in 1 .. x
    OBVIOUS
  <2> QED
    BY <1>3, <2>1
<1>5. sib \in Nat \ DOMAIN t
  BY <1>1, NewPageIs
<1> HIDE DEF m, sib
<1>6. /\ Parallel(K, RidsOf(K), a, b) /\ Len(a) = m /\ \A j \in 1 .. Len(a) : a[j] = n.keys[j] /\ a[j] < key
      /\ Parallel(K, RidsOf(K), c, d) /\ Len(c) = Len(n.keys) - m
      /\ \A j \in 1 .. Len(c) : c[j] = n.keys[m + j] /\ key <= c[j]
      /\ \A e : Paired(n.keys, n.vals, e) <=> (Paired(a, b, e) \/ Paired(c, d, e))
  BY <1>2, <1>4, PairHalved
<1>7. s = [tree |-> u, left |-> p, key |-> key, right |-> sib]
  BY DEF SplitLeaf, m, sib
<1> HIDE DEF a, b, c, d
<1>8. /\ DOMAIN u = DOMAIN t \cup {sib} /\ u[p] = Leaf(a, b, sib) /\ u[sib] = Leaf(c, d, n.next)
      /\ \A q \in DOMAIN t \ {p} : u[q] = t[q]
  <2> HIDE DEF n
  <2>1. p \in DOMAIN t /\ sib \notin DOMAIN t
    BY <1>5
  <2> QED
    BY ONLY <2>1 DEF Put
<1> HIDE DEF u, s
<1>9. key \in K /\ In(v, p, key) /\ key \in Int
  BY <1>1, <1>3, <1>4 DEF NodeOK
<1>10. a[1] \in Int /\ In(v, p, a[1]) /\ a[1] < key
  <2>1. 1 \in 1 .. Len(a) /\ 1 \in 1 .. Len(n.keys)
    BY <1>3, <1>4, <1>6
  <2>2. a[1] = n.keys[1] /\ a[1] < key
    BY <1>6, <2>1
  <2> QED
    BY <1>1, <1>3, <2>1, <2>2 DEF NodeOK
<1> HIDE DEF key, w
<1>11. /\ w[p] = [height |-> v[p].height, lo |-> v[p].lo, hi |-> From(key), far |-> v[p].far]
       /\ w[sib] = [height |-> v[p].height, lo |-> From(key), hi |-> v[p].hi, far |-> v[p].far]
       /\ \A q \in DOMAIN t \ {p} : w[q] = v[q]
       /\ \A k \in Int : In(w, p, k) <=> (In(v, p, k) /\ k < key)
       /\ \A k \in Int : In(w, sib, k) <=> (In(v, p, k) /\ key <= k)
  <2>1. K \in SUBSET Int /\ Closed(K, t, v) /\ p \in DOMAIN t
    OBVIOUS
  <2>2. w = Divided(t, v, p, sib, key)
    BY DEF w
  <2>3. PICK k0 \in Int : In(v, p, k0) /\ k0 < key
    BY <1>10
  <2> HIDE DEF n
  <2> QED
    <3>1. IsDivided(t, v, p, sib, key, w)
      BY ONLY <1>5, <1>9, <2>1, <2>2, <2>3, DividedIs
    <3> QED
      BY ONLY <3>1 DEF IsDivided
<1>12. /\ u[p] = [leaf |-> TRUE, keys |-> a, vals |-> b, next |-> sib]
       /\ u[p].leaf = TRUE /\ u[p].keys = a /\ u[p].vals = b /\ u[p].next = sib
       /\ u[sib] = [leaf |-> TRUE, keys |-> c, vals |-> d, next |-> n.next]
       /\ u[sib].leaf = TRUE /\ u[sib].keys = c /\ u[sib].vals = d /\ u[sib].next = n.next
  BY <1>8 DEF Leaf
<1>13. /\ a \in Seq(K) /\ b \in Seq(RidsOf(K)) /\ Len(b) = Len(a) /\ Ascending(a)
       /\ c \in Seq(K) /\ d \in Seq(RidsOf(K)) /\ Len(d) = Len(c) /\ Ascending(c)
       /\ Len(a) \in Nat /\ Len(c) \in Nat
  BY <1>6, KeysAre DEF Parallel
<1>14. \A j \in 1 .. Len(a) : In(w, p, a[j])
  <2> SUFFICES ASSUME NEW j \in 1 .. Len(a) PROVE In(w, p, a[j])
    OBVIOUS
  <2>1. j \in 1 .. Len(n.keys) /\ a[j] = n.keys[j] /\ a[j] < key
    BY <1>3, <1>4, <1>6
  <2> QED
    BY <1>1, <1>3, <1>11, <2>1 DEF NodeOK
<1>15. \A j \in 1 .. Len(c) : In(w, sib, c[j])
  <2> SUFFICES ASSUME NEW j \in 1 .. Len(c) PROVE In(w, sib, c[j])
    OBVIOUS
  <2>1. m + j \in 1 .. Len(n.keys) /\ c[j] = n.keys[m + j] /\ key <= c[j]
    <3>1. j \in 1 .. Len(n.keys) - m
      BY <1>6
    <3>2. m + j \in 1 .. Len(n.keys)
      BY <1>3, <1>4, <3>1
    <3> QED
      BY <1>6, <3>2
  <2> QED
    BY <1>1, <1>3, <1>11, <2>1 DEF NodeOK
<1>16. v[p].height = 0 /\ IF v[p].hi = {} THEN n.next = NoPage
                          ELSE n.next \in DOMAIN t /\ t[n.next].leaf /\ v[n.next].lo = v[p].hi
  BY <1>1 DEF LeafOK
<1>17. PageOK(K, u, w, sib, p)
  <2>1. NodeOK(K, u, w, p)
    BY <1>12, <1>13, <1>14 DEF NodeOK
  <2>2. LeafOK(K, u, w, p)
    <3>1. key \in From(key)
      BY <1>9 DEF From
    <3> QED
      BY <1>8, <1>11, <1>12, <1>13, <1>16, <3>1 DEF LeafOK
  <2> QED
    BY <1>12, <2>1, <2>2 DEF PageOK
<1>18. PageOK(K, u, w, sib, sib)
  <2>1. NodeOK(K, u, w, sib)
    BY <1>12, <1>13, <1>15 DEF NodeOK
  <2>2. LeafOK(K, u, w, sib)
    <3>1. CASE v[p].hi = {}
      BY <1>11, <1>12, <1>13, <1>16, <3>1 DEF LeafOK
    <3>2. CASE v[p].hi # {}
      <4>1. n.next \in DOMAIN u /\ u[n.next].leaf /\ w[n.next].lo = v[p].hi
        BY <1>8, <1>11, <1>12, <1>16, <3>2
      <4> QED
        BY <1>11, <1>12, <1>13, <1>16, <3>2, <4>1 DEF LeafOK
    <3> QED
      BY <3>1, <3>2
  <2> QED
    BY <1>12, <2>1, <2>2 DEF PageOK
<1>19. \A x \in DOMAIN t \ {Root} : HasParent(u, x)
  <2> SUFFICES ASSUME NEW x \in DOMAIN t \ {Root} PROVE HasParent(u, x)
    OBVIOUS
  <2>1. HasParent(t, x)
    BY <1>1, NoPageIsNone DEF Shape
  <2>2. PICK q \in DOMAIN t : ~t[q].leaf /\ \E i \in 1 .. Len(t[q].vals) : t[q].vals[i] = x
    BY <2>1 DEF HasParent
  <2>3. q \in DOMAIN u /\ u[q] = t[q]
    BY <1>8, <2>2
  <2> QED
    BY <2>2, <2>3 DEF HasParent
<1>20. t[p].leaf = TRUE
  BY <1>1 DEF NodeOK
<1>21. Open(K, s, w)
  BY <1>5, <1>7, <1>8, <1>9, <1>10, <1>12, <1>17, <1>18, <1>19, <1>20, SplitOpens DEF w
<1>22. s.left = p /\ s.right = sib /\ s.tree = u
  BY <1>7
<1>23. \A e : Has(u, e) <=> Has(t, e)
  <2> SUFFICES ASSUME NEW e PROVE Has(u, e) <=> Has(t, e)
    OBVIOUS
  <2>1. Holds(t[p], e) <=> (Holds(u[p], e) \/ Holds(u[sib], e))
    <3>1. Paired(n.keys, n.vals, e) <=> (Paired(a, b, e) \/ Paired(c, d, e))
      BY <1>6
    <3>2. Holds(t[p], e) <=> Paired(n.keys, n.vals, e)
      BY DEF Holds, Paired
    <3>3. (Holds(u[p], e) <=> Paired(a, b, e)) /\ (Holds(u[sib], e) <=> Paired(c, d, e))
      BY <1>12 DEF Holds, Paired
    <3> QED
      BY <3>1, <3>2, <3>3
  <2> QED
    BY <1>8, <1>12, <1>20, <2>1 DEF Has
<1>24. SplitOf(t, v, s, w, p)
  <2>1. w[p].height = v[p].height
    BY <1>11
  <2>2. s.right = NewPage(t)
    BY <1>22 DEF sib
  <2>3. s.tree[p].leaf = t[p].leaf /\ s.tree[s.right].leaf = t[p].leaf
    BY <1>12, <1>20, <1>22
  <2> HIDE DEF n
  <2> QED
    BY <1>5, <1>8, <1>22, <1>23, <2>1, <2>2, <2>3 DEF SplitOf
<1>25. Len(s.tree[p].keys) = m /\ Len(s.tree[s.right].keys) = Len(n.keys) - m
  BY <1>6, <1>12, <1>22
<1> QED
  BY <1>21, <1>24, <1>25 DEF m, s

\* So does SplitInternal.
LEMMA SplitInternalIs ==
  ASSUME NEW K \in SUBSET Int, NEW t, NEW v, Closed(K, t, v), NEW p \in DOMAIN t, ~t[p].leaf,
         Len(t[p].keys) >= 2, Cardinality(DOMAIN t) <= 2 * MaxPages
  PROVE  LET s == SplitInternal(t, p)
         IN  /\ \E w : Open(K, s, w) /\ SplitOf(t, v, s, w, p)
             /\ Len(s.tree[p].keys) = Len(t[p].keys) \div 2
             /\ Len(s.tree[s.right].keys) = Len(t[p].keys) - Len(t[p].keys) \div 2 - 1
<1> DEFINE n == t[p]
           m == Len(n.keys) \div 2
           sib == NewPage(t)
           a == Low(n.keys, m)
           b == Low(n.vals, m + 1)
           c == High(n.keys, m + 1)
           d == High(n.vals, m + 1)
           u == Put([t EXCEPT ![p] = Inner(a, b)], sib, Inner(c, d))
           key == n.keys[m + 1]
           s == SplitInternal(t, p)
           w == Divided(t, v, p, sib, key)
<1>1. /\ Shape(K, t, v, NoPage) /\ IsFiniteSet(DOMAIN t) /\ NodeOK(K, t, v, p) /\ InnerOK(t, v, NoPage, p)
      /\ \A q \in DOMAIN t : v[q].far = v[q].hi
  BY DEF Closed, Shape
<1>2. /\ n.keys \in Seq(K) /\ Ascending(n.keys) /\ n.vals \in Seq(Nat) /\ Len(n.vals) = Len(n.keys) + 1
      /\ n.leaf = FALSE
  BY <1>1 DEF NodeOK, InnerOK
<1>3. /\ n.keys \in Seq(Int) /\ Len(n.keys) \in Nat
      /\ \A i \in 1 .. Len(n.keys) : n.keys[i] \in K /\ n.keys[i] \in Int
  BY <1>2, KeysAre
<1>4. /\ m \in 1 .. Len(n.keys) - 1 /\ m + 1 \in 1 .. Len(n.keys) /\ m \in 0 .. Len(n.keys)
      /\ m + 1 \in 0 .. Len(n.keys) /\ m + 1 \in 0 .. Len(n.vals)
  <2>1. \A x \in Nat : x >= 2 => x \div 2 \in 1 .. x - 1 /\ x \div 2 + 1 \in 1 .. x
    OBVIOUS
  <2>2. m \in 1 .. Len(n.keys) - 1
    BY <1>3, <2>1
  <2>3. Len(n.vals) = Len(n.keys) + 1 /\ Len(n.keys) \in Nat
    BY <1>2, <1>3
  <2> HIDE DEF m, n
  <2> QED
    BY ONLY <2>2, <2>3
<1>5. sib \in Nat \ DOMAIN t
  BY <1>1, NewPageIs
<1> HIDE DEF m, sib
<1>6. /\ a \in Seq(K) /\ Len(a) = m /\ \A j \in 1 .. m : a[j] = n.keys[j]
      /\ c \in Seq(K) /\ Len(c) = Len(n.keys) - (m + 1) /\ \A j \in 1 .. Len(n.keys) - (m + 1) : c[j] = n.keys[(m + 1) + j]
      /\ b \in Seq(Nat) /\ Len(b) = m + 1 /\ \A j \in 1 .. m + 1 : b[j] = n.vals[j]
      /\ d \in Seq(Nat) /\ Len(d) = Len(n.vals) - (m + 1) /\ \A j \in 1 .. Len(n.vals) - (m + 1) : d[j] = n.vals[(m + 1) + j]
  <2>1. n.keys \in Seq(K) /\ n.vals \in Seq(Nat)
    BY <1>2
  <2> HIDE DEF n
  <2>2. Halved(K, n.keys, m, a, High(n.keys, m))
    BY ONLY <1>4, <2>1, HalvedIs
  <2>3. Halved(K, n.keys, m + 1, Low(n.keys, m + 1), c)
    BY ONLY <1>4, <2>1, HalvedIs
  <2>4. Halved(Nat, n.vals, m + 1, b, d)
    BY ONLY <1>4, <2>1, HalvedIs
  <2> HIDE DEF a, b, c, d
  <2>5. /\ a \in Seq(K) /\ Len(a) = m /\ \A j \in 1 .. m : a[j] = n.keys[j]
    BY ONLY <2>2 DEF Halved
  <2>6. /\ c \in Seq(K) /\ Len(c) = Len(n.keys) - (m + 1)
        /\ \A j \in 1 .. Len(n.keys) - (m + 1) : c[j] = n.keys[(m + 1) + j]
    BY ONLY <2>3 DEF Halved
  <2>7. /\ b \in Seq(Nat) /\ Len(b) = m + 1 /\ \A j \in 1 .. m + 1 : b[j] = n.vals[j]
        /\ d \in Seq(Nat) /\ Len(d) = Len(n.vals) - (m + 1)
        /\ \A j \in 1 .. Len(n.vals) - (m + 1) : d[j] = n.vals[(m + 1) + j]
    BY ONLY <2>4 DEF Halved
  <2> QED
    BY ONLY <2>5, <2>6, <2>7
<1>30. /\ Len(a) = m /\ Len(b) = m + 1 /\ Len(c) = Len(n.keys) - (m + 1) /\ Len(d) = Len(n.vals) - (m + 1)
       /\ Len(n.vals) = Len(n.keys) + 1 /\ Len(n.keys) \in Nat /\ m \in Nat /\ 1 <= m /\ m + 1 <= Len(n.keys)
  BY <1>2, <1>3, <1>4, <1>6
<1>7. Ascending(a) /\ Ascending(c)
  BY <1>2, <1>3, <1>4, HalvesAscend
<1>8. s = [tree |-> u, left |-> p, key |-> key, right |-> sib]
  BY DEF SplitInternal, m, sib
<1> HIDE DEF a, b, c, d
<1>9. /\ DOMAIN u = DOMAIN t \cup {sib} /\ u[p] = Inner(a, b) /\ u[sib] = Inner(c, d)
      /\ \A q \in DOMAIN t \ {p} : u[q] = t[q]
  <2> HIDE DEF n
  <2>1. p \in DOMAIN t /\ sib \notin DOMAIN t
    BY <1>5
  <2> QED
    BY ONLY <2>1 DEF Put
<1> HIDE DEF u, s
<1>10. key \in K /\ In(v, p, key) /\ key \in Int
  BY <1>1, <1>3, <1>4 DEF NodeOK
<1>11. ASSUME NEW j \in 1 .. Len(n.keys), j < m + 1 PROVE n.keys[j] < key
  BY <1>2, <1>4, <1>11 DEF Ascending
<1>12. ASSUME NEW j \in 1 .. Len(n.keys), m + 1 < j PROVE key < n.keys[j]
  BY <1>2, <1>4, <1>12 DEF Ascending
<1>13. \E k0 \in Int : In(v, p, k0) /\ k0 < key
  <2>1. 1 \in 1 .. Len(n.keys) /\ 1 < m + 1
    BY <1>3, <1>4
  <2>2. n.keys[1] < key /\ n.keys[1] \in Int /\ In(v, p, n.keys[1])
    BY <1>1, <1>3, <1>11, <2>1 DEF NodeOK
  <2> QED
    BY <2>2
<1>14. IsDivided(t, v, p, sib, key, w)
  <2>1. K \in SUBSET Int /\ Closed(K, t, v) /\ p \in DOMAIN t
    OBVIOUS
  <2>2. PICK k0 \in Int : In(v, p, k0) /\ k0 < key
    BY <1>13
  <2> HIDE DEF n, key
  <2> QED
    BY ONLY <1>5, <1>10, <2>1, <2>2, DividedIs
<1>15. key = n.keys[m + 1]
  OBVIOUS
<1> HIDE DEF key, w
<1>16. /\ w[p] = [height |-> v[p].height, lo |-> v[p].lo, hi |-> From(key), far |-> v[p].far]
       /\ w[sib] = [height |-> v[p].height, lo |-> From(key), hi |-> v[p].hi, far |-> v[p].far]
       /\ \A q \in DOMAIN t \ {p} : w[q] = v[q]
       /\ \A k \in Int : In(w, p, k) <=> (In(v, p, k) /\ k < key)
       /\ \A k \in Int : In(w, sib, k) <=> (In(v, p, k) /\ key <= k)
  BY ONLY <1>14 DEF IsDivided
<1>17. /\ u[p] = [leaf |-> FALSE, keys |-> a, vals |-> b, next |-> NoPage]
       /\ u[p].leaf = FALSE /\ u[p].keys = a /\ u[p].vals = b /\ u[p].next = NoPage
       /\ u[sib] = [leaf |-> FALSE, keys |-> c, vals |-> d, next |-> NoPage]
       /\ u[sib].leaf = FALSE /\ u[sib].keys = c /\ u[sib].vals = d /\ u[sib].next = NoPage
  BY <1>9 DEF Inner
<1>18. \A j \in 1 .. Len(a) : In(w, p, a[j])
  <2> SUFFICES ASSUME NEW j \in 1 .. Len(a) PROVE In(w, p, a[j])
    OBVIOUS
  <2>1. j \in 1 .. Len(n.keys) /\ a[j] = n.keys[j] /\ j < m + 1
    <3>1. j \in 1 .. m
      BY ONLY <1>6, j \in 1 .. Len(a)
    <3>2. a[j] = n.keys[j]
      BY ONLY <1>6, <3>1
    <3> HIDE DEF n
    <3>3. j \in 1 .. Len(n.keys) /\ j < m + 1
      BY ONLY <1>30, <3>1
    <3> QED
      BY ONLY <3>2, <3>3
  <2>2. n.keys[j] < key
    BY <1>11, <2>1
  <2> QED
    BY <1>1, <1>3, <1>16, <2>1, <2>2 DEF NodeOK
<1>19. \A j \in 1 .. Len(c) : In(w, sib, c[j])
  <2> SUFFICES ASSUME NEW j \in 1 .. Len(c) PROVE In(w, sib, c[j])
    OBVIOUS
  <2>1. (m + 1) + j \in 1 .. Len(n.keys) /\ j \in 1 .. Len(n.keys) - (m + 1) /\ m + 1 < (m + 1) + j
    <3> HIDE DEF n
    <3>1. j \in 1 .. Len(c)
      OBVIOUS
    <3> QED
      BY ONLY <1>30, <3>1
  <2>2. key < n.keys[(m + 1) + j] /\ c[j] = n.keys[(m + 1) + j]
    BY <1>6, <1>12, <2>1
  <2>3. n.keys[(m + 1) + j] \in Int /\ In(v, p, n.keys[(m + 1) + j])
    BY <1>1, <1>3, <2>1 DEF NodeOK
  <2>4. key <= n.keys[(m + 1) + j]
    BY <1>10, <2>2, <2>3
  <2> QED
    BY <1>16, <2>2, <2>3, <2>4
<1>20. \A x \in DOMAIN t : x \in DOMAIN u /\ w[x].height = v[x].height /\ w[x].lo = v[x].lo /\ w[x].far = v[x].far
  BY <1>9, <1>16
<1>21. ASSUME NEW i \in 1 .. Len(n.vals)
       PROVE  /\ n.vals[i] \in DOMAIN t \ {Root} /\ n.vals[i] # sib
              /\ w[n.vals[i]].height + 1 = v[p].height
              /\ w[n.vals[i]].lo = (IF i = 1 THEN v[p].lo ELSE From(n.keys[i - 1]))
              /\ w[n.vals[i]].far = (IF i = Len(n.vals) THEN v[p].hi ELSE From(n.keys[i]))
  <2>1. ChildOK(t, v, NoPage, p, i)
    BY <1>1 DEF InnerOK
  <2> HIDE DEF n
  <2> QED
    BY <1>5, <1>20, <2>1 DEF ChildOK, n
<1>22. PageOK(K, u, w, sib, p)
  <2>1. NodeOK(K, u, w, p)
    BY <1>6, <1>7, <1>17, <1>18 DEF NodeOK
  <2>2. ASSUME NEW i \in 1 .. Len(b) PROVE ChildOK(u, w, sib, p, i)
    <3>1. i \in 1 .. Len(n.vals) /\ b[i] = n.vals[i] /\ i \in 1 .. m + 1 /\ i # Len(n.vals)
      <4> HIDE DEF n
      <4>1. i \in 1 .. Len(n.vals) /\ i \in 1 .. m + 1 /\ i # Len(n.vals)
        BY <1>30
      <4> QED
        BY <1>6, <4>1
    <3>2. b[i] \in DOMAIN u \ {Root, sib} /\ w[b[i]].height + 1 = w[p].height
      BY <1>16, <1>20, <1>21, <3>1
    <3>3. w[b[i]].lo = (IF i = 1 THEN w[p].lo ELSE From(a[i - 1]))
      <4>1. CASE i = 1
        BY <1>16, <1>21, <3>1, <4>1
      <4>2. CASE i # 1
        <5>1. i - 1 \in 1 .. m
          BY <1>4, <3>1, <4>2
        <5> QED
          BY <1>6, <1>21, <3>1, <4>2, <5>1
      <4> QED
        BY <4>1, <4>2
    <3>4. w[b[i]].far = (IF i = Len(b) THEN w[p].hi ELSE From(a[i]))
      <4>1. CASE i = Len(b)
        BY <1>6, <1>15, <1>16, <1>21, <3>1, <4>1
      <4>2. CASE i # Len(b)
        <5>1. i \in 1 .. m
          BY <1>4, <1>6, <3>1, <4>2
        <5> QED
          BY <1>6, <1>21, <3>1, <4>2, <5>1
      <4> QED
        BY <4>1, <4>2
    <3> QED
      BY <1>17, <3>2, <3>3, <3>4 DEF ChildOK
  <2>3. Len(b) = Len(a) + 1
    BY <1>6
  <2> QED
    BY <1>6, <1>17, <2>1, <2>2, <2>3 DEF PageOK, InnerOK
<1>23. PageOK(K, u, w, sib, sib)
  <2>1. NodeOK(K, u, w, sib)
    BY <1>6, <1>7, <1>17, <1>19 DEF NodeOK
  <2>2. ASSUME NEW i \in 1 .. Len(d) PROVE ChildOK(u, w, sib, sib, i)
    <3> DEFINE j == (m + 1) + i
    <3>1. /\ j \in 1 .. Len(n.vals) /\ i \in 1 .. Len(n.vals) - (m + 1) /\ j # 1
          /\ (i = Len(d) <=> j = Len(n.vals)) /\ j - 1 = m + i
      <4>1. i \in 1 .. Len(d)
        OBVIOUS
      <4> HIDE DEF n
      <4> QED
        BY ONLY <1>30, <4>1
    <3>2. d[i] = n.vals[j]
      BY <1>6, <3>1
    <3>3. d[i] \in DOMAIN u \ {Root, sib} /\ w[d[i]].height + 1 = w[sib].height
      BY <1>16, <1>20, <1>21, <3>1, <3>2
    <3>4. w[d[i]].lo = From(n.keys[m + i]) /\ w[d[i]].far = (IF j = Len(n.vals) THEN v[p].hi ELSE From(n.keys[j]))
      BY <1>21, <3>1, <3>2
    <3>5. w[d[i]].lo = (IF i = 1 THEN w[sib].lo ELSE From(c[i - 1]))
      <4>1. CASE i = 1
        BY <1>15, <1>16, <3>4, <4>1
      <4>2. CASE i # 1
        <5>1. i - 1 \in 1 .. Len(n.keys) - (m + 1) /\ (m + 1) + (i - 1) = m + i
          BY <1>2, <1>3, <1>4, <3>1, <4>2
        <5> QED
          BY <1>6, <3>4, <4>2, <5>1
      <4> QED
        BY <4>1, <4>2
    <3>6. w[d[i]].far = (IF i = Len(d) THEN w[sib].hi ELSE From(c[i]))
      <4>1. CASE i = Len(d)
        BY <1>16, <3>1, <3>4, <4>1
      <4>2. CASE i # Len(d)
        <5>1. i \in 1 .. Len(n.keys) - (m + 1)
          <6> HIDE DEF n
          <6>1. i \in 1 .. Len(d)
            OBVIOUS
          <6> QED
            BY ONLY <1>30, <4>2, <6>1
        <5> QED
          BY <1>6, <3>1, <3>4, <4>2, <5>1
      <4> QED
        BY <4>1, <4>2
    <3> QED
      BY <1>17, <3>3, <3>5, <3>6 DEF ChildOK
  <2>3. Len(d) = Len(c) + 1
    BY <1>2, <1>3, <1>4, <1>6
  <2> QED
    BY <1>6, <1>17, <2>1, <2>2, <2>3 DEF PageOK, InnerOK
<1>24. \A x \in DOMAIN t \ {Root} : HasParent(u, x)
  <2> SUFFICES ASSUME NEW x \in DOMAIN t \ {Root} PROVE HasParent(u, x)
    OBVIOUS
  <2>1. HasParent(t, x)
    BY <1>1, NoPageIsNone DEF Shape
  <2>2. PICK q \in DOMAIN t : ~t[q].leaf /\ \E i \in 1 .. Len(t[q].vals) : t[q].vals[i] = x
    BY <2>1 DEF HasParent
  <2>3. CASE q # p
    <3>1. q \in DOMAIN u /\ u[q] = t[q]
      BY <1>9, <2>2, <2>3
    <3> QED
      BY <2>2, <3>1 DEF HasParent
  <2>4. CASE q = p
    <3>1. PICK i \in 1 .. Len(n.vals) : n.vals[i] = x
      BY <2>2, <2>4
    <3>2. CASE i <= m + 1
      <4>1. i \in 1 .. Len(b) /\ b[i] = x
        <5>1. i \in 1 .. m + 1 /\ i \in 1 .. Len(b)
          BY <1>30, <3>2
        <5> QED
          BY <1>6, <3>1, <5>1
      <4> QED
        BY <1>9, <1>17, <4>1 DEF HasParent
    <3>3. CASE i > m + 1
      <4>1. i - (m + 1) \in 1 .. Len(n.vals) - (m + 1) /\ (m + 1) + (i - (m + 1)) = i
        BY <1>2, <1>3, <1>4, <3>3
      <4>2. i - (m + 1) \in 1 .. Len(d) /\ d[i - (m + 1)] = x
        <5>1. PICK j : j = i - (m + 1)
          OBVIOUS
        <5>2. j \in 1 .. Len(n.vals) - (m + 1) /\ (m + 1) + j = i
          BY ONLY <4>1, <5>1
        <5>3. j \in 1 .. Len(d)
          BY ONLY <1>30, <5>2
        <5>4. \A l \in 1 .. Len(n.vals) - (m + 1) : d[l] = n.vals[(m + 1) + l]
          BY ONLY <1>6
        <5>5. d[j] = n.vals[i]
          BY ONLY <5>2, <5>4
        <5> QED
          BY ONLY <3>1, <5>1, <5>3, <5>5
      <4> QED
        BY <1>9, <1>17, <4>2 DEF HasParent
    <3> QED
      BY <1>2, <1>3, <1>4, <3>2, <3>3
  <2> QED
    BY <2>3, <2>4
<1>25. Open(K, s, w)
  <2>1. K \in SUBSET Int /\ Closed(K, t, v) /\ p \in DOMAIN t /\ u[p].leaf = t[p].leaf
    BY <1>2, <1>17
  <2>2. w = Divided(t, v, p, sib, key)
    BY DEF w
  <2>3. PICK k0 \in Int : In(v, p, k0) /\ k0 < key
    BY <1>13
  <2> HIDE DEF n
  <2> QED
    BY ONLY <1>5, <1>8, <1>9, <1>10, <1>22, <1>23, <1>24, <2>1, <2>2, <2>3, SplitOpens
<1>26. s.left = p /\ s.right = sib /\ s.tree = u
  BY <1>8
<1>27. \A e : Has(u, e) <=> Has(t, e)
  BY <1>2, <1>9, <1>17 DEF Has
<1>28. SplitOf(t, v, s, w, p)
  <2>1. w[p].height = v[p].height
    BY <1>16
  <2>2. s.right = NewPage(t)
    BY <1>26 DEF sib
  <2>3. s.tree[p].leaf = t[p].leaf /\ s.tree[s.right].leaf = t[p].leaf
    BY <1>2, <1>17, <1>26
  <2> HIDE DEF n
  <2> QED
    BY <1>5, <1>9, <1>26, <1>27, <2>1, <2>2, <2>3 DEF SplitOf
<1>29. Len(s.tree[p].keys) = m /\ Len(s.tree[s.right].keys) = Len(n.keys) - m - 1
  <2>1. Len(n.keys) - m - 1 = Len(n.keys) - (m + 1)
    <3> HIDE DEF n
    <3> QED
      BY ONLY <1>30
  <2> QED
    BY <1>17, <1>26, <1>30, <2>1
<1> QED
  BY <1>25, <1>28, <1>29 DEF m, s

-----------------------------------------------------------------------------
(***************************************************************************)
(* The parent learns of the new page.                                      *)
(***************************************************************************)

LEMMA NextIsNotRoot ==
  ASSUME NEW K, NEW t, NEW v, NEW new, Shape(K, t, v, new), NEW p \in DOMAIN t, t[p].leaf
  PROVE  t[p].next # Root /\ (t[p].next # NoPage => t[p].next \in DOMAIN t)
<1>1. LeafOK(K, t, v, p) /\ v[Root].lo = Int
  BY DEF Shape, Measured
<1>2. NoPage # Root
  BY TreeAssumption DEF Root
<1>3. PICK k \in Int : In(v, p, k)
  BY Measures
<1>4. v[p].hi # Int
  BY <1>3 DEF In
<1> QED
  BY <1>1, <1>2, <1>4 DEF LeafOK

\* A split of the root gives a tree one level higher, with the same pairs.
LEMMA LiftRootIs ==
  ASSUME NEW K \in SUBSET Int, NEW s, NEW v, Open(K, s, v), s.left = Root,
         Cardinality(DOMAIN s.tree) <= 2 * MaxPages
  PROVE  LET l == LiftRoot(s)
             p == NewPage(s.tree)
         IN  /\ l.left = NoPage /\ \E w : Closed(K, l.tree, w)
             /\ p \in Nat \ DOMAIN s.tree /\ DOMAIN l.tree = DOMAIN s.tree \cup {p}
             /\ ~l.tree[Root].leaf /\ Len(l.tree[Root].keys) = 1 /\ l.tree[p] = s.tree[Root]
             /\ \A q \in DOMAIN s.tree \ {Root} : l.tree[q] = s.tree[q]
             /\ \A e : Has(l.tree, e) <=> Has(s.tree, e)
<1> DEFINE t == s.tree
           right == s.right
           key == s.key
           p == NewPage(s.tree)
           l == LiftRoot(s)
           u == Put([t EXCEPT ![Root] = Inner(<<key>>, <<p, right>>)], p, t[Root])
           w == [q \in DOMAIN t \cup {p} |->
                   IF q = Root THEN [height |-> v[Root].height + 1, lo |-> Int, hi |-> {}, far |-> {}]
                   ELSE IF q = p THEN [height |-> v[Root].height, lo |-> Int, hi |-> From(key), far |-> From(key)]
                   ELSE v[q]]
<1>1. /\ Shape(K, t, v, right) /\ right \in DOMAIN t \ {Root} /\ key \in K
      /\ v[Root].hi = From(key) /\ v[right].lo = From(key)
      /\ v[Root].far = v[right].hi /\ v[Root].height = v[right].height
      /\ \A q \in DOMAIN t \ {Root} : v[q].far = v[q].hi
  BY DEF Open
<1>2. /\ IsFiniteSet(DOMAIN t) /\ DOMAIN t \in SUBSET Nat /\ Root \in DOMAIN t /\ Measured(t, v)
      /\ v[Root].lo = Int /\ v[Root].far = {} /\ v[Root].height \in Nat /\ NoPage \notin DOMAIN t
  BY <1>1, Measures, NoPageIsNone DEF Shape, Measured
<1>3. p \in Nat \ DOMAIN t /\ p # Root /\ p # right /\ p # NoPage
  BY <1>1, <1>2, NewPageIs, TreeAssumption
<1>4. l = Whole(u)
  BY DEF LiftRoot
<1> HIDE DEF p
<1>5. /\ DOMAIN u = DOMAIN t \cup {p} /\ u[Root] = Inner(<<key>>, <<p, right>>) /\ u[p] = t[Root]
      /\ \A q \in DOMAIN t \ {Root} : u[q] = t[q]
  BY ONLY <1>2, <1>3 DEF Put
<1>6. /\ w[Root] = [height |-> v[Root].height + 1, lo |-> Int, hi |-> {}, far |-> {}]
      /\ w[p] = [height |-> v[Root].height, lo |-> Int, hi |-> From(key), far |-> From(key)]
      /\ \A q \in DOMAIN t \ {Root} : w[q] = v[q]
      /\ DOMAIN w = DOMAIN t \cup {p}
  BY ONLY <1>2, <1>3
<1>7. w = [q \in DOMAIN w |-> w[q]]
  OBVIOUS
<1> HIDE DEF u, w, l
<1>8. key \in Int /\ From(key) \in Cuts /\ Int \in Cuts /\ {} \in Cuts
  BY <1>1, FromIsCut DEF Cuts
<1>9. Measured(u, w)
  <2>1. ASSUME NEW q \in DOMAIN u
        PROVE  /\ w[q] \in [height : Nat, lo : Cuts, hi : Cuts, far : Cuts]
               /\ w[q].height <= w[Root].height /\ w[q].far \subseteq w[q].hi
               /\ \E k \in Int : In(w, q, k)
    <3>1. CASE q = Root
      <4>1. In(w, Root, key)
        BY <1>6, <1>8 DEF In
      <4>2. /\ w[Root].height = v[Root].height + 1 /\ w[Root].far = w[Root].hi
            /\ w[Root] \in [height : Nat, lo : Cuts, hi : Cuts, far : Cuts]
        BY <1>2, <1>6, <1>8
      <4>3. w[Root].height <= w[Root].height
        BY <1>2, <4>2
      <4>4. w[Root].far \subseteq w[Root].hi /\ \E k \in Int : In(w, Root, k)
        BY <1>8, <4>1, <4>2
      <4>5. w[Root] \in [height : Nat, lo : Cuts, hi : Cuts, far : Cuts]
        BY <4>2
      <4> QED
        BY ONLY <3>1, <4>3, <4>4, <4>5
    <3>2. CASE q = p
      <4>1. PICK k \in Int : In(v, Root, k)
        BY <1>1, <1>2, Measures
      <4>2. In(w, p, k)
        BY <1>1, <1>6, <4>1 DEF In
      <4> QED
        BY <1>2, <1>6, <1>8, <3>2, <4>2
    <3>3. CASE q \in DOMAIN t \ {Root}
      <4>1. w[q] = v[q]
        BY <1>6, <3>3
      <4>2. /\ v[q] \in [height : Nat, lo : Cuts, hi : Cuts, far : Cuts] /\ v[q].height <= v[Root].height
            /\ v[q].far \subseteq v[q].hi /\ \E k \in Int : In(v, q, k)
        BY <1>2, <3>3 DEF Measured
      <4>3. v[q].height \in Nat
        BY <4>2
      <4> QED
        BY <1>2, <1>6, <4>1, <4>2, <4>3 DEF In
    <3> QED
      BY <1>5, <3>1, <3>2, <3>3
  <2>2. w \in [DOMAIN u -> [height : Nat, lo : Cuts, hi : Cuts, far : Cuts]]
    BY <1>5, <1>6, <1>7, <2>1
  <2> QED
    BY <1>6, <2>1, <2>2 DEF Measured
<1>10. /\ u[Root] = [leaf |-> FALSE, keys |-> <<key>>, vals |-> <<p, right>>, next |-> NoPage]
       /\ u[Root].leaf = FALSE /\ u[Root].keys = <<key>> /\ u[Root].vals = <<p, right>> /\ u[Root].next = NoPage
  BY <1>5 DEF Inner
<1>11. PageOK(K, u, w, NoPage, Root)
  <2>1. NodeOK(K, u, w, Root)
    <3>1. <<key>> \in Seq(K) /\ Ascending(<<key>>)
      BY <1>1 DEF Ascending
    <3>2. \A i \in 1 .. Len(<<key>>) : In(w, Root, <<key>>[i])
      BY <1>6, <1>8 DEF In
    <3> QED
      BY <1>10, <3>1, <3>2 DEF NodeOK
  <2>2. ChildOK(u, w, NoPage, Root, 1)
    <3>1. u[Root].vals[1] = p /\ u[Root].keys[1] = key /\ 1 # Len(u[Root].vals)
      BY <1>10
    <3> QED
      BY <1>3, <1>5, <1>6, <3>1 DEF ChildOK
  <2>3. ChildOK(u, w, NoPage, Root, 2)
    <3>1. u[Root].vals[2] = right /\ u[Root].keys[2 - 1] = key /\ 2 = Len(u[Root].vals)
      BY <1>10
    <3>2. w[right] = v[right]
      BY <1>1, <1>6
    <3>3. v[right].far = {} /\ v[right].lo = From(key) /\ v[right].height = v[Root].height
      BY <1>1, <1>2
    <3>4. right \in DOMAIN u \ {Root, NoPage}
      BY <1>1, <1>2, <1>5
    <3> QED
      BY <1>6, <3>1, <3>2, <3>3, <3>4 DEF ChildOK
  <2>4. u[Root].vals \in Seq(Nat) /\ Len(u[Root].vals) = Len(u[Root].keys) + 1
    BY <1>1, <1>2, <1>3, <1>10
  <2>5. \A i \in 1 .. Len(u[Root].vals) : i = 1 \/ i = 2
    BY <1>10
  <2> QED
    BY <1>10, <2>1, <2>2, <2>3, <2>4, <2>5 DEF PageOK, InnerOK
<1>12. ASSUME NEW q \in DOMAIN t
       PROVE  /\ NodeOK(K, t, v, q) /\ (t[q].leaf => LeafOK(K, t, v, q))
              /\ (~t[q].leaf => InnerOK(t, v, right, q))
              /\ t[q].leaf /\ t[q].next # NoPage => SameAfter(t, v, u, w, t[q].next)
              /\ ~t[q].leaf => \A i \in 1 .. Len(t[q].vals) : SameBelow(t, v, u, w, t[q].vals[i]) /\ t[q].vals[i] # NoPage
  <2>1. /\ NodeOK(K, t, v, q) /\ (t[q].leaf => LeafOK(K, t, v, q)) /\ (~t[q].leaf => InnerOK(t, v, right, q))
    BY <1>1 DEF Shape
  <2>2. ASSUME t[q].leaf, t[q].next # NoPage PROVE SameAfter(t, v, u, w, t[q].next)
    <3>1. t[q].next \in DOMAIN t \ {Root}
      BY <1>1, <2>2, NextIsNotRoot
    <3> QED
      BY <1>5, <1>6, <3>1 DEF SameAfter
  <2>3. ASSUME ~t[q].leaf, NEW i \in 1 .. Len(t[q].vals)
        PROVE  SameBelow(t, v, u, w, t[q].vals[i]) /\ t[q].vals[i] # NoPage
    <3>1. t[q].vals[i] \in DOMAIN t \ {Root}
      BY <2>1, <2>3 DEF InnerOK, ChildOK
    <3> QED
      BY <1>2, <1>5, <1>6, <3>1 DEF SameBelow
  <2> QED
    BY <2>1, <2>2, <2>3
<1>13. ASSUME NEW q \in DOMAIN t \ {Root} PROVE PageOK(K, u, w, NoPage, q)
  <2>1. u[q] = t[q] /\ w[q] = v[q]
    BY <1>5, <1>6
  <2> QED
    BY <1>1, <1>12, <2>1, PageKept
<1>14. PageOK(K, u, w, NoPage, p)
  <2>1. \A k : In(w, p, k) <=> In(v, Root, k)
    BY <1>1, <1>2, <1>6 DEF In
  <2>2. NodeOK(K, u, w, p)
    <3>1. NodeOK(K, t, v, Root)
      BY <1>2, <1>12
    <3> QED
      BY <1>5, <2>1, <3>1 DEF NodeOK
  <2>3. ASSUME t[Root].leaf PROVE LeafOK(K, u, w, p)
    <3>1. LeafOK(K, t, v, Root)
      BY <1>2, <1>12, <2>3
    <3>2. t[Root].next # NoPage => SameAfter(t, v, u, w, t[Root].next)
      BY <1>2, <1>12, <2>3
    <3>3. w[p].hi = v[Root].hi /\ w[p].height = v[Root].height /\ u[p] = t[Root]
      BY <1>1, <1>5, <1>6
    <3> QED
      BY <1>2, <3>1, <3>2, <3>3 DEF LeafOK, SameAfter
  <2>4. ASSUME ~t[Root].leaf PROVE InnerOK(u, w, NoPage, p)
    <3>1. InnerOK(t, v, right, Root)
      BY <1>2, <1>12, <2>4
    <3>2. w[p].hi = v[Root].hi /\ w[p].lo = v[Root].lo /\ w[p].height = v[Root].height /\ u[p] = t[Root]
      BY <1>1, <1>2, <1>5, <1>6
    <3>3. ASSUME NEW i \in 1 .. Len(t[Root].vals) PROVE ChildOK(u, w, NoPage, p, i)
      <4>1. ChildOK(t, v, right, Root, i)
        BY <3>1 DEF InnerOK
      <4>2. SameBelow(t, v, u, w, t[Root].vals[i]) /\ t[Root].vals[i] # NoPage
        BY <1>2, <1>12, <2>4
      <4> QED
        BY <3>2, <4>1, <4>2 DEF ChildOK, SameBelow
    <3> QED
      BY <3>1, <3>2, <3>3 DEF InnerOK
  <2> QED
    BY <1>5, <2>2, <2>3, <2>4 DEF PageOK
<1>15. ASSUME NEW x \in DOMAIN u \ {Root, NoPage} PROVE HasParent(u, x)
  <2>1. CASE x = p \/ x = right
    <3>1. \E i \in 1 .. Len(u[Root].vals) : u[Root].vals[i] = x
      <4>1. 1 \in 1 .. Len(u[Root].vals) /\ 2 \in 1 .. Len(u[Root].vals) /\ u[Root].vals[1] = p /\ u[Root].vals[2] = right
        BY <1>10
      <4> QED
        BY <2>1, <4>1
    <3> QED
      BY <1>2, <1>5, <1>10, <3>1 DEF HasParent
  <2>2. CASE x # p /\ x # right
    <3>1. HasParent(t, x)
      BY <1>1, <1>5, <1>15, <2>2 DEF Shape
    <3>2. PICK q \in DOMAIN t : ~t[q].leaf /\ \E i \in 1 .. Len(t[q].vals) : t[q].vals[i] = x
      BY <3>1 DEF HasParent
    <3>3. CASE q = Root
      BY <1>5, <3>2, <3>3 DEF HasParent
    <3>4. CASE q # Root
      BY <1>5, <3>2, <3>4 DEF HasParent
    <3> QED
      BY <3>3, <3>4
  <2> QED
    BY <2>1, <2>2
<1>16. Shape(K, u, w, NoPage)
  <2>1. IsFiniteSet(DOMAIN u) /\ DOMAIN u \in SUBSET Nat /\ Root \in DOMAIN u
    BY <1>2, <1>3, <1>5, FS_AddElement
  <2>2. \A q \in DOMAIN u : PageOK(K, u, w, NoPage, q)
    BY <1>5, <1>11, <1>13, <1>14
  <2> QED
    BY <1>9, <1>15, <2>1, <2>2, ShapeIs
<1>17. Closed(K, u, w)
  <2>1. ASSUME NEW q \in DOMAIN u PROVE w[q].far = w[q].hi
    <3>1. CASE q = Root \/ q = p
      BY <1>6, <3>1
    <3>2. CASE q \in DOMAIN t \ {Root}
      BY <1>1, <1>6, <3>2
    <3> QED
      BY <1>5, <3>1, <3>2
  <2> QED
    BY <1>16, <2>1 DEF Closed
<1>18. l.tree = u /\ l.left = NoPage
  BY <1>4 DEF Whole
<1>19. \A e : Has(u, e) <=> Has(t, e)
  <2> SUFFICES ASSUME NEW e PROVE Has(u, e) <=> Has(t, e)
    OBVIOUS
  <2>1. Has(u, e) => Has(t, e)
    <3>1. ASSUME NEW q \in DOMAIN u, u[q].leaf, Holds(u[q], e) PROVE Has(t, e)
      BY <1>2, <1>5, <1>10, <3>1 DEF Has
    <3> QED
      BY <3>1 DEF Has
  <2>2. Has(t, e) => Has(u, e)
    <3>1. ASSUME NEW q \in DOMAIN t, t[q].leaf, Holds(t[q], e) PROVE Has(u, e)
      BY <1>5, <3>1 DEF Has
    <3> QED
      BY <3>1 DEF Has
  <2> QED
    BY <2>1, <2>2
<1>20. ~u[Root].leaf /\ Len(u[Root].keys) = 1
  BY <1>10
<1> QED
  BY <1>3, <1>5, <1>17, <1>18, <1>19, <1>20 DEF l, p

LEMMA SplitParent ==
  ASSUME NEW K \in SUBSET Int, NEW s, NEW v, Open(K, s, v), s.left # Root
  PROVE  LET t == s.tree
             p == FindParent(t, s.left, s.key)
             i == PlaceOf(t[p].vals, s.left)
         IN  /\ p \in DOMAIN t /\ ~t[p].leaf /\ p # NoPage /\ Len(t[p].vals) \in Nat
             /\ i \in 1 .. Len(t[p].vals) /\ t[p].vals[i] = s.left
<1> DEFINE t == s.tree
           left == s.left
           right == s.right
           key == s.key
           p == FindParent(t, left, key)
<1>1. /\ Shape(K, t, v, right) /\ left \in DOMAIN t \ {Root, right} /\ right \in DOMAIN t /\ key \in K
      /\ v[left].hi = From(key) /\ v[right].lo = From(key)
      /\ v[left].far = v[right].hi /\ v[left].height = v[right].height
  BY DEF Open
<1>2. key \in Int /\ \A x \in Int : x \in From(key) <=> key <= x
  BY <1>1, FromIsCut
<1>3. Under(v, left, key)
  <2>1. PICK k \in Int : In(v, left, k)
    BY <1>1, Measures
  <2>2. k < key
    BY <1>1, <1>2, <2>1 DEF In
  <2>3. v[left].lo \in Cuts
    BY <1>1, Measures
  <2>4. key \in v[left].lo
    BY <1>2, <2>1, <2>2, <2>3, CutOrder DEF In
  <2>5. PICK j \in Int : In(v, right, j)
    BY <1>1, Measures
  <2>6. key <= j /\ v[right].hi \in Cuts
    BY <1>1, <1>2, <2>5, Measures DEF In
  <2>7. key \notin v[right].hi
    BY <1>2, <2>5, <2>6, CutOrder DEF In
  <2> QED
    BY <1>1, <2>4, <2>7 DEF Under
<1>4. v[right].height <= v[left].height
  <2>1. v[left].height \in Nat
    BY <1>1, Measures
  <2> QED
    BY <1>1, <2>1
<1>5. /\ p \in DOMAIN t /\ ~t[p].leaf /\ p # NoPage
      /\ \E i \in 1 .. Len(t[p].vals) : t[p].vals[i] = left
  BY <1>1, <1>2, <1>3, <1>4, ParentIs
<1> HIDE DEF p
<1>6. InnerOK(t, v, right, p)
  BY <1>1, <1>5 DEF Shape
<1>7. Len(t[p].vals) \in Nat
  BY <1>6 DEF InnerOK
<1>8. PlaceOf(t[p].vals, left) \in 1 .. Len(t[p].vals) /\ t[p].vals[PlaceOf(t[p].vals, left)] = left
  BY <1>5, <1>7, PlaceIs
<1> QED
  BY <1>5, <1>7, <1>8 DEF p

Attached(t, p, i, key, right) ==
  [t EXCEPT ![p].keys = InsertAt(@, i, key), ![p].vals = InsertAt(@, i + 1, right)]

AttachedOf(t, u, p) ==
  /\ DOMAIN u = DOMAIN t /\ \A q \in DOMAIN t \ {p} : u[q] = t[q]
  /\ ~t[p].leaf /\ ~u[p].leaf /\ Len(u[p].keys) = Len(t[p].keys) + 1
  /\ \A e : Has(u, e) <=> Has(t, e)

\* z is s with e in the i-th place.
EnteredAt(S, s, i, e, z) ==
  /\ z \in Seq(S) /\ Len(z) = Len(s) + 1
  /\ \A j \in 1 .. Len(s) + 1 : z[j] = IF j < i THEN s[j] ELSE IF j = i THEN e ELSE s[j - 1]

LEMMA EnteredAtIs ==
  ASSUME NEW S, NEW s, s \in Seq(S), NEW i, i \in 1 .. Len(s) + 1, NEW e, e \in S
  PROVE  EnteredAt(S, s, i, e, InsertAt(s, i, e))
BY InsertAtIs DEF EnteredAt

\* When the parent has taken the new page in, no split is on its way.
LEMMA AttachedIs ==
  ASSUME NEW K \in SUBSET Int, NEW s, NEW v, Open(K, s, v),
         NEW p \in DOMAIN s.tree, ~s.tree[p].leaf,
         NEW i \in 1 .. Len(s.tree[p].vals), s.tree[p].vals[i] = s.left,
         NEW u, u = Attached(s.tree, p, i, s.key, s.right)
  PROVE  /\ AttachedOf(s.tree, u, p)
         /\ \E w : Closed(K, u, w) /\ w[p].height = v[s.left].height + 1
<1> DEFINE t == s.tree
           left == s.left
           right == s.right
           key == s.key
           n == t[p]
           ks == InsertAt(n.keys, i, key)
           cs == InsertAt(n.vals, i + 1, right)
           w == [q \in DOMAIN t |->
                   IF q = left THEN [height |-> v[left].height, lo |-> v[left].lo,
                                     hi |-> From(key), far |-> From(key)]
                   ELSE v[q]]
<1>1. /\ Shape(K, t, v, right) /\ left \in DOMAIN t \ {right} /\ right \in DOMAIN t \ {Root} /\ key \in K
      /\ v[left].hi = From(key) /\ v[right].lo = From(key)
      /\ v[left].far = v[right].hi /\ v[left].height = v[right].height
      /\ \A q \in DOMAIN t \ {left} : v[q].far = v[q].hi
  BY DEF Open
<1>2. /\ IsFiniteSet(DOMAIN t) /\ DOMAIN t \in SUBSET Nat /\ Root \in DOMAIN t /\ Measured(t, v)
      /\ NoPage \notin DOMAIN t /\ NodeOK(K, t, v, p) /\ InnerOK(t, v, right, p)
  BY <1>1, NoPageIsNone DEF Shape
<1>3. /\ n.keys \in Seq(K) /\ Ascending(n.keys) /\ n.vals \in Seq(Nat) /\ Len(n.vals) = Len(n.keys) + 1
      /\ n.leaf = FALSE
  BY <1>2 DEF NodeOK, InnerOK
<1>3a. /\ n = [leaf |-> n.leaf, keys |-> n.keys, vals |-> n.vals, next |-> n.next] /\ n.next = NoPage
  BY <1>2 DEF NodeOK, InnerOK
<1>4. /\ n.keys \in Seq(Int) /\ Len(n.keys) \in Nat
      /\ \A j \in 1 .. Len(n.keys) : n.keys[j] \in K /\ n.keys[j] \in Int
  BY <1>3, KeysAre
<1>5. key \in Int /\ From(key) \in Cuts /\ \A x \in Int : x \in From(key) <=> key <= x
  BY <1>1, FromIsCut
<1>6. i \in 1 .. Len(n.keys) + 1 /\ i + 1 \in 1 .. Len(n.vals) + 1 /\ right \in Nat
  BY <1>1, <1>2, <1>3, <1>4
<1>7. /\ ks \in Seq(K) /\ Len(ks) = Len(n.keys) + 1
      /\ \A j \in 1 .. Len(n.keys) + 1 :
           ks[j] = IF j < i THEN n.keys[j] ELSE IF j = i THEN key ELSE n.keys[j - 1]
  <2>1. n.keys \in Seq(K) /\ i \in 1 .. Len(n.keys) + 1 /\ key \in K
    BY <1>1, <1>3, <1>6
  <2> HIDE DEF n, key, right
  <2>2. EnteredAt(K, n.keys, i, key, InsertAt(n.keys, i, key))
    BY ONLY <2>1, EnteredAtIs
  <2> QED
    BY ONLY <2>2 DEF EnteredAt
<1>8. /\ cs \in Seq(Nat) /\ Len(cs) = Len(n.vals) + 1
      /\ \A j \in 1 .. Len(n.vals) + 1 :
           cs[j] = IF j < i + 1 THEN n.vals[j] ELSE IF j = i + 1 THEN right ELSE n.vals[j - 1]
  <2>1. n.vals \in Seq(Nat) /\ i + 1 \in 1 .. Len(n.vals) + 1 /\ right \in Nat
    BY <1>3, <1>6
  <2> HIDE DEF n, key, right
  <2>2. EnteredAt(Nat, n.vals, i + 1, right, InsertAt(n.vals, i + 1, right))
    BY ONLY <2>1, EnteredAtIs
  <2> QED
    BY ONLY <2>2 DEF EnteredAt
<1>9. u = [t EXCEPT ![p].keys = ks, ![p].vals = cs]
  BY DEF Attached
<1> HIDE DEF ks, cs
<1>10. DOMAIN u = DOMAIN t /\ u[p] = Inner(ks, cs) /\ \A q \in DOMAIN t \ {p} : u[q] = t[q]
  BY <1>3, <1>3a, <1>9 DEF Inner
<1>11. /\ u[p] = [leaf |-> FALSE, keys |-> ks, vals |-> cs, next |-> NoPage]
       /\ u[p].leaf = FALSE /\ u[p].keys = ks /\ u[p].vals = cs /\ u[p].next = NoPage
  BY <1>10 DEF Inner
<1>12. /\ w[left].height = v[left].height /\ w[left].lo = v[left].lo
       /\ w[left].hi = From(key) /\ w[left].far = From(key)
       /\ \A q \in DOMAIN t \ {left} : w[q] = v[q]
       /\ DOMAIN w = DOMAIN t /\ w = [q \in DOMAIN w |-> w[q]]
  BY <1>1
<1>13. ASSUME NEW q \in DOMAIN t
       PROVE  w[q].height = v[q].height /\ w[q].lo = v[q].lo /\ w[q].hi = v[q].hi
  BY <1>1, <1>12
<1> HIDE DEF w
<1>14. ASSUME NEW q \in DOMAIN t, ~t[q].leaf, NEW j \in 1 .. Len(t[q].vals), t[q].vals[j] = left
       PROVE  q = p /\ j = i
  <2>1. v[right].height <= v[left].height
    <3>1. v[left].height \in Nat
      BY <1>1, Measures
    <3> QED
      BY <1>1, <3>1
  <2>2. left \in DOMAIN t
    BY <1>1
  <2> HIDE DEF n
  <2> QED
    BY <1>1, <1>14, <2>1, <2>2, OneParent
<1>15. ASSUME NEW j \in 1 .. Len(n.vals)
       PROVE  /\ n.vals[j] \in DOMAIN t \ {Root, right, NoPage}
              /\ w[n.vals[j]].height + 1 = v[p].height
              /\ w[n.vals[j]].lo = (IF j = 1 THEN v[p].lo ELSE From(n.keys[j - 1]))
              /\ v[n.vals[j]].far = (IF j = Len(n.vals) THEN v[p].hi ELSE From(n.keys[j]))
              /\ j # i => w[n.vals[j]].far = v[n.vals[j]].far
  <2>1. ChildOK(t, v, right, p, j)
    BY <1>2 DEF InnerOK
  <2>2. /\ n.vals[j] \in DOMAIN t \ {Root, right, NoPage} /\ v[n.vals[j]].height + 1 = v[p].height
        /\ v[n.vals[j]].lo = (IF j = 1 THEN v[p].lo ELSE From(n.keys[j - 1]))
        /\ v[n.vals[j]].far = (IF j = Len(n.vals) THEN v[p].hi ELSE From(n.keys[j]))
    BY <1>2, <2>1 DEF ChildOK
  <2>3. j # i => n.vals[j] # left
    BY <1>14
  <2> HIDE DEF n
  <2> QED
    BY <1>12, <1>13, <2>2, <2>3
<1>16. /\ \A j \in 1 .. Len(n.keys) : (j < i => n.keys[j] < key) /\ (j >= i => key < n.keys[j])
       /\ In(v, p, key)
  <2>1. PICK k \in Int : In(v, left, k)
    BY <1>1, Measures
  <2>2. k < key
    BY <1>1, <1>5, <2>1 DEF In
  <2>3. v[left].lo \in Cuts /\ v[right].hi \in Cuts
    BY <1>1, Measures
  <2>4. key \in v[left].lo
    BY <1>5, <2>1, <2>2, <2>3, CutOrder DEF In
  <2>5. PICK l \in Int : In(v, right, l)
    BY <1>1, Measures
  <2>6. key <= l
    BY <1>1, <1>5, <2>5 DEF In
  <2>7. key \notin v[left].far
    BY <1>1, <1>5, <2>3, <2>5, <2>6, CutOrder DEF In
  <2>8. In(v, p, key)
    <3>1. Under(v, t[p].vals[i], key)
      BY <2>4, <2>7 DEF Under
    <3> QED
      BY <1>1, <1>5, <3>1, ChildIn
  <2>9. ASSUME NEW j \in 1 .. Len(n.keys), j < i PROVE n.keys[j] < key
    <3>1. i - 1 \in 1 .. Len(n.keys) /\ i # 1 /\ (j = i - 1 \/ j < i - 1)
      <4>1. j \in 1 .. Len(n.keys)
        OBVIOUS
      <4> HIDE DEF n
      <4> QED
        BY ONLY <1>4, <1>6, <2>9, <4>1
    <3>2. v[left].lo = From(n.keys[i - 1])
      BY <1>1, <1>13, <1>15, <3>1
    <3>3. n.keys[i - 1] <= k
      BY <2>1, <3>2 DEF In, From
    <3>4. n.keys[j] \in Int /\ n.keys[i - 1] \in Int
      BY <1>4, <3>1
    <3>5. j < i - 1 => n.keys[j] < n.keys[i - 1]
      BY <1>3, <3>1 DEF Ascending
    <3> HIDE DEF n
    <3>6. n.keys[j] <= n.keys[i - 1]
      BY ONLY <3>1, <3>4, <3>5
    <3>7. n.keys[i - 1] < key
      BY ONLY <1>5, <2>2, <3>3, <3>4
    <3> QED
      BY ONLY <1>5, <3>4, <3>6, <3>7
  <2>10. ASSUME NEW j \in 1 .. Len(n.keys), j >= i PROVE key < n.keys[j]
    <3>1. i \in 1 .. Len(n.keys) /\ i # Len(n.vals) /\ (j = i \/ i < j)
      <4>1. Len(n.vals) = Len(n.keys) + 1 /\ j \in 1 .. Len(n.keys)
        BY <1>3
      <4> HIDE DEF n
      <4> QED
        BY ONLY <1>4, <1>6, <2>10, <4>1
    <3>2. v[left].far = From(n.keys[i])
      BY <1>15, <3>1
    <3>3. ~(n.keys[i] <= key)
      BY <1>5, <2>7, <3>2 DEF From
    <3>4. n.keys[i] \in Int /\ n.keys[j] \in Int
      BY <1>4, <3>1
    <3>5. j = i \/ n.keys[i] < n.keys[j]
      BY <1>3, <3>1 DEF Ascending
    <3> HIDE DEF n
    <3> QED
      BY ONLY <1>5, <3>3, <3>4, <3>5
  <2> QED
    BY <2>8, <2>9, <2>10
<1>17. Ascending(ks)
  BY <1>3, <1>4, <1>5, <1>6, <1>16, InsertAscends DEF ks
<1>18. Measured(u, w)
  <2>1. /\ v \in [DOMAIN t -> [height : Nat, lo : Cuts, hi : Cuts, far : Cuts]]
        /\ \A q \in DOMAIN t : /\ v[q].height <= v[Root].height
                               /\ v[q].far \subseteq v[q].hi /\ \E k \in Int : In(v, q, k)
        /\ v[Root].lo = Int /\ v[Root].far = {}
    BY <1>2 DEF Measured
  <2>2. ASSUME NEW q \in DOMAIN t
        PROVE  /\ w[q] \in [height : Nat, lo : Cuts, hi : Cuts, far : Cuts]
               /\ w[q].far \subseteq w[q].hi /\ \E k \in Int : In(w, q, k)
    <3>1. CASE q = left
      <4>1. w[left] = [height |-> v[left].height, lo |-> v[left].lo, hi |-> From(key), far |-> From(key)]
        BY <1>1 DEF w
      <4>2. v[left].height \in Nat /\ v[left].lo \in Cuts
        BY <1>1, Measures
      <4>3. \E k \in Int : In(w, left, k)
        BY <1>1, <1>13, <2>1 DEF In
      <4> QED
        BY <1>5, <3>1, <4>1, <4>2, <4>3
    <3>2. CASE q # left
      <4>1. w[q] = v[q]
        BY <1>12, <3>2
      <4> QED
        BY <2>1, <4>1 DEF In
    <3> QED
      BY <3>1, <3>2
  <2>3. w \in [DOMAIN u -> [height : Nat, lo : Cuts, hi : Cuts, far : Cuts]]
    BY <1>10, <1>12, <2>2
  <2>4. left # Root
    BY <1>15
  <2>5. w[Root].lo = Int /\ w[Root].far = {} /\ w[Root].height = v[Root].height
    BY <1>2, <1>12, <2>1, <2>4
  <2>6. \A q \in DOMAIN u : w[q].height <= w[Root].height
    BY <1>10, <1>13, <2>1, <2>5
  <2> QED
    BY <1>10, <2>2, <2>3, <2>5, <2>6 DEF Measured
<1>19. PageOK(K, u, w, NoPage, p)
  <2>1. ASSUME NEW j \in 1 .. Len(ks) PROVE In(w, p, ks[j])
    <3>1. In(v, p, ks[j])
      <4>1. CASE j < i
        <5>1. j \in 1 .. Len(n.keys) /\ ks[j] = n.keys[j]
          BY <1>4, <1>6, <1>7, <4>1
        <5> QED
          BY <1>2, <5>1 DEF NodeOK
      <4>2. CASE j = i
        BY <1>6, <1>7, <1>16, <4>2
      <4>3. CASE j > i
        <5>1. j - 1 \in 1 .. Len(n.keys) /\ ks[j] = n.keys[j - 1]
          <6>1. j \in 1 .. Len(ks)
            OBVIOUS
          <6> HIDE DEF n
          <6>2. j \in 1 .. Len(n.keys) + 1 /\ j - 1 \in 1 .. Len(n.keys) /\ ~(j < i) /\ j # i
            BY ONLY <1>4, <1>6, <1>7, <4>3, <6>1
          <6> QED
            BY ONLY <1>7, <6>2
        <5> QED
          BY <1>2, <5>1 DEF NodeOK
      <4> QED
        BY <1>6, <1>7, <4>1, <4>2, <4>3
    <3> QED
      BY <1>13, <3>1 DEF In
  <2>2. NodeOK(K, u, w, p)
    BY <1>7, <1>11, <1>17, <2>1 DEF NodeOK
  <2>3. /\ w[p].height = v[p].height /\ w[p].lo = v[p].lo /\ w[p].hi = v[p].hi
        /\ Len(n.vals) = Len(n.keys) + 1 /\ Len(cs) = Len(n.keys) + 2 /\ Len(n.keys) \in Nat
        /\ i \in 1 .. Len(n.keys) + 1
    BY <1>3, <1>4, <1>6, <1>8, <1>13
  <2>4. ASSUME NEW j \in 1 .. Len(cs) PROVE ChildOK(u, w, NoPage, p, j)
    <3> HIDE DEF n
    <3>1. j \in 1 .. Len(n.vals) + 1 /\ j \in 1 .. Len(n.keys) + 2
      BY <2>3
    <3>2. CASE j < i
      <4>1. j \in 1 .. Len(n.vals) /\ j # i /\ j # Len(n.vals) /\ j # Len(cs) /\ j \in 1 .. Len(n.keys) + 1 /\ j < i + 1
        BY <2>3, <3>1, <3>2
      <4>2. cs[j] = n.vals[j] /\ ks[j] = n.keys[j]
        BY <1>7, <1>8, <3>1, <3>2, <4>1
      <4>3. w[cs[j]].far = From(ks[j])
        BY <1>15, <4>1, <4>2
      <4>4. w[cs[j]].lo = (IF j = 1 THEN w[p].lo ELSE From(ks[j - 1]))
        <5>1. CASE j = 1
          BY <1>15, <2>3, <4>1, <4>2, <5>1
        <5>2. CASE j # 1
          <6>1. j - 1 \in 1 .. Len(n.keys) + 1 /\ j - 1 < i
            BY <2>3, <3>2, <4>1, <5>2
          <6>2. ks[j - 1] = n.keys[j - 1]
            BY <1>7, <6>1
          <6> QED
            BY <1>15, <4>1, <4>2, <5>2, <6>2
        <5> QED
          BY <5>1, <5>2
      <4>5. cs[j] \in DOMAIN u \ {Root, NoPage} /\ w[cs[j]].height + 1 = w[p].height
        BY <1>10, <1>15, <2>3, <4>1, <4>2
      <4> QED
        BY <1>11, <4>1, <4>3, <4>4, <4>5 DEF ChildOK
    <3>3. CASE j = i
      <4>1. j \in 1 .. Len(n.vals) /\ j # Len(cs) /\ j \in 1 .. Len(n.keys) + 1 /\ j < i + 1 /\ ~(j < i)
        BY <2>3, <3>1, <3>3
      <4>2. cs[j] = n.vals[j] /\ ks[j] = key /\ n.vals[j] = left
        BY <1>7, <1>8, <3>1, <3>3, <4>1 DEF n
      <4>3. w[cs[j]].far = From(ks[j])
        BY <1>12, <4>2
      <4>4. w[cs[j]].lo = (IF j = 1 THEN w[p].lo ELSE From(ks[j - 1]))
        <5>1. CASE j = 1
          BY <1>15, <2>3, <4>1, <4>2, <5>1
        <5>2. CASE j # 1
          <6>1. j - 1 \in 1 .. Len(n.keys) + 1 /\ j - 1 < i
            BY <2>3, <3>3, <4>1, <5>2
          <6>2. ks[j - 1] = n.keys[j - 1]
            BY <1>7, <6>1
          <6> QED
            BY <1>15, <4>1, <4>2, <5>2, <6>2
        <5> QED
          BY <5>1, <5>2
      <4>5. cs[j] \in DOMAIN u \ {Root, NoPage} /\ w[cs[j]].height + 1 = w[p].height
        BY <1>10, <1>15, <2>3, <4>1, <4>2
      <4> QED
        BY <1>11, <4>1, <4>3, <4>4, <4>5 DEF ChildOK
    <3>4. CASE j = i + 1
      <4>1. j # 1 /\ j - 1 = i /\ ~(j < i + 1) /\ i \in 1 .. Len(n.vals)
        BY <2>3, <3>4
      <4>2. cs[j] = right /\ ks[j - 1] = key
        BY <1>7, <1>8, <2>3, <3>1, <3>4, <4>1
      <4>3. n.vals[i] = left
        BY DEF n
      <4>4. w[right].height = v[left].height /\ w[right].lo = From(key) /\ w[right].far = v[left].far
        BY <1>1, <1>12
      <4>5. w[cs[j]].far = (IF j = Len(cs) THEN w[p].hi ELSE From(ks[j]))
        <5>1. v[left].far = (IF i = Len(n.vals) THEN v[p].hi ELSE From(n.keys[i]))
          BY <1>15, <4>1, <4>3
        <5>2. CASE i = Len(n.vals)
          BY <2>3, <3>4, <4>2, <4>4, <5>1, <5>2
        <5>3. CASE i # Len(n.vals)
          <6>1. j \in 1 .. Len(n.keys) + 1 /\ ~(j < i) /\ j # i /\ j # Len(cs)
            BY <2>3, <3>4, <5>3
          <6>2. ks[j] = n.keys[j - 1]
            BY <1>7, <6>1
          <6> QED
            BY <4>1, <4>2, <4>4, <5>1, <5>3, <6>1, <6>2
        <5> QED
          BY <5>2, <5>3
      <4>6. cs[j] \in DOMAIN u \ {Root, NoPage}
        BY <1>1, <1>2, <1>10, <4>2
      <4>7. w[left].height + 1 = v[p].height
        BY <1>15, <4>1, <4>3
      <4>8. w[cs[j]].height + 1 = w[p].height
        BY <1>12, <2>3, <4>2, <4>4, <4>7
      <4> QED
        BY <1>11, <4>1, <4>2, <4>4, <4>5, <4>6, <4>8 DEF ChildOK
    <3>5. CASE j > i + 1
      <4>1. /\ j - 1 \in 1 .. Len(n.vals) /\ j - 1 # i /\ j - 1 # 1 /\ j # 1 /\ (j - 1 = Len(n.vals) <=> j = Len(cs))
            /\ j - 1 \in 1 .. Len(n.keys) + 1 /\ ~(j - 1 < i) /\ ~(j < i + 1) /\ j # i + 1 /\ j # i /\ ~(j < i)
        BY <2>3, <3>1, <3>5
      <4>2. cs[j] = n.vals[j - 1]
        BY <1>8, <3>1, <4>1
      <4>3. ks[j - 1] = n.keys[(j - 1) - 1]
        BY <1>7, <4>1
      <4>4. w[cs[j]].lo = From(ks[j - 1])
        BY <1>15, <4>1, <4>2, <4>3
      <4>5. w[cs[j]].far = (IF j = Len(cs) THEN w[p].hi ELSE From(ks[j]))
        <5>1. CASE j = Len(cs)
          BY <1>15, <2>3, <4>1, <4>2, <5>1
        <5>2. CASE j # Len(cs)
          <6>1. j \in 1 .. Len(n.keys) + 1
            BY <2>3, <3>1, <5>2
          <6>2. ks[j] = n.keys[j - 1]
            BY <1>7, <4>1, <6>1
          <6>3. v[n.vals[j - 1]].far = From(n.keys[j - 1]) /\ w[n.vals[j - 1]].far = v[n.vals[j - 1]].far
            BY <1>15, <4>1, <5>2
          <6> QED
            BY <4>2, <5>2, <6>2, <6>3
        <5> QED
          BY <5>1, <5>2
      <4>6. cs[j] \in DOMAIN u \ {Root, NoPage} /\ w[cs[j]].height + 1 = w[p].height
        BY <1>10, <1>15, <2>3, <4>1, <4>2
      <4> QED
        BY <1>11, <4>1, <4>4, <4>5, <4>6 DEF ChildOK
    <3>6. j < i \/ j = i \/ j = i + 1 \/ j > i + 1
      BY <2>3, <3>1
    <3> QED
      BY <3>2, <3>3, <3>4, <3>5, <3>6
  <2>5. Len(cs) = Len(ks) + 1
    BY <1>3, <1>4, <1>7, <1>8
  <2> QED
    BY <1>8, <1>11, <2>2, <2>4, <2>5 DEF PageOK, InnerOK
<1>20. ASSUME NEW q \in DOMAIN t \ {p} PROVE PageOK(K, u, w, NoPage, q)
  <2>1. (t[q].leaf => LeafOK(K, t, v, q)) /\ (~t[q].leaf => InnerOK(t, v, right, q))
    BY <1>1 DEF Shape
  <2>2. u[q] = t[q] /\ w[q].height = v[q].height /\ w[q].lo = v[q].lo /\ w[q].hi = v[q].hi
    BY <1>10, <1>13
  <2>3. ASSUME t[q].leaf, t[q].next # NoPage PROVE SameAfter(t, v, u, w, t[q].next)
    <3>1. t[q].next \in DOMAIN t
      BY <1>1, <2>3, NextIsNotRoot
    <3>2. u[t[q].next].leaf = t[t[q].next].leaf
      BY <1>3, <1>10, <1>11, <3>1
    <3> QED
      BY <1>10, <1>13, <3>1, <3>2 DEF SameAfter
  <2>4. ASSUME ~t[q].leaf, NEW j \in 1 .. Len(t[q].vals)
        PROVE  SameBelow(t, v, u, w, t[q].vals[j]) /\ t[q].vals[j] # NoPage
    <3>1. t[q].vals[j] \in DOMAIN t
      BY <2>1, <2>4 DEF InnerOK, ChildOK
    <3>2. t[q].vals[j] # left
      BY <1>14, <2>4
    <3> QED
      BY <1>2, <1>10, <1>12, <3>1, <3>2 DEF SameBelow
  <2> QED
    BY <1>1, <2>2, <2>3, <2>4, PageKept
<1>21. ASSUME NEW x \in DOMAIN u \ {Root, NoPage} PROVE HasParent(u, x)
  <2>1. CASE x = right
    <3>1. i + 1 \in 1 .. Len(cs) /\ cs[i + 1] = right
      BY <1>3, <1>4, <1>6, <1>8
    <3> QED
      BY <1>10, <1>11, <2>1, <3>1 DEF HasParent
  <2>2. CASE x # right
    <3>1. HasParent(t, x)
      BY <1>1, <1>10, <1>21, <2>2 DEF Shape
    <3>2. PICK q \in DOMAIN t : ~t[q].leaf /\ \E j \in 1 .. Len(t[q].vals) : t[q].vals[j] = x
      BY <3>1 DEF HasParent
    <3>3. CASE q # p
      BY <1>10, <3>2, <3>3 DEF HasParent
    <3>4. CASE q = p
      <4>1. PICK j \in 1 .. Len(n.vals) : n.vals[j] = x
        BY <3>2, <3>4
      <4>2. \E l \in 1 .. Len(cs) : cs[l] = x
        <5>1. CASE j < i + 1
          <6>1. j \in 1 .. Len(n.vals) + 1 /\ j \in 1 .. Len(cs)
            BY <1>3, <1>4, <1>8
          <6>2. cs[j] = x
            BY <1>8, <4>1, <5>1, <6>1
          <6> QED
            BY <6>1, <6>2
        <5>2. CASE ~(j < i + 1)
          <6>1. j + 1 \in 1 .. Len(n.vals) + 1 /\ j + 1 \in 1 .. Len(cs) /\ ~(j + 1 < i + 1) /\ j + 1 # i + 1 /\ (j + 1) - 1 = j
            BY <1>3, <1>4, <1>6, <1>8, <5>2
          <6>2. cs[j + 1] = x
            BY <1>8, <4>1, <6>1
          <6> QED
            BY <6>1, <6>2
        <5> QED
          BY <5>1, <5>2
      <4> QED
        BY <1>10, <1>11, <4>2 DEF HasParent
    <3> QED
      BY <3>3, <3>4
  <2> QED
    BY <2>1, <2>2
<1>22. Closed(K, u, w)
  <2>1. Shape(K, u, w, NoPage)
    <3>1. \A q \in DOMAIN u : PageOK(K, u, w, NoPage, q)
      BY <1>10, <1>19, <1>20
    <3> QED
      BY <1>2, <1>10, <1>18, <1>21, <3>1, ShapeIs
  <2>2. \A q \in DOMAIN u : w[q].far = w[q].hi
    BY <1>1, <1>10, <1>12
  <2> QED
    BY <2>1, <2>2 DEF Closed
<1>23. w[p].height = v[left].height + 1
  <2>1. w[n.vals[i]].height + 1 = v[p].height /\ n.vals[i] = left
    BY <1>15
  <2> QED
    BY <1>12, <1>13, <2>1
<1>24. \A e : Has(u, e) <=> Has(t, e)
  BY <1>3, <1>10, <1>11 DEF Has
<1>25. AttachedOf(t, u, p)
  BY <1>3, <1>7, <1>10, <1>11, <1>24 DEF AttachedOf
<1> QED
  BY <1>22, <1>23, <1>25

-----------------------------------------------------------------------------
(***************************************************************************)
(* Up to the root.                                                         *)
(***************************************************************************)

Fits(t) == \A p \in DOMAIN t : Len(t[p].keys) <= IF t[p].leaf THEN LeafCapacity ELSE InternalCapacity

\* New pages are the first free ones.
Dense(t) == \A p \in DOMAIN t : p \in Nat /\ (p < MaxPages \/ \A q \in 0 .. p : q \in DOMAIN t)

LEMMA DenseGrows ==
  ASSUME NEW t, IsFiniteSet(DOMAIN t), Cardinality(DOMAIN t) <= 2 * MaxPages, Dense(t),
         NEW u, DOMAIN u = DOMAIN t \cup {NewPage(t)}
  PROVE  Dense(u) /\ IsFiniteSet(DOMAIN u) /\ Cardinality(DOMAIN u) = Cardinality(DOMAIN t) + 1
<1>1. NewPage(t) \in Nat \ DOMAIN t /\ \A q \in 0 .. NewPage(t) - 1 : q \in DOMAIN t
  BY NewPageIs
<1>2. IsFiniteSet(DOMAIN u) /\ Cardinality(DOMAIN u) = Cardinality(DOMAIN t) + 1
  BY <1>1, FS_AddElement
<1>3. ASSUME NEW p \in DOMAIN u PROVE p \in Nat /\ (p < MaxPages \/ \A q \in 0 .. p : q \in DOMAIN u)
  <2>1. CASE p \in DOMAIN t
    BY <2>1 DEF Dense
  <2>2. CASE p = NewPage(t)
    <3>1. ASSUME NEW q \in 0 .. p PROVE q = p \/ q \in 0 .. p - 1
      BY <1>1, <2>2
    <3> QED
      BY <1>1, <2>2, <3>1
  <2> QED
    BY <2>1, <2>2
<1> QED
  BY <1>2, <1>3 DEF Dense

\* There is a page of every height up to the root's.
LEMMA HeightIsBounded ==
  ASSUME NEW K, NEW t, NEW v, NEW new, Shape(K, t, v, new)
  PROVE  v[Root].height + 1 <= Cardinality(DOMAIN t)
<1> DEFINE H == v[Root].height
           S == {d \in Nat : d <= H /\ ~\E p \in DOMAIN t : v[p].height + d = H}
<1>1. /\ IsFiniteSet(DOMAIN t) /\ Root \in DOMAIN t /\ H \in Nat
      /\ \A p \in DOMAIN t : v[p].height \in Nat
  BY Measures DEF Shape
<1> HIDE DEF H
<1>2. S = {}
  <2> SUFFICES ASSUME S # {} PROVE FALSE
    OBVIOUS
  <2>1. PICK m \in Nat : m \in S /\ \A n \in S : m <= n
    <3>1. Min(S) \in S /\ \A n \in S : Min(S) <= n
      <4>1. S \in SUBSET Nat
        OBVIOUS
      <4> HIDE DEF S
      <4> QED
        BY <4>1, MinIs
    <3> QED
      BY <3>1
  <2>2. m <= H /\ ~\E p \in DOMAIN t : v[p].height + m = H
    BY <2>1
  <2>3. m # 0
    BY <1>1, <2>2 DEF H
  <2>4. m - 1 \in Nat /\ m - 1 <= H /\ ~(m <= m - 1)
    BY <1>1, <2>2, <2>3
  <2>5. PICK p \in DOMAIN t : v[p].height + (m - 1) = H
    BY <2>1, <2>4
  <2>6. v[p].height # 0
    BY <1>1, <2>2, <2>4, <2>5
  <2>7. ~t[p].leaf
    BY <2>6 DEF Shape, LeafOK
  <2>8. InnerOK(t, v, new, p) /\ NodeOK(K, t, v, p)
    BY <2>7 DEF Shape
  <2>9. 1 \in 1 .. Len(t[p].vals)
    <3>1. Len(t[p].keys) \in Nat /\ Len(t[p].vals) = Len(t[p].keys) + 1
      BY <2>8 DEF InnerOK, NodeOK
    <3> QED
      BY <3>1
  <2>10. t[p].vals[1] \in DOMAIN t /\ v[t[p].vals[1]].height + 1 = v[p].height
    BY <2>8, <2>9 DEF InnerOK, ChildOK
  <2>11. v[t[p].vals[1]].height + m = H
    <3>1. v[t[p].vals[1]].height \in Nat
      BY <1>1, <2>10
    <3> QED
      BY <2>5, <2>10, <3>1
  <2> QED
    BY <2>2, <2>10, <2>11
<1>3. ASSUME NEW h \in 0 .. H PROVE \E p \in DOMAIN t : v[p].height = h
  <2>1. H - h \in Nat /\ H - h <= H /\ H - h \notin S
    BY <1>1, <1>2
  <2>2. PICK p \in DOMAIN t : v[p].height + (H - h) = H
    BY <2>1
  <2> QED
    BY <1>1, <2>2
<1> DEFINE f == [h \in 0 .. H |-> CHOOSE p \in DOMAIN t : v[p].height = h]
<1>4. \A h \in 0 .. H : f[h] \in DOMAIN t /\ v[f[h]].height = h
  BY <1>3
<1>5. f \in Injection(0 .. H, DOMAIN t)
  <2>1. f \in [0 .. H -> DOMAIN t]
    BY <1>4
  <2> HIDE DEF f
  <2> QED
    BY <1>4, <2>1 DEF Injection, IsInjective
<1>6. Cardinality(0 .. H) <= Cardinality(DOMAIN t)
  BY <1>1, <1>5, FS_Injection
<1>7. Cardinality(0 .. H) = H - 0 + 1
  BY <1>1, FS_Interval
<1> QED
  BY <1>1, <1>6, <1>7 DEF H

\* A split on its way up from t: it has come to height h, with at most n pages.
Climbing(K, t, n, h, s) ==
  /\ Fits(s.tree) /\ Dense(s.tree) /\ IsFiniteSet(DOMAIN s.tree) /\ Cardinality(DOMAIN s.tree) <= n
  /\ \A e : Has(s.tree, e) <=> Has(t, e)
  /\ s.left = NoPage => \E v : Closed(K, s.tree, v)
  /\ s.left # NoPage => \E v : Open(K, s, v) /\ v[s.left].height >= h

\* InsertIntoParent ends the split or brings it a level up.
LEMMA OneUp ==
  ASSUME NEW K \in SUBSET Int, NEW t, NEW n \in Nat, NEW h \in Nat, NEW s, Climbing(K, t, n, h, s),
         n <= 2 * MaxPages, LeafCapacity \in Nat, InternalCapacity \in Nat, InternalCapacity >= 2
  PROVE  Climbing(K, t, n + 1, h + 1, InsertIntoParent(s))
<1> DEFINE l == InsertIntoParent(s)
           x == s.tree
<1>1. /\ Fits(x) /\ Dense(x) /\ IsFiniteSet(DOMAIN x) /\ Cardinality(DOMAIN x) <= n
      /\ \A e : Has(x, e) <=> Has(t, e)
  BY DEF Climbing
<1>2. Cardinality(DOMAIN x) \in Nat /\ Cardinality(DOMAIN x) <= n + 1 /\ Cardinality(DOMAIN x) <= 2 * MaxPages
  <2>1. Cardinality(DOMAIN x) \in Nat /\ 2 * MaxPages \in Nat
    BY <1>1, FS_CardinalityType, TreeAssumption
  <2> QED
    BY <1>1, <2>1
<1>3. CASE s.left = NoPage
  <2>1. l = s
    BY <1>3 DEF InsertIntoParent
  <2> QED
    BY <1>1, <1>2, <1>3, <2>1 DEF Climbing
<1>4. CASE s.left # NoPage
  <2>1. PICK v : Open(K, s, v) /\ v[s.left].height >= h
    BY <1>4 DEF Climbing
  <2>2. CASE s.left = Root
    <3> DEFINE p == NewPage(x)
               y == l.tree
    <3>1. l = LiftRoot(s)
      BY <1>4, <2>2 DEF InsertIntoParent
    <3>2. /\ l.left = NoPage /\ \E w : Closed(K, y, w)
          /\ DOMAIN y = DOMAIN x \cup {p}
          /\ ~y[Root].leaf /\ Len(y[Root].keys) = 1 /\ y[p] = x[Root]
          /\ \A q \in DOMAIN x \ {Root} : y[q] = x[q]
          /\ \A e : Has(y, e) <=> Has(x, e)
      BY <1>2, <2>1, <2>2, <3>1, LiftRootIs
    <3> HIDE DEF l, p
    <3>3. Root \in DOMAIN x
      BY <2>1 DEF Open, Shape
    <3>4. Fits(y)
      <4>1. ASSUME NEW q \in DOMAIN y
            PROVE  Len(y[q].keys) <= IF y[q].leaf THEN LeafCapacity ELSE InternalCapacity
        <5>1. CASE q = Root
          <6>1. Len(y[Root].keys) <= InternalCapacity
            <7>1. Len(y[Root].keys) = 1
              BY <3>2
            <7> HIDE DEF y
            <7> QED
              BY ONLY <7>1, InternalCapacity \in Nat, InternalCapacity >= 2
          <6>2. ~y[Root].leaf
            BY <3>2
          <6> QED
            BY ONLY <5>1, <6>1, <6>2
        <5>2. CASE q = p
          BY <1>1, <3>2, <3>3, <5>2 DEF Fits
        <5>3. CASE q \in DOMAIN x \ {Root}
          BY <1>1, <3>2, <5>3 DEF Fits
        <5> QED
          BY <3>2, <5>1, <5>2, <5>3
      <4> QED
        BY <4>1 DEF Fits
    <3>5. Dense(y) /\ IsFiniteSet(DOMAIN y) /\ Cardinality(DOMAIN y) = Cardinality(DOMAIN x) + 1
      BY <1>1, <1>2, <3>2, DenseGrows DEF p
    <3>6. Cardinality(DOMAIN y) <= n + 1
      BY <1>1, <1>2, <3>5
    <3> QED
      BY <1>1, <3>2, <3>4, <3>5, <3>6 DEF Climbing, l
  <2>3. CASE s.left # Root
    <3> DEFINE p == FindParent(x, s.left, s.key)
               i == PlaceOf(x[p].vals, s.left)
               y == Attached(x, p, i, s.key, s.right)
    <3>1. /\ p \in DOMAIN x /\ ~x[p].leaf /\ p # NoPage
          /\ i \in 1 .. Len(x[p].vals) /\ x[p].vals[i] = s.left
      BY <2>1, <2>3, SplitParent
    <3>2. l = IF Len(y[p].keys) > InternalCapacity THEN SplitInternal(y, p) ELSE Whole(y)
      BY <1>4, <2>3, <3>1 DEF InsertIntoParent, Attached, PlaceOf, SelectInSeq
    <3> HIDE DEF l, p, i
    <3>3. /\ AttachedOf(x, y, p)
          /\ \E w : Closed(K, y, w) /\ w[p].height = v[s.left].height + 1
      BY <2>1, <3>1, AttachedIs
    <3> HIDE DEF y
    <3>4. PICK w : Closed(K, y, w) /\ w[p].height = v[s.left].height + 1
      BY <3>3
    <3>5. /\ DOMAIN y = DOMAIN x /\ \A q \in DOMAIN x \ {p} : y[q] = x[q]
          /\ ~x[p].leaf /\ ~y[p].leaf /\ Len(y[p].keys) = Len(x[p].keys) + 1
          /\ \A e : Has(y, e) <=> Has(x, e)
      BY <3>3 DEF AttachedOf
    <3>6. Len(x[p].keys) <= InternalCapacity
      BY <1>1, <3>1 DEF Fits
    <3>7. Len(x[p].keys) \in Nat
      <4>1. Shape(K, x, v, s.right)
        BY <2>1 DEF Open
      <4>2. x[p].keys \in Seq(K)
        BY <3>1, <4>1 DEF Shape, NodeOK
      <4> QED
        BY <4>2, LenProperties
    <3>8. Dense(y)
      BY <1>1, <3>5 DEF Dense
    <3>9. CASE Len(y[p].keys) <= InternalCapacity
      <4>1. l = Whole(y)
        BY <3>2, <3>5, <3>7, <3>9
      <4>2. l.tree = y /\ l.left = NoPage
        BY <4>1 DEF Whole
      <4>3. Fits(y)
        BY <1>1, <3>5, <3>9 DEF Fits
      <4> QED
        BY <1>1, <1>2, <3>4, <3>5, <3>8, <4>2, <4>3 DEF Climbing, l
    <3>10. CASE Len(y[p].keys) > InternalCapacity
      <4> DEFINE z == l.tree
                 m == Len(y[p].keys)
      <4>1. l = SplitInternal(y, p) /\ m = InternalCapacity + 1 /\ m \in Nat /\ m >= 2
        BY <3>2, <3>5, <3>6, <3>7, <3>10
      <4>2. /\ \E g : Open(K, l, g) /\ SplitOf(y, w, l, g, p)
            /\ Len(z[p].keys) = m \div 2
            /\ Len(z[l.right].keys) = m - m \div 2 - 1
        <5>1. /\ K \in SUBSET Int /\ Closed(K, y, w) /\ p \in DOMAIN y /\ ~y[p].leaf
              /\ Len(y[p].keys) >= 2 /\ Cardinality(DOMAIN y) <= 2 * MaxPages
          BY <1>2, <3>1, <3>4, <3>5, <4>1
        <5> QED
          BY ONLY <4>1, <5>1, SplitInternalIs
      <4> HIDE DEF m
      <4>3. PICK g : Open(K, l, g) /\ SplitOf(y, w, l, g, p)
        BY <4>2
      <4>4. /\ l.left = p /\ l.right = NewPage(y) /\ DOMAIN z = DOMAIN y \cup {NewPage(y)}
            /\ \A q \in DOMAIN y \ {p} : z[q] = y[q]
            /\ z[p].leaf = y[p].leaf /\ z[l.right].leaf = y[p].leaf
            /\ g[p].height = w[p].height
            /\ \A e : Has(z, e) <=> Has(y, e)
        BY <4>3 DEF SplitOf
      <4>5. m \div 2 <= InternalCapacity /\ m - m \div 2 - 1 <= InternalCapacity
        <5>1. \A c \in Nat : c >= 2 => (c + 1) \div 2 <= c /\ (c + 1) - (c + 1) \div 2 - 1 <= c
          OBVIOUS
        <5> QED
          BY <4>1, <5>1
      <4> HIDE DEF z
      <4>6. Fits(z)
        <5>1. ASSUME NEW q \in DOMAIN z
              PROVE  Len(z[q].keys) <= IF z[q].leaf THEN LeafCapacity ELSE InternalCapacity
          <6>1. CASE q = p \/ q = l.right
            BY <3>5, <4>2, <4>4, <4>5, <6>1
          <6>2. CASE q # p /\ q # l.right
            <7>1. q \in DOMAIN x \ {p} /\ z[q] = x[q]
              BY <3>5, <4>4, <6>2
            <7> QED
              BY <1>1, <7>1 DEF Fits
          <6> QED
            BY <6>1, <6>2
        <5> QED
          BY <5>1 DEF Fits
      <4>7. Dense(z) /\ IsFiniteSet(DOMAIN z) /\ Cardinality(DOMAIN z) = Cardinality(DOMAIN y) + 1
        <5>1. IsFiniteSet(DOMAIN y) /\ Cardinality(DOMAIN y) <= 2 * MaxPages
          BY <1>1, <1>2, <3>5
        <5> QED
          BY <3>8, <4>4, <5>1, DenseGrows
      <4>8. Cardinality(DOMAIN z) <= n + 1
        BY <1>1, <1>2, <3>5, <4>7
      <4>9. g[l.left].height >= h + 1
        <5>1. v[s.left].height \in Nat
          <6>1. Shape(K, x, v, s.right) /\ s.left \in DOMAIN x
            BY <2>1 DEF Open
          <6> QED
            BY <6>1, Measures
        <5> QED
          BY <2>1, <3>4, <4>4, <5>1
      <4>10. \A e : Has(z, e) <=> Has(t, e)
        BY <1>1, <3>5, <4>4
      <4>11. l.left # NoPage
        BY <3>1, <4>4
      <4> QED
        BY <4>3, <4>6, <4>7, <4>8, <4>9, <4>10, <4>11 DEF Climbing, z, l
    <3>11. Len(y[p].keys) <= InternalCapacity \/ Len(y[p].keys) > InternalCapacity
      BY <3>5, <3>7
    <3> QED
      BY <3>9, <3>10, <3>11
  <2> QED
    BY <2>2, <2>3
<1> QED
  BY <1>3, <1>4

LEMMA UpIs ==
  ASSUME NEW s
  PROVE  \E f : /\ \A i \in 0 .. MaxPages : f[i] = IF i = 0 THEN s ELSE InsertIntoParent(f[i - 1])
                /\ Climb(s) = f[MaxPages].tree
<1> DEFINE D == 0 .. MaxPages
           F(f) == [i \in D |-> IF i = 0 THEN s ELSE InsertIntoParent(f[i - 1])]
           Upto(f, n) == \A i \in D : i < n => f[i] = F(f)[i]
           S == {n \in Nat : ~\E f : Upto(f, n)}
<1>1. MaxPages \in Nat
  BY TreeAssumption
<1>2. S = {}
  <2> SUFFICES ASSUME S # {} PROVE FALSE
    OBVIOUS
  <2>1. PICK m \in Nat : m \in S /\ \A n \in S : m <= n
    <3>1. Min(S) \in S /\ \A n \in S : Min(S) <= n
      <4>1. S \in SUBSET Nat
        OBVIOUS
      <4> HIDE DEF S
      <4> QED
        BY <4>1, MinIs
    <3> QED
      BY <3>1
  <2>2. Upto(s, 0)
    OBVIOUS
  <2>3. m # 0
    BY <2>1, <2>2
  <2>4. m - 1 \in Nat /\ ~(m <= m - 1)
    BY <2>3
  <2>5. PICK f : Upto(f, m - 1)
    BY <2>1, <2>4
  <2>6. Upto(F(f), m)
    <3> SUFFICES ASSUME NEW i \in D, i < m
                 PROVE  F(f)[i] = F(F(f))[i]
      OBVIOUS
    <3>1. CASE i = 0
      BY <1>1, <3>1
    <3>2. CASE i # 0
      <4>1. i - 1 \in D /\ i - 1 < m - 1
        BY <1>1, <3>2
      <4>2. f[i - 1] = F(f)[i - 1]
        BY <2>5, <4>1
      <4>3. F(f)[i] = InsertIntoParent(f[i - 1]) /\ F(F(f))[i] = InsertIntoParent(F(f)[i - 1])
        BY <3>2
      <4> QED
        BY <4>2, <4>3
    <3> QED
      BY <3>1, <3>2
  <2> QED
    BY <2>1, <2>6
<1>3. PICK f : Upto(f, MaxPages + 1)
  <2>1. MaxPages + 1 \in Nat
    BY <1>1
  <2> QED
    BY <1>2, <2>1
<1>4. \A i \in D : f[i] = F(f)[i]
  BY <1>1, <1>3
<1>5. F(f) = F(F(f))
  <2>1. \A i \in D : i # 0 => i - 1 \in D
    BY <1>1
  <2>2. \A i \in D : i # 0 => f[i - 1] = F(f)[i - 1]
    BY <1>4, <2>1
  <2> QED
    BY <2>2
<1>6. (CHOOSE g : g = F(g)) = F(CHOOSE g : g = F(g))
  BY <1>5
<1>7. Climb(s) = (CHOOSE g : g = F(g))[MaxPages].tree
  BY DEF Climb
<1> DEFINE h == CHOOSE g : g = F(g)
<1>8. h = F(h)
  BY <1>6
<1>9. Climb(s) = h[MaxPages].tree
  BY <1>7
<1> HIDE DEF h
<1>10. ASSUME NEW i \in D PROVE h[i] = IF i = 0 THEN s ELSE InsertIntoParent(h[i - 1])
  <2>1. h[i] = F(h)[i]
    BY <1>8
  <2> QED
    BY <2>1
<1> QED
  BY <1>9, <1>10

\* Climb reaches the root, if the tree keeps to the bound of the model.
LEMMA ClimbIs ==
  ASSUME NEW K \in SUBSET Int, NEW t, NEW s, Climbing(K, t, MaxPages + 1, 0, s),
         LeafCapacity \in Nat, InternalCapacity \in Nat, InternalCapacity >= 2,
         NEW u, u = Climb(s), Cardinality(DOMAIN u) <= MaxPages
  PROVE  /\ \E v : Closed(K, u, v)
         /\ Fits(u) /\ Dense(u) /\ \A e : Has(u, e) <=> Has(t, e)
<1>1. MaxPages \in Nat
  BY TreeAssumption
<1>2. PICK f : /\ \A i \in 0 .. MaxPages : f[i] = IF i = 0 THEN s ELSE InsertIntoParent(f[i - 1])
               /\ u = f[MaxPages].tree
  BY UpIs
<1> DEFINE S == {i \in Nat : i <= MaxPages /\ ~Climbing(K, t, MaxPages + 1 + i, i, f[i])}
<1>3. S = {}
  <2> SUFFICES ASSUME S # {} PROVE FALSE
    OBVIOUS
  <2>1. PICK m \in Nat : m \in S /\ \A n \in S : m <= n
    <3>1. Min(S) \in S /\ \A n \in S : Min(S) <= n
      <4>1. S \in SUBSET Nat
        OBVIOUS
      <4> HIDE DEF S
      <4> QED
        BY <4>1, MinIs
    <3> QED
      BY <3>1
  <2>2. m <= MaxPages /\ ~Climbing(K, t, MaxPages + 1 + m, m, f[m])
    BY <2>1
  <2>3. m # 0
    <3>1. f[0] = s /\ MaxPages + 1 + 0 = MaxPages + 1
      BY <1>1, <1>2
    <3> QED
      BY <2>2, <3>1
  <2>4. /\ m - 1 \in Nat /\ m - 1 <= MaxPages /\ ~(m <= m - 1) /\ m \in 0 .. MaxPages
        /\ MaxPages + 1 + (m - 1) \in Nat /\ MaxPages + 1 + (m - 1) <= 2 * MaxPages
        /\ (MaxPages + 1 + (m - 1)) + 1 = MaxPages + 1 + m /\ (m - 1) + 1 = m
    BY <1>1, <2>2, <2>3
  <2>5. Climbing(K, t, MaxPages + 1 + (m - 1), m - 1, f[m - 1])
    BY <2>1, <2>4
  <2>6. f[m] = InsertIntoParent(f[m - 1])
    BY <1>2, <2>3, <2>4
  <2>7. Climbing(K, t, (MaxPages + 1 + (m - 1)) + 1, (m - 1) + 1, InsertIntoParent(f[m - 1]))
    BY <2>4, <2>5, OneUp
  <2> QED
    BY <2>2, <2>4, <2>6, <2>7
<1> DEFINE z == f[MaxPages]
<1>4. Climbing(K, t, MaxPages + 1 + MaxPages, MaxPages, z)
  BY <1>1, <1>3
<1> HIDE DEF z, S
<1>5. u = z.tree
  BY <1>2 DEF z
<1>6. z.left = NoPage
  <2> SUFFICES ASSUME z.left # NoPage PROVE FALSE
    OBVIOUS
  <2>1. PICK v : Open(K, z, v) /\ v[z.left].height >= MaxPages
    BY <1>4 DEF Climbing
  <2>2. Shape(K, u, v, z.right) /\ z.left \in DOMAIN u
    BY <1>5, <2>1 DEF Open
  <2>3. v[Root].height + 1 <= Cardinality(DOMAIN u)
    BY <2>2, HeightIsBounded
  <2>4. v[z.left].height \in 0 .. v[Root].height /\ v[Root].height \in Nat
    BY <2>2, Measures
  <2>5. Cardinality(DOMAIN u) \in Nat
    BY <2>2, FS_CardinalityType DEF Shape
  <2> QED
    BY <1>1, <2>1, <2>3, <2>4, <2>5
<1> QED
  BY <1>4, <1>5, <1>6 DEF Climbing

\* What holds of the tree between calls.
TreeOK(K, t) == (\E v : Closed(K, t, v)) /\ Fits(t) /\ DOMAIN t \subseteq Pages

LEMMA DenseIsPages ==
  ASSUME NEW t, IsFiniteSet(DOMAIN t), Dense(t), Cardinality(DOMAIN t) <= MaxPages
  PROVE  DOMAIN t \subseteq Pages
<1>1. MaxPages \in Nat /\ Cardinality(DOMAIN t) \in Nat
  BY TreeAssumption, FS_CardinalityType
<1> SUFFICES ASSUME NEW p \in DOMAIN t PROVE p \in Pages
  OBVIOUS
<1>2. p \in Nat /\ (p < MaxPages \/ \A q \in 0 .. p : q \in DOMAIN t)
  BY DEF Dense
<1>3. ASSUME ~(p < MaxPages) PROVE FALSE
  <2>1. (0 .. p) \in SUBSET DOMAIN t
    BY <1>2, <1>3
  <2>2. Cardinality(0 .. p) = p - 0 + 1
    BY <1>2, FS_Interval
  <2>3. Cardinality(0 .. p) <= Cardinality(DOMAIN t)
    BY <2>1, FS_Subset
  <2> QED
    BY <1>1, <1>2, <1>3, <2>2, <2>3
<1> QED
  BY <1>1, <1>2, <1>3 DEF Pages

LEMMA PagesAreDense ==
  ASSUME NEW t, IsFiniteSet(DOMAIN t), DOMAIN t \subseteq Pages
  PROVE  Dense(t) /\ Cardinality(DOMAIN t) \in Nat /\ Cardinality(DOMAIN t) <= MaxPages
<1>1. MaxPages \in Nat /\ Cardinality(DOMAIN t) \in Nat
  BY TreeAssumption, FS_CardinalityType
<1>2. DOMAIN t \in SUBSET (0 .. MaxPages - 1)
  BY DEF Pages
<1>3. Cardinality(0 .. MaxPages - 1) = MaxPages /\ IsFiniteSet(0 .. MaxPages - 1)
  <2>1. MaxPages - 1 \in Int /\ 0 \in Int /\ MaxPages \in Nat \ {0}
    BY TreeAssumption
  <2>2. Cardinality(0 .. MaxPages - 1) = (MaxPages - 1) - 0 + 1
    BY <2>1, FS_Interval
  <2> QED
    BY <2>1, <2>2, FS_Interval
<1>4. Cardinality(DOMAIN t) <= MaxPages
  BY <1>2, <1>3, FS_Subset
<1>5. Dense(t)
  <2>1. \A p \in DOMAIN t : p \in Nat /\ p < MaxPages
    BY <1>1, <1>2
  <2> QED
    BY <2>1 DEF Dense
<1> QED
  BY <1>1, <1>4, <1>5

\* Insert, with all its splits: the tree is measured again, and has one pair more.
LEMMA InsertedIs ==
  ASSUME NEW K \in SUBSET Int, NEW t, TreeOK(K, t), NEW k \in K, NEW r \in RidsOf(K),
         \A e : Has(t, e) => e[1] # k,
         LeafCapacity \in Nat, LeafCapacity >= 2, InternalCapacity \in Nat, InternalCapacity >= 2,
         NEW u, u = Inserted(t, k, r), Cardinality(DOMAIN u) <= MaxPages
  PROVE  TreeOK(K, u) /\ \A e : Has(u, e) <=> (Has(t, e) \/ e = <<k, r>>)
<1> DEFINE p == FindLeafPage(t, k)
           x == InsertIntoLeaf(t, p, k, r)
           s == SplitLeaf(x, p)
           m == Len(x[p].keys)
<1>1. PICK v : Closed(K, t, v)
  BY DEF TreeOK
<1>2. Fits(t) /\ DOMAIN t \subseteq Pages /\ IsFiniteSet(DOMAIN t)
  BY <1>1 DEF TreeOK, Closed, Shape
<1>3. p \in DOMAIN t /\ t[p].leaf /\ In(v, p, k) /\ k \in Int
  BY <1>1, LeafIs
<1>4. \A i \in 1 .. Len(t[p].keys) : t[p].keys[i] # k
  <2> SUFFICES ASSUME NEW i \in 1 .. Len(t[p].keys), t[p].keys[i] = k PROVE FALSE
    OBVIOUS
  <2>1. Holds(t[p], <<t[p].keys[i], t[p].vals[i]>>)
    BY DEF Holds
  <2>2. Has(t, <<t[p].keys[i], t[p].vals[i]>>)
    BY <1>3, <2>1 DEF Has
  <2> QED
    BY <2>2
<1> HIDE DEF p
<1>5. /\ Closed(K, x, v) /\ DOMAIN x = DOMAIN t /\ \A q \in DOMAIN t \ {p} : x[q] = t[q]
      /\ x[p].leaf /\ m = Len(t[p].keys) + 1
      /\ \A e : Has(x, e) <=> (Has(t, e) \/ e = <<k, r>>)
  BY <1>1, <1>3, <1>4, InsertIntoLeafIs
<1>6. u = IF Len(t[p].keys) < LeafCapacity THEN x ELSE Climb(s)
  BY DEF Inserted, p
<1> HIDE DEF x, s, m
<1>7. Len(t[p].keys) \in Nat /\ Len(t[p].keys) <= LeafCapacity
  <2>1. t[p].keys \in Seq(K)
    BY <1>1, <1>3 DEF Closed, Shape, NodeOK
  <2>2. Len(t[p].keys) \in Nat
    BY <2>1, LenProperties
  <2> QED
    BY <1>2, <1>3, <2>2 DEF Fits
<1>8. CASE Len(t[p].keys) < LeafCapacity
  <2>1. u = x
    BY <1>6, <1>8
  <2>2. Fits(x)
    <3>1. m <= LeafCapacity
      BY <1>5, <1>7, <1>8
    <3> QED
      BY <1>2, <1>5, <3>1 DEF Fits, m
  <2> QED
    BY <1>2, <1>5, <2>1, <2>2 DEF TreeOK
<1>9. CASE ~(Len(t[p].keys) < LeafCapacity)
  <2>1. u = Climb(s) /\ m = LeafCapacity + 1 /\ m \in Nat /\ m >= 2
    BY <1>5, <1>6, <1>7, <1>9
  <2>2. /\ Dense(t) /\ Cardinality(DOMAIN t) \in Nat /\ Cardinality(DOMAIN t) <= MaxPages
        /\ Cardinality(DOMAIN x) <= 2 * MaxPages /\ MaxPages \in Nat
    <3>1. Dense(t) /\ Cardinality(DOMAIN t) \in Nat /\ Cardinality(DOMAIN t) <= MaxPages
      BY <1>2, PagesAreDense
    <3>2. MaxPages \in Nat
      BY TreeAssumption
    <3> QED
      BY <1>5, <3>1, <3>2
  <2>3. /\ \E w : Open(K, s, w) /\ SplitOf(x, v, s, w, p)
        /\ Len(s.tree[p].keys) = m \div 2
        /\ Len(s.tree[s.right].keys) = m - m \div 2
    <3>1. p \in DOMAIN x /\ Len(x[p].keys) >= 2
      BY <1>3, <1>5, <2>1 DEF m
    <3> QED
      BY <1>5, <2>2, <3>1, SplitLeafIs DEF s, m
  <2>4. PICK w : Open(K, s, w) /\ SplitOf(x, v, s, w, p)
    BY <2>3
  <2> DEFINE z == s.tree
  <2>5. /\ s.left = p /\ DOMAIN z = DOMAIN x \cup {NewPage(x)} /\ s.right = NewPage(x)
        /\ \A q \in DOMAIN x \ {p} : z[q] = x[q]
        /\ z[p].leaf = x[p].leaf /\ z[s.right].leaf = x[p].leaf
        /\ \A e : Has(z, e) <=> Has(x, e)
    BY <2>4 DEF SplitOf
  <2>6. m \div 2 <= LeafCapacity /\ m - m \div 2 <= LeafCapacity
    <3>1. \A c \in Nat : c >= 2 => (c + 1) \div 2 <= c /\ (c + 1) - (c + 1) \div 2 <= c
      OBVIOUS
    <3> QED
      BY <2>1, <3>1
  <2> HIDE DEF z
  <2>7. Fits(z)
    <3>1. ASSUME NEW q \in DOMAIN z
          PROVE  Len(z[q].keys) <= IF z[q].leaf THEN LeafCapacity ELSE InternalCapacity
      <4>1. CASE q = p \/ q = s.right
        BY <1>5, <2>3, <2>5, <2>6, <4>1 DEF z
      <4>2. CASE q # p /\ q # s.right
        <5>1. q \in DOMAIN t \ {p} /\ z[q] = t[q]
          BY <1>5, <2>5, <4>2
        <5> QED
          BY <1>2, <5>1 DEF Fits
      <4> QED
        BY <4>1, <4>2
    <3> QED
      BY <3>1 DEF Fits
  <2>8. Dense(z) /\ IsFiniteSet(DOMAIN z) /\ Cardinality(DOMAIN z) = Cardinality(DOMAIN x) + 1
    <3>1. IsFiniteSet(DOMAIN x) /\ Dense(x)
      BY <1>2, <1>5, <2>2 DEF Dense
    <3> QED
      BY <2>2, <2>5, <3>1, DenseGrows
  <2>9. Cardinality(DOMAIN z) <= MaxPages + 1
    BY <1>5, <2>2, <2>8
  <2>10. Climbing(K, x, MaxPages + 1, 0, s)
    <3>1. s.left # NoPage
      BY <1>1, <1>3, <2>5, NoPageIsNone DEF Closed
    <3>2. w[s.left].height >= 0
      <4>1. Shape(K, z, w, s.right) /\ s.left \in DOMAIN z
        BY <2>4 DEF Open, z
      <4>2. w[s.left].height \in Nat
        BY <4>1, Measures
      <4> QED
        BY <4>2
    <3> QED
      BY <2>4, <2>5, <2>7, <2>8, <2>9, <3>1, <3>2 DEF Climbing, z
  <2>11. /\ \E g : Closed(K, u, g)
         /\ Fits(u) /\ Dense(u) /\ \A e : Has(u, e) <=> Has(x, e)
    BY <2>1, <2>10, ClimbIs
  <2>12. DOMAIN u \subseteq Pages
    <3>1. IsFiniteSet(DOMAIN u)
      BY <2>11 DEF Closed, Shape
    <3> QED
      BY <2>11, <3>1, DenseIsPages
  <2> QED
    BY <1>5, <2>11, <2>12 DEF TreeOK
<1> QED
  BY <1>8, <1>9

-----------------------------------------------------------------------------
(***************************************************************************)
(* Removal.                                                                *)
(***************************************************************************)

\* Two leaves one after the other; the first entry of the second moves over.
Before(ks, ls) == \A i \in 1 .. Len(ks), j \in 1 .. Len(ls) : ks[i] < ls[j]

Lent(K, R, ks, rs, ls, ss, a, b, c, d) ==
  /\ Parallel(K, R, a, b) /\ Len(a) = Len(ks) + 1
  /\ \A j \in 1 .. Len(a) : a[j] = ls[1] \/ \E l \in 1 .. Len(ks) : a[j] = ks[l]
  /\ Parallel(K, R, c, d) /\ Len(c) = Len(ls) - 1
  /\ \A j \in 1 .. Len(c) : j + 1 \in 1 .. Len(ls) /\ c[j] = ls[j + 1]
  /\ \A e : (Paired(a, b, e) \/ Paired(c, d, e)) <=> (Paired(ks, rs, e) \/ Paired(ls, ss, e))

LEMMA PairLent ==
  ASSUME NEW K, K \in SUBSET Int, NEW R, NEW ks, NEW rs, Parallel(K, R, ks, rs),
         NEW ls, NEW ss, Parallel(K, R, ls, ss), Len(ls) >= 1, Before(ks, ls)
  PROVE  Lent(K, R, ks, rs, ls, ss, Append(ks, Head(ls)), Append(rs, Head(ss)), Tail(ls), Tail(ss))
<1> DEFINE a == Append(ks, Head(ls))
           b == Append(rs, Head(ss))
           c == Tail(ls)
           d == Tail(ss)
<1>0. /\ ks \in Seq(K) /\ rs \in Seq(R) /\ Len(rs) = Len(ks) /\ Ascending(ks)
      /\ ls \in Seq(K) /\ ss \in Seq(R) /\ Len(ss) = Len(ls) /\ Ascending(ls)
  BY DEF Parallel
<1>1. /\ Len(ks) \in Nat /\ \A j \in 1 .. Len(ks) : ks[j] \in K /\ ks[j] \in Int
      /\ Len(ls) \in Nat /\ \A j \in 1 .. Len(ls) : ls[j] \in K /\ ls[j] \in Int
  BY <1>0, KeysAre
<1>2. ls # <<>> /\ ss # <<>> /\ Head(ls) = ls[1] /\ Head(ss) = ss[1] /\ ls[1] \in K /\ ss[1] \in R
  <2>1. Len(ls) >= 1 /\ Len(ss) >= 1
    BY <1>0
  <2>2. ls # <<>> /\ ss # <<>>
    BY <2>1
  <2> QED
    BY <1>0, <2>1, <2>2
<1>3. /\ a \in Seq(K) /\ Len(a) = Len(ks) + 1 /\ \A j \in 1 .. Len(ks) + 1 : a[j] = IF j <= Len(ks) THEN ks[j] ELSE ls[1]
      /\ b \in Seq(R) /\ Len(b) = Len(ks) + 1 /\ \A j \in 1 .. Len(ks) + 1 : b[j] = IF j <= Len(ks) THEN rs[j] ELSE ss[1]
  BY <1>0, <1>1, <1>2
<1>4. /\ c \in Seq(K) /\ Len(c) = Len(ls) - 1 /\ \A j \in 1 .. Len(ls) - 1 : c[j] = ls[j + 1]
      /\ d \in Seq(R) /\ Len(d) = Len(ls) - 1 /\ \A j \in 1 .. Len(ls) - 1 : d[j] = ss[j + 1]
  BY <1>0, <1>1, <1>2
<1> HIDE DEF a, b, c, d
<1>5. Ascending(a)
  <2> SUFFICES ASSUME NEW i \in 1 .. Len(a), NEW j \in 1 .. Len(a), i < j PROVE a[i] < a[j]
    BY DEF Ascending
  <2>1. i \in 1 .. Len(ks) /\ a[i] = ks[i]
    BY <1>1, <1>3
  <2>2. CASE j <= Len(ks)
    BY <1>0, <1>1, <1>3, <2>1, <2>2 DEF Ascending
  <2>3. CASE ~(j <= Len(ks))
    <3>1. a[j] = ls[1] /\ 1 \in 1 .. Len(ls)
      BY <1>1, <1>3, <2>3
    <3> QED
      BY <2>1, <3>1 DEF Before
  <2> QED
    BY <2>2, <2>3
<1>6. Ascending(c)
  <2> SUFFICES ASSUME NEW i \in 1 .. Len(c), NEW j \in 1 .. Len(c), i < j PROVE c[i] < c[j]
    BY DEF Ascending
  <2>1. i + 1 \in 1 .. Len(ls) /\ j + 1 \in 1 .. Len(ls) /\ i + 1 < j + 1 /\ c[i] = ls[i + 1] /\ c[j] = ls[j + 1]
    BY <1>1, <1>4
  <2> QED
    BY <1>0, <2>1 DEF Ascending
<1>7. ASSUME NEW e PROVE (Paired(a, b, e) \/ Paired(c, d, e)) <=> (Paired(ks, rs, e) \/ Paired(ls, ss, e))
  <2>1. ASSUME NEW j \in 1 .. Len(ks), e = <<ks[j], rs[j]>> PROVE Paired(a, b, e)
    <3>1. j \in 1 .. Len(a) /\ a[j] = ks[j] /\ b[j] = rs[j]
      BY <1>1, <1>3
    <3> QED
      BY <2>1, <3>1 DEF Paired
  <2>2. ASSUME NEW j \in 1 .. Len(ls), e = <<ls[j], ss[j]>> PROVE Paired(a, b, e) \/ Paired(c, d, e)
    <3>1. CASE j = 1
      <4>1. Len(ks) + 1 \in 1 .. Len(a) /\ a[Len(ks) + 1] = ls[1] /\ b[Len(ks) + 1] = ss[1]
        BY <1>1, <1>3
      <4> QED
        BY <2>2, <3>1, <4>1 DEF Paired
    <3>2. CASE j # 1
      <4>1. j - 1 \in 1 .. Len(c) /\ (j - 1) + 1 = j
        BY <1>1, <1>4, <3>2
      <4>2. c[j - 1] = ls[j] /\ d[j - 1] = ss[j]
        BY <1>4, <4>1
      <4> QED
        BY <2>2, <4>1, <4>2 DEF Paired
    <3> QED
      BY <3>1, <3>2
  <2>3. ASSUME NEW j \in 1 .. Len(a), e = <<a[j], b[j]>> PROVE Paired(ks, rs, e) \/ Paired(ls, ss, e)
    <3>1. CASE j <= Len(ks)
      <4>1. j \in 1 .. Len(ks) /\ a[j] = ks[j] /\ b[j] = rs[j]
        BY <1>1, <1>3, <3>1
      <4> QED
        BY <2>3, <4>1 DEF Paired
    <3>2. CASE ~(j <= Len(ks))
      <4>1. 1 \in 1 .. Len(ls) /\ a[j] = ls[1] /\ b[j] = ss[1]
        BY <1>1, <1>3, <3>2
      <4> QED
        BY <2>3, <4>1 DEF Paired
    <3> QED
      BY <3>1, <3>2
  <2>4. ASSUME NEW j \in 1 .. Len(c), e = <<c[j], d[j]>> PROVE Paired(ls, ss, e)
    <3>1. j + 1 \in 1 .. Len(ls) /\ c[j] = ls[j + 1] /\ d[j] = ss[j + 1]
      BY <1>1, <1>4
    <3> QED
      BY <2>4, <3>1 DEF Paired
  <2> QED
    BY <2>1, <2>2, <2>3, <2>4 DEF Paired
<1>8. Parallel(K, R, a, b) /\ Parallel(K, R, c, d)
  <2>1. Len(b) = Len(a) /\ Len(d) = Len(c)
    BY <1>3, <1>4
  <2> QED
    BY <1>3, <1>4, <1>5, <1>6, <2>1 DEF Parallel
<1>9. \A j \in 1 .. Len(a) : a[j] = ls[1] \/ \E l \in 1 .. Len(ks) : a[j] = ks[l]
  <2> TAKE j \in 1 .. Len(a)
  <2>1. CASE j <= Len(ks)
    BY <1>1, <1>3, <2>1
  <2>2. CASE ~(j <= Len(ks))
    BY <1>1, <1>3, <2>2
  <2> QED
    BY <2>1, <2>2
<1>10. \A j \in 1 .. Len(c) : j + 1 \in 1 .. Len(ls) /\ c[j] = ls[j + 1]
  BY <1>1, <1>4
<1>11. Len(a) = Len(ks) + 1 /\ Len(c) = Len(ls) - 1
  BY <1>3, <1>4
<1>12. Lent(K, R, ks, rs, ls, ss, a, b, c, d)
  BY <1>7, <1>8, <1>9, <1>10, <1>11 DEF Lent
<1> QED
  BY <1>12 DEF a, b, c, d

Joined(K, R, ks, rs, ls, ss, a, b) ==
  /\ Parallel(K, R, a, b) /\ Len(a) = Len(ks) + Len(ls)
  /\ \A j \in 1 .. Len(a) : \/ \E l \in 1 .. Len(ks) : a[j] = ks[l]
                            \/ \E l \in 1 .. Len(ls) : a[j] = ls[l]
  /\ \A e : Paired(a, b, e) <=> (Paired(ks, rs, e) \/ Paired(ls, ss, e))

LEMMA PairJoined ==
  ASSUME NEW K, K \in SUBSET Int, NEW R, NEW ks, NEW rs, Parallel(K, R, ks, rs),
         NEW ls, NEW ss, Parallel(K, R, ls, ss), Before(ks, ls)
  PROVE  Joined(K, R, ks, rs, ls, ss, ks \o ls, rs \o ss)
<1> DEFINE a == ks \o ls
           b == rs \o ss
<1>0. /\ ks \in Seq(K) /\ rs \in Seq(R) /\ Len(rs) = Len(ks) /\ Ascending(ks)
      /\ ls \in Seq(K) /\ ss \in Seq(R) /\ Len(ss) = Len(ls) /\ Ascending(ls)
  BY DEF Parallel
<1>1. /\ Len(ks) \in Nat /\ \A j \in 1 .. Len(ks) : ks[j] \in K /\ ks[j] \in Int
      /\ Len(ls) \in Nat /\ \A j \in 1 .. Len(ls) : ls[j] \in K /\ ls[j] \in Int
  BY <1>0, KeysAre
<1>20. Joint(K, ks, ls, a) /\ Joint(R, rs, ss, b)
  BY ONLY <1>0, JointIs
<1> HIDE DEF a, b
<1>2. /\ a \in Seq(K) /\ Len(a) = Len(ks) + Len(ls)
      /\ \A j \in 1 .. Len(ks) + Len(ls) : a[j] = IF j <= Len(ks) THEN ks[j] ELSE ls[j - Len(ks)]
  BY ONLY <1>20 DEF Joint
<1>3. /\ b \in Seq(R) /\ Len(b) = Len(ks) + Len(ls)
      /\ \A j \in 1 .. Len(ks) + Len(ls) : b[j] = IF j <= Len(ks) THEN rs[j] ELSE ss[j - Len(ks)]
  BY ONLY <1>0, <1>20 DEF Joint
<1>4. Ascending(a)
  <2> SUFFICES ASSUME NEW i \in 1 .. Len(a), NEW j \in 1 .. Len(a), i < j PROVE a[i] < a[j]
    BY DEF Ascending
  <2>1. CASE j <= Len(ks)
    <3>1. i \in 1 .. Len(ks) /\ j \in 1 .. Len(ks) /\ a[i] = ks[i] /\ a[j] = ks[j]
      BY <1>1, <1>2, <2>1
    <3> QED
      BY <1>0, <3>1 DEF Ascending
  <2>2. CASE i <= Len(ks) /\ ~(j <= Len(ks))
    <3>1. i \in 1 .. Len(ks) /\ j - Len(ks) \in 1 .. Len(ls) /\ a[i] = ks[i] /\ a[j] = ls[j - Len(ks)]
      BY <1>1, <1>2, <2>2
    <3> QED
      BY <3>1 DEF Before
  <2>3. CASE ~(i <= Len(ks))
    <3>1. /\ i - Len(ks) \in 1 .. Len(ls) /\ j - Len(ks) \in 1 .. Len(ls) /\ i - Len(ks) < j - Len(ks)
          /\ a[i] = ls[i - Len(ks)] /\ a[j] = ls[j - Len(ks)]
      BY <1>1, <1>2, <2>3
    <3> QED
      BY <1>0, <3>1 DEF Ascending
  <2> QED
    BY <1>1, <1>2, <2>1, <2>2, <2>3
<1>5. ASSUME NEW e PROVE Paired(a, b, e) <=> (Paired(ks, rs, e) \/ Paired(ls, ss, e))
  <2>1. ASSUME NEW j \in 1 .. Len(ks), e = <<ks[j], rs[j]>> PROVE Paired(a, b, e)
    <3>1. j \in 1 .. Len(a) /\ a[j] = ks[j] /\ b[j] = rs[j]
      BY <1>1, <1>2, <1>3
    <3> QED
      BY <2>1, <3>1 DEF Paired
  <2>2. ASSUME NEW j \in 1 .. Len(ls), e = <<ls[j], ss[j]>> PROVE Paired(a, b, e)
    <3>1. Len(ks) + j \in 1 .. Len(a) /\ ~(Len(ks) + j <= Len(ks)) /\ (Len(ks) + j) - Len(ks) = j
      BY <1>1, <1>2
    <3>2. a[Len(ks) + j] = ls[j] /\ b[Len(ks) + j] = ss[j]
      BY <1>2, <1>3, <3>1
    <3> QED
      BY <2>2, <3>1, <3>2 DEF Paired
  <2>3. ASSUME NEW j \in 1 .. Len(a), e = <<a[j], b[j]>> PROVE Paired(ks, rs, e) \/ Paired(ls, ss, e)
    <3>1. CASE j <= Len(ks)
      <4>1. j \in 1 .. Len(ks) /\ a[j] = ks[j] /\ b[j] = rs[j]
        BY <1>1, <1>2, <1>3, <3>1
      <4> QED
        BY <2>3, <4>1 DEF Paired
    <3>2. CASE ~(j <= Len(ks))
      <4>1. j - Len(ks) \in 1 .. Len(ls) /\ a[j] = ls[j - Len(ks)] /\ b[j] = ss[j - Len(ks)]
        BY <1>1, <1>2, <1>3, <3>2
      <4> QED
        BY <2>3, <4>1 DEF Paired
    <3> QED
      BY <3>1, <3>2
  <2> QED
    BY <2>1, <2>2, <2>3 DEF Paired
<1>6. \A j \in 1 .. Len(a) : \/ \E l \in 1 .. Len(ks) : a[j] = ks[l]
                             \/ \E l \in 1 .. Len(ls) : a[j] = ls[l]
  <2> TAKE j \in 1 .. Len(a)
  <2>1. CASE j <= Len(ks)
    BY <1>1, <1>2, <2>1
  <2>2. CASE ~(j <= Len(ks))
    <3>1. j - Len(ks) \in 1 .. Len(ls) /\ a[j] = ls[j - Len(ks)]
      BY <1>1, <1>2, <2>2
    <3> QED
      BY <3>1
  <2> QED
    BY <2>1, <2>2
<1>7. Parallel(K, R, a, b) /\ Len(a) = Len(ks) + Len(ls)
  <2>1. Len(b) = Len(a)
    BY <1>2, <1>3
  <2> QED
    BY <1>0, <1>2, <1>3, <1>4, <2>1 DEF Parallel
<1>8. Joined(K, R, ks, rs, ls, ss, a, b)
  BY <1>5, <1>6, <1>7 DEF Joined
<1> QED
  BY <1>8 DEF a, b

\* Leaf r follows leaf p, and both hang from page g, p in the i-th place.
Siblings(t, g, i, p, r) ==
  /\ g \in DOMAIN t /\ ~t[g].leaf /\ i \in 1 .. Len(t[g].keys)
  /\ p \in DOMAIN t /\ r \in DOMAIN t /\ t[p].leaf /\ t[p].next = r
  /\ t[g].vals[i] = p /\ t[g].vals[i + 1] = r

\* Nothing else refers to them.
Apart(t, g, i, p, r) ==
  /\ p # r /\ g # p /\ g # r /\ p # Root /\ r # Root /\ t[r].leaf
  /\ \A q \in DOMAIN t : (t[q].leaf /\ q # p) => t[q].next # r
  /\ \A q \in DOMAIN t : ~t[q].leaf => \A j \in 1 .. Len(t[q].vals) :
       /\ t[q].vals[j] = p => q = g /\ j = i
       /\ t[q].vals[j] = r => q = g /\ j = i + 1

LEMMA SiblingsAre ==
  ASSUME NEW K \in SUBSET Int, NEW t, NEW v, Closed(K, t, v), NEW g, NEW i, NEW p, NEW r,
         Siblings(t, g, i, p, r)
  PROVE  /\ Apart(t, g, i, p, r) /\ Before(t[p].keys, t[r].keys)
         /\ t[g].keys[i] \in Int /\ v[p].hi = From(t[g].keys[i]) /\ v[r].lo = From(t[g].keys[i])
         /\ v[p].hi \subseteq v[p].lo /\ v[r].hi \subseteq v[r].lo
<1> DEFINE key == t[g].keys[i]
<1>1. /\ g \in DOMAIN t /\ ~t[g].leaf /\ i \in 1 .. Len(t[g].keys)
      /\ p \in DOMAIN t /\ r \in DOMAIN t /\ t[p].leaf /\ t[p].next = r
      /\ t[g].vals[i] = p /\ t[g].vals[i + 1] = r
  BY DEF Siblings
<1>2. Shape(K, t, v, NoPage) /\ NoPage \notin DOMAIN t /\ \A q \in DOMAIN t : v[q].far = v[q].hi
  BY NoPageIsNone DEF Closed
<1>3. /\ InnerOK(t, v, NoPage, g) /\ LeafOK(K, t, v, p) /\ NodeOK(K, t, v, g)
      /\ NodeOK(K, t, v, p) /\ NodeOK(K, t, v, r)
  BY <1>1, <1>2 DEF Shape
<1>4. /\ Len(t[g].vals) = Len(t[g].keys) + 1 /\ Len(t[g].keys) \in Nat
      /\ \A j \in 1 .. Len(t[g].keys) : t[g].keys[j] \in K /\ t[g].keys[j] \in Int
  BY <1>3, KeysAre DEF InnerOK, NodeOK
<1>5. /\ i \in 1 .. Len(t[g].vals) /\ i + 1 \in 1 .. Len(t[g].vals) /\ i # Len(t[g].vals)
      /\ i + 1 # 1 /\ (i + 1) - 1 = i /\ i \in Nat
  BY <1>1, <1>4
<1>6. ChildOK(t, v, NoPage, g, i) /\ ChildOK(t, v, NoPage, g, i + 1)
  BY <1>3, <1>5 DEF InnerOK
<1>7. v[p].far = From(key) /\ v[r].lo = From(key) /\ p # Root /\ r # Root
      /\ v[p].height + 1 = v[g].height /\ v[r].height + 1 = v[g].height
  BY <1>1, <1>5, <1>6 DEF ChildOK
<1>8. v[p].hi = From(key) /\ key \in Int /\ \A x \in Int : x \in From(key) <=> key <= x
  BY <1>1, <1>2, <1>4, <1>7, FromIsCut
<1>9. ASSUME NEW q \in DOMAIN t PROVE v[q].hi \subseteq v[q].lo
  <2>1. PICK k \in Int : In(v, q, k)
    BY <1>2, Measures
  <2>2. v[q].lo \in Cuts /\ v[q].hi \in Cuts
    BY <1>2, Measures
  <2>3. ASSUME NEW x \in v[q].hi PROVE x \in v[q].lo
    <3>1. x \in Int
      BY <2>2 DEF Cuts
    <3>2. ~(x <= k)
      BY <2>1, <2>2, <3>1, CutOrder DEF In
    <3> QED
      BY <2>1, <2>2, <3>1, <3>2, CutOrder DEF In
  <2> QED
    BY <2>3
<1>10. Before(t[p].keys, t[r].keys)
  <2> SUFFICES ASSUME NEW a \in 1 .. Len(t[p].keys), NEW b \in 1 .. Len(t[r].keys)
               PROVE  t[p].keys[a] < t[r].keys[b]
    BY DEF Before
  <2>1. In(v, p, t[p].keys[a]) /\ In(v, r, t[r].keys[b])
    BY <1>3 DEF NodeOK
  <2>2. t[p].keys[a] \in Int /\ t[r].keys[b] \in Int
    BY <1>3, KeysAre DEF NodeOK
  <2>3. ~(key <= t[p].keys[a]) /\ key <= t[r].keys[b]
    BY <1>7, <1>8, <2>1, <2>2 DEF In
  <2> QED
    BY <1>8, <2>2, <2>3
<1>11. p # r
  <2>1. PICK k \in Int : In(v, p, k)
    BY <1>1, <1>2, Measures
  <2> QED
    BY <1>7, <1>8, <2>1 DEF In
<1>12. t[r].leaf
  <2>1. t[t[p].next].leaf
    <3>1. v[p].hi # {}
      BY <1>8
    <3> QED
      BY <1>1, <1>3, <3>1 DEF LeafOK
  <2> QED
    BY <1>1, <2>1
<1>13. ASSUME NEW q \in DOMAIN t, t[q].leaf, t[q].next = r PROVE q = p
  <2>1. LeafOK(K, t, v, q)
    BY <1>2, <1>13 DEF Shape
  <2>2. v[q].hi = From(key)
    BY <1>1, <1>2, <1>7, <1>13, <2>1 DEF LeafOK
  <2>3. PICK k \in Int : In(v, q, k)
    BY <1>2, Measures
  <2>4. PICK l \in Int : In(v, p, l)
    BY <1>1, <1>2, Measures
  <2>5. /\ v[q].lo \in Cuts /\ v[p].lo \in Cuts
    BY <1>1, <1>2, Measures
  <2>6. k < key /\ l < key
    BY <1>8, <2>2, <2>3, <2>4 DEF In
  <2>7. PICK m \in Int : k <= m /\ l <= m /\ m < key
    <3>1. CASE k <= l
      BY <2>6, <3>1
    <3>2. CASE ~(k <= l)
      BY <2>6, <3>2
    <3> QED
      BY <3>1, <3>2
  <2>8. m \in v[q].lo /\ m \in v[p].lo /\ m \notin From(key)
    BY <1>8, <2>3, <2>4, <2>5, <2>7, CutOrder DEF In
  <2>9. In(v, q, m) /\ In(v, p, m)
    BY <1>8, <2>2, <2>8 DEF In
  <2> QED
    BY <1>1, <1>13, <2>9, LeafIs
<1>14. ASSUME NEW q \in DOMAIN t, ~t[q].leaf, NEW j \in 1 .. Len(t[q].vals), t[q].vals[j] = p
       PROVE  q = g /\ j = i
  BY <1>1, <1>2, <1>5, <1>14, OneParent
<1>15. ASSUME NEW q \in DOMAIN t, ~t[q].leaf, NEW j \in 1 .. Len(t[q].vals), t[q].vals[j] = r
       PROVE  q = g /\ j = i + 1
  BY <1>1, <1>2, <1>5, <1>15, OneParent
<1>16. Apart(t, g, i, p, r)
  BY <1>1, <1>7, <1>11, <1>12, <1>13, <1>14, <1>15 DEF Apart
<1> QED
  BY <1>1, <1>7, <1>8, <1>9, <1>10, <1>16

\* The leaves p and r of t, the page g and nothing else become other nodes.
Three(t, u, g, p, r, a, b, c, d, ks) ==
  /\ DOMAIN u = DOMAIN t /\ \A q \in DOMAIN t \ {g, p, r} : u[q] = t[q]
  /\ u[p] = Leaf(a, b, t[p].next) /\ u[r] = Leaf(c, d, t[r].next) /\ u[g] = Inner(ks, t[g].vals)

LEMMA BorrowIsThree ==
  ASSUME NEW K \in SUBSET Int, NEW t, NEW v, Closed(K, t, v), NEW g, NEW i, NEW p, NEW r,
         Siblings(t, g, i, p, r), Apart(t, g, i, p, r)
  PROVE  Three(t, Borrow(t, g, i, p, r), g, p, r,
               Append(t[p].keys, Head(t[r].keys)), Append(t[p].vals, Head(t[r].vals)),
               Tail(t[r].keys), Tail(t[r].vals), [t[g].keys EXCEPT ![i] = t[r].keys[2]])
<1>1. g \in DOMAIN t /\ p \in DOMAIN t /\ r \in DOMAIN t /\ ~t[g].leaf
  BY DEF Siblings
<1>2. p # r /\ g # p /\ g # r
  BY DEF Apart
<1>3. NodeOK(K, t, v, g) /\ InnerOK(t, v, NoPage, g)
  BY <1>1 DEF Closed, Shape
<1>4. /\ t[g] = [leaf |-> t[g].leaf, keys |-> t[g].keys, vals |-> t[g].vals, next |-> t[g].next]
      /\ t[g].leaf = FALSE /\ t[g].next = NoPage
  BY <1>1, <1>3 DEF NodeOK, InnerOK
<1> QED
  BY <1>1, <1>2, <1>4 DEF Three, Borrow, Inner

\* A loan between siblings moves the border between their intervals.
LEMMA BorrowIs ==
  ASSUME NEW K \in SUBSET Int, NEW t, NEW v, Closed(K, t, v), NEW g, NEW i, NEW p, NEW r,
         Siblings(t, g, i, p, r), Len(t[r].keys) >= 2, NEW u, u = Borrow(t, g, i, p, r)
  PROVE  /\ \E w : Closed(K, u, w)
         /\ DOMAIN u = DOMAIN t /\ \A q \in DOMAIN t \ {g, p, r} : u[q] = t[q]
         /\ u[p].leaf /\ Len(u[p].keys) = Len(t[p].keys) + 1
         /\ u[r].leaf /\ Len(u[r].keys) = Len(t[r].keys) - 1
         /\ ~u[g].leaf /\ Len(u[g].keys) = Len(t[g].keys)
         /\ \A e : Has(u, e) <=> Has(t, e)
<1>1. /\ g \in DOMAIN t /\ ~t[g].leaf /\ i \in 1 .. Len(t[g].keys)
      /\ p \in DOMAIN t /\ r \in DOMAIN t /\ t[p].leaf /\ t[p].next = r
      /\ t[g].vals[i] = p /\ t[g].vals[i + 1] = r
  BY DEF Siblings
<1>2. /\ Apart(t, g, i, p, r) /\ Before(t[p].keys, t[r].keys)
      /\ t[g].keys[i] \in Int /\ v[p].hi = From(t[g].keys[i]) /\ v[r].lo = From(t[g].keys[i])
      /\ v[p].hi \subseteq v[p].lo /\ v[r].hi \subseteq v[r].lo
  BY SiblingsAre
<1>3. /\ p # r /\ g # p /\ g # r /\ p # Root /\ r # Root /\ t[r].leaf
      /\ \A q \in DOMAIN t : (t[q].leaf /\ q # p) => t[q].next # r
      /\ \A q \in DOMAIN t : ~t[q].leaf => \A j \in 1 .. Len(t[q].vals) :
           /\ t[q].vals[j] = p => q = g /\ j = i
           /\ t[q].vals[j] = r => q = g /\ j = i + 1
  BY <1>2 DEF Apart
<1>4. Shape(K, t, v, NoPage) /\ NoPage \notin DOMAIN t /\ \A q \in DOMAIN t : v[q].far = v[q].hi
  BY NoPageIsNone DEF Closed
<1>5. /\ InnerOK(t, v, NoPage, g) /\ NodeOK(K, t, v, g)
      /\ LeafOK(K, t, v, p) /\ NodeOK(K, t, v, p)
      /\ LeafOK(K, t, v, r) /\ NodeOK(K, t, v, r)
      /\ IsFiniteSet(DOMAIN t) /\ DOMAIN t \in SUBSET Nat /\ Root \in DOMAIN t /\ Measured(t, v)
  BY <1>1, <1>3, <1>4 DEF Shape
<1>6. /\ Parallel(K, RidsOf(K), t[p].keys, t[p].vals) /\ Parallel(K, RidsOf(K), t[r].keys, t[r].vals)
  BY <1>5 DEF NodeOK, LeafOK, Parallel
<1>7. /\ t[g].keys \in Seq(K) /\ Ascending(t[g].keys) /\ Len(t[g].keys) \in Nat
      /\ \A j \in 1 .. Len(t[g].keys) : t[g].keys[j] \in K /\ t[g].keys[j] \in Int
      /\ t[g].vals \in Seq(Nat) /\ Len(t[g].vals) = Len(t[g].keys) + 1
  BY <1>5, KeysAre DEF NodeOK, InnerOK
<1>8. /\ t[r].keys \in Seq(K) /\ Ascending(t[r].keys) /\ Len(t[r].keys) \in Nat
      /\ \A j \in 1 .. Len(t[r].keys) : t[r].keys[j] \in K /\ t[r].keys[j] \in Int
  BY <1>5, KeysAre DEF NodeOK
<1>9. PICK k1, k2 : k1 = t[r].keys[1] /\ k2 = t[r].keys[2]
  OBVIOUS
<1>10. /\ 1 \in 1 .. Len(t[r].keys) /\ 2 \in 1 .. Len(t[r].keys) /\ k1 \in K /\ k2 \in K
       /\ k1 \in Int /\ k2 \in Int /\ k1 < k2 /\ From(k2) \in Cuts
       /\ \A x \in Int : x \in From(k2) <=> k2 <= x
  <2>1. 1 \in 1 .. Len(t[r].keys) /\ 2 \in 1 .. Len(t[r].keys)
    BY <1>8
  <2>2. k1 \in K /\ k2 \in K /\ k1 \in Int /\ k2 \in Int
    BY <1>8, <1>9, <2>1
  <2>3. k1 < k2
    BY <1>8, <1>9, <2>1 DEF Ascending
  <2> QED
    BY <2>1, <2>2, <2>3, FromIsCut
<1>11. PICK a, b, c, d, ks :
         /\ a = Append(t[p].keys, Head(t[r].keys)) /\ b = Append(t[p].vals, Head(t[r].vals))
         /\ c = Tail(t[r].keys) /\ d = Tail(t[r].vals) /\ ks = [t[g].keys EXCEPT ![i] = k2]
  OBVIOUS
<1>12. Three(t, u, g, p, r, a, b, c, d, ks)
  <2>1. Three(t, Borrow(t, g, i, p, r), g, p, r,
               Append(t[p].keys, Head(t[r].keys)), Append(t[p].vals, Head(t[r].vals)),
               Tail(t[r].keys), Tail(t[r].vals), [t[g].keys EXCEPT ![i] = t[r].keys[2]])
    BY <1>2, BorrowIsThree
  <2> QED
    BY <1>9, <1>11, <2>1
<1>13. /\ DOMAIN u = DOMAIN t /\ \A q \in DOMAIN t \ {g, p, r} : u[q] = t[q]
       /\ u[p] = Leaf(a, b, t[p].next) /\ u[r] = Leaf(c, d, t[r].next) /\ u[g] = Inner(ks, t[g].vals)
  BY <1>12 DEF Three
<1>14. /\ Parallel(K, RidsOf(K), a, b) /\ Len(a) = Len(t[p].keys) + 1
       /\ \A j \in 1 .. Len(a) : a[j] = k1 \/ \E l \in 1 .. Len(t[p].keys) : a[j] = t[p].keys[l]
       /\ Parallel(K, RidsOf(K), c, d) /\ Len(c) = Len(t[r].keys) - 1
       /\ \A j \in 1 .. Len(c) : j + 1 \in 1 .. Len(t[r].keys) /\ c[j] = t[r].keys[j + 1]
       /\ \A e : (Paired(a, b, e) \/ Paired(c, d, e))
                   <=> (Paired(t[p].keys, t[p].vals, e) \/ Paired(t[r].keys, t[r].vals, e))
  <2>1. Len(t[r].keys) >= 1
    BY <1>8
  <2>2. Before(t[p].keys, t[r].keys) /\ K \in SUBSET Int
    BY <1>2
  <2>3. Lent(K, RidsOf(K), t[p].keys, t[p].vals, t[r].keys, t[r].vals,
             Append(t[p].keys, Head(t[r].keys)), Append(t[p].vals, Head(t[r].vals)),
             Tail(t[r].keys), Tail(t[r].vals))
    BY ONLY <1>6, <2>1, <2>2, PairLent
  <2>4. Lent(K, RidsOf(K), t[p].keys, t[p].vals, t[r].keys, t[r].vals, a, b, c, d)
    BY ONLY <1>11, <2>3
  <2> QED
    BY ONLY <1>9, <2>4 DEF Lent
<1>15. /\ ks \in Seq(K) /\ Len(ks) = Len(t[g].keys) /\ ks[i] = k2
       /\ \A j \in 1 .. Len(t[g].keys) : j # i => ks[j] = t[g].keys[j]
  BY <1>1, <1>7, <1>10, <1>11
<1>16. /\ u[p].leaf = TRUE /\ u[p].keys = a /\ u[p].vals = b /\ u[p].next = r
       /\ u[r].leaf = TRUE /\ u[r].keys = c /\ u[r].vals = d /\ u[r].next = t[r].next
       /\ u[g].leaf = FALSE /\ u[g].keys = ks /\ u[g].vals = t[g].vals /\ u[g].next = NoPage
       /\ u[p] = [leaf |-> u[p].leaf, keys |-> u[p].keys, vals |-> u[p].vals, next |-> u[p].next]
       /\ u[r] = [leaf |-> u[r].leaf, keys |-> u[r].keys, vals |-> u[r].vals, next |-> u[r].next]
       /\ u[g] = [leaf |-> u[g].leaf, keys |-> u[g].keys, vals |-> u[g].vals, next |-> u[g].next]
  BY <1>1, <1>13 DEF Leaf, Inner
<1>17. PICK w :
         w = [q \in DOMAIN t |->
                IF q = p THEN [height |-> v[p].height, lo |-> v[p].lo, hi |-> From(k2), far |-> From(k2)]
                ELSE IF q = r THEN [height |-> v[r].height, lo |-> From(k2), hi |-> v[r].hi, far |-> v[r].far]
                ELSE v[q]]
  OBVIOUS
<1>18. /\ w[p] = [height |-> v[p].height, lo |-> v[p].lo, hi |-> From(k2), far |-> From(k2)]
       /\ w[r] = [height |-> v[r].height, lo |-> From(k2), hi |-> v[r].hi, far |-> v[r].far]
       /\ \A q \in DOMAIN t \ {p, r} : w[q] = v[q]
       /\ DOMAIN w = DOMAIN t /\ w = [q \in DOMAIN w |-> w[q]]
  BY <1>1, <1>3, <1>17
<1>19. /\ w[p].height = v[p].height /\ w[p].lo = v[p].lo /\ w[p].hi = From(k2) /\ w[p].far = From(k2)
       /\ w[r].height = v[r].height /\ w[r].lo = From(k2) /\ w[r].hi = v[r].hi /\ w[r].far = v[r].far
       /\ w[g] = v[g]
  BY <1>1, <1>3, <1>18
<1>20. ASSUME NEW q \in DOMAIN t PROVE w[q].height = v[q].height /\ u[q].leaf = t[q].leaf
  <2>1. t[p].leaf = TRUE /\ t[r].leaf = TRUE /\ t[g].leaf = FALSE
    BY <1>1, <1>3, <1>5 DEF NodeOK
  <2>2. CASE q \in {g, p, r}
    BY <1>16, <1>19, <2>1, <2>2
  <2>3. CASE q \notin {g, p, r}
    BY <1>13, <1>18, <2>3
  <2> QED
    BY <2>2, <2>3
<1>21. /\ v[p].lo \in Cuts /\ v[r].lo \in Cuts /\ v[p].hi \in Cuts /\ v[r].hi \in Cuts
       /\ v[p].height \in Nat /\ v[r].height \in Nat
  BY <1>1, <1>4, Measures
<1>22. In(v, r, k1) /\ In(v, r, k2)
  BY <1>5, <1>9, <1>10 DEF NodeOK
<1>23. k1 \in v[p].lo
  BY <1>2, <1>22 DEF In
<1>24. Measured(u, w)
  <2>1. /\ v \in [DOMAIN t -> [height : Nat, lo : Cuts, hi : Cuts, far : Cuts]]
        /\ \A q \in DOMAIN t : /\ v[q].height <= v[Root].height
                               /\ v[q].far \subseteq v[q].hi /\ \E k \in Int : In(v, q, k)
        /\ v[Root].lo = Int /\ v[Root].far = {}
    BY <1>5 DEF Measured
  <2>2. ASSUME NEW q \in DOMAIN t
        PROVE  /\ w[q] \in [height : Nat, lo : Cuts, hi : Cuts, far : Cuts]
               /\ w[q].far \subseteq w[q].hi /\ \E k \in Int : In(w, q, k)
    <3>1. CASE q = p
      <4>1. In(w, p, k1)
        BY <1>10, <1>19, <1>23 DEF In
      <4> QED
        BY <1>10, <1>18, <1>21, <3>1, <4>1
    <3>2. CASE q = r
      <4>1. In(w, r, k2)
        BY <1>10, <1>19, <1>22 DEF In
      <4>2. v[r].far \in Cuts /\ v[r].far \subseteq v[r].hi
        BY <1>1, <1>4, Measures
      <4> QED
        BY <1>10, <1>18, <1>21, <3>2, <4>1, <4>2
    <3>3. CASE q # p /\ q # r
      <4>1. w[q] = v[q]
        BY <1>18, <3>3
      <4> QED
        BY <2>1, <4>1 DEF In
    <3> QED
      BY <3>1, <3>2, <3>3
  <2>3. w \in [DOMAIN u -> [height : Nat, lo : Cuts, hi : Cuts, far : Cuts]]
    BY <1>13, <1>18, <2>2
  <2>4. w[Root].lo = Int /\ w[Root].far = {} /\ w[Root].height = v[Root].height
    BY <1>3, <1>5, <1>18, <2>1
  <2>5. \A q \in DOMAIN u : w[q].height <= w[Root].height
    BY <1>13, <1>20, <2>1, <2>4
  <2> QED
    BY <1>13, <2>2, <2>3, <2>4, <2>5 DEF Measured
<1>25. PageOK(K, u, w, NoPage, p)
  <2>1. ASSUME NEW j \in 1 .. Len(a) PROVE In(w, p, a[j])
    <3>1. CASE a[j] = k1
      BY <1>10, <1>19, <1>23, <3>1 DEF In
    <3>2. CASE \E l \in 1 .. Len(t[p].keys) : a[j] = t[p].keys[l]
      <4>1. PICK l \in 1 .. Len(t[p].keys) : a[j] = t[p].keys[l]
        BY <3>2
      <4>2. In(v, p, a[j]) /\ a[j] < k1
        BY <1>2, <1>5, <1>9, <1>10, <4>1 DEF NodeOK, Before
      <4>3. a[j] \in Int
        BY <1>5, <4>1, KeysAre DEF NodeOK
      <4> QED
        BY <1>10, <1>19, <4>2, <4>3 DEF In
    <3> QED
      BY <1>14, <3>1, <3>2
  <2>2. NodeOK(K, u, w, p)
    BY <1>14, <1>16, <2>1 DEF NodeOK, Parallel
  <2>3. LeafOK(K, u, w, p)
    <3>1. w[p].height = 0 /\ u[p].vals \in Seq(RidsOf(K)) /\ Len(u[p].vals) = Len(u[p].keys)
      BY <1>5, <1>14, <1>16, <1>19 DEF LeafOK, Parallel
    <3>2. u[p].next \in DOMAIN u /\ u[u[p].next].leaf /\ w[u[p].next].lo = w[p].hi /\ w[p].hi # {}
      BY <1>1, <1>10, <1>13, <1>16, <1>19
    <3> QED
      BY <3>1, <3>2 DEF LeafOK
  <2> QED
    BY <1>16, <2>2, <2>3 DEF PageOK
<1>26. PageOK(K, u, w, NoPage, r)
  <2>1. ASSUME NEW j \in 1 .. Len(c) PROVE In(w, r, c[j])
    <3>1. j + 1 \in 1 .. Len(t[r].keys) /\ c[j] = t[r].keys[j + 1]
      BY <1>14
    <3>2. In(v, r, c[j]) /\ c[j] \in Int
      BY <1>5, <1>8, <3>1 DEF NodeOK
    <3>3. k2 <= c[j]
      <4>1. CASE j = 1
        BY <1>9, <1>10, <3>1, <4>1
      <4>2. CASE j # 1
        <5>1. 2 < j + 1
          BY <4>2
        <5>2. k2 < c[j]
          BY <1>8, <1>9, <1>10, <3>1, <5>1 DEF Ascending
        <5> QED
          BY <1>10, <3>2, <5>2
      <4> QED
        BY <4>1, <4>2
    <3> QED
      BY <1>10, <1>19, <3>2, <3>3 DEF In
  <2>2. NodeOK(K, u, w, r)
    BY <1>14, <1>16, <2>1 DEF NodeOK, Parallel
  <2>3. LeafOK(K, u, w, r)
    <3>1. w[r].height = 0 /\ u[r].vals \in Seq(RidsOf(K)) /\ Len(u[r].vals) = Len(u[r].keys)
      BY <1>5, <1>14, <1>16, <1>19 DEF LeafOK, Parallel
    <3>2. CASE v[r].hi = {}
      BY <1>5, <1>16, <1>19, <3>1, <3>2 DEF LeafOK
    <3>3. CASE v[r].hi # {}
      <4>1. t[r].next \in DOMAIN t /\ t[t[r].next].leaf /\ v[t[r].next].lo = v[r].hi
        BY <1>5, <3>3 DEF LeafOK
      <4>2. t[r].next # r /\ t[r].next # p
        <5>1. t[r].next # r
          BY <1>1, <1>3
        <5>2. k1 \in v[p].lo /\ ~(k1 \in v[r].hi)
          BY <1>22, <1>23 DEF In
        <5> QED
          BY <4>1, <5>1, <5>2
      <4>3. w[t[r].next].lo = v[r].hi /\ u[t[r].next].leaf
        BY <1>18, <1>20, <4>1, <4>2
      <4> QED
        BY <1>13, <1>16, <1>19, <3>1, <3>3, <4>1, <4>3 DEF LeafOK
    <3> QED
      BY <3>2, <3>3
  <2> QED
    BY <1>16, <2>2, <2>3 DEF PageOK
<1>27. PageOK(K, u, w, NoPage, g)
  <2>1. In(v, g, k2)
    <3>1. i + 1 \in 1 .. Len(t[g].vals)
      BY <1>1, <1>7
    <3>2. Under(v, t[g].vals[i + 1], k2)
      BY <1>1, <1>4, <1>22 DEF In, Under
    <3> QED
      BY <1>1, <1>4, <1>10, <3>1, <3>2, ChildIn
  <2>2. t[g].keys[i] <= k1
    <3>1. k1 \in From(t[g].keys[i])
      BY <1>2, <1>22 DEF In
    <3> QED
      BY <3>1 DEF From
  <2>3. ASSUME NEW j \in 1 .. Len(t[g].keys), i < j PROVE k2 < t[g].keys[j]
    <3>1. i + 1 \in 1 .. Len(t[g].keys) /\ i + 1 # Len(t[g].vals) /\ i + 1 \in 1 .. Len(t[g].vals)
      <4>1. i \in Nat /\ 1 <= i /\ Len(t[g].keys) \in Nat /\ Len(t[g].vals) = Len(t[g].keys) + 1
        BY <1>1, <1>7
      <4> QED
        BY ONLY <2>3, <4>1, j \in 1 .. Len(t[g].keys)
    <3>2. v[r].far = From(t[g].keys[i + 1])
      BY <1>1, <1>5, <3>1 DEF InnerOK, ChildOK
    <3>3. ~(t[g].keys[i + 1] <= k2)
      BY <1>1, <1>4, <1>10, <1>22, <3>2 DEF In, From
    <3>4. j = i + 1 \/ i + 1 < j
      BY <1>1, <1>7, <2>3
    <3>5. j = i + 1 \/ t[g].keys[i + 1] < t[g].keys[j]
      BY <1>7, <3>1, <3>4 DEF Ascending
    <3>6. t[g].keys[i + 1] \in Int /\ t[g].keys[j] \in Int
      BY ONLY <1>7, <3>1, j \in 1 .. Len(t[g].keys)
    <3> QED
      BY ONLY <1>10, <3>3, <3>5, <3>6
  <2>4. ASSUME NEW j \in 1 .. Len(t[g].keys), j < i PROVE t[g].keys[j] < k2
    <3>1. t[g].keys[j] < t[g].keys[i]
      BY <1>1, <1>7, <2>4 DEF Ascending
    <3>2. t[g].keys[j] \in Int /\ t[g].keys[i] \in Int /\ k1 \in Int /\ k2 \in Int /\ k1 < k2
      BY <1>1, <1>7, <1>10
    <3> QED
      BY ONLY <2>2, <3>1, <3>2
  <2>5. Ascending(ks)
    <3> SUFFICES ASSUME NEW x \in 1 .. Len(t[g].keys), NEW y \in 1 .. Len(t[g].keys), x < y PROVE ks[x] < ks[y]
      BY <1>15 DEF Ascending
    <3>1. CASE x = i
      BY <1>15, <2>3, <3>1
    <3>2. CASE y = i
      BY <1>15, <2>4, <3>2
    <3>3. CASE x # i /\ y # i
      BY <1>7, <1>15, <3>3 DEF Ascending
    <3> QED
      BY <3>1, <3>2, <3>3
  <2>6. ASSUME NEW j \in 1 .. Len(ks) PROVE In(w, g, ks[j])
    <3>1. CASE j = i
      BY <1>15, <1>19, <2>1, <3>1 DEF In
    <3>2. CASE j # i
      <4>1. ks[j] = t[g].keys[j] /\ j \in 1 .. Len(t[g].keys)
        BY <1>15, <3>2
      <4> QED
        BY <1>5, <1>19, <4>1 DEF NodeOK, In
    <3> QED
      BY <3>1, <3>2
  <2>7. NodeOK(K, u, w, g)
    BY <1>15, <1>16, <2>5, <2>6 DEF NodeOK
  <2>8. ASSUME NEW j \in 1 .. Len(t[g].vals) PROVE ChildOK(u, w, NoPage, g, j)
    <3>1. ChildOK(t, v, NoPage, g, j)
      BY <1>5 DEF InnerOK
    <3>2. i \in Nat /\ j \in Nat /\ i # Len(t[g].vals) /\ i + 1 # 1 /\ (i + 1) - 1 = i
      BY <1>1, <1>7
    <3>3. CASE j = i
      <4>1. /\ p \in DOMAIN t \ {Root, NoPage} /\ v[p].height + 1 = v[g].height
            /\ v[p].lo = (IF i = 1 THEN v[g].lo ELSE From(t[g].keys[i - 1]))
        BY <1>1, <3>1, <3>3 DEF ChildOK
      <4>2. i # 1 => ks[i - 1] = t[g].keys[i - 1]
        <5>1. i \in 1 .. Len(t[g].keys) /\ Len(t[g].keys) \in Nat
          BY <1>1, <1>7
        <5>2. i # 1 => i - 1 \in 1 .. Len(t[g].keys) /\ i - 1 # i
          BY ONLY <5>1
        <5> QED
          BY <1>15, <5>2
      <4> QED
        BY <1>1, <1>13, <1>15, <1>16, <1>19, <3>2, <3>3, <4>1, <4>2 DEF ChildOK
    <3>4. CASE j = i + 1
      <4>1. /\ r \in DOMAIN t \ {Root, NoPage} /\ v[r].height + 1 = v[g].height
            /\ v[r].far = (IF j = Len(t[g].vals) THEN v[g].hi ELSE From(t[g].keys[j]))
        BY <1>1, <3>1, <3>4 DEF ChildOK
      <4>2. j # Len(t[g].vals) => ks[j] = t[g].keys[j]
        <5>1. j # Len(t[g].vals) => j \in 1 .. Len(t[g].keys) /\ j # i
          BY <1>1, <1>7, <3>4
        <5> QED
          BY <1>15, <5>1
      <4> QED
        BY <1>1, <1>13, <1>15, <1>16, <1>19, <3>2, <3>4, <4>1, <4>2 DEF ChildOK
    <3>5. CASE j # i /\ j # i + 1
      <4>1. t[g].vals[j] \in DOMAIN t \ {Root, NoPage, p, r}
        BY <1>1, <1>3, <3>1, <3>5 DEF ChildOK
      <4>2. w[t[g].vals[j]] = v[t[g].vals[j]]
        BY <1>18, <4>1
      <4>3. j # Len(t[g].vals) => ks[j] = t[g].keys[j]
        <5>1. j # Len(t[g].vals) => j \in 1 .. Len(t[g].keys)
          BY <1>7
        <5> QED
          BY <1>15, <3>5, <5>1
      <4>4. j # 1 => ks[j - 1] = t[g].keys[j - 1]
        <5>1. j # 1 => j - 1 \in 1 .. Len(t[g].keys) /\ j - 1 # i
          BY <1>7, <3>2, <3>5
        <5> QED
          BY <1>15, <5>1
      <4> QED
        BY <1>13, <1>16, <1>19, <3>1, <4>1, <4>2, <4>3, <4>4 DEF ChildOK
    <3> QED
      BY <3>3, <3>4, <3>5
  <2>9. InnerOK(u, w, NoPage, g)
    BY <1>7, <1>15, <1>16, <2>8 DEF InnerOK
  <2> QED
    BY <1>16, <2>7, <2>9 DEF PageOK
<1>28. ASSUME NEW q \in DOMAIN t \ {g, p, r} PROVE PageOK(K, u, w, NoPage, q)
  <2>1. (t[q].leaf => LeafOK(K, t, v, q)) /\ (~t[q].leaf => InnerOK(t, v, NoPage, q))
    BY <1>4 DEF Shape
  <2>2. u[q] = t[q] /\ w[q].height = v[q].height /\ w[q].lo = v[q].lo /\ w[q].hi = v[q].hi
    BY <1>13, <1>18
  <2>3. ASSUME t[q].leaf, t[q].next # NoPage PROVE SameAfter(t, v, u, w, t[q].next)
    <3>1. t[q].next \in DOMAIN t
      BY <1>4, <2>3, NextIsNotRoot
    <3>2. t[q].next # r
      BY <1>3, <2>3
    <3>3. w[t[q].next].lo = v[t[q].next].lo
      <4>1. CASE t[q].next = p
        BY <1>19, <4>1
      <4>2. CASE t[q].next # p
        BY <1>18, <3>1, <3>2, <4>2
      <4> QED
        BY <4>1, <4>2
    <3> QED
      BY <1>13, <1>20, <3>1, <3>3 DEF SameAfter
  <2>4. ASSUME ~t[q].leaf, NEW j \in 1 .. Len(t[q].vals)
        PROVE  SameBelow(t, v, u, w, t[q].vals[j]) /\ t[q].vals[j] # NoPage
    <3>1. t[q].vals[j] \in DOMAIN t
      BY <2>1, <2>4 DEF InnerOK, ChildOK
    <3>2. t[q].vals[j] # p /\ t[q].vals[j] # r
      BY <1>3, <2>4
    <3> QED
      BY <1>4, <1>13, <1>18, <3>1, <3>2 DEF SameBelow
  <2> QED
    BY <1>4, <2>2, <2>3, <2>4, PageKept
<1>29. ASSUME NEW x \in DOMAIN u \ {Root, NoPage} PROVE HasParent(u, x)
  <2>1. HasParent(t, x)
    BY <1>4, <1>13, <1>29 DEF Shape
  <2>2. PICK q \in DOMAIN t : ~t[q].leaf /\ \E j \in 1 .. Len(t[q].vals) : t[q].vals[j] = x
    BY <2>1 DEF HasParent
  <2>3. ~u[q].leaf
    BY <1>20, <2>2
  <2>4. u[q].vals = t[q].vals
    BY <1>1, <1>3, <1>13, <1>16, <2>2
  <2> QED
    BY <1>13, <2>2, <2>3, <2>4 DEF HasParent
<1>30. Closed(K, u, w)
  <2>1. Shape(K, u, w, NoPage)
    <3>1. \A q \in DOMAIN u : PageOK(K, u, w, NoPage, q)
      BY <1>13, <1>25, <1>26, <1>27, <1>28
    <3>2. IsFiniteSet(DOMAIN u) /\ DOMAIN u \in SUBSET Nat /\ Root \in DOMAIN u
      BY <1>5, <1>13
    <3> QED
      BY <1>24, <1>29, <3>1, <3>2, ShapeIs
  <2>2. \A q \in DOMAIN u : w[q].far = w[q].hi
    BY <1>1, <1>4, <1>13, <1>18, <1>19
  <2> QED
    BY <2>1, <2>2 DEF Closed
<1>31. \A e : Has(u, e) <=> Has(t, e)
  <2> TAKE e
  <2>1. /\ Holds(u[p], e) <=> Paired(a, b, e)
        /\ Holds(u[r], e) <=> Paired(c, d, e)
        /\ Holds(t[p], e) <=> Paired(t[p].keys, t[p].vals, e)
        /\ Holds(t[r], e) <=> Paired(t[r].keys, t[r].vals, e)
    BY <1>16 DEF Holds, Paired
  <2>2. (Holds(u[p], e) \/ Holds(u[r], e)) <=> (Holds(t[p], e) \/ Holds(t[r], e))
    BY <1>14, <2>1
  <2>3. \A q \in DOMAIN t \ {p, r} : (u[q].leaf /\ Holds(u[q], e)) <=> (t[q].leaf /\ Holds(t[q], e))
    BY <1>1, <1>13, <1>16
  <2> QED
    BY <1>1, <1>3, <1>13, <1>16, <2>2, <2>3 DEF Has
<1> QED
  BY <1>13, <1>14, <1>15, <1>16, <1>30, <1>31

\* z is s without its i-th element.
RemovedAt(S, s, i, z) ==
  /\ z \in Seq(S) /\ Len(z) = Len(s) - 1
  /\ \A j \in 1 .. Len(s) - 1 : z[j] = IF j < i THEN s[j] ELSE s[j + 1]

LEMMA RemovedAtIs ==
  ASSUME NEW S, NEW s, s \in Seq(S), NEW i, i \in 1 .. Len(s)
  PROVE  RemovedAt(S, s, i, RemoveAt(s, i))
BY RemoveAtIs DEF RemovedAt

\* Leaf r leaves the tree; leaf p and page g become other nodes.
Two(t, u, g, p, r, a, b, ks, cs) ==
  /\ DOMAIN u = DOMAIN t \ {r} /\ \A q \in DOMAIN t \ {g, p, r} : u[q] = t[q]
  /\ u[p] = Leaf(a, b, t[r].next) /\ u[g] = Inner(ks, cs)

LEMMA MergeIsTwo ==
  ASSUME NEW K \in SUBSET Int, NEW t, NEW v, Closed(K, t, v), NEW g, NEW i, NEW p, NEW r,
         Siblings(t, g, i, p, r), Apart(t, g, i, p, r)
  PROVE  Two(t, Merge(t, g, i, p, r), g, p, r, t[p].keys \o t[r].keys, t[p].vals \o t[r].vals,
             RemoveAt(t[g].keys, i), RemoveAt(t[g].vals, i + 1))
<1>1. g \in DOMAIN t /\ p \in DOMAIN t /\ r \in DOMAIN t /\ ~t[g].leaf
  BY DEF Siblings
<1>2. p # r /\ g # p /\ g # r
  BY DEF Apart
<1>3. NodeOK(K, t, v, g) /\ InnerOK(t, v, NoPage, g)
  BY <1>1 DEF Closed, Shape
<1>4. /\ t[g] = [leaf |-> t[g].leaf, keys |-> t[g].keys, vals |-> t[g].vals, next |-> t[g].next]
      /\ t[g].leaf = FALSE /\ t[g].next = NoPage
  BY <1>1, <1>3 DEF NodeOK, InnerOK
<1>5. PICK a, b, ks, cs : a = t[p].keys \o t[r].keys /\ b = t[p].vals \o t[r].vals
                          /\ ks = RemoveAt(t[g].keys, i) /\ cs = RemoveAt(t[g].vals, i + 1)
  OBVIOUS
<1>6. PICK x : x = [t EXCEPT ![p] = Leaf(a, b, t[r].next), ![g].keys = ks, ![g].vals = cs]
  OBVIOUS
<1>7. /\ DOMAIN x = DOMAIN t /\ \A q \in DOMAIN t \ {g, p} : x[q] = t[q]
      /\ x[p] = Leaf(a, b, t[r].next) /\ x[g] = Inner(ks, cs)
  BY <1>1, <1>2, <1>4, <1>6 DEF Inner
<1>8. Merge(t, g, i, p, r) = [q \in DOMAIN t \ {r} |-> x[q]]
  BY <1>5, <1>6 DEF Merge, Restrict
<1>9. Two(t, Merge(t, g, i, p, r), g, p, r, a, b, ks, cs)
  BY <1>1, <1>2, <1>7, <1>8 DEF Two
<1> QED
  BY <1>5, <1>9

IsMerged(K, t, u, g, p, r) ==
  /\ \E w : Closed(K, u, w)
  /\ DOMAIN u = DOMAIN t \ {r} /\ \A q \in DOMAIN t \ {g, p, r} : u[q] = t[q]
  /\ u[p].leaf /\ Len(u[p].keys) = Len(t[p].keys) + Len(t[r].keys)
  /\ ~u[g].leaf /\ Len(u[g].keys) = Len(t[g].keys) - 1
  /\ \A e : Has(u, e) <=> Has(t, e)

\* A merge gives the left sibling both intervals.
LEMMA MergeIs ==
  ASSUME NEW K \in SUBSET Int, NEW t, NEW v, Closed(K, t, v), NEW g, NEW i, NEW p, NEW r,
         Siblings(t, g, i, p, r), NEW u, u = Merge(t, g, i, p, r)
  PROVE  IsMerged(K, t, u, g, p, r)
<1>1. /\ g \in DOMAIN t /\ ~t[g].leaf /\ i \in 1 .. Len(t[g].keys)
      /\ p \in DOMAIN t /\ r \in DOMAIN t /\ t[p].leaf /\ t[p].next = r
      /\ t[g].vals[i] = p /\ t[g].vals[i + 1] = r
  BY DEF Siblings
<1>2. /\ Apart(t, g, i, p, r) /\ Before(t[p].keys, t[r].keys)
      /\ t[g].keys[i] \in Int /\ v[p].hi = From(t[g].keys[i]) /\ v[r].lo = From(t[g].keys[i])
      /\ v[p].hi \subseteq v[p].lo /\ v[r].hi \subseteq v[r].lo
  BY SiblingsAre
<1>3. /\ p # r /\ g # p /\ g # r /\ p # Root /\ r # Root /\ t[r].leaf
      /\ \A q \in DOMAIN t : (t[q].leaf /\ q # p) => t[q].next # r
      /\ \A q \in DOMAIN t : ~t[q].leaf => \A j \in 1 .. Len(t[q].vals) :
           /\ t[q].vals[j] = p => q = g /\ j = i
           /\ t[q].vals[j] = r => q = g /\ j = i + 1
  BY <1>2 DEF Apart
<1>4. Shape(K, t, v, NoPage) /\ NoPage \notin DOMAIN t /\ \A q \in DOMAIN t : v[q].far = v[q].hi
  BY NoPageIsNone DEF Closed
<1>5. /\ InnerOK(t, v, NoPage, g) /\ NodeOK(K, t, v, g)
      /\ LeafOK(K, t, v, p) /\ NodeOK(K, t, v, p)
      /\ LeafOK(K, t, v, r) /\ NodeOK(K, t, v, r)
      /\ IsFiniteSet(DOMAIN t) /\ DOMAIN t \in SUBSET Nat /\ Root \in DOMAIN t /\ Measured(t, v)
  BY <1>1, <1>3, <1>4 DEF Shape
<1>6. /\ Parallel(K, RidsOf(K), t[p].keys, t[p].vals) /\ Parallel(K, RidsOf(K), t[r].keys, t[r].vals)
  BY <1>5 DEF NodeOK, LeafOK, Parallel
<1>7. /\ t[g].keys \in Seq(K) /\ Ascending(t[g].keys) /\ Len(t[g].keys) \in Nat
      /\ \A j \in 1 .. Len(t[g].keys) : t[g].keys[j] \in K /\ t[g].keys[j] \in Int
      /\ t[g].vals \in Seq(Nat) /\ Len(t[g].vals) = Len(t[g].keys) + 1
      /\ t[g].keys \in Seq(Int)
  BY <1>5, KeysAre DEF NodeOK, InnerOK
<1>8. PICK n, m : n = Len(t[g].keys) /\ m = Len(t[g].vals)
  OBVIOUS
<1>9. n \in Nat /\ m = n + 1 /\ i \in 1 .. n /\ i \in Nat
  BY <1>1, <1>7, <1>8
<1>11. PICK a, b, ks, cs :
         /\ a = t[p].keys \o t[r].keys /\ b = t[p].vals \o t[r].vals
         /\ ks = RemoveAt(t[g].keys, i) /\ cs = RemoveAt(t[g].vals, i + 1)
  OBVIOUS
<1>12. Two(t, u, g, p, r, a, b, ks, cs)
  <2>1. Two(t, Merge(t, g, i, p, r), g, p, r, t[p].keys \o t[r].keys, t[p].vals \o t[r].vals,
            RemoveAt(t[g].keys, i), RemoveAt(t[g].vals, i + 1))
    BY <1>2, MergeIsTwo
  <2> QED
    BY <1>11, <2>1
<1>13. /\ DOMAIN u = DOMAIN t \ {r} /\ \A q \in DOMAIN t \ {g, p, r} : u[q] = t[q]
       /\ u[p] = Leaf(a, b, t[r].next) /\ u[g] = Inner(ks, cs)
  BY <1>12 DEF Two
<1>14. /\ Parallel(K, RidsOf(K), a, b) /\ Len(a) = Len(t[p].keys) + Len(t[r].keys)
       /\ \A j \in 1 .. Len(a) : \/ \E l \in 1 .. Len(t[p].keys) : a[j] = t[p].keys[l]
                                 \/ \E l \in 1 .. Len(t[r].keys) : a[j] = t[r].keys[l]
       /\ \A e : Paired(a, b, e)
                   <=> (Paired(t[p].keys, t[p].vals, e) \/ Paired(t[r].keys, t[r].vals, e))
  <2>1. Before(t[p].keys, t[r].keys) /\ K \in SUBSET Int
    BY <1>2
  <2>2. Joined(K, RidsOf(K), t[p].keys, t[p].vals, t[r].keys, t[r].vals,
               t[p].keys \o t[r].keys, t[p].vals \o t[r].vals)
    BY ONLY <1>6, <2>1, PairJoined
  <2>3. Joined(K, RidsOf(K), t[p].keys, t[p].vals, t[r].keys, t[r].vals, a, b)
    BY ONLY <1>11, <2>2
  <2> QED
    BY ONLY <2>3 DEF Joined
<1>15. /\ ks \in Seq(K) /\ Len(ks) = n - 1 /\ Ascending(ks)
       /\ \A j \in 1 .. n - 1 : ks[j] = IF j < i THEN t[g].keys[j] ELSE t[g].keys[j + 1]
  <2>1. RemovedAt(K, t[g].keys, i, RemoveAt(t[g].keys, i))
    BY ONLY <1>1, <1>7, RemovedAtIs
  <2>2. RemovedAt(K, t[g].keys, i, ks)
    BY ONLY <1>11, <2>1
  <2>3. Ascending(RemoveAt(t[g].keys, i))
    BY ONLY <1>1, <1>7, RemoveAscends
  <2>4. Ascending(ks)
    BY ONLY <1>11, <2>3
  <2> QED
    BY ONLY <1>8, <2>2, <2>4 DEF RemovedAt
<1>16. /\ cs \in Seq(Nat) /\ Len(cs) = n
       /\ \A j \in 1 .. n : cs[j] = IF j < i + 1 THEN t[g].vals[j] ELSE t[g].vals[j + 1]
  <2>1. i + 1 \in 1 .. Len(t[g].vals) /\ m - 1 = n
    BY <1>8, <1>9
  <2>2. RemovedAt(Nat, t[g].vals, i + 1, RemoveAt(t[g].vals, i + 1))
    BY ONLY <1>7, <2>1, RemovedAtIs
  <2>3. RemovedAt(Nat, t[g].vals, i + 1, cs)
    BY ONLY <1>11, <2>2
  <2> QED
    BY ONLY <1>8, <2>1, <2>3 DEF RemovedAt
<1>17. /\ u[p].leaf = TRUE /\ u[p].keys = a /\ u[p].vals = b /\ u[p].next = t[r].next
       /\ u[g].leaf = FALSE /\ u[g].keys = ks /\ u[g].vals = cs /\ u[g].next = NoPage
       /\ u[p] = [leaf |-> u[p].leaf, keys |-> u[p].keys, vals |-> u[p].vals, next |-> u[p].next]
       /\ u[g] = [leaf |-> u[g].leaf, keys |-> u[g].keys, vals |-> u[g].vals, next |-> u[g].next]
  BY <1>13 DEF Leaf, Inner
<1>18. PICK w :
         w = [q \in DOMAIN t \ {r} |->
                IF q = p THEN [height |-> v[p].height, lo |-> v[p].lo, hi |-> v[r].hi, far |-> v[r].hi]
                ELSE v[q]]
  OBVIOUS
<1>19. /\ w[p] = [height |-> v[p].height, lo |-> v[p].lo, hi |-> v[r].hi, far |-> v[r].hi]
       /\ \A q \in DOMAIN t \ {p, r} : w[q] = v[q]
       /\ DOMAIN w = DOMAIN t \ {r} /\ w = [q \in DOMAIN w |-> w[q]]
  BY <1>1, <1>3, <1>18
<1>20. /\ w[p].height = v[p].height /\ w[p].lo = v[p].lo /\ w[p].hi = v[r].hi /\ w[p].far = v[r].hi
       /\ w[g] = v[g] /\ \A q \in DOMAIN t \ {r} : w[q].height = v[q].height /\ w[q].lo = v[q].lo
  BY <1>1, <1>3, <1>19
<1>21. /\ v[p].lo \in Cuts /\ v[r].lo \in Cuts /\ v[p].hi \in Cuts /\ v[r].hi \in Cuts
       /\ v[p].height \in Nat /\ v[r].height \in Nat
  BY <1>1, <1>4, Measures
<1>22. ASSUME NEW q \in DOMAIN t \ {r} PROVE u[q].leaf = t[q].leaf
  <2>1. t[p].leaf = TRUE /\ t[g].leaf = FALSE
    BY <1>1, <1>5 DEF NodeOK
  <2>2. CASE q \in {g, p}
    BY <1>17, <2>1, <2>2
  <2>3. CASE q \notin {g, p}
    BY <1>13, <2>3
  <2> QED
    BY <2>2, <2>3
<1>23. \A k \in Int : In(v, p, k) \/ In(v, r, k) => In(w, p, k)
  BY <1>2, <1>20 DEF In
<1>24. Measured(u, w)
  <2>1. /\ v \in [DOMAIN t -> [height : Nat, lo : Cuts, hi : Cuts, far : Cuts]]
        /\ \A q \in DOMAIN t : /\ v[q].height <= v[Root].height
                               /\ v[q].far \subseteq v[q].hi /\ \E k \in Int : In(v, q, k)
        /\ v[Root].lo = Int /\ v[Root].far = {}
    BY <1>5 DEF Measured
  <2>2. ASSUME NEW q \in DOMAIN t \ {r}
        PROVE  /\ w[q] \in [height : Nat, lo : Cuts, hi : Cuts, far : Cuts]
               /\ w[q].far \subseteq w[q].hi /\ \E k \in Int : In(w, q, k)
    <3>1. CASE q = p
      <4>1. \E k \in Int : In(w, p, k)
        BY <1>1, <1>23, <2>1
      <4> QED
        BY <1>19, <1>20, <1>21, <3>1, <4>1
    <3>2. CASE q # p
      <4>1. w[q] = v[q]
        BY <1>19, <3>2
      <4> QED
        BY <2>1, <4>1 DEF In
    <3> QED
      BY <3>1, <3>2
  <2>3. w \in [DOMAIN u -> [height : Nat, lo : Cuts, hi : Cuts, far : Cuts]]
    BY <1>13, <1>19, <2>2
  <2>4. w[Root].lo = Int /\ w[Root].far = {} /\ w[Root].height = v[Root].height
    BY <1>3, <1>5, <1>19, <2>1
  <2>5. \A q \in DOMAIN u : w[q].height <= w[Root].height
    BY <1>13, <1>20, <2>1, <2>4
  <2> QED
    BY <1>13, <2>2, <2>3, <2>4, <2>5 DEF Measured
<1>25. PageOK(K, u, w, NoPage, p)
  <2>1. ASSUME NEW j \in 1 .. Len(a) PROVE In(w, p, a[j])
    <3>1. CASE \E l \in 1 .. Len(t[p].keys) : a[j] = t[p].keys[l]
      <4>1. PICK l \in 1 .. Len(t[p].keys) : a[j] = t[p].keys[l]
        BY <3>1
      <4>2. In(v, p, a[j]) /\ a[j] \in Int
        BY <1>5, <4>1, KeysAre DEF NodeOK
      <4> QED
        BY <1>23, <4>2
    <3>2. CASE \E l \in 1 .. Len(t[r].keys) : a[j] = t[r].keys[l]
      <4>1. PICK l \in 1 .. Len(t[r].keys) : a[j] = t[r].keys[l]
        BY <3>2
      <4>2. In(v, r, a[j]) /\ a[j] \in Int
        BY <1>5, <4>1, KeysAre DEF NodeOK
      <4> QED
        BY <1>23, <4>2
    <3> QED
      BY <1>14, <3>1, <3>2
  <2>2. NodeOK(K, u, w, p)
    BY <1>14, <1>17, <2>1 DEF NodeOK, Parallel
  <2>3. LeafOK(K, u, w, p)
    <3>1. w[p].height = 0 /\ u[p].vals \in Seq(RidsOf(K)) /\ Len(u[p].vals) = Len(u[p].keys)
      BY <1>5, <1>14, <1>17, <1>20 DEF LeafOK, Parallel
    <3>2. CASE v[r].hi = {}
      BY <1>5, <1>17, <1>20, <3>1, <3>2 DEF LeafOK
    <3>3. CASE v[r].hi # {}
      <4>1. t[r].next \in DOMAIN t /\ t[t[r].next].leaf /\ v[t[r].next].lo = v[r].hi
        BY <1>5, <3>3 DEF LeafOK
      <4>2. t[r].next # r
        BY <1>1, <1>3
      <4>3. w[t[r].next].lo = v[r].hi /\ u[t[r].next].leaf /\ t[r].next \in DOMAIN u
        BY <1>13, <1>20, <1>22, <4>1, <4>2
      <4> QED
        BY <1>17, <1>20, <3>1, <3>3, <4>3 DEF LeafOK
    <3> QED
      BY <3>2, <3>3
  <2> QED
    BY <1>17, <2>2, <2>3 DEF PageOK
<1>26. PageOK(K, u, w, NoPage, g)
  <2>1. ASSUME NEW j \in 1 .. Len(ks) PROVE In(w, g, ks[j])
    <3>1. j \in 1 .. n - 1 /\ j \in 1 .. n /\ j + 1 \in 1 .. n
      BY <1>9, <1>15
    <3>2. In(v, g, t[g].keys[j]) /\ In(v, g, t[g].keys[j + 1])
      BY <1>5, <1>8, <3>1 DEF NodeOK
    <3> QED
      BY <1>15, <1>20, <3>1, <3>2 DEF In
  <2>2. NodeOK(K, u, w, g)
    BY <1>15, <1>17, <2>1 DEF NodeOK
  <2>3. ASSUME NEW j \in 1 .. m
        PROVE  /\ t[g].vals[j] \in DOMAIN t \ {Root, NoPage}
               /\ v[t[g].vals[j]].height + 1 = v[g].height
               /\ v[t[g].vals[j]].lo = (IF j = 1 THEN v[g].lo ELSE From(t[g].keys[j - 1]))
               /\ v[t[g].vals[j]].far = (IF j = m THEN v[g].hi ELSE From(t[g].keys[j]))
               /\ j # i /\ j # i + 1 => t[g].vals[j] \notin {p, r}
    <3>1. ChildOK(t, v, NoPage, g, j)
      BY <1>5, <1>8 DEF InnerOK
    <3> QED
      BY <1>1, <1>3, <1>8, <3>1 DEF ChildOK
  <2>4. ASSUME NEW j \in 1 .. Len(cs) PROVE ChildOK(u, w, NoPage, g, j)
    <3>1. j \in 1 .. n /\ j \in 1 .. m /\ j + 1 \in 1 .. m /\ j \in Nat
      BY <1>9, <1>16
    <3>2. CASE j < i
      <4>1. cs[j] = t[g].vals[j] /\ ks[j] = t[g].keys[j] /\ (j # 1 => ks[j - 1] = t[g].keys[j - 1])
            /\ j # m /\ j # n /\ j # i /\ j # i + 1
        <5>1. j < i + 1 /\ j \in 1 .. n - 1 /\ j # m /\ j # n /\ j # i /\ j # i + 1
              /\ (j # 1 => j - 1 \in 1 .. n - 1 /\ j - 1 < i)
          BY ONLY <1>9, <3>1, <3>2
        <5> QED
          BY <1>15, <1>16, <3>1, <3>2, <5>1
      <4>2. /\ cs[j] \in DOMAIN t \ {Root, NoPage, p, r} /\ v[cs[j]].height + 1 = v[g].height
            /\ v[cs[j]].lo = (IF j = 1 THEN v[g].lo ELSE From(ks[j - 1])) /\ v[cs[j]].far = From(ks[j])
        BY <2>3, <3>1, <4>1
      <4>3. w[cs[j]] = v[cs[j]] /\ cs[j] \in DOMAIN u
        BY <1>13, <1>19, <4>2
      <4> QED
        BY <1>16, <1>17, <1>20, <4>1, <4>2, <4>3 DEF ChildOK
    <3>3. CASE j = i
      <4>1. cs[j] = p /\ (j # n => ks[j] = t[g].keys[j + 1]) /\ (j # 1 => ks[j - 1] = t[g].keys[j - 1])
        <5>1. j < i + 1 /\ (j # n => j \in 1 .. n - 1 /\ ~(j < i)) /\ (j # 1 => j - 1 \in 1 .. n - 1 /\ j - 1 < i)
          BY ONLY <1>9, <3>1, <3>3
        <5> QED
          BY <1>1, <1>15, <1>16, <3>1, <3>3, <5>1
      <4>2. /\ p \in DOMAIN t \ {Root, NoPage} /\ v[p].height + 1 = v[g].height
            /\ v[p].lo = (IF j = 1 THEN v[g].lo ELSE From(ks[j - 1]))
        BY <1>1, <2>3, <3>1, <3>3, <4>1
      <4>3. v[r].far = (IF j = n THEN v[g].hi ELSE From(ks[j]))
        <5>1. v[r].far = (IF j + 1 = m THEN v[g].hi ELSE From(t[g].keys[j + 1]))
          BY <1>1, <2>3, <3>1, <3>3
        <5>2. j + 1 = m <=> j = n
          BY ONLY <1>9, <3>1
        <5> QED
          BY <4>1, <5>1, <5>2
      <4>4. w[p].far = v[r].far /\ p \in DOMAIN u
        BY <1>1, <1>3, <1>4, <1>13, <1>20
      <4> QED
        BY <1>16, <1>17, <1>20, <4>1, <4>2, <4>3, <4>4 DEF ChildOK
    <3>4. CASE j > i
      <4>1. /\ j + 1 # i /\ j + 1 # i + 1 /\ j + 1 # 1 /\ j # 1 /\ (j + 1) - 1 = j /\ (j + 1 = m <=> j = n)
            /\ ~(j < i + 1) /\ j - 1 \in 1 .. n - 1 /\ ~(j - 1 < i) /\ (j - 1) + 1 = j
            /\ (j # n => j \in 1 .. n - 1 /\ ~(j < i))
        BY ONLY <1>9, <3>1, <3>4
      <4>2. cs[j] = t[g].vals[j + 1] /\ ks[j - 1] = t[g].keys[j] /\ (j # n => ks[j] = t[g].keys[j + 1])
        BY <1>15, <1>16, <3>1, <4>1
      <4>3. /\ cs[j] \in DOMAIN t \ {Root, NoPage, p, r} /\ v[cs[j]].height + 1 = v[g].height
            /\ v[cs[j]].lo = From(ks[j - 1]) /\ v[cs[j]].far = (IF j = n THEN v[g].hi ELSE From(ks[j]))
        <5>1. PICK c : c = t[g].vals[j + 1]
          OBVIOUS
        <5>2. /\ c \in DOMAIN t \ {Root, NoPage, p, r} /\ v[c].height + 1 = v[g].height
              /\ v[c].lo = From(t[g].keys[j])
              /\ v[c].far = (IF j + 1 = m THEN v[g].hi ELSE From(t[g].keys[j + 1]))
          BY <2>3, <3>1, <4>1, <5>1
        <5> QED
          BY ONLY <4>1, <4>2, <5>1, <5>2
      <4>4. w[cs[j]] = v[cs[j]] /\ cs[j] \in DOMAIN u
        BY <1>13, <1>19, <4>3
      <4> QED
        BY <1>16, <1>17, <1>20, <4>1, <4>3, <4>4 DEF ChildOK
    <3> QED
      BY <1>9, <3>1, <3>2, <3>3, <3>4
  <2>5. InnerOK(u, w, NoPage, g)
    <3>1. Len(cs) = Len(ks) + 1
      BY <1>9, <1>15, <1>16
    <3> QED
      BY <1>16, <1>17, <2>4, <3>1 DEF InnerOK
  <2> QED
    BY <1>17, <2>2, <2>5 DEF PageOK
<1>28. ASSUME NEW q \in DOMAIN t \ {g, p, r} PROVE PageOK(K, u, w, NoPage, q)
  <2>1. (t[q].leaf => LeafOK(K, t, v, q)) /\ (~t[q].leaf => InnerOK(t, v, NoPage, q))
    BY <1>4 DEF Shape
  <2>2. u[q] = t[q] /\ w[q].height = v[q].height /\ w[q].lo = v[q].lo /\ w[q].hi = v[q].hi
    BY <1>13, <1>19
  <2>3. ASSUME t[q].leaf, t[q].next # NoPage PROVE SameAfter(t, v, u, w, t[q].next)
    <3>1. t[q].next \in DOMAIN t
      BY <1>4, <2>3, NextIsNotRoot
    <3>2. t[q].next # r
      BY <1>3, <2>3
    <3> QED
      BY <1>13, <1>20, <1>22, <3>1, <3>2 DEF SameAfter
  <2>4. ASSUME ~t[q].leaf, NEW j \in 1 .. Len(t[q].vals)
        PROVE  SameBelow(t, v, u, w, t[q].vals[j]) /\ t[q].vals[j] # NoPage
    <3>1. t[q].vals[j] \in DOMAIN t
      BY <2>1, <2>4 DEF InnerOK, ChildOK
    <3>2. t[q].vals[j] # p /\ t[q].vals[j] # r
      BY <1>3, <2>4
    <3> QED
      BY <1>4, <1>13, <1>19, <3>1, <3>2 DEF SameBelow
  <2> QED
    BY <1>4, <2>2, <2>3, <2>4, PageKept
<1>29. ASSUME NEW x \in DOMAIN u \ {Root, NoPage} PROVE HasParent(u, x)
  <2>1. HasParent(t, x) /\ x # r
    BY <1>4, <1>13, <1>29 DEF Shape
  <2>2. PICK q \in DOMAIN t : ~t[q].leaf /\ \E j \in 1 .. Len(t[q].vals) : t[q].vals[j] = x
    BY <2>1 DEF HasParent
  <2>3. q \in DOMAIN u /\ ~u[q].leaf
    BY <1>3, <1>13, <1>22, <2>2
  <2>4. CASE q # g
    BY <1>1, <1>13, <2>2, <2>3, <2>4 DEF HasParent
  <2>5. CASE q = g
    <3>1. PICK j \in 1 .. m : t[g].vals[j] = x
      BY <1>8, <2>2, <2>5
    <3>2. j # i + 1
      BY <1>1, <2>1, <3>1
    <3>3. CASE j < i + 1
      <4>1. j \in 1 .. n
        BY ONLY <1>9, <3>1, <3>3
      <4>2. cs[j] = x
        BY <1>16, <3>1, <3>3, <4>1
      <4> QED
        BY <1>16, <1>17, <2>3, <2>5, <4>1, <4>2 DEF HasParent
    <3>4. CASE j > i + 1
      <4>1. j - 1 \in 1 .. n /\ ~(j - 1 < i + 1) /\ (j - 1) + 1 = j
        BY ONLY <1>9, <3>1, <3>4
      <4>2. cs[j - 1] = x
        BY <1>16, <3>1, <4>1
      <4> QED
        BY <1>16, <1>17, <2>3, <2>5, <4>1, <4>2 DEF HasParent
    <3> QED
      BY <1>9, <3>1, <3>2, <3>3, <3>4
  <2> QED
    BY <2>4, <2>5
<1>30. Closed(K, u, w)
  <2>1. Shape(K, u, w, NoPage)
    <3>1. \A q \in DOMAIN u : PageOK(K, u, w, NoPage, q)
      BY <1>13, <1>25, <1>26, <1>28
    <3>2. IsFiniteSet(DOMAIN u) /\ DOMAIN u \in SUBSET Nat /\ Root \in DOMAIN u
      BY <1>3, <1>5, <1>13, FS_Subset
    <3> QED
      BY <1>24, <1>29, <3>1, <3>2, ShapeIs
  <2>2. \A q \in DOMAIN u : w[q].far = w[q].hi
    BY <1>1, <1>4, <1>13, <1>19, <1>20
  <2> QED
    BY <2>1, <2>2 DEF Closed
<1>31. \A e : Has(u, e) <=> Has(t, e)
  <2> TAKE e
  <2>1. /\ Holds(u[p], e) <=> Paired(a, b, e)
        /\ Holds(t[p], e) <=> Paired(t[p].keys, t[p].vals, e)
        /\ Holds(t[r], e) <=> Paired(t[r].keys, t[r].vals, e)
    BY <1>17 DEF Holds, Paired
  <2>2. Holds(u[p], e) <=> (Holds(t[p], e) \/ Holds(t[r], e))
    BY <1>14, <2>1
  <2>3. \A q \in DOMAIN t \ {p, r} : (u[q].leaf /\ Holds(u[q], e)) <=> (t[q].leaf /\ Holds(t[q], e))
    BY <1>1, <1>13, <1>17
  <2> QED
    BY <1>1, <1>3, <1>13, <1>17, <2>2, <2>3 DEF Has
<1> QED
  BY <1>8, <1>13, <1>14, <1>15, <1>17, <1>30, <1>31 DEF IsMerged

\* RebalanceLeaf leaves the tree as it is, or moves entries between siblings.
LEMMA RebalanceCases ==
  ASSUME NEW K \in SUBSET Int, NEW t, NEW v, Closed(K, t, v), NEW p \in DOMAIN t, t[p].leaf, p # Root,
         NEW k \in Int, In(v, p, k), NEW u, u = RebalanceLeaf(t, p, k)
  PROVE  \/ u = t
         \/ \E g, i, r : /\ Siblings(t, g, i, p, r) /\ ~(Len(t[p].keys) >= MinKeys)
                         /\ \/ Len(t[r].keys) > MinKeys /\ u = Borrow(t, g, i, p, r)
                            \/ ~(Len(t[r].keys) > MinKeys) /\ u = Merge(t, g, i, p, r)
<1> DEFINE g == FindParent(t, p, k)
           i == PlaceOf(t[g].vals, p)
           r == t[p].next
<1>1. /\ Shape(K, t, v, NoPage) /\ NoPage \notin DOMAIN t /\ Under(v, p, k)
  BY NoPageIsNone DEF Closed, In, Under
<1>2. /\ g \in DOMAIN t /\ ~t[g].leaf /\ \E j \in 1 .. Len(t[g].vals) : t[g].vals[j] = p
  <2>1. K \in SUBSET Int /\ k \in Int /\ p \in DOMAIN t \ {Root, NoPage}
    BY <1>1
  <2> QED
    BY ONLY <1>1, <2>1, ParentIs
<1>3. u = IF Len(t[p].keys) >= MinKeys \/ r = NoPage \/ g = NoPage THEN t
          ELSE IF i = Len(t[g].vals) \/ t[g].vals[i + 1] # r THEN t
          ELSE IF Len(t[r].keys) > MinKeys THEN Borrow(t, g, i, p, r)
          ELSE Merge(t, g, i, p, r)
  BY DEF RebalanceLeaf, SelectInSeq, PlaceOf
<1> HIDE DEF g
<1>4. InnerOK(t, v, NoPage, g) /\ NodeOK(K, t, v, g)
  BY <1>1, <1>2 DEF Shape
<1>5. Len(t[g].vals) = Len(t[g].keys) + 1 /\ Len(t[g].keys) \in Nat /\ Len(t[g].vals) \in Nat
  BY <1>4, KeysAre DEF InnerOK, NodeOK
<1>6. i \in 1 .. Len(t[g].vals) /\ t[g].vals[i] = p
  BY <1>2, <1>5, PlaceIs
<1> HIDE DEF i
<1>7. SUFFICES ASSUME u # t PROVE
        /\ Siblings(t, g, i, p, r) /\ ~(Len(t[p].keys) >= MinKeys)
        /\ \/ Len(t[r].keys) > MinKeys /\ u = Borrow(t, g, i, p, r)
           \/ ~(Len(t[r].keys) > MinKeys) /\ u = Merge(t, g, i, p, r)
  OBVIOUS
<1>8. ~(Len(t[p].keys) >= MinKeys) /\ r # NoPage /\ g # NoPage /\ i # Len(t[g].vals) /\ t[g].vals[i + 1] = r
  BY <1>3, <1>7
<1>9. i \in 1 .. Len(t[g].keys)
  BY ONLY <1>5, <1>6, <1>8
<1>10. r \in DOMAIN t
  BY <1>1, <1>8, NextIsNotRoot
<1>11. Siblings(t, g, i, p, r)
  BY <1>2, <1>6, <1>8, <1>9, <1>10 DEF Siblings
<1> QED
  BY <1>3, <1>8, <1>11

LEMMA MinKeysAre ==
  ASSUME LeafCapacity \in Nat, LeafCapacity >= 2
  PROVE  MinKeys \in Nat /\ MinKeys >= 1 /\ MinKeys + MinKeys <= LeafCapacity
<1>1. \A c \in Nat : c >= 2 => c \div 2 \in Nat /\ c \div 2 >= 1 /\ c \div 2 + c \div 2 <= c
  OBVIOUS
<1> QED
  BY <1>1 DEF MinKeys

\* RebalanceLeaf keeps the tree and its pairs.
LEMMA RebalancedIs ==
  ASSUME NEW K \in SUBSET Int, NEW t, TreeOK(K, t), NEW v, Closed(K, t, v),
         NEW p \in DOMAIN t, t[p].leaf, p # Root, NEW k \in Int, In(v, p, k),
         LeafCapacity \in Nat, LeafCapacity >= 2, InternalCapacity \in Nat,
         NEW u, u = RebalanceLeaf(t, p, k)
  PROVE  TreeOK(K, u) /\ \A e : Has(u, e) <=> Has(t, e)
<1>1. Fits(t) /\ DOMAIN t \subseteq Pages
  BY DEF TreeOK
<1>2. MinKeys \in Nat /\ MinKeys >= 1 /\ MinKeys + MinKeys <= LeafCapacity
  BY MinKeysAre
<1>3. \A q \in DOMAIN t : Len(t[q].keys) \in Nat
  BY KeysAre DEF Closed, Shape, NodeOK
<1>4. CASE u = t
  BY <1>4
<1>5. ASSUME NEW g, NEW i, NEW r, Siblings(t, g, i, p, r), ~(Len(t[p].keys) >= MinKeys),
             Len(t[r].keys) > MinKeys, u = Borrow(t, g, i, p, r)
      PROVE  TreeOK(K, u) /\ \A e : Has(u, e) <=> Has(t, e)
  <2>1. g \in DOMAIN t /\ r \in DOMAIN t /\ ~t[g].leaf
    BY <1>5 DEF Siblings
  <2>2. t[r].leaf
    BY <1>5, SiblingsAre DEF Apart
  <2>3. PICK m, n : m = Len(t[p].keys) /\ n = Len(t[r].keys)
    OBVIOUS
  <2>4. /\ m \in Nat /\ n \in Nat /\ ~(m >= MinKeys) /\ n > MinKeys /\ n <= LeafCapacity
    BY <1>1, <1>3, <1>5, <2>1, <2>2, <2>3 DEF Fits
  <2>5. n >= 2 /\ m + 1 <= LeafCapacity /\ n - 1 <= LeafCapacity
    BY ONLY <1>2, <2>4, LeafCapacity \in Nat
  <2>6. /\ \E w : Closed(K, u, w)
        /\ DOMAIN u = DOMAIN t /\ \A q \in DOMAIN t \ {g, p, r} : u[q] = t[q]
        /\ u[p].leaf /\ Len(u[p].keys) = m + 1
        /\ u[r].leaf /\ Len(u[r].keys) = n - 1
        /\ ~u[g].leaf /\ Len(u[g].keys) = Len(t[g].keys)
        /\ \A e : Has(u, e) <=> Has(t, e)
    <3>1. Len(t[r].keys) >= 2 /\ Siblings(t, g, i, p, r) /\ u = Borrow(t, g, i, p, r)
      BY <1>5, <2>3, <2>5
    <3>2. /\ \E w : Closed(K, u, w)
          /\ DOMAIN u = DOMAIN t /\ \A q \in DOMAIN t \ {g, p, r} : u[q] = t[q]
          /\ u[p].leaf /\ Len(u[p].keys) = Len(t[p].keys) + 1
          /\ u[r].leaf /\ Len(u[r].keys) = Len(t[r].keys) - 1
          /\ ~u[g].leaf /\ Len(u[g].keys) = Len(t[g].keys)
          /\ \A e : Has(u, e) <=> Has(t, e)
      BY ONLY K \in SUBSET Int, Closed(K, t, v), <3>1, BorrowIs
    <3> QED
      BY ONLY <2>3, <3>2
  <2>7. Fits(u)
    BY <1>1, <2>1, <2>5, <2>6 DEF Fits
  <2> QED
    BY <1>1, <2>6, <2>7 DEF TreeOK
<1>6. ASSUME NEW g, NEW i, NEW r, Siblings(t, g, i, p, r), ~(Len(t[p].keys) >= MinKeys),
             ~(Len(t[r].keys) > MinKeys), u = Merge(t, g, i, p, r)
      PROVE  TreeOK(K, u) /\ \A e : Has(u, e) <=> Has(t, e)
  <2>1. g \in DOMAIN t /\ r \in DOMAIN t /\ ~t[g].leaf
    BY <1>6 DEF Siblings
  <2>3. PICK m, n, l : m = Len(t[p].keys) /\ n = Len(t[r].keys) /\ l = Len(t[g].keys)
    OBVIOUS
  <2>4. /\ m \in Nat /\ n \in Nat /\ ~(m >= MinKeys) /\ ~(n > MinKeys) /\ l \in Nat /\ l <= InternalCapacity
    BY <1>1, <1>3, <1>6, <2>1, <2>3 DEF Fits
  <2>5. m + n <= LeafCapacity
    BY ONLY <1>2, <2>4, LeafCapacity \in Nat
  <2>6. /\ \E w : Closed(K, u, w)
        /\ DOMAIN u = DOMAIN t \ {r} /\ \A q \in DOMAIN t \ {g, p, r} : u[q] = t[q]
        /\ u[p].leaf /\ Len(u[p].keys) = m + n
        /\ ~u[g].leaf /\ Len(u[g].keys) = l - 1
        /\ \A e : Has(u, e) <=> Has(t, e)
    <3>1. Siblings(t, g, i, p, r) /\ u = Merge(t, g, i, p, r)
      BY <1>6
    <3>2. IsMerged(K, t, u, g, p, r)
      BY ONLY K \in SUBSET Int, Closed(K, t, v), <3>1, MergeIs
    <3> QED
      BY ONLY <2>3, <3>2 DEF IsMerged
  <2>7. l - 1 <= InternalCapacity
    BY ONLY <2>4, InternalCapacity \in Nat
  <2>8. Fits(u)
    BY <1>1, <2>1, <2>5, <2>6, <2>7 DEF Fits
  <2> QED
    BY <1>1, <2>6, <2>8 DEF TreeOK
<1> QED
  BY <1>4, <1>5, <1>6, RebalanceCases

-----------------------------------------------------------------------------
(***************************************************************************)
(* The chain of the leaves.                                                *)
(***************************************************************************)

\* The leaves after page q.
After(t, v, q) == {x \in DOMAIN t : t[x].leaf /\ v[x].lo \subseteq v[q].lo /\ v[x].lo # v[q].lo}

LEMMA HiInLo ==
  ASSUME NEW K, NEW t, NEW v, NEW new, Shape(K, t, v, new), NEW q \in DOMAIN t
  PROVE  v[q].hi \subseteq v[q].lo /\ v[q].hi # v[q].lo
<1>1. PICK k \in Int : In(v, q, k)
  BY Measures
<1>2. v[q].lo \in Cuts /\ v[q].hi \in Cuts
  BY Measures
<1>3. ASSUME NEW x \in v[q].hi PROVE x \in v[q].lo
  <2>1. x \in Int
    BY <1>2 DEF Cuts
  <2>2. ~(x <= k)
    BY <1>1, <1>2, <2>1, CutOrder DEF In
  <2> QED
    BY <1>1, <1>2, <2>1, <2>2, CutOrder DEF In
<1> QED
  BY <1>1, <1>3 DEF In

LEMMA NextDescends ==
  ASSUME NEW K, NEW t, NEW v, Closed(K, t, v)
  PROVE  Descends(NextLeaf(t), [q \in DOMAIN t |-> Cardinality(After(t, v, q))], Cardinality(DOMAIN t))
<1> DEFINE h == [q \in DOMAIN t |-> Cardinality(After(t, v, q))]
           b == Cardinality(DOMAIN t)
<1>1. Shape(K, t, v, NoPage) /\ NoPage \notin DOMAIN t /\ IsFiniteSet(DOMAIN t) /\ b \in Nat
  BY NoPageIsNone, FS_CardinalityType DEF Closed, Shape
<1>2. ASSUME NEW q \in DOMAIN t
      PROVE  IsFiniteSet(After(t, v, q)) /\ Cardinality(After(t, v, q)) \in 0 .. b
  <2>1. After(t, v, q) \subseteq DOMAIN t
    BY DEF After
  <2>2. IsFiniteSet(After(t, v, q)) /\ Cardinality(After(t, v, q)) <= b
    BY <1>1, <2>1, FS_Subset
  <2> QED
    BY <1>1, <2>2, FS_CardinalityType
<1>3. ASSUME NEW q \in DOMAIN t, t[q].next # NoPage
      PROVE  t[q].next \in DOMAIN t /\ Cardinality(After(t, v, t[q].next)) < Cardinality(After(t, v, q))
  <2>1. t[q].leaf
    BY <1>1, <1>3 DEF Shape, InnerOK
  <2>2. t[q].next \in DOMAIN t /\ t[t[q].next].leaf /\ v[t[q].next].lo = v[q].hi
    BY <1>1, <1>3, <2>1 DEF Shape, LeafOK
  <2>3. v[q].hi \subseteq v[q].lo /\ v[q].hi # v[q].lo
    BY <1>1, HiInLo
  <2>4. After(t, v, t[q].next) \subseteq After(t, v, q)
    BY <2>2, <2>3 DEF After
  <2>5. t[q].next \in After(t, v, q) /\ t[q].next \notin After(t, v, t[q].next)
    BY <2>2, <2>3 DEF After
  <2>6. Cardinality(After(t, v, t[q].next)) < Cardinality(After(t, v, q))
    <3> DEFINE S == After(t, v, q)
               T == After(t, v, t[q].next)
    <3>1. IsFiniteSet(S) /\ Cardinality(S) \in Nat /\ Cardinality(T) \in Nat
      BY <1>2, <2>2
    <3>2. T \in SUBSET S /\ T # S
      BY <2>4, <2>5
    <3> HIDE DEF S, T
    <3>3. Cardinality(T) <= Cardinality(S) /\ Cardinality(S) # Cardinality(T)
      BY <3>1, <3>2, FS_Subset
    <3> QED
      BY <3>1, <3>3 DEF S, T
  <2> QED
    BY <2>2, <2>6
<1>4. h \in [DOMAIN t -> 0 .. b]
  BY <1>2
<1> QED
  BY <1>1, <1>3, <1>4 DEF Descends, NextLeaf

\* The chain from leaf p goes through leaves further and further right.
LEMMA ChainIs ==
  ASSUME NEW K, NEW t, NEW v, Closed(K, t, v), NEW p \in DOMAIN t, t[p].leaf
  PROVE  /\ IsWay(Chain(t, p), NextLeaf(t), p)
         /\ \A i \in 1 .. Len(Chain(t, p)) :
              LET q == Chain(t, p)[i]
              IN  q \in DOMAIN t /\ t[q].leaf /\ (q = p \/ v[q].lo \subseteq v[p].hi)
<1> DEFINE w == Chain(t, p)
           A == {q \in DOMAIN t : t[q].leaf /\ (q = p \/ v[q].lo \subseteq v[p].hi)}
<1>1. Shape(K, t, v, NoPage) /\ DOMAIN NextLeaf(t) = DOMAIN t
  BY DEF Closed, NextLeaf
<1>2. IsWay(w, NextLeaf(t), p)
  BY <1>1, NextDescends, PathIsWay DEF Chain
<1>3. ASSUME NEW q \in DOMAIN NextLeaf(t) \cap A, NextLeaf(t)[q] # NoPage PROVE NextLeaf(t)[q] \in A
  <2>1. q \in DOMAIN t /\ t[q].leaf /\ NextLeaf(t)[q] = t[q].next /\ t[q].next # NoPage
    BY <1>1, <1>3 DEF NextLeaf
  <2>2. t[q].next \in DOMAIN t /\ t[t[q].next].leaf /\ v[t[q].next].lo = v[q].hi
    BY <1>1, <2>1 DEF Shape, LeafOK
  <2>3. v[q].hi \subseteq v[q].lo
    BY <1>1, <2>1, HiInLo
  <2> QED
    BY <1>3, <2>1, <2>2, <2>3
<1>4. \A i \in 1 .. Len(w) : w[i] \in A
  <2> HIDE DEF w, A
  <2>1. p \in A
    BY DEF A
  <2> QED
    BY <1>2, <1>3, <2>1, WayStays
<1> QED
  BY <1>2, <1>4

\* The place of an entry in a leaf.
LEMMA EntriesAre ==
  ASSUME NEW n, Len(n.keys) \in Nat
  PROVE  /\ Len(EntriesOf(n)) = Len(n.keys) /\ DOMAIN EntriesOf(n) = 1 .. Len(n.keys)
         /\ \A i \in 1 .. Len(n.keys) : EntriesOf(n)[i] = <<n.keys[i], n.vals[i]>>
         /\ \A e : Contains(EntriesOf(n), e) <=> Holds(n, e)
<1>1. /\ DOMAIN EntriesOf(n) = 1 .. Len(n.keys)
      /\ \A i \in 1 .. Len(n.keys) : EntriesOf(n)[i] = <<n.keys[i], n.vals[i]>>
  BY DEF EntriesOf
<1>2. Len(EntriesOf(n)) = Len(n.keys)
  BY DEF EntriesOf
<1> QED
  BY <1>1, <1>2 DEF Contains, Holds

\* A pair can only be in the leaf of its key.
LEMMA WhereHeld ==
  ASSUME NEW K \in SUBSET Int, NEW t, NEW v, Closed(K, t, v), NEW k \in Int, NEW r,
         NEW q \in DOMAIN t, t[q].leaf, Holds(t[q], <<k, r>>)
  PROVE  q = FindLeafPage(t, k)
<1>1. PICK i \in 1 .. Len(t[q].keys) : <<k, r>> = <<t[q].keys[i], t[q].vals[i]>>
  BY DEF Holds
<1>2. In(v, q, k)
  BY <1>1 DEF Closed, Shape, NodeOK
<1> QED
  BY <1>2, LeafIs

\* Without the i-th entry of leaf p.
Without(t, p, i) == [t EXCEPT ![p].keys = RemoveAt(@, i), ![p].vals = RemoveAt(@, i)]

LEMMA EntryRemoved ==
  ASSUME NEW K \in SUBSET Int, NEW t, TreeOK(K, t), NEW v, Closed(K, t, v), NEW p \in DOMAIN t, t[p].leaf,
         NEW i \in 1 .. Len(t[p].keys), LeafCapacity \in Nat,
         NEW u, u = Without(t, p, i)
  PROVE  /\ TreeOK(K, u) /\ Closed(K, u, v) /\ DOMAIN u = DOMAIN t /\ u[p].leaf
         /\ \A e : Has(u, e) <=> (Has(t, e) /\ e # <<t[p].keys[i], t[p].vals[i]>>)
<1>1. NodeOK(K, t, v, p) /\ LeafOK(K, t, v, p)
  BY DEF Closed, Shape
<1>2. Parallel(K, RidsOf(K), t[p].keys, t[p].vals)
  BY <1>1 DEF NodeOK, LeafOK, Parallel
<1>3. PICK ks, rs : ks = RemoveAt(t[p].keys, i) /\ rs = RemoveAt(t[p].vals, i)
  OBVIOUS
<1>4. /\ Parallel(K, RidsOf(K), ks, rs) /\ Len(ks) = Len(t[p].keys) - 1
      /\ \A j \in 1 .. Len(ks) : \E l \in 1 .. Len(t[p].keys) : ks[j] = t[p].keys[l]
      /\ \A e : Paired(ks, rs, e)
                  <=> (Paired(t[p].keys, t[p].vals, e) /\ e # <<t[p].keys[i], t[p].vals[i]>>)
  <2>1. Removed(K, RidsOf(K), t[p].keys, t[p].vals, i, RemoveAt(t[p].keys, i), RemoveAt(t[p].vals, i))
    BY ONLY K \in SUBSET Int, i \in 1 .. Len(t[p].keys), <1>2, PairRemoved
  <2>2. Removed(K, RidsOf(K), t[p].keys, t[p].vals, i, ks, rs)
    BY ONLY <1>3, <2>1
  <2> QED
    BY ONLY <2>2 DEF Removed
<1>5. /\ DOMAIN u = DOMAIN t /\ \A q \in DOMAIN t \ {p} : u[q] = t[q]
      /\ u[p] = Leaf(ks, rs, t[p].next)
  <2>1. t[p] = [leaf |-> t[p].leaf, keys |-> t[p].keys, vals |-> t[p].vals, next |-> t[p].next] /\ t[p].leaf = TRUE
    BY <1>1 DEF NodeOK
  <2>2. u = [t EXCEPT ![p].keys = ks, ![p].vals = rs]
    BY <1>3 DEF Without
  <2> QED
    BY <2>1, <2>2 DEF Leaf
<1>6. u[p].leaf = TRUE /\ u[p].keys = ks /\ u[p].vals = rs
  BY <1>5 DEF Leaf
<1>7. \A j \in 1 .. Len(ks) : In(v, p, ks[j])
  BY <1>1, <1>4 DEF NodeOK
<1>8. Closed(K, u, v)
  <2>1. ks \in Seq(K) /\ rs \in Seq(RidsOf(K)) /\ Len(rs) = Len(ks) /\ Ascending(ks)
    BY <1>4 DEF Parallel
  <2> QED
    BY ONLY Closed(K, t, v), p \in DOMAIN t, t[p].leaf, <1>5, <1>7, <2>1, LeafChanged
<1>9. Fits(u)
  <2>1. Len(t[p].keys) \in Nat /\ Len(t[p].keys) <= LeafCapacity
    BY <1>1, KeysAre DEF NodeOK, TreeOK, Fits
  <2>2. Len(u[p].keys) <= LeafCapacity
    BY <1>4, <1>6, <2>1
  <2> QED
    BY <1>5, <1>6, <2>2 DEF Fits, TreeOK
<1>10. TreeOK(K, u)
  BY <1>5, <1>8, <1>9 DEF TreeOK
<1>11. ASSUME NEW e PROVE Has(u, e) <=> (Has(t, e) /\ e # <<t[p].keys[i], t[p].vals[i]>>)
  <2>1. Holds(u[p], e) <=> (Holds(t[p], e) /\ e # <<t[p].keys[i], t[p].vals[i]>>)
    BY <1>4, <1>6 DEF Holds, Paired
  <2>2. ASSUME NEW q \in DOMAIN t \ {p}, t[q].leaf, Holds(t[q], e) PROVE e # <<t[p].keys[i], t[p].vals[i]>>
    <3> SUFFICES ASSUME e = <<t[p].keys[i], t[p].vals[i]>> PROVE FALSE
      OBVIOUS
    <3>1. t[p].keys[i] \in Int
      BY <1>1, KeysAre DEF NodeOK
    <3>2. Holds(t[p], <<t[p].keys[i], t[p].vals[i]>>)
      BY DEF Holds
    <3>3. p = FindLeafPage(t, t[p].keys[i])
      BY <3>1, <3>2, WhereHeld
    <3>4. q = FindLeafPage(t, t[p].keys[i])
      BY <2>2, <3>1, WhereHeld
    <3> QED
      BY <3>3, <3>4
  <2> QED
    BY <1>5, <1>6, <2>1, <2>2 DEF Has
<1> QED
  BY <1>5, <1>6, <1>8, <1>10, <1>11

\* Erase, with its loans and merges: the tree has one pair less.
LEMMA ErasedIs ==
  ASSUME NEW K \in SUBSET Int, NEW t, TreeOK(K, t), NEW k \in K, NEW r,
         LeafCapacity \in Nat, LeafCapacity >= 2, InternalCapacity \in Nat,
         NEW u, u = Erased(t, k, r)
  PROVE  TreeOK(K, u) /\ \A e : Has(u, e) <=> (Has(t, e) /\ e # <<k, r>>)
<1> DEFINE p == FindLeafPage(t, k)
           w == Chain(t, p)
           Stop(q) == \/ Contains(EntriesOf(t[q]), <<k, r>>)
                      \/ \E i \in DOMAIN t[q].keys : k < t[q].keys[i]
           I == {i \in 1 .. Len(w) : Stop(w[i])}
           n == IF I # {} THEN Min(I) ELSE 0
           q == w[n]
           i == PlaceOf(EntriesOf(t[q]), <<k, r>>)
           x == Without(t, q, i)
<1>1. PICK v : Closed(K, t, v)
  BY DEF TreeOK
<1>2. p \in DOMAIN t /\ t[p].leaf /\ In(v, p, k) /\ k \in Int
  BY <1>1, LeafIs
<1>3. u = IF n = 0 \/ ~Contains(EntriesOf(t[q]), <<k, r>>) THEN t
          ELSE IF q = Root THEN x ELSE RebalanceLeaf(x, q, k)
  BY DEF Erased, SelectInSeq, PlaceOf, Without
<1> HIDE DEF p
<1>4. /\ IsWay(w, NextLeaf(t), p)
      /\ \A j \in 1 .. Len(w) : w[j] \in DOMAIN t /\ t[w[j]].leaf
  BY <1>1, <1>2, ChainIs
<1>5. Len(w) \in Nat \ {0} /\ w[1] = p
  BY <1>4 DEF IsWay
<1>6. \A y \in DOMAIN t : Len(t[y].keys) \in Nat
  BY <1>1, KeysAre DEF Closed, Shape, NodeOK
<1> HIDE DEF w
<1>7. CASE ~Has(t, <<k, r>>)
  <2>1. u = t
    <3> SUFFICES ASSUME n # 0, Contains(EntriesOf(t[q]), <<k, r>>) PROVE FALSE
      BY <1>3
    <3>1. n \in 1 .. Len(w)
      <4> HIDE DEF Stop, q
      <4>1. I \subseteq 1 .. Len(w) /\ 1 .. Len(w) \subseteq Nat
        BY <1>5
      <4>2. I # {} /\ n = Min(I)
        OBVIOUS
      <4> HIDE DEF I, n
      <4>3. Min(I) \in I
        BY <4>1, <4>2, MinIs
      <4> QED
        BY <4>1, <4>2, <4>3
    <3> HIDE DEF n
    <3>2. q \in DOMAIN t /\ t[q].leaf
      BY <1>4, <3>1
    <3>3. Holds(t[q], <<k, r>>)
      BY <1>6, <3>2, EntriesAre
    <3> QED
      BY <1>7, <3>2, <3>3 DEF Has
  <2> QED
    BY <1>7, <2>1
<1>8. CASE Has(t, <<k, r>>)
  <2>1. Holds(t[p], <<k, r>>)
    BY <1>1, <1>2, <1>8, WhereHeld DEF Has, p
  <2>2. Contains(EntriesOf(t[p]), <<k, r>>)
    BY <1>2, <1>6, <2>1, EntriesAre
  <2>3. n = 1
    <3>1. 1 \in I
      BY <1>5, <2>2
    <3> HIDE DEF Stop
    <3>2. I \subseteq 1 .. Len(w) /\ 1 .. Len(w) \subseteq Nat
      BY <1>5
    <3>3. n = Min(I)
      BY <3>1
    <3> HIDE DEF I, n
    <3>4. Min(I) \in I /\ Min(I) <= 1
      BY <3>1, <3>2, MinIs
    <3>5. n \in 1 .. Len(w) /\ n <= 1
      BY <3>2, <3>3, <3>4
    <3> QED
      BY ONLY <1>5, <3>5
  <2> HIDE DEF n
  <2>4. q = p
    BY <1>5, <2>3
  <2>5. u = IF q = Root THEN x ELSE RebalanceLeaf(x, q, k)
    BY <1>3, <2>2, <2>3, <2>4
  <2> HIDE DEF q
  <2>6. i \in 1 .. Len(t[p].keys) /\ t[p].keys[i] = k /\ t[p].vals[i] = r
    <3>1. /\ Len(EntriesOf(t[p])) = Len(t[p].keys)
          /\ \A j \in 1 .. Len(t[p].keys) : EntriesOf(t[p])[j] = <<t[p].keys[j], t[p].vals[j]>>
      BY <1>2, <1>6, EntriesAre
    <3>2. \E j \in 1 .. Len(EntriesOf(t[p])) : EntriesOf(t[p])[j] = <<k, r>>
      BY <2>2 DEF Contains
    <3>3. i \in 1 .. Len(EntriesOf(t[p])) /\ EntriesOf(t[p])[i] = <<k, r>>
      BY <1>2, <1>6, <2>4, <3>1, <3>2, PlaceIs
    <3> HIDE DEF i
    <3> QED
      BY <3>1, <3>3
  <2> HIDE DEF i
  <2>7. /\ TreeOK(K, x) /\ Closed(K, x, v) /\ DOMAIN x = DOMAIN t /\ x[p].leaf
        /\ \A e : Has(x, e) <=> (Has(t, e) /\ e # <<k, r>>)
    <3>1. /\ TreeOK(K, x) /\ Closed(K, x, v) /\ DOMAIN x = DOMAIN t /\ x[p].leaf
          /\ \A e : Has(x, e) <=> (Has(t, e) /\ e # <<t[p].keys[i], t[p].vals[i]>>)
      <4>1. x = Without(t, p, i)
        BY <2>4
      <4> HIDE DEF x
      <4>2. TreeOK(K, t) /\ K \in SUBSET Int /\ LeafCapacity \in Nat
        OBVIOUS
      <4> QED
        BY ONLY <1>1, <1>2, <2>6, <4>1, <4>2, EntryRemoved
    <3> QED
      BY ONLY <2>6, <3>1
  <2> HIDE DEF x
  <2>8. CASE p = Root
    BY <2>4, <2>5, <2>7, <2>8
  <2>9. CASE p # Root
    <3>1. u = RebalanceLeaf(x, p, k)
      BY <2>4, <2>5, <2>9
    <3>2. TreeOK(K, u) /\ \A e : Has(u, e) <=> Has(x, e)
      BY <1>2, <2>7, <2>9, <3>1, RebalancedIs
    <3> QED
      BY <2>7, <3>2
  <2> QED
    BY <2>8, <2>9
<1> QED
  BY <1>7, <1>8

-----------------------------------------------------------------------------
(***************************************************************************)
(* What a scan returns.                                                    *)
(***************************************************************************)

LEMMA EntriesFromIs ==
  ASSUME NEW K, NEW t, NEW v, Closed(K, t, v), NEW p \in DOMAIN t
  PROVE  EntriesFrom(t, p)
           = EntriesOf(t[p]) \o (IF t[p].next = NoPage THEN <<>> ELSE EntriesFrom(t, t[p].next))
<1> DEFINE F(f) == [q \in DOMAIN t |->
                      EntriesOf(t[q]) \o (IF t[q].next = NoPage THEN <<>> ELSE f[t[q].next])]
<1>1. PICK held : \A q \in DOMAIN t : held[q] = EntriesOf(t[q])
  <2>1. \A q \in DOMAIN t : [x \in DOMAIN t |-> EntriesOf(t[x])][q] = EntriesOf(t[q])
    OBVIOUS
  <2> QED
    BY <2>1
<1>2. PICK f : Collects(f, NextLeaf(t), held)
  BY NextDescends, CollectorExists
<1>3. f = F(f)
  <2>1. /\ DOMAIN F(f) = DOMAIN t /\ F(f) = [q \in DOMAIN F(f) |-> F(f)[q]]
        /\ \A q \in DOMAIN t : F(f)[q] = EntriesOf(t[q]) \o (IF t[q].next = NoPage THEN <<>> ELSE f[t[q].next])
    OBVIOUS
  <2>2. DOMAIN NextLeaf(t) = DOMAIN t /\ \A q \in DOMAIN t : NextLeaf(t)[q] = t[q].next
    BY DEF NextLeaf
  <2> HIDE DEF F
  <2>3. /\ DOMAIN f = DOMAIN t /\ f = [q \in DOMAIN f |-> f[q]]
        /\ \A q \in DOMAIN t : f[q] = held[q] \o (IF t[q].next = NoPage THEN <<>> ELSE f[t[q].next])
    BY <1>2, <2>2 DEF Collects
  <2>4. \A q \in DOMAIN t : f[q] = F(f)[q]
    BY <1>1, <2>1, <2>3
  <2> QED
    BY <2>1, <2>3, <2>4
<1>6. (CHOOSE g : g = F(g)) = F(CHOOSE g : g = F(g))
  BY <1>3
<1>7. \A q : EntriesFrom(t, q) = (CHOOSE g : g = F(g))[q]
  BY DEF EntriesFrom
<1>8. (CHOOSE g : g = F(g))[p] = F(CHOOSE g : g = F(g))[p]
  BY <1>6
<1> DEFINE h == CHOOSE g : g = F(g)
<1>9. h[p] = EntriesOf(t[p]) \o (IF t[p].next = NoPage THEN <<>> ELSE h[t[p].next])
  <2>1. h[p] = F(h)[p]
    BY <1>8
  <2> HIDE DEF h
  <2> QED
    BY <2>1
<1> HIDE DEF h
<1>10. \A q : EntriesFrom(t, q) = h[q]
  BY <1>7 DEF h
<1> QED
  BY <1>9, <1>10

\* Leaf x is leaf q or comes after it.
AtOrAfter(t, v, q, x) == x = q \/ v[x].lo \subseteq v[q].hi

\* A leaf that starts no earlier than q is q or comes after it.
LEMMA LeavesInOrder ==
  ASSUME NEW K \in SUBSET Int, NEW t, NEW v, Closed(K, t, v), NEW q \in DOMAIN t, t[q].leaf,
         NEW x \in DOMAIN t, t[x].leaf
  PROVE  v[x].lo \subseteq v[q].lo <=> AtOrAfter(t, v, q, x)
<1>1. Shape(K, t, v, NoPage)
  BY DEF Closed
<1>2. /\ v[x].lo \in Cuts /\ v[q].lo \in Cuts /\ v[x].hi \in Cuts /\ v[q].hi \in Cuts
      /\ v[q].hi \subseteq v[q].lo
  BY <1>1, Measures, HiInLo
<1>3. ASSUME v[x].lo \subseteq v[q].lo, ~(v[x].lo \subseteq v[q].hi) PROVE x = q
  <2>1. PICK y \in v[x].lo : y \notin v[q].hi
    BY <1>3
  <2>2. y \in Int /\ In(v, q, y)
    BY <1>2, <1>3, <2>1 DEF Cuts, In
  <2>3. CASE y \notin v[x].hi
    <3>1. In(v, x, y)
      BY <2>1, <2>3 DEF In
    <3> QED
      BY <2>2, <3>1, LeafIs
  <2>4. CASE y \in v[x].hi
    <3>1. PICK z \in Int : In(v, x, z)
      BY <1>1, Measures
    <3>2. ~(y <= z)
      BY <1>2, <2>2, <2>4, <3>1, CutOrder DEF In
    <3>3. z \notin v[q].hi
      <4>1. z <= y
        BY <2>2, <3>2
      <4> QED
        BY <1>2, <2>1, <2>2, <4>1, CutOrder
    <3>4. In(v, q, z)
      BY <1>3, <3>1, <3>3 DEF In
    <3> QED
      BY <3>1, <3>4, LeafIs
  <2> QED
    BY <2>3, <2>4
<1> QED
  BY <1>2, <1>3 DEF AtOrAfter

\* The entries of a leaf and of those after it.
Onward(t, v, q, e) == \E x \in DOMAIN t : t[x].leaf /\ AtOrAfter(t, v, q, x) /\ Holds(t[x], e)

Lists(s, X, t, v, q) ==
  /\ s \in Seq(X)
  /\ \A e : (\E i \in 1 .. Len(s) : s[i] = e) <=> Onward(t, v, q, e)

\* c has what s and z have.
HasBoth(X, s, z, c) ==
  /\ c \in Seq(X)
  /\ \A e : (\E i \in 1 .. Len(c) : c[i] = e)
              <=> ((\E i \in 1 .. Len(s) : s[i] = e) \/ (\E i \in 1 .. Len(z) : z[i] = e))

LEMMA ConcatHas ==
  ASSUME NEW X, NEW s, s \in Seq(X), NEW z, z \in Seq(X)
  PROVE  HasBoth(X, s, z, s \o z)
<1> DEFINE c == s \o z
<1>1. /\ c \in Seq(X) /\ Len(c) = Len(s) + Len(z) /\ Len(s) \in Nat /\ Len(z) \in Nat
      /\ \A i \in 1 .. Len(s) + Len(z) : c[i] = IF i <= Len(s) THEN s[i] ELSE z[i - Len(s)]
  OBVIOUS
<1> HIDE DEF c
<1>2. ASSUME NEW i \in 1 .. Len(s) PROVE i \in 1 .. Len(c) /\ c[i] = s[i]
  BY <1>1
<1>3. ASSUME NEW i \in 1 .. Len(z) PROVE Len(s) + i \in 1 .. Len(c) /\ c[Len(s) + i] = z[i]
  <2>1. Len(s) + i \in 1 .. Len(c) /\ ~(Len(s) + i <= Len(s)) /\ (Len(s) + i) - Len(s) = i
    BY <1>1
  <2> QED
    BY <1>1, <2>1
<1>4. ASSUME NEW i \in 1 .. Len(c)
      PROVE  (\E j \in 1 .. Len(s) : s[j] = c[i]) \/ (\E j \in 1 .. Len(z) : z[j] = c[i])
  <2>1. CASE i <= Len(s)
    BY <1>1, <2>1
  <2>2. CASE ~(i <= Len(s))
    <3>1. i - Len(s) \in 1 .. Len(z) /\ c[i] = z[i - Len(s)]
      BY <1>1, <2>2
    <3> QED
      BY <3>1
  <2> QED
    BY <2>1, <2>2
<1>5. \A e : (\E i \in 1 .. Len(c) : c[i] = e)
               <=> ((\E i \in 1 .. Len(s) : s[i] = e) \/ (\E i \in 1 .. Len(z) : z[i] = e))
  BY <1>2, <1>3, <1>4
<1>6. HasBoth(X, s, z, c)
  BY <1>1, <1>5 DEF HasBoth
<1> QED
  BY <1>6 DEF c

\* What the last leaf has, and a leaf has if the next one has it, all leaves have.
LEMMA AlongLeaves ==
  ASSUME NEW K \in SUBSET Int, NEW t, NEW v, Closed(K, t, v), NEW S,
         \A q \in DOMAIN t : t[q].leaf /\ (t[q].next = NoPage \/ t[q].next \in S) => q \in S
  PROVE  \A q \in DOMAIN t : t[q].leaf => q \in S
<1> DEFINE L == {q \in DOMAIN t : t[q].leaf /\ q \notin S}
           N == {Cardinality(After(t, v, q)) : q \in L}
           h == [q \in DOMAIN t |-> Cardinality(After(t, v, q))]
<1>1. Shape(K, t, v, NoPage) /\ NoPage \notin DOMAIN t
  BY NoPageIsNone DEF Closed
<1>2. /\ \A q \in DOMAIN t : Cardinality(After(t, v, q)) \in Nat
      /\ \A q \in DOMAIN t : t[q].next # NoPage =>
           /\ t[q].next \in DOMAIN t
           /\ Cardinality(After(t, v, t[q].next)) < Cardinality(After(t, v, q))
  <2>1. Descends(NextLeaf(t), h, Cardinality(DOMAIN t))
    BY NextDescends
  <2>2. DOMAIN NextLeaf(t) = DOMAIN t /\ \A q \in DOMAIN t : NextLeaf(t)[q] = t[q].next
    BY DEF NextLeaf
  <2>3. \A q \in DOMAIN t : h[q] = Cardinality(After(t, v, q))
    OBVIOUS
  <2> HIDE DEF h
  <2>4. \A q \in DOMAIN t : h[q] \in Nat
    BY <2>1, <2>2 DEF Descends
  <2>5. \A q \in DOMAIN t : t[q].next # NoPage => t[q].next \in DOMAIN t /\ h[t[q].next] < h[q]
    BY <2>1, <2>2 DEF Descends
  <2> QED
    BY <2>3, <2>4, <2>5
<1>3. SUFFICES ASSUME L # {} PROVE FALSE
  OBVIOUS
<1>4. PICK q \in L : \A x \in L : Cardinality(After(t, v, q)) <= Cardinality(After(t, v, x))
  <2>1. N \in SUBSET Nat /\ N # {}
    BY <1>2, <1>3
  <2>2. Min(N) \in N /\ \A n \in N : Min(N) <= n
    <3> HIDE DEF N
    <3> QED
      BY <2>1, MinIs
  <2>3. PICK q \in L : Min(N) = Cardinality(After(t, v, q))
    BY <2>2
  <2> QED
    BY <2>2, <2>3
<1>5. t[q].next # NoPage /\ t[q].next \notin S /\ q \in DOMAIN t /\ t[q].leaf
  OBVIOUS
<1>6. t[q].next \in DOMAIN t /\ t[t[q].next].leaf
  BY <1>1, <1>5 DEF Shape, LeafOK
<1> QED
  BY <1>2, <1>4, <1>5, <1>6

\* EntriesFrom lists the pairs of a leaf and of all leaves after it.
LEMMA EntriesFromList ==
  ASSUME NEW K \in SUBSET Int, NEW t, NEW v, Closed(K, t, v)
  PROVE  \A q \in DOMAIN t : t[q].leaf => Lists(EntriesFrom(t, q), K \X RidsOf(K), t, v, q)
<1> DEFINE X == K \X RidsOf(K)
           S == {q \in DOMAIN t : Lists(EntriesFrom(t, q), X, t, v, q)}
<1> HIDE DEF X, S
<1>1. Shape(K, t, v, NoPage) /\ NoPage \notin DOMAIN t
  BY NoPageIsNone DEF Closed
<1>2. ASSUME NEW q \in DOMAIN t, t[q].leaf, t[q].next = NoPage \/ t[q].next \in S
      PROVE  q \in S
  <2>1. Shape(K, t, v, NoPage) /\ NoPage \notin DOMAIN t
    BY <1>1
  <2>5. q \in DOMAIN t /\ t[q].leaf
    BY <1>2
  <2>6. EntriesFrom(t, q) = EntriesOf(t[q]) \o (IF t[q].next = NoPage THEN <<>> ELSE EntriesFrom(t, t[q].next))
    BY <2>5, EntriesFromIs
  <2>7. NodeOK(K, t, v, q) /\ LeafOK(K, t, v, q)
    BY <2>1, <2>5 DEF Shape
  <2>8. /\ EntriesOf(t[q]) \in Seq(X)
        /\ \A e : (\E i \in 1 .. Len(EntriesOf(t[q])) : EntriesOf(t[q])[i] = e) <=> Holds(t[q], e)
    <3>1. /\ t[q].keys \in Seq(K) /\ t[q].vals \in Seq(RidsOf(K)) /\ Len(t[q].vals) = Len(t[q].keys)
          /\ Len(t[q].keys) \in Nat
      BY <2>7, KeysAre DEF NodeOK, LeafOK
    <3>2. \A i \in 1 .. Len(t[q].keys) : <<t[q].keys[i], t[q].vals[i]>> \in X
      BY <3>1 DEF X
    <3>3. EntriesOf(t[q]) \in Seq(X)
      BY <3>1, <3>2 DEF EntriesOf
    <3>4. \A e : Contains(EntriesOf(t[q]), e) <=> Holds(t[q], e)
      BY <3>1, EntriesAre
    <3> QED
      BY <3>3, <3>4 DEF Contains
  <2>9. CASE t[q].next = NoPage
    <3>1. EntriesFrom(t, q) = EntriesOf(t[q])
      BY <2>6, <2>8, <2>9
    <3>2. v[q].hi = {}
      BY <2>1, <2>7, <2>9 DEF LeafOK
    <3>3. ASSUME NEW x \in DOMAIN t, AtOrAfter(t, v, q, x) PROVE x = q
      <4>1. v[x].lo # {}
        BY <2>1, Measures DEF In
      <4> QED
        BY <3>2, <3>3, <4>1 DEF AtOrAfter
    <3>4. \A e : Onward(t, v, q, e) <=> Holds(t[q], e)
      BY <2>5, <3>3 DEF Onward, AtOrAfter
    <3>5. Lists(EntriesFrom(t, q), X, t, v, q)
      BY <2>8, <3>1, <3>4 DEF Lists
    <3> QED
      BY <3>5 DEF S
  <2>10. CASE t[q].next # NoPage
    <3> DEFINE n == t[q].next
    <3>1. n \in DOMAIN t /\ t[n].leaf /\ v[n].lo = v[q].hi
      BY <2>1, <2>5, <2>7, <2>10 DEF LeafOK
    <3>3. Lists(EntriesFrom(t, n), X, t, v, n)
      BY <1>2, <2>10 DEF S
    <3>4. EntriesFrom(t, q) = EntriesOf(t[q]) \o EntriesFrom(t, n)
      BY <2>6, <2>10
    <3> HIDE DEF n
    <3>5. ASSUME NEW x \in DOMAIN t, t[x].leaf PROVE AtOrAfter(t, v, q, x) <=> (x = q \/ AtOrAfter(t, v, n, x))
      BY <3>1, <3>5, LeavesInOrder DEF AtOrAfter
    <3>6. \A e : Onward(t, v, q, e) <=> (Holds(t[q], e) \/ Onward(t, v, n, e))
      BY <2>5, <3>5 DEF Onward
    <3>7. EntriesFrom(t, n) \in Seq(X)
          /\ \A e : (\E i \in 1 .. Len(EntriesFrom(t, n)) : EntriesFrom(t, n)[i] = e) <=> Onward(t, v, n, e)
      BY <3>3 DEF Lists
    <3>8. Lists(EntriesFrom(t, q), X, t, v, q)
      <4>1. PICK a, b : a = EntriesOf(t[q]) /\ b = EntriesFrom(t, n)
        OBVIOUS
      <4>2. a \in Seq(X) /\ b \in Seq(X)
        BY <2>8, <3>7, <4>1
      <4>3. HasBoth(X, a, b, a \o b)
        BY ONLY <4>2, ConcatHas
      <4>4. EntriesFrom(t, q) = a \o b
        BY <3>4, <4>1
      <4>5. /\ \A e : (\E i \in 1 .. Len(a) : a[i] = e) <=> Holds(t[q], e)
            /\ \A e : (\E i \in 1 .. Len(b) : b[i] = e) <=> Onward(t, v, n, e)
        BY <2>8, <3>7, <4>1
      <4> QED
        BY ONLY <3>6, <4>3, <4>4, <4>5 DEF Lists, HasBoth
    <3> QED
      BY <3>8 DEF S
  <2> QED
    BY <2>9, <2>10
<1>3. \A q \in DOMAIN t : t[q].leaf => q \in S
  BY <1>2, AlongLeaves
<1> QED
  BY <1>3 DEF S, X

\* Down along the first children.
Leftmost(t) == [p \in DOMAIN t |-> IF t[p].leaf THEN NoPage ELSE t[p].vals[1]]

\* A first child is in the tree and starts where its parent starts.
DownLeft(t, v) ==
  \A p \in DOMAIN t : ~t[p].leaf => t[p].vals[1] \in DOMAIN t /\ v[t[p].vals[1]].lo = v[p].lo

Heights(t, v) == [p \in DOMAIN t |-> v[p].height]

LEMMA LeftmostDescends ==
  ASSUME NEW K, NEW t, NEW v, Closed(K, t, v)
  PROVE  /\ Descends(Leftmost(t), Heights(t, v), v[Root].height)
         /\ DownLeft(t, v)
<1>1. Shape(K, t, v, NoPage) /\ NoPage \notin DOMAIN t /\ Root \in DOMAIN t
  BY NoPageIsNone DEF Closed, Shape
<1>2. ASSUME NEW p \in DOMAIN t, ~t[p].leaf
      PROVE  /\ t[p].vals[1] \in DOMAIN t /\ v[t[p].vals[1]].height + 1 = v[p].height
             /\ v[t[p].vals[1]].lo = v[p].lo
  <2>1. InnerOK(t, v, NoPage, p) /\ NodeOK(K, t, v, p)
    BY <1>1, <1>2 DEF Shape
  <2>2. 1 \in 1 .. Len(t[p].vals)
    <3>1. Len(t[p].vals) = Len(t[p].keys) + 1 /\ Len(t[p].keys) \in Nat
      <4>1. t[p].keys \in Seq(K) /\ Len(t[p].vals) = Len(t[p].keys) + 1
        BY <2>1 DEF InnerOK, NodeOK
      <4> QED
        BY <4>1, LenProperties
    <3> QED
      BY <3>1
  <2>3. ChildOK(t, v, NoPage, p, 1)
    BY <2>1, <2>2 DEF InnerOK
  <2> QED
    BY <2>3 DEF ChildOK
<1>3. \A p \in DOMAIN t : v[p].height \in 0 .. v[Root].height /\ v[p].height \in Nat /\ v[Root].height \in Nat
  BY <1>1, Measures
<1>4. \A p \in DOMAIN t : ~t[p].leaf => v[t[p].vals[1]].height < v[p].height
  BY <1>2, <1>3
<1>5. Descends(Leftmost(t), Heights(t, v), v[Root].height)
  <2> DEFINE h == Heights(t, v)
  <2>1. h \in [DOMAIN t -> 0 .. v[Root].height] /\ \A p \in DOMAIN t : h[p] = v[p].height
    BY <1>3 DEF Heights
  <2> HIDE DEF h
  <2>2. \A p \in DOMAIN t : Leftmost(t)[p] = IF t[p].leaf THEN NoPage ELSE t[p].vals[1]
    BY DEF Leftmost
  <2>3. DOMAIN Leftmost(t) = DOMAIN t
    BY DEF Leftmost
  <2>4. ASSUME NEW q \in DOMAIN t, Leftmost(t)[q] # NoPage
        PROVE  Leftmost(t)[q] \in DOMAIN t /\ h[Leftmost(t)[q]] < h[q]
    <3>1. ~t[q].leaf /\ Leftmost(t)[q] = t[q].vals[1]
      BY <2>2, <2>4
    <3> QED
      BY <1>2, <1>4, <2>1, <3>1
  <2> QED
    BY ONLY <1>1, <1>3, <2>1, <2>3, <2>4 DEF Descends, h
<1> QED
  BY <1>2, <1>5 DEF DownLeft

\* ScanAll starts at the leaf with no leaf before it.
LEMMA FirstLeafIs ==
  ASSUME NEW K, NEW t, NEW v, Closed(K, t, v)
  PROVE  FirstLeaf(t) \in DOMAIN t /\ t[FirstLeaf(t)].leaf /\ v[FirstLeaf(t)].lo = Int
<1> DEFINE G(f) == [p \in DOMAIN t |-> IF t[p].leaf THEN p ELSE f[t[p].vals[1]]]
           l == Leftmost(t)
           f0 == [p \in DOMAIN t |-> Last(Path(l, p))]
           w == Path(l, Root)
<1>1. /\ NoPage \notin DOMAIN t /\ Root \in DOMAIN t /\ v[Root].lo = Int
      /\ DOMAIN l = DOMAIN t /\ \A p \in DOMAIN t : l[p] = IF t[p].leaf THEN NoPage ELSE t[p].vals[1]
  BY NoPageIsNone DEF Closed, Shape, Measured, Leftmost
<1>2. \A p \in DOMAIN t : ~t[p].leaf => t[p].vals[1] \in DOMAIN t /\ v[t[p].vals[1]].lo = v[p].lo
  <2>1. DownLeft(t, v)
    BY LeftmostDescends
  <2> QED
    BY ONLY <2>1 DEF DownLeft
<1>3. \A p \in DOMAIN t : IsWay(Path(l, p), l, p)
  BY <1>1, LeftmostDescends, PathIsWay
<1>4. \A p \in DOMAIN t : Path(l, p) = <<p>> \o (IF l[p] = NoPage THEN <<>> ELSE Path(l, l[p]))
  BY <1>1, LeftmostDescends, PathIs
<1> HIDE DEF l
<1>5. ASSUME NEW p \in DOMAIN t
      PROVE  Last(Path(l, p)) = IF t[p].leaf THEN p ELSE Last(Path(l, t[p].vals[1]))
  <2>1. CASE t[p].leaf
    <3>1. l[p] = NoPage
      BY <1>1, <2>1
    <3>2. Path(l, p) = <<p>> \o <<>>
      BY ONLY <1>4, <3>1, p \in DOMAIN t
    <3>3. <<p>> \o <<>> = <<p>>
      OBVIOUS
    <3> QED
      BY <2>1, <3>2, <3>3 DEF Last
  <2>2. CASE ~t[p].leaf
    <3>1. PICK s : s = Path(l, t[p].vals[1])
      OBVIOUS
    <3>2. s \in Seq(DOMAIN t) /\ Len(s) \in Nat \ {0}
      BY <1>1, <1>2, <1>3, <2>2, <3>1 DEF IsWay
    <3>3. Path(l, p) = <<p>> \o s
      BY <1>1, <1>2, <1>4, <2>2, <3>1
    <3>4. Len(<<p>> \o s) = Len(s) + 1 /\ (<<p>> \o s)[Len(s) + 1] = s[Len(s)]
      BY <3>2
    <3> QED
      BY <2>2, <3>1, <3>3, <3>4 DEF Last
  <2> QED
    BY <2>1, <2>2
<1>6. f0 = G(f0)
  BY <1>2, <1>5
<1>7. (CHOOSE g : g = G(g)) = G(CHOOSE g : g = G(g))
  BY <1>6
<1>8. FirstLeaf(t) = (CHOOSE g : g = G(g))[Root]
  BY DEF FirstLeaf
<1> DEFINE h == CHOOSE g : g = G(g)
<1>9. \A p \in DOMAIN t : h[p] = IF t[p].leaf THEN p ELSE h[t[p].vals[1]]
  <2>1. h = G(h)
    BY <1>7
  <2> HIDE DEF h
  <2>2. \A p \in DOMAIN t : G(h)[p] = IF t[p].leaf THEN p ELSE h[t[p].vals[1]]
    OBVIOUS
  <2> HIDE DEF G
  <2> QED
    BY <2>1, <2>2
<1>10. FirstLeaf(t) = h[Root]
  BY <1>8
<1> HIDE DEF h, G, f0
<1> DEFINE A == {q \in DOMAIN t : h[q] = h[Root] /\ v[q].lo = Int}
<1>11. IsWay(w, l, Root)
  BY <1>1, <1>3
<1> HIDE DEF w
<1>12. \A i \in 1 .. Len(w) : w[i] \in A
  <2>1. Root \in A
    BY <1>1
  <2>2. ASSUME NEW q \in DOMAIN l \cap A, l[q] # NoPage PROVE l[q] \in A
    BY <1>1, <1>2, <1>9, <2>2
  <2> HIDE DEF A
  <2> QED
    BY <1>11, <2>1, <2>2, WayStays
<1>13. Len(w) \in 1 .. Len(w) /\ l[w[Len(w)]] = NoPage
  BY <1>11 DEF IsWay
<1>14. PICK z \in A : l[z] = NoPage
  BY <1>12, <1>13
<1>15. t[z].leaf
  BY <1>1, <1>2, <1>14
<1>16. h[Root] = z
  BY <1>9, <1>15
<1> QED
  BY <1>10, <1>15, <1>16

\* ScanAll lists exactly the pairs that the leaves hold.
LEMMA StoredIs ==
  ASSUME NEW K \in SUBSET Int, NEW t, NEW v, Closed(K, t, v)
  PROVE  /\ ScanAll(t) \in Seq(K \X RidsOf(K))
         /\ Stored(t) = {e \in K \X RidsOf(K) : Has(t, e)} /\ \A e : e \in Stored(t) <=> Has(t, e)
<1>1. FirstLeaf(t) \in DOMAIN t /\ t[FirstLeaf(t)].leaf /\ v[FirstLeaf(t)].lo = Int
  BY FirstLeafIs
<1>2. Lists(ScanAll(t), K \X RidsOf(K), t, v, FirstLeaf(t))
  BY <1>1, EntriesFromList DEF ScanAll
<1>3. ASSUME NEW x \in DOMAIN t, t[x].leaf PROVE AtOrAfter(t, v, FirstLeaf(t), x)
  <2>1. v[x].lo \subseteq Int
    <3>1. v[x].lo \in Cuts
      BY Measures DEF Closed
    <3> QED
      BY <3>1 DEF Cuts
  <2> QED
    BY <1>1, <1>3, <2>1, LeavesInOrder
<1>4. \A e : Onward(t, v, FirstLeaf(t), e) <=> Has(t, e)
  BY <1>3 DEF Onward, Has
<1>5. PICK s : s = ScanAll(t)
  OBVIOUS
<1>6. s \in Seq(K \X RidsOf(K)) /\ \A e : (\E i \in 1 .. Len(s) : s[i] = e) <=> Has(t, e)
  BY <1>2, <1>4, <1>5 DEF Lists
<1>7. Stored(t) = {s[i] : i \in 1 .. Len(s)}
  <2>1. Stored(t) = {s[i] : i \in DOMAIN s}
    BY ONLY <1>5 DEF Stored, ToSet
  <2>2. DOMAIN s = 1 .. Len(s)
    BY ONLY <1>6
  <2> QED
    BY ONLY <2>1, <2>2
<1>8. \A i \in 1 .. Len(s) : s[i] \in K \X RidsOf(K)
  BY <1>6
<1> QED
  BY <1>5, <1>6, <1>7, <1>8

-----------------------------------------------------------------------------
(***************************************************************************)
(* What a query reads: the entries from a leaf on, in the order of their   *)
(* keys.                                                                   *)
(***************************************************************************)

InOrder(s) == \A i, j \in 1 .. Len(s) : i < j => s[i][1] < s[j][1]

LEMMA ConcatInOrder ==
  ASSUME NEW X, NEW s, s \in Seq(X), NEW z, z \in Seq(X), \A e \in X : e[1] \in Int,
         InOrder(s), InOrder(z),
         \A i \in 1 .. Len(s), j \in 1 .. Len(z) : s[i][1] < z[j][1]
  PROVE  InOrder(s \o z)
<1>1. Joint(X, s, z, s \o z)
  BY JointIs
<1>2. PICK c : c = s \o z
  OBVIOUS
<1>3. /\ c \in Seq(X) /\ Len(c) = Len(s) + Len(z) /\ Len(s) \in Nat /\ Len(z) \in Nat
      /\ \A j \in 1 .. Len(s) + Len(z) : c[j] = IF j <= Len(s) THEN s[j] ELSE z[j - Len(s)]
  BY <1>1, <1>2 DEF Joint
<1>4. ASSUME NEW i \in 1 .. Len(c), NEW j \in 1 .. Len(c), i < j PROVE c[i][1] < c[j][1]
  <2>1. CASE j <= Len(s)
    <3>1. i \in 1 .. Len(s) /\ j \in 1 .. Len(s) /\ i <= Len(s)
      BY ONLY <1>3, <1>4, <2>1, i \in 1 .. Len(c), j \in 1 .. Len(c)
    <3>2. c[i] = s[i] /\ c[j] = s[j]
      BY <1>3, <2>1, <3>1
    <3> QED
      BY <1>4, <3>1, <3>2 DEF InOrder
  <2>2. CASE ~(j <= Len(s)) /\ i <= Len(s)
    <3>1. i \in 1 .. Len(s) /\ j - Len(s) \in 1 .. Len(z)
      BY ONLY <1>3, <2>2, i \in 1 .. Len(c), j \in 1 .. Len(c)
    <3>2. c[i] = s[i] /\ c[j] = z[j - Len(s)]
      BY <1>3, <2>2
    <3> QED
      BY <3>1, <3>2
  <2>3. CASE ~(j <= Len(s)) /\ ~(i <= Len(s))
    <3>1. i - Len(s) \in 1 .. Len(z) /\ j - Len(s) \in 1 .. Len(z) /\ i - Len(s) < j - Len(s)
      BY ONLY <1>3, <1>4, <2>3, i \in 1 .. Len(c), j \in 1 .. Len(c)
    <3>2. c[i] = z[i - Len(s)] /\ c[j] = z[j - Len(s)]
      BY <1>3, <2>3
    <3> QED
      BY <3>1, <3>2 DEF InOrder
  <2> QED
    BY <2>1, <2>2, <2>3
<1> QED
  BY <1>2, <1>4 DEF InOrder

\* EntriesFrom lists them by ascending key.
LEMMA EntriesInOrder ==
  ASSUME NEW K \in SUBSET Int, NEW t, NEW v, Closed(K, t, v)
  PROVE  \A q \in DOMAIN t : t[q].leaf => InOrder(EntriesFrom(t, q))
<1> DEFINE X == K \X RidsOf(K)
           S == {q \in DOMAIN t : InOrder(EntriesFrom(t, q))}
<1> HIDE DEF X, S
<1>1. Shape(K, t, v, NoPage) /\ NoPage \notin DOMAIN t /\ \A e \in X : e[1] \in Int
  BY NoPageIsNone DEF Closed, X
<1>2. \A q \in DOMAIN t : t[q].leaf => Lists(EntriesFrom(t, q), X, t, v, q)
  BY EntriesFromList DEF X
<1>3. ASSUME NEW q \in DOMAIN t, t[q].leaf, t[q].next = NoPage \/ t[q].next \in S
      PROVE  q \in S
  <2>1. EntriesFrom(t, q)
          = EntriesOf(t[q]) \o (IF t[q].next = NoPage THEN <<>> ELSE EntriesFrom(t, t[q].next))
    BY EntriesFromIs
  <2>2. NodeOK(K, t, v, q) /\ LeafOK(K, t, v, q)
    BY <1>1, <1>3 DEF Shape
  <2>3. PICK n, a : n = t[q] /\ a = EntriesOf(n)
    OBVIOUS
  <2>4. /\ n.keys \in Seq(K) /\ n.vals \in Seq(RidsOf(K)) /\ Len(n.vals) = Len(n.keys)
        /\ Len(n.keys) \in Nat /\ Ascending(n.keys)
        /\ \A i \in 1 .. Len(n.keys) : n.keys[i] \in Int /\ In(v, q, n.keys[i])
    BY <2>2, <2>3, KeysAre DEF NodeOK, LeafOK
  <2>5. /\ Len(a) = Len(n.keys) /\ DOMAIN a = 1 .. Len(n.keys)
        /\ \A i \in 1 .. Len(n.keys) : a[i] = <<n.keys[i], n.vals[i]>>
    BY <2>3, <2>4, EntriesAre
  <2>6. a \in Seq(X)
    <3>1. \A i \in 1 .. Len(n.keys) : <<n.keys[i], n.vals[i]>> \in X
      BY <2>4 DEF X
    <3> QED
      BY <2>3, <2>4, <3>1 DEF EntriesOf
  <2>7. InOrder(a)
    BY <2>4, <2>5 DEF InOrder, Ascending
  <2>8. CASE t[q].next = NoPage
    <3>1. EntriesFrom(t, q) = a
      BY <2>1, <2>3, <2>6, <2>8
    <3> QED
      BY <2>7, <3>1 DEF S
  <2>9. CASE t[q].next # NoPage
    <3>1. PICK r, b : r = t[q].next /\ b = EntriesFrom(t, r)
      OBVIOUS
    <3>2. r \in DOMAIN t /\ t[r].leaf /\ v[r].lo = v[q].hi
      BY <1>1, <1>3, <2>2, <2>9, <3>1 DEF LeafOK
    <3>3. b \in Seq(X) /\ \A i \in 1 .. Len(b) : Onward(t, v, r, b[i])
      BY <1>2, <3>1, <3>2 DEF Lists
    <3>4. InOrder(b)
      BY <1>3, <2>9, <3>1 DEF S
    <3>5. ASSUME NEW i \in 1 .. Len(a), NEW j \in 1 .. Len(b) PROVE a[i][1] < b[j][1]
      <4>1. PICK x \in DOMAIN t : t[x].leaf /\ AtOrAfter(t, v, r, x) /\ Holds(t[x], b[j])
        BY <3>3 DEF Onward
      <4>2. PICK l \in 1 .. Len(t[x].keys) : b[j] = <<t[x].keys[l], t[x].vals[l]>>
        BY <4>1 DEF Holds
      <4>3. b[j][1] = t[x].keys[l] /\ In(v, x, t[x].keys[l])
        BY <1>1, <4>2 DEF Shape, NodeOK
      <4>4. v[x].lo \subseteq v[r].lo
        BY <3>2, <4>1, LeavesInOrder
      <4>5. b[j][1] \in v[q].hi
        BY <3>2, <4>3, <4>4 DEF In
      <4>6. a[i][1] \notin v[q].hi /\ a[i][1] \in Int
        BY <2>4, <2>5 DEF In
      <4>7. b[j][1] \in Int
        BY <1>1, <3>3
      <4>8. v[q].hi \in Cuts
        BY <1>1, Measures
      <4>9. ~(b[j][1] <= a[i][1])
        BY <4>5, <4>6, <4>7, <4>8, CutOrder
      <4> QED
        BY <4>6, <4>7, <4>9
    <3>6. EntriesFrom(t, q) = a \o b
      BY <2>1, <2>3, <2>9, <3>1
    <3>7. InOrder(a \o b)
      BY ONLY <1>1, <2>6, <2>7, <3>3, <3>4, <3>5, ConcatInOrder
    <3> QED
      BY <3>6, <3>7 DEF S
  <2> QED
    BY <2>8, <2>9
<1>4. \A q \in DOMAIN t : t[q].leaf => q \in S
  BY <1>3, AlongLeaves
<1> QED
  BY <1>4 DEF S

\* The entries whose keys are from lo to hi, out of a sequence in order.
Middle(s, first, after) ==
  IF first = 0 THEN <<>> ELSE SubSeq(s, first, IF after = 0 THEN Len(s) ELSE after - 1)

Listed(s, e) == \E i \in 1 .. Len(s) : s[i] = e

Starts(n, I, m) == m \in 0 .. n /\ \A i \in 1 .. n : i \in I <=> (m # 0 /\ m <= i)

LEMMA FirstOf ==
  ASSUME NEW n \in Nat, NEW I \in SUBSET (1 .. n), \A i \in I, j \in 1 .. n : i < j => j \in I,
         NEW m, m = IF I # {} THEN Min(I) ELSE 0
  PROVE  Starts(n, I, m)
<1>1. CASE I = {}
  BY <1>1 DEF Starts
<1>2. CASE I # {}
  <2>1. I \in SUBSET Nat
    OBVIOUS
  <2>2. m \in I /\ \A i \in I : m <= i
    BY <1>2, <2>1, MinIs
  <2>3. m \in 1 .. n
    BY <2>2
  <2>4. ASSUME NEW i \in 1 .. n, m <= i PROVE i \in I
    <3>1. m = i \/ m < i
      BY <2>3, <2>4
    <3> QED
      BY <2>2, <3>1
  <2> QED
    BY <2>2, <2>3, <2>4 DEF Starts
<1> QED
  BY <1>1, <1>2

FirstFrom(s, lo) == SelectInSeq(s, LAMBDA e : lo <= e[1])
FirstAfter(s, hi) == SelectInSeq(s, LAMBDA e : hi < e[1])

IsMiddle(X, s, lo, hi, b) ==
  /\ b \in Seq(X) /\ InOrder(b)
  /\ \A e : Listed(b, e) <=> (Listed(s, e) /\ lo <= e[1] /\ e[1] <= hi)

LEMMA MiddleIs ==
  ASSUME NEW X, \A e \in X : e[1] \in Int, NEW s \in Seq(X), InOrder(s),
         NEW lo \in Int, NEW hi \in Int,
         NEW first, first = FirstFrom(s, lo),
         NEW after, after = FirstAfter(s, hi),
         NEW b, b = Middle(s, first, after)
  PROVE  IsMiddle(X, s, lo, hi, b)
<1> DEFINE I == {i \in 1 .. Len(s) : lo <= s[i][1]}
           J == {i \in 1 .. Len(s) : hi < s[i][1]}
<1>1. Len(s) \in Nat /\ \A i \in 1 .. Len(s) : s[i] \in X /\ s[i][1] \in Int
  OBVIOUS
<1>2. ASSUME NEW i \in 1 .. Len(s), NEW j \in 1 .. Len(s), i < j PROVE s[i][1] < s[j][1]
  BY <1>2 DEF InOrder
<1>3. first = (IF I # {} THEN Min(I) ELSE 0) /\ after = (IF J # {} THEN Min(J) ELSE 0)
  BY DEF SelectInSeq, FirstFrom, FirstAfter
<1>4. /\ first \in 0 .. Len(s)
      /\ \A i \in 1 .. Len(s) : lo <= s[i][1] <=> (first # 0 /\ first <= i)
  <2>1. I \in SUBSET (1 .. Len(s))
    OBVIOUS
  <2>2. \A i \in I, j \in 1 .. Len(s) : i < j => j \in I
    BY <1>1, <1>2
  <2>3. \A i \in 1 .. Len(s) : i \in I <=> lo <= s[i][1]
    OBVIOUS
  <2> HIDE DEF I
  <2>4. Starts(Len(s), I, first)
    BY ONLY <1>1, <1>3, <2>1, <2>2, FirstOf
  <2> QED
    BY ONLY <2>3, <2>4 DEF Starts
<1>5. /\ after \in 0 .. Len(s)
      /\ \A i \in 1 .. Len(s) : hi < s[i][1] <=> (after # 0 /\ after <= i)
  <2>1. J \in SUBSET (1 .. Len(s))
    OBVIOUS
  <2>2. \A i \in J, j \in 1 .. Len(s) : i < j => j \in J
    BY <1>1, <1>2
  <2>3. \A i \in 1 .. Len(s) : i \in J <=> hi < s[i][1]
    OBVIOUS
  <2> HIDE DEF J
  <2>4. Starts(Len(s), J, after)
    BY ONLY <1>1, <1>3, <2>1, <2>2, FirstOf
  <2> QED
    BY ONLY <2>3, <2>4 DEF Starts
<1> HIDE DEF I, J
<1>6. PICK z : z = IF after = 0 THEN Len(s) ELSE after - 1
  OBVIOUS
<1>7. z \in 0 .. Len(s) /\ \A i \in 1 .. Len(s) : (after # 0 /\ after <= i) <=> ~(i <= z)
  BY ONLY <1>1, <1>5, <1>6
<1>8. \A i \in 1 .. Len(s) : s[i][1] <= hi <=> i <= z
  <2> SUFFICES ASSUME NEW i \in 1 .. Len(s) PROVE s[i][1] <= hi <=> i <= z
    OBVIOUS
  <2>1. s[i][1] <= hi <=> ~(hi < s[i][1])
    BY <1>1
  <2> QED
    BY ONLY <1>5, <1>7, <2>1, i \in 1 .. Len(s)
<1>9. CASE first = 0
  <2>1. b = <<>>
    BY <1>9 DEF Middle
  <2>2. b \in Seq(X) /\ Len(b) = 0
    BY <2>1
  <2>3. InOrder(b) /\ \A e : ~Listed(b, e)
    <3>1. 1 .. Len(b) = {}
      BY ONLY <2>2
    <3> QED
      BY ONLY <3>1 DEF InOrder, Listed
  <2>4. \A e : Listed(s, e) => ~(lo <= e[1])
    BY <1>4, <1>9 DEF Listed
  <2> QED
    BY <2>2, <2>3, <2>4 DEF IsMiddle
<1>10. CASE first # 0
  <2>1. first \in 1 .. Len(s) /\ first \in 1 .. Len(s) + 1
    BY <1>1, <1>4, <1>10
  <2>2. b = SubSeq(s, first, z)
    BY <1>6, <1>10 DEF Middle
  <2>3. /\ b \in Seq(X) /\ Len(b) = IF first <= z THEN z - first + 1 ELSE 0
        /\ \A j \in 1 .. z - first + 1 : b[j] = s[first + j - 1]
    BY ONLY <1>1, <1>7, <2>1, <2>2, s \in Seq(X), SubSeqProperties
  <2>4. ASSUME NEW j \in 1 .. Len(b)
        PROVE  /\ first + j - 1 \in 1 .. Len(s) /\ b[j] = s[first + j - 1]
               /\ first <= first + j - 1 /\ first + j - 1 <= z
    <3>1. j \in 1 .. z - first + 1
      BY ONLY <1>7, <2>1, <2>3, j \in 1 .. Len(b)
    <3>2. first + j - 1 \in 1 .. Len(s) /\ first <= first + j - 1 /\ first + j - 1 <= z
      BY ONLY <1>1, <1>7, <2>1, <3>1
    <3> QED
      BY ONLY <2>3, <3>1, <3>2
  <2>5. ASSUME NEW i \in 1 .. Len(s), first <= i, i <= z PROVE Listed(b, s[i])
    <3>1. i - first + 1 \in 1 .. Len(b) /\ first + (i - first + 1) - 1 = i
      BY ONLY <1>7, <2>1, <2>3, <2>5, i \in 1 .. Len(s)
    <3>2. b[i - first + 1] = s[i]
      BY ONLY <2>4, <3>1
    <3> QED
      BY <3>1, <3>2 DEF Listed
  <2>6. InOrder(b)
    <3> SUFFICES ASSUME NEW i \in 1 .. Len(b), NEW j \in 1 .. Len(b), i < j PROVE b[i][1] < b[j][1]
      BY DEF InOrder
    <3>1. first + i - 1 < first + j - 1
      BY <2>1
    <3> QED
      BY <1>2, <2>4, <3>1
  <2>7. ASSUME NEW e PROVE Listed(b, e) <=> (Listed(s, e) /\ lo <= e[1] /\ e[1] <= hi)
    <3>1. ASSUME Listed(b, e) PROVE Listed(s, e) /\ lo <= e[1] /\ e[1] <= hi
      <4>1. PICK j \in 1 .. Len(b) : b[j] = e
        BY <3>1 DEF Listed
      <4>2. PICK i \in 1 .. Len(s) : s[i] = e /\ first <= i /\ i <= z
        BY <2>4, <4>1
      <4> QED
        BY <1>4, <1>8, <1>10, <4>2 DEF Listed
    <3>2. ASSUME Listed(s, e), lo <= e[1], e[1] <= hi PROVE Listed(b, e)
      <4>1. PICK i \in 1 .. Len(s) : s[i] = e
        BY <3>2 DEF Listed
      <4>2. first <= i /\ i <= z
        BY <1>4, <1>8, <3>2, <4>1
      <4> QED
        BY <2>5, <4>1, <4>2
    <3> QED
      BY <3>1, <3>2
  <2> QED
    BY <2>3, <2>6, <2>7 DEF IsMiddle
<1> QED
  BY <1>9, <1>10 DEF IsMiddle

\* Between finds all the entries from lo to hi, and no others.
LEMMA BetweenIs ==
  ASSUME NEW K \in SUBSET Int, NEW t, NEW v, Closed(K, t, v), NEW lo \in Int, NEW hi \in Int
  PROVE  /\ Between(t, lo, hi) \in Seq(K \X RidsOf(K)) /\ InOrder(Between(t, lo, hi))
         /\ \A e : Listed(Between(t, lo, hi), e) <=> (Has(t, e) /\ lo <= e[1] /\ e[1] <= hi)
<1> DEFINE X == K \X RidsOf(K)
<1>1. PICK p : p = FindLeafPage(t, lo)
  OBVIOUS
<1>2. p \in DOMAIN t /\ t[p].leaf /\ In(v, p, lo)
  BY <1>1, LeafIs
<1>3. PICK s : s = EntriesFrom(t, p)
  OBVIOUS
<1>4. s \in Seq(X) /\ (\A e : Listed(s, e) <=> Onward(t, v, p, e)) /\ InOrder(s)
  <2>1. Lists(s, X, t, v, p)
    BY <1>2, <1>3, EntriesFromList
  <2>2. InOrder(s)
    BY <1>2, <1>3, EntriesInOrder
  <2> HIDE DEF X
  <2> QED
    BY ONLY <2>1, <2>2 DEF Lists, Listed
<1>5. PICK first, after : first = FirstFrom(s, lo) /\ after = FirstAfter(s, hi)
  OBVIOUS
<1>6. PICK b : b = Between(t, lo, hi)
  OBVIOUS
<1>7. b = Middle(s, first, after)
  BY <1>1, <1>3, <1>5, <1>6 DEF Between, Middle, FirstFrom, FirstAfter
<1>8. \A e \in X : e[1] \in Int
  OBVIOUS
<1>9. /\ b \in Seq(X) /\ InOrder(b)
      /\ \A e : Listed(b, e) <=> (Listed(s, e) /\ lo <= e[1] /\ e[1] <= hi)
  <2> HIDE DEF X
  <2>1. s \in Seq(X) /\ InOrder(s) /\ \A e \in X : e[1] \in Int
    BY ONLY <1>4, <1>8
  <2>2. first = FirstFrom(s, lo) /\ after = FirstAfter(s, hi)
    BY <1>5
  <2>3. IsMiddle(X, s, lo, hi, b)
    BY ONLY <1>7, <2>1, <2>2, lo \in Int, hi \in Int, MiddleIs
  <2> QED
    BY ONLY <2>3 DEF IsMiddle
<1>10. ASSUME NEW e, Has(t, e), lo <= e[1] PROVE Onward(t, v, p, e)
  <2>1. PICK x \in DOMAIN t : t[x].leaf /\ Holds(t[x], e)
    BY <1>10 DEF Has
  <2>2. PICK i \in 1 .. Len(t[x].keys) : e = <<t[x].keys[i], t[x].vals[i]>>
    BY <2>1 DEF Holds
  <2>3. Shape(K, t, v, NoPage) /\ NodeOK(K, t, v, x)
    BY DEF Closed, Shape
  <2>4. e[1] \in Int /\ e[1] \in v[x].lo /\ e[1] \notin v[x].hi
    <3>1. e[1] = t[x].keys[i] /\ t[x].keys[i] \in K
      BY <2>2, <2>3, KeysAre DEF NodeOK
    <3> QED
      BY <2>3, <3>1 DEF NodeOK, In
  <2>5. /\ v[x].lo \in Cuts /\ v[x].hi \in Cuts /\ v[p].lo \in Cuts
    BY <1>2, <2>3, Measures
  <2>6. v[x].lo \subseteq v[p].lo \/ v[p].lo \subseteq v[x].lo
    BY <2>5 DEF Cuts
  <2>7. CASE v[x].lo \subseteq v[p].lo
    <3>1. AtOrAfter(t, v, p, x)
      BY <1>2, <2>1, <2>7, LeavesInOrder
    <3> QED
      BY <2>1, <3>1 DEF Onward
  <2>8. CASE v[p].lo \subseteq v[x].lo
    <3>1. AtOrAfter(t, v, x, p)
      BY <1>2, <2>1, <2>8, LeavesInOrder
    <3>2. lo \in v[p].lo
      BY <1>2 DEF In
    <3>3. ~(v[p].lo \subseteq v[x].hi)
      BY <1>10, <2>4, <2>5, <3>2, CutOrder
    <3>4. p = x
      BY <3>1, <3>3 DEF AtOrAfter
    <3> QED
      BY <1>2, <2>1, <3>4 DEF Onward, AtOrAfter
  <2> QED
    BY <2>6, <2>7, <2>8
<1>11. \A e : Onward(t, v, p, e) => Has(t, e)
  BY DEF Onward, Has
<1>12. \A e : Listed(b, e) <=> (Has(t, e) /\ lo <= e[1] /\ e[1] <= hi)
  BY <1>4, <1>9, <1>10, <1>11
<1> QED
  BY <1>6, <1>9, <1>12

\* No pair is twice in a sequence in order.
LEMMA OrderedOnce ==
  ASSUME NEW X, \A e \in X : e[1] \in Int, NEW s \in Seq(X), InOrder(s)
  PROVE  Cardinality({s[i] : i \in 1 .. Len(s)}) = Len(s)
<1> DEFINE S == {s[i] : i \in 1 .. Len(s)}
           f == [i \in 1 .. Len(s) |-> s[i]]
<1>1. Len(s) \in Nat /\ \A i \in 1 .. Len(s) : s[i][1] \in Int
  OBVIOUS
<1>2. ASSUME NEW i \in 1 .. Len(s), NEW j \in 1 .. Len(s), s[i] = s[j] PROVE i = j
  <2>1. i < j => s[i][1] < s[j][1]
    BY DEF InOrder
  <2>2. j < i => s[j][1] < s[i][1]
    BY DEF InOrder
  <2>3. ~(i < j) /\ ~(j < i)
    BY <1>1, <1>2, <2>1, <2>2
  <2> QED
    BY <2>3
<1>3. f \in Bijection(1 .. Len(s), S)
  BY <1>2 DEF Bijection, Injection, Surjection, IsInjective
<1> HIDE DEF f, S
<1>4. ExistsBijection(1 .. Len(s), S)
  BY <1>3 DEF ExistsBijection
<1>5. Cardinality(S) = Len(s)
  BY ONLY <1>1, <1>4, FS_CountingElements
<1> QED
  BY <1>5 DEF S

-----------------------------------------------------------------------------
(***************************************************************************)
(* The program.                                                            *)
(***************************************************************************)

\* The inductive invariant.
TreeInv == kind \in Kinds /\ TreeOK(kind.keys, nodes)

LEMMA Capacities ==
  ASSUME kind \in Kinds
  PROVE  /\ kind.keys \in SUBSET Int /\ Rids = RidsOf(kind.keys)
         /\ LeafCapacity \in Nat /\ LeafCapacity >= 2
         /\ InternalCapacity \in Nat /\ InternalCapacity >= 2
<1>1. /\ kind.keys \subseteq Int
      /\ kind.leafSlots \in Nat /\ kind.leafSlots >= 3
      /\ kind.internalSlots \in Nat /\ kind.internalSlots >= 3
  BY TreeAssumption
<1>2. LeafCapacity = kind.leafSlots - 1 /\ InternalCapacity = kind.internalSlots - 1
  BY DEF LeafCapacity, InternalCapacity
<1>3. Rids = RidsOf(kind.keys)
  BY DEF Rids, RidsOf
<1> QED
  BY <1>1, <1>2, <1>3

\* A pair of the index is a key and the RID of a row with that key.
LEMMA PairIs ==
  ASSUME kind \in Kinds, NEW e \in Pairs
  PROVE  e[1] \in kind.keys /\ e[2] \in RidsOf(kind.keys) /\ e = <<e[1], e[2]>>
<1>1. PICK r \in Rids : e = <<r[1], r>>
  BY DEF Pairs
<1>2. r \in RidsOf(kind.keys)
  BY Capacities
<1>3. r[1] \in kind.keys
  BY <1>2 DEF RidsOf
<1> QED
  BY <1>1, <1>2, <1>3

\* The constructor's page is a tree with nothing in it.
LEMMA EmptyIs ==
  ASSUME NEW K \in SUBSET Int, LeafCapacity \in Nat,
         NEW t, t = [p \in {Root} |-> Leaf(<<>>, <<>>, NoPage)]
  PROVE  TreeOK(K, t) /\ \A e : ~Has(t, e)
<1> DEFINE v == [p \in {Root} |-> [height |-> 0, lo |-> Int, hi |-> {}, far |-> {}]]
<1>1. /\ DOMAIN t = {Root} /\ t[Root] = Leaf(<<>>, <<>>, NoPage) /\ Root = 0
      /\ v[Root] = [height |-> 0, lo |-> Int, hi |-> {}, far |-> {}]
  BY DEF Root
<1>2. /\ t[Root].leaf = TRUE /\ t[Root].keys = <<>> /\ t[Root].vals = <<>> /\ t[Root].next = NoPage
      /\ t[Root] = [leaf |-> TRUE, keys |-> <<>>, vals |-> <<>>, next |-> NoPage]
  BY <1>1 DEF Leaf
<1>3. v[Root].height = 0 /\ v[Root].lo = Int /\ v[Root].hi = {} /\ v[Root].far = {}
  BY <1>1
<1>4. v \in [{Root} -> [height : Nat, lo : Cuts, hi : Cuts, far : Cuts]]
  <2>1. Int \in Cuts /\ {} \in Cuts
    BY DEF Cuts
  <2> QED
    BY <2>1
<1>5. Measured(t, v)
  <2>1. In(v, Root, 0)
    BY <1>3 DEF In
  <2> HIDE DEF v
  <2> QED
    BY <1>1, <1>3, <1>4, <2>1 DEF Measured
<1> HIDE DEF v
<1>6. <<>> \in Seq(K) /\ <<>> \in Seq(RidsOf(K)) /\ Len(<<>>) = 0 /\ 1 .. 0 = {}
  OBVIOUS
<1>7. NodeOK(K, t, v, Root)
  <2>1. Ascending(<<>>)
    BY <1>6 DEF Ascending
  <2>2. t[Root] = [leaf |-> t[Root].leaf, keys |-> t[Root].keys,
                   vals |-> t[Root].vals, next |-> t[Root].next]
    BY ONLY <1>2
  <2> QED
    BY ONLY <1>2, <1>6, <2>1, <2>2 DEF NodeOK
<1>8. LeafOK(K, t, v, Root)
  BY <1>2, <1>3, <1>6 DEF LeafOK
<1>9. Closed(K, t, v)
  <2>1. {Root} \in SUBSET Nat
    BY <1>1
  <2>2. IsFiniteSet({Root})
    BY ONLY FS_Singleton
  <2> QED
    BY ONLY <1>1, <1>2, <1>3, <1>5, <1>7, <1>8, <2>1, <2>2 DEF Closed, Shape
<1>10. DOMAIN t \subseteq Pages
  BY <1>1, TreeAssumption DEF Pages
<1>11. Fits(t)
  BY <1>1, <1>2, <1>6 DEF Fits
<1>12. \A e : ~Has(t, e)
  BY <1>1, <1>2, <1>6 DEF Has, Holds
<1> QED
  BY <1>9, <1>10, <1>11, <1>12 DEF TreeOK

\* Stored is what the leaves hold, in every tree.
LEMMA StoredInTree ==
  ASSUME NEW K \in SUBSET Int, NEW t, TreeOK(K, t)
  PROVE  /\ \A e : e \in Stored(t) <=> Has(t, e)
         /\ Stored(t) \subseteq K \X RidsOf(K) /\ IsFiniteSet(Stored(t))
<1>1. PICK v : Closed(K, t, v)
  BY DEF TreeOK
<1>2. /\ ScanAll(t) \in Seq(K \X RidsOf(K))
      /\ Stored(t) = {e \in K \X RidsOf(K) : Has(t, e)} /\ \A e : e \in Stored(t) <=> Has(t, e)
  BY <1>1, StoredIs
<1>3. PICK s : s = ScanAll(t)
  OBVIOUS
<1>4. Stored(t) = {s[i] : i \in 1 .. Len(s)} /\ Len(s) \in Nat
  BY <1>2, <1>3 DEF Stored, ToSet
<1>5. IsFiniteSet(Stored(t))
  <2> DEFINE S == Stored(t)
             f == [i \in 1 .. Len(s) |-> s[i]]
  <2>1. IsFiniteSet(1 .. Len(s))
    BY <1>4, FS_Interval
  <2>2. f \in Surjection(1 .. Len(s), S)
    BY <1>4 DEF Surjection
  <2> HIDE DEF S, f
  <2>3. IsFiniteSet(S)
    BY <2>1, <2>2, FS_Surjection
  <2> QED
    BY <2>3 DEF S
<1> QED
  BY <1>2, <1>5

-----------------------------------------------------------------------------
\* What a step does to the tree, when no two rows of the index have one key: it
\* stays a tree, and what it stores changes by the one pair.
LEMMA InsertStep ==
  ASSUME TreeInv, MaxSame = 1, NEW e \in Pairs, Insert(e[1], e[2])
  PROVE  TreeInv' /\ Stored(nodes') = Stored(nodes) \cup {e}
<1> DEFINE K == kind.keys
           T == {x \in Stored(nodes) : x[1] = e[1]}
<1>1. /\ K \in SUBSET Int /\ TreeOK(K, nodes) /\ kind \in Kinds
      /\ e[1] \in K /\ e[2] \in RidsOf(K) /\ e = <<e[1], e[2]>>
  BY Capacities, PairIs DEF TreeInv
<1>2. kind' = kind /\ nodes' = Inserted(nodes, e[1], e[2])
  BY DEF Insert
<1>3. Cardinality(DOMAIN nodes') <= MaxPages
  BY DEF Insert
<1>4. Cardinality(T) < 1
  BY DEF Insert
<1>5. /\ \A x : x \in Stored(nodes) <=> Has(nodes, x)
      /\ IsFiniteSet(Stored(nodes))
  BY <1>1, StoredInTree
<1>6. IsFiniteSet(T) /\ Cardinality(T) \in Nat
  BY <1>5, FS_Subset, FS_CardinalityType
<1>7. T = {}
  BY <1>4, <1>6, FS_EmptySet
<1>8. \A x : Has(nodes, x) => x[1] # e[1]
  BY <1>5, <1>7
<1>9. /\ LeafCapacity \in Nat /\ LeafCapacity >= 2
      /\ InternalCapacity \in Nat /\ InternalCapacity >= 2
  BY <1>1, Capacities
<1> HIDE DEF K, T
<1>10. PICK u : u = nodes'
  OBVIOUS
<1>11. TreeOK(K, u) /\ \A x : Has(u, x) <=> (Has(nodes, x) \/ x = <<e[1], e[2]>>)
  BY ONLY <1>1, <1>2, <1>3, <1>8, <1>9, <1>10, InsertedIs
<1>12. \A x : x \in Stored(u) <=> Has(u, x)
  BY ONLY <1>1, <1>11, StoredInTree
<1>13. Stored(u) = Stored(nodes) \cup {e}
  BY ONLY <1>1, <1>5, <1>11, <1>12
<1>14. LeafCapacity' = LeafCapacity /\ InternalCapacity' = InternalCapacity
  BY <1>2 DEF LeafCapacity, InternalCapacity
<1>15. TreeInv'
  BY <1>1, <1>2, <1>10, <1>11, <1>14 DEF TreeInv, TreeOK, Fits, K
<1> QED
  BY <1>10, <1>13, <1>15

LEMMA EraseStep ==
  ASSUME TreeInv, NEW e \in Pairs, Erase(e[1], e[2])
  PROVE  TreeInv' /\ Stored(nodes') = Stored(nodes) \ {e}
<1> DEFINE K == kind.keys
<1>1. /\ K \in SUBSET Int /\ TreeOK(K, nodes) /\ kind \in Kinds
      /\ e[1] \in K /\ e[2] \in RidsOf(K) /\ e = <<e[1], e[2]>>
  BY Capacities, PairIs DEF TreeInv
<1>2. kind' = kind /\ nodes' = Erased(nodes, e[1], e[2])
  BY DEF Erase
<1>3. \A x : x \in Stored(nodes) <=> Has(nodes, x)
  BY <1>1, StoredInTree
<1>4. LeafCapacity \in Nat /\ LeafCapacity >= 2 /\ InternalCapacity \in Nat
  BY <1>1, Capacities
<1> HIDE DEF K
<1>5. PICK u : u = nodes'
  OBVIOUS
<1>6. TreeOK(K, u) /\ \A x : Has(u, x) <=> (Has(nodes, x) /\ x # <<e[1], e[2]>>)
  BY ONLY <1>1, <1>2, <1>4, <1>5, ErasedIs
<1>7. \A x : x \in Stored(u) <=> Has(u, x)
  BY ONLY <1>1, <1>6, StoredInTree
<1>8. Stored(u) = Stored(nodes) \ {e}
  BY ONLY <1>1, <1>3, <1>6, <1>7
<1>9. LeafCapacity' = LeafCapacity /\ InternalCapacity' = InternalCapacity
  BY <1>2 DEF LeafCapacity, InternalCapacity
<1>10. TreeInv'
  BY <1>1, <1>2, <1>5, <1>6, <1>9 DEF TreeInv, TreeOK, Fits, K
<1> QED
  BY <1>5, <1>8, <1>10

LEMMA TreeStart ==
  ASSUME Init
  PROVE  TreeInv /\ Stored(nodes) = {}
<1>1. kind \in Kinds /\ nodes = [p \in {Root} |-> Leaf(<<>>, <<>>, NoPage)]
  BY DEF Init
<1>2. kind.keys \in SUBSET Int /\ LeafCapacity \in Nat
  BY <1>1, Capacities
<1>3. PICK t : t = nodes
  OBVIOUS
<1>4. TreeOK(kind.keys, t) /\ \A e : ~Has(t, e)
  BY ONLY <1>1, <1>2, <1>3, EmptyIs
<1>5. \A e : e \in Stored(t) <=> Has(t, e)
  BY ONLY <1>2, <1>4, StoredInTree
<1> QED
  BY <1>1, <1>3, <1>4, <1>5 DEF TreeInv

LEMMA TreeStep ==
  ASSUME TreeInv, MaxSame = 1, [Next]_vars
  PROVE  TreeInv'
<1>1. CASE UNCHANGED vars
  <2>1. kind' = kind /\ nodes' = nodes
    BY <1>1 DEF vars
  <2>2. LeafCapacity' = LeafCapacity /\ InternalCapacity' = InternalCapacity
    BY <2>1 DEF LeafCapacity, InternalCapacity
  <2> QED
    BY <2>1, <2>2 DEF TreeInv, TreeOK, Fits
<1>2. CASE Next
  <2>1. PICK e \in Pairs : Insert(e[1], e[2]) \/ Erase(e[1], e[2])
    BY <1>2 DEF Next
  <2> QED
    BY <2>1, InsertStep, EraseStep
<1> QED
  BY <1>1, <1>2

\* The pages always form a B+ tree: every node holds keys of its own interval, the
\* intervals of the children divide that of the parent, the leaves are all at one
\* depth, each is followed in the chain by the one that starts where it ends, and
\* no node is overfull.
THEOREM TreeInvariant == ASSUME MaxSame = 1 PROVE Spec => []TreeInv
<1>1. Init => TreeInv
  BY TreeStart
<1>2. TreeInv /\ [Next]_vars => TreeInv'
  BY TreeStep
<1> QED
  BY <1>1, <1>2, PTL DEF Spec

\* Nodes are well formed and refer to pages of the tree only.
THEOREM TreeTypeCorrect == ASSUME MaxSame = 1 PROVE Spec => []TypeOK
<1>1. TreeInv => TypeOK
  <2> SUFFICES ASSUME TreeInv PROVE TypeOK
    OBVIOUS
  <2>1. PICK v : Closed(kind.keys, nodes, v)
    BY DEF TreeInv, TreeOK
  <2>2. DOMAIN nodes \subseteq Pages /\ Rids = RidsOf(kind.keys)
    BY Capacities DEF TreeInv, TreeOK
  <2>3. Shape(kind.keys, nodes, v, NoPage) /\ Root \in DOMAIN nodes
    BY <2>1 DEF Closed, Shape
  <2>4. ASSUME NEW p \in DOMAIN nodes
        PROVE  LET n == nodes[p]
               IN  /\ n.leaf \in BOOLEAN /\ n.keys \in Seq(kind.keys)
                   /\ n.next \in DOMAIN nodes \cup {NoPage}
                   /\ IF n.leaf THEN n.vals \in Seq(Rids) /\ Len(n.vals) = Len(n.keys)
                      ELSE n.vals \in Seq(DOMAIN nodes \ {Root}) /\ Len(n.vals) = Len(n.keys) + 1
    <3>1. nodes[p].leaf \in BOOLEAN /\ nodes[p].keys \in Seq(kind.keys)
      BY <2>3 DEF Shape, NodeOK
    <3>2. CASE nodes[p].leaf
      <4>1. LeafOK(kind.keys, nodes, v, p)
        BY <2>3, <3>2 DEF Shape
      <4> QED
        BY <2>2, <3>1, <3>2, <4>1 DEF LeafOK
    <3>3. CASE ~nodes[p].leaf
      <4>1. InnerOK(nodes, v, NoPage, p)
        BY <2>3, <3>3 DEF Shape
      <4>2. PICK c : c = nodes[p].vals
        OBVIOUS
      <4>3. /\ c \in Seq(Nat) /\ Len(c) = Len(nodes[p].keys) + 1 /\ nodes[p].next = NoPage
            /\ \A i \in 1 .. Len(c) : c[i] \in DOMAIN nodes \ {Root}
        BY ONLY <4>1, <4>2 DEF InnerOK, ChildOK
      <4>4. c \in Seq(DOMAIN nodes \ {Root})
        BY ONLY <4>3
      <4> QED
        BY <3>1, <3>3, <4>2, <4>3, <4>4
    <3> QED
      BY <3>1, <3>2, <3>3
  <2> QED
    BY <2>2, <2>3, <2>4 DEF TypeOK
<1> QED
  BY <1>1, TreeInvariant, PTL

\* Between calls every node has the slot free that the next insertion needs before
\* it splits the node.
THEOREM TreeWithinCapacity == ASSUME MaxSame = 1 PROVE Spec => []WithinCapacity
<1>1. TreeInv => WithinCapacity
  BY DEF TreeInv, TreeOK, Fits, WithinCapacity
<1> QED
  BY <1>1, TreeInvariant, PTL

\* The tree implements an ordered set of pairs: with all its splits, loans and
\* merges, a call changes what a scan of the leaves returns by its one pair.
THEOREM TreeIsOrderedIndex == ASSUME MaxSame = 1 PROVE Spec => IndexSpec
<1>1. Init => Abstract!Init
  BY TreeStart DEF Abstract!Init
<1>2. TreeInv /\ [Next]_vars => [Abstract!Next]_(Stored(nodes))
  <2> SUFFICES ASSUME TreeInv, [Next]_vars
               PROVE  Abstract!Next \/ Stored(nodes)' = Stored(nodes)
    OBVIOUS
  <2>1. CASE UNCHANGED vars
    BY <2>1 DEF vars, Stored, ScanAll, EntriesFrom, FirstLeaf
  <2>2. CASE Next
    <3>1. PICK e \in Pairs : Insert(e[1], e[2]) \/ Erase(e[1], e[2])
      BY <2>2 DEF Next
    <3>2. CASE Insert(e[1], e[2])
      <4>1. Stored(nodes') = Stored(nodes) \cup {e}
        BY <3>2, InsertStep
      <4> QED
        BY <4>1 DEF Abstract!Next, Abstract!Insert
    <3>3. CASE Erase(e[1], e[2])
      <4>1. Stored(nodes') = Stored(nodes) \ {e}
        BY <3>3, EraseStep
      <4> QED
        BY <4>1 DEF Abstract!Next, Abstract!Erase
    <3> QED
      BY <3>1, <3>2, <3>3
  <2> QED
    BY <2>1, <2>2
<1> QED
  BY <1>1, <1>2, TreeInvariant, PTL DEF Spec, IndexSpec, Abstract!Spec

\* Find and Range answer exactly: every pair of the closed interval, once, by
\* ascending key, from wherever the descent and the chain of leaves take the scan.
THEOREM TreeLookupsExact == ASSUME MaxSame = 1 PROVE Spec => []LookupExact
<1>1. TreeInv => LookupExact
  <2> SUFFICES ASSUME TreeInv, NEW lo \in kind.keys, NEW hi \in kind.keys
               PROVE  Abstract!Answers(Stored(nodes), Between(nodes, lo, hi), lo, hi)
    BY DEF LookupExact
  <2> DEFINE X == kind.keys \X RidsOf(kind.keys)
  <2>1. kind.keys \in SUBSET Int /\ TreeOK(kind.keys, nodes)
    BY Capacities DEF TreeInv
  <2>2. PICK v : Closed(kind.keys, nodes, v)
    BY <2>1 DEF TreeOK
  <2>3. lo \in Int /\ hi \in Int
    BY <2>1
  <2>4. PICK s : s = Between(nodes, lo, hi)
    OBVIOUS
  <2>5. s \in Seq(X) /\ InOrder(s)
    BY ONLY <2>1, <2>2, <2>3, <2>4, BetweenIs
  <2>6. \A e : Listed(s, e) <=> (Has(nodes, e) /\ lo <= e[1] /\ e[1] <= hi)
    BY ONLY <2>1, <2>2, <2>3, <2>4, BetweenIs
  <2>7. \A e : e \in Stored(nodes) <=> Has(nodes, e)
    BY ONLY <2>1, StoredInTree
  <2>8. \A e \in X : e[1] \in Int
    BY <2>1
  <2> HIDE DEF X
  <2>9. Len(s) \in Nat /\ \A i \in 1 .. Len(s) : s[i][1] \in Int
    BY ONLY <2>5, <2>8
  <2>10. {s[i] : i \in 1 .. Len(s)} = {e \in Stored(nodes) : lo <= e[1] /\ e[1] <= hi}
    BY ONLY <2>6, <2>7 DEF Listed
  <2>11. Cardinality({s[i] : i \in 1 .. Len(s)}) = Len(s)
    BY ONLY <2>5, <2>8, OrderedOnce
  <2>12. ASSUME NEW i \in 2 .. Len(s) PROVE s[i - 1][1] <= s[i][1]
    <3>1. i - 1 \in 1 .. Len(s) /\ i \in 1 .. Len(s) /\ i - 1 < i
      BY <2>9
    <3>2. s[i - 1][1] < s[i][1]
      BY ONLY <2>5, <3>1 DEF InOrder
    <3> QED
      BY <2>9, <3>1, <3>2
  <2> QED
    <3>1. Abstract!Cardinality({s[i] : i \in 1 .. Len(s)}) = Cardinality({s[i] : i \in 1 .. Len(s)})
      BY ONLY DEF Cardinality, Abstract!Cardinality
    <3>2. Abstract!Answers(Stored(nodes), s, lo, hi)
      BY ONLY <2>10, <2>11, <2>12, <3>1, Zenon DEF Abstract!Answers
    <3> QED
      BY ONLY <2>4, <3>2
<1> QED
  BY <1>1, TreeInvariant, PTL
=============================================================================
