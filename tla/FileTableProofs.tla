---------------------------- MODULE FileTableProofs ----------------------------
(***************************************************************************)
(* Proofs about FileTable, for every number of tables, frames and users.   *)
(***************************************************************************)
EXTENDS FileTable, TLAPS, FiniteSetTheorems, SequenceTheorems

-----------------------------------------------------------------------------
(***************************************************************************)
(* The free stack and the list of evictable frames hold each frame at most *)
(* once, which their operations keep.                                      *)
(***************************************************************************)
Once(s) == \A i, j \in 1 .. Len(s) : s[i] = s[j] => i = j

LEMMA RemoveOnce ==
  ASSUME NEW s \in Seq(Frames), Once(s), NEW i \in 1 .. Len(s)
  PROVE  /\ RemoveAt(s, i) \in Seq(Frames) /\ Once(RemoveAt(s, i))
         /\ Range(RemoveAt(s, i)) = Range(s) \ {s[i]}
<1> DEFINE n == Len(s)
           lo == SubSeq(s, 1, i - 1)
           hi == SubSeq(s, i + 1, n)
           e == lo \o hi
<1>0. RemoveAt(s, i) = e
  BY DEF RemoveAt
<1>1. n \in Nat /\ i \in Nat /\ 1 <= i /\ i <= n /\ \A k \in 1 .. n : s[k] \in Frames
  OBVIOUS
<1>2. lo \in Seq(Frames) /\ Len(lo) = i - 1 /\ \A k \in 1 .. i - 1 : lo[k] = s[k]
  <2>1. \A k \in 1 .. i - 1 : s[k] \in Frames
    BY <1>1
  <2>2. /\ lo \in Seq(Frames) /\ Len(lo) = IF 1 <= i - 1 THEN i - 1 - 1 + 1 ELSE 0
        /\ \A k \in 1 .. i - 1 - 1 + 1 : lo[k] = s[1 + k - 1]
    BY <1>1, <2>1, SubSeqProperties
  <2> HIDE DEF lo
  <2> QED
    BY <1>1, <2>2
<1>3. hi \in Seq(Frames) /\ Len(hi) = n - i /\ \A k \in 1 .. n - i : hi[k] = s[i + k]
  <2>1. \A k \in i + 1 .. n : s[k] \in Frames
    BY <1>1
  <2>2. /\ hi \in Seq(Frames) /\ Len(hi) = IF i + 1 <= n THEN n - (i + 1) + 1 ELSE 0
        /\ \A k \in 1 .. n - (i + 1) + 1 : hi[k] = s[i + 1 + k - 1]
    BY <1>1, <2>1, SubSeqProperties
  <2> HIDE DEF hi
  <2> QED
    BY <1>1, <2>2
<1> HIDE DEF lo, hi
<1>4. e \in Seq(Frames) /\ Len(e) = n - 1
  <2>1. e \in Seq(Frames) /\ Len(e) = Len(lo) + Len(hi)
    BY <1>2, <1>3, ConcatProperties
  <2> HIDE DEF e
  <2> QED
    BY <1>1, <1>2, <1>3, <2>1
<1>5. \A k \in 1 .. n - 1 : e[k] = IF k < i THEN s[k] ELSE s[k + 1]
  <2>1. \A k \in 1 .. Len(lo) + Len(hi) : e[k] = IF k <= Len(lo) THEN lo[k] ELSE hi[k - Len(lo)]
    BY <1>2, <1>3, ConcatProperties
  <2> HIDE DEF e
  <2> SUFFICES ASSUME NEW k \in 1 .. n - 1 PROVE e[k] = IF k < i THEN s[k] ELSE s[k + 1]
    OBVIOUS
  <2>2. e[k] = IF k <= i - 1 THEN lo[k] ELSE hi[k - (i - 1)]
    BY <1>1, <1>2, <1>3, <2>1
  <2>3. CASE k < i
    BY <1>1, <1>2, <2>2, <2>3
  <2>4. CASE ~(k < i)
    <3>1. k - (i - 1) \in 1 .. n - i /\ i + (k - (i - 1)) = k + 1
      BY <1>1, <2>4
    <3>2. e[k] = hi[k - (i - 1)]
      BY <1>1, <2>2, <2>4
    <3>3. hi[k - (i - 1)] = s[i + (k - (i - 1))]
      BY <1>3, <3>1
    <3> QED
      BY <2>4, <3>1, <3>2, <3>3
  <2> QED
    BY <2>3, <2>4
<1> HIDE DEF e
<1>6. Once(e)
  <2> SUFFICES ASSUME NEW j \in 1 .. n - 1, NEW k \in 1 .. n - 1, e[j] = e[k] PROVE j = k
    BY <1>4 DEF Once
  <2>1. PICK a \in 1 .. n : a = (IF j < i THEN j ELSE j + 1) /\ s[a] = e[j]
    BY <1>1, <1>5
  <2>2. PICK b \in 1 .. n : b = (IF k < i THEN k ELSE k + 1) /\ s[b] = e[k]
    BY <1>1, <1>5
  <2>3. a = b
    BY <2>1, <2>2 DEF Once
  <2> QED
    BY <1>1, <2>1, <2>2, <2>3
<1>7. ASSUME NEW x \in Range(e) PROVE x \in Range(s) \ {s[i]}
  <2>1. PICK k \in 1 .. n - 1 : x = e[k]
    BY <1>4 DEF Range
  <2> DEFINE m == IF k < i THEN k ELSE k + 1
  <2>2. m \in 1 .. n /\ m # i /\ s[m] = x
    BY <1>1, <1>5, <2>1
  <2> QED
    BY <2>2 DEF Once, Range
<1>8. ASSUME NEW x \in Range(s) \ {s[i]} PROVE x \in Range(e)
  <2>1. PICK a \in 1 .. n : x = s[a]
    BY DEF Range
  <2>2. a # i
    BY <2>1
  <2>3. CASE a < i
    <3>1. a \in 1 .. n - 1 /\ e[a] = x
      BY <1>1, <1>5, <2>1, <2>3
    <3> QED
      BY <1>4, <3>1 DEF Range
  <2>4. CASE a > i
    <3>1. a - 1 \in 1 .. n - 1 /\ e[a - 1] = x
      BY <1>1, <1>5, <2>1, <2>4
    <3> QED
      BY <1>4, <3>1 DEF Range
  <2> QED
    BY <1>1, <2>2, <2>3, <2>4
<1> QED
  BY <1>0, <1>4, <1>6, <1>7, <1>8

LEMMA FrontOnce ==
  ASSUME NEW s \in Seq(Frames), Once(s), s # <<>>
  PROVE  /\ Front(s) \in Seq(Frames) /\ Once(Front(s))
         /\ Last(s) \in Range(s) /\ Range(Front(s)) = Range(s) \ {Last(s)}
<1> DEFINE n == Len(s)
<1>1. n \in Nat /\ n > 0
  OBVIOUS
<1>2. /\ Front(s) \in Seq(Frames) /\ Len(Front(s)) = n - 1
      /\ \A k \in 1 .. n - 1 : Front(s)[k] = s[k]
  <2> DEFINE e == SubSeq(s, 1, n - 1)
  <2>1. \A k \in 1 .. n - 1 : s[k] \in Frames
    BY <1>1
  <2>2. /\ e \in Seq(Frames) /\ Len(e) = IF 1 <= n - 1 THEN n - 1 - 1 + 1 ELSE 0
        /\ \A k \in 1 .. n - 1 - 1 + 1 : e[k] = s[1 + k - 1]
    BY <1>1, <2>1, SubSeqProperties
  <2>3. Front(s) = e
    BY DEF Front
  <2> HIDE DEF e
  <2> QED
    BY <1>1, <2>2, <2>3
<1>3. Once(Front(s))
  BY <1>1, <1>2 DEF Once
<1>4. Last(s) \in Range(s)
  BY <1>1 DEF Last, Range
<1>5. ASSUME NEW x \in Range(Front(s)) PROVE x \in Range(s) \ {Last(s)}
  BY <1>1, <1>2 DEF Range, Last, Once
<1>6. ASSUME NEW x \in Range(s) \ {Last(s)} PROVE x \in Range(Front(s))
  <2>1. PICK a \in 1 .. n : x = s[a]
    BY DEF Range
  <2>2. a \in 1 .. n - 1
    BY <1>1, <2>1 DEF Last
  <2> QED
    BY <1>2, <2>1, <2>2 DEF Range
<1> QED
  BY <1>2, <1>3, <1>4, <1>5, <1>6

LEMMA ConsOnce ==
  ASSUME NEW s \in Seq(Frames), Once(s), NEW f \in Frames, f \notin Range(s)
  PROVE  /\ Cons(f, s) \in Seq(Frames) /\ Once(Cons(f, s))
         /\ Range(Cons(f, s)) = Range(s) \cup {f}
<1> DEFINE n == Len(s)
           e == Cons(f, s)
<1>1. n \in Nat /\ DOMAIN s = 1 .. n
  OBVIOUS
<1>2. /\ e \in Seq(Frames) /\ Len(e) = n + 1 /\ e[1] = f
      /\ \A k \in 1 .. n : e[k + 1] = s[k]
  BY <1>1 DEF Cons
<1>3. \A k \in 1 .. n + 1 : k # 1 => k - 1 \in 1 .. n /\ e[k] = s[k - 1]
  <2> SUFFICES ASSUME NEW k \in 1 .. n + 1, k # 1 PROVE k - 1 \in 1 .. n /\ e[k] = s[k - 1]
    OBVIOUS
  <2>1. k - 1 \in 1 .. n /\ (k - 1) + 1 = k
    BY <1>1
  <2> QED
    BY <1>2, <2>1
<1> HIDE DEF e
<1>4. \A k \in 1 .. n : s[k] # f
  BY <1>1 DEF Range
<1>5. Once(e)
  <2> SUFFICES ASSUME NEW j \in 1 .. n + 1, NEW k \in 1 .. n + 1, e[j] = e[k] PROVE j = k
    BY <1>2 DEF Once
  <2>1. CASE j = 1 \/ k = 1
    BY <1>2, <1>3, <1>4, <2>1
  <2>2. CASE j # 1 /\ k # 1
    <3>1. j - 1 = k - 1
      BY <1>3, <2>2 DEF Once
    <3> QED
      BY <1>1, <3>1
  <2> QED
    BY <2>1, <2>2
<1>6. DOMAIN e = 1 .. n + 1
  BY <1>2
<1>7. ASSUME NEW x \in Range(e) PROVE x \in Range(s) \cup {f}
  <2>1. PICK k \in 1 .. n + 1 : x = e[k]
    BY <1>6 DEF Range
  <2> QED
    BY <1>1, <1>2, <1>3, <2>1 DEF Range
<1>8. ASSUME NEW x \in Range(s) \cup {f} PROVE x \in Range(e)
  <2>1. CASE x = f
    BY <1>1, <1>2, <1>6, <2>1 DEF Range
  <2>2. CASE x # f
    <3>1. PICK k \in 1 .. n : x = s[k]
      BY <1>1, <2>2 DEF Range
    <3>2. k + 1 \in 1 .. n + 1 /\ e[k + 1] = x
      BY <1>1, <1>2, <3>1
    <3> QED
      BY <1>6, <3>2 DEF Range
  <2> QED
    BY <2>1, <2>2
<1> QED
  BY <1>2, <1>5, <1>7, <1>8 DEF e

-----------------------------------------------------------------------------
(***************************************************************************)
(* The invariant.  tables_ and frame_table_map_ are inverse to each other; *)
(* a user's table has a frame; a free frame has no table, a listed one has *)
(* one and no user; a lost frame has no table and is in no list; every     *)
(* frame that is not lost is free, listed or pinned, or its table failed   *)
(* to open; and a table that did not fail has its own file.                *)
(***************************************************************************)
MapsInverse ==
  /\ \A t \in Tables : tables[t] # NoFrame => frameTable[tables[t]] = t
  /\ \A f \in Frames : frameTable[f] # NoTable => tables[frameTable[f]] = f

\* PinsExact, one table at a time.
PinsByTable ==
  /\ \A f \in Frames : frameTable[f] = NoTable => pinCount[f] = 0
  /\ \A f \in Frames, t \in Tables : frameTable[f] = t => pinCount[f] = Cardinality(UsersOf(t))

UsersMapped == \A u \in Users : using[u] # NoFile => tables[using[u].table] # NoFrame

ListsSound ==
  /\ Once(free) /\ Once(evictable)
  /\ \A f \in Range(free) : frameTable[f] = NoTable
  /\ \A f \in Range(evictable) : frameTable[f] # NoTable /\ pinCount[f] = 0

LostIsNowhere ==
  \A f \in lost : f \notin Range(free) /\ f \notin Range(evictable) /\ frameTable[f] = NoTable

NoOtherLost ==
  \A f \in Frames : \/ f \in Range(free) \/ f \in Range(evictable) \/ pinCount[f] > 0
                    \/ frameTable[f] \in failed \/ f \in lost

MappedIsRight ==
  \A t \in Tables : tables[t] # NoFrame /\ t \notin failed => files[tables[t]] = t

GivenIsRight ==
  \A u \in Users : using[u] # NoFile /\ using[u].table \notin failed => using[u].file = using[u].table

FileParts == /\ MapsInverse /\ UsersMapped /\ PinsByTable /\ ListsSound
             /\ LostIsNowhere /\ NoOtherLost /\ MappedIsRight /\ GivenIsRight

FileInv == TypeOK /\ FileParts

LEMMA UsersFinite == \A t : IsFiniteSet(UsersOf(t))
BY FileAssumption, FS_Subset DEF UsersOf

LEMMA RangeOfFrames == ASSUME NEW s \in Seq(Frames) PROVE Range(s) \subseteq Frames
BY RangeOfSeq

LEMMA EvictableRange == ASSUME TypeOK, NEW f PROVE Evictable(f) <=> f \in Range(evictable)
<1>1. Range(evictable) = {evictable[i] : i \in 1 .. Len(evictable)}
  BY RangeEquality DEF TypeOK
<1> QED
  BY <1>1 DEF Evictable

LEMMA UserIsNotNoFile ==
  ASSUME NEW t \in Tables, NEW file \in Tables \cup {NoTable}
  PROVE  [table |-> t, file |-> file] # NoFile
<1>1. [table |-> t, file |-> file] \in [table : Tables, file : Tables \cup {NoTable}]
  OBVIOUS
<1> QED
  BY <1>1, FileAssumption

LEMMA UnusedUnpinned ==
  ASSUME TypeOK, FileParts, NEW f \in Frames, pinCount[f] = 0, NEW t \in Tables, frameTable[f] = t
  PROVE  \A u \in Users : using[u] # NoFile => using[u].table # t
<1>1. Cardinality(UsersOf(t)) = 0
  BY FileAssumption DEF FileParts, PinsByTable
<1>2. UsersOf(t) = {}
  BY <1>1, UsersFinite, FS_EmptySet
<1> QED
  BY <1>2 DEF UsersOf

LEMMA FileInit == Init => FileInv
<1> SUFFICES ASSUME Init PROVE FileInv
  OBVIOUS
<1>1. free = [i \in 1 .. Capacity |-> i - 1]
  BY DEF Init, AllFree
<1>2. free \in Seq(Frames) /\ Len(free) = Capacity
  BY <1>1, FileAssumption DEF Frames
<1>3. TypeOK
  BY <1>2 DEF Init, TypeOK
<1>4. MapsInverse /\ UsersMapped /\ MappedIsRight /\ GivenIsRight
  BY DEF Init, MapsInverse, UsersMapped, MappedIsRight, GivenIsRight
<1>11. PinsByTable
  <2>1. \A f \in Frames : frameTable[f] = NoTable /\ pinCount[f] = 0
    BY DEF Init
  <2> QED
    BY <2>1, FileAssumption DEF PinsByTable
<1>5. Range(free) = {free[i] : i \in 1 .. Len(free)} /\ Range(free) \subseteq Frames
  BY <1>2, RangeEquality, RangeOfFrames
<1>6. Range(evictable) = {} /\ Once(evictable)
  BY DEF Init, Range, Once
<1>7. Once(free)
  BY <1>1, <1>2, FileAssumption DEF Once
<1>8. ListsSound
  BY <1>5, <1>6, <1>7 DEF Init, ListsSound
<1>9. ASSUME NEW f \in Frames PROVE f \in Range(free)
  <2>1. f + 1 \in 1 .. Capacity /\ free[f + 1] = f
    BY <1>1, FileAssumption DEF Frames
  <2> QED
    BY <1>2, <1>5, <2>1
<1>10. NoOtherLost
  BY <1>9 DEF NoOtherLost
<1>12. LostIsNowhere
  BY DEF Init, LostIsNowhere
<1> QED
  BY <1>3, <1>4, <1>8, <1>10, <1>11, <1>12 DEF FileInv, FileParts

(***************************************************************************)
(* A frame that Acquire takes is free, or its table has no user, and it is *)
(* then on neither list.                                                   *)
(***************************************************************************)
LEMMA TakenOff ==
  ASSUME TypeOK, FileParts, NEW f \in Frames, CanTake(f),
         free' = IF free # <<>> THEN Front(free) ELSE free,
         evictable' = IF free # <<>> THEN evictable ELSE Front(evictable)
  PROVE  /\ \/ free # <<>> /\ frameTable[f] = NoTable
            \/ free = <<>> /\ frameTable[f] \in Tables
         /\ free' \in Seq(Frames) /\ evictable' \in Seq(Frames) /\ Once(free') /\ Once(evictable')
         /\ Range(free') = Range(free) \ {f} /\ Range(evictable') = Range(evictable) \ {f}
         /\ pinCount[f] = 0 /\ f \notin lost
         /\ \A u \in Users : using[u] # NoFile => using[u].table # frameTable[f]
<1>1. /\ \/ free # <<>> /\ f \in Range(free) /\ frameTable[f] = NoTable
         \/ free = <<>> /\ f \in Range(evictable) /\ frameTable[f] \in Tables
      /\ free' \in Seq(Frames) /\ evictable' \in Seq(Frames) /\ Once(free') /\ Once(evictable')
      /\ Range(free') = Range(free) \ {f} /\ Range(evictable') = Range(evictable) \ {f}
      /\ pinCount[f] = 0
  <2>1. CASE free # <<>>
    <3>1. f = Last(free) /\ free' = Front(free) /\ evictable' = evictable
      BY <2>1 DEF CanTake
    <3>2. /\ free' \in Seq(Frames) /\ Once(free') /\ f \in Range(free)
          /\ Range(free') = Range(free) \ {f}
      BY <2>1, <3>1, FrontOnce DEF TypeOK, FileParts, ListsSound
    <3>3. frameTable[f] = NoTable /\ pinCount[f] = 0
      BY <3>2 DEF FileParts, ListsSound, PinsByTable
    <3>4. f \notin Range(evictable)
      BY <3>3 DEF FileParts, ListsSound
    <3> QED
      BY <3>1, <3>2, <3>3, <3>4 DEF TypeOK, FileParts, ListsSound
  <2>2. CASE free = <<>>
    <3>1. f = Last(evictable) /\ evictable # <<>> /\ evictable' = Front(evictable) /\ free' = free
      BY <2>2 DEF CanTake
    <3>2. /\ evictable' \in Seq(Frames) /\ Once(evictable') /\ f \in Range(evictable)
          /\ Range(evictable') = Range(evictable) \ {f}
      BY <3>1, FrontOnce DEF TypeOK, FileParts, ListsSound
    <3>3. frameTable[f] \in Tables /\ pinCount[f] = 0
      BY <3>2 DEF TypeOK, FileParts, ListsSound
    <3>4. Range(free) = {}
      BY <2>2 DEF Range
    <3> QED
      BY <2>2, <3>1, <3>2, <3>3, <3>4 DEF TypeOK, FileParts, ListsSound
  <2> QED
    BY <2>1, <2>2
<1>2. \A u \in Users : using[u] # NoFile => using[u].table # frameTable[f]
  <2>1. CASE frameTable[f] \in Tables
    BY <1>1, <2>1, UnusedUnpinned
  <2>2. CASE frameTable[f] = NoTable
    BY <2>2, FileAssumption DEF TypeOK
  <2> QED
    BY <2>1, <2>2 DEF TypeOK
<1>3. f \notin lost
  BY <1>1 DEF FileParts, LostIsNowhere
<1> QED
  BY <1>1, <1>2, <1>3

(***************************************************************************)
(* The maps stay inverse when a table's frame is taken for another table.  *)
(* Both ways of opening a table's file rest on this.                       *)
(***************************************************************************)
LEMMA TakenFrame ==
  ASSUME TypeOK, FileParts, NEW f \in Frames, NEW t \in Tables, tables[t] = NoFrame,
         Take(f, t), evictable' = IF free # <<>> THEN evictable ELSE Front(evictable)
  PROVE  /\ pinCount[f] = 0 /\ UsersOf(t) = {} /\ f \notin lost
         /\ \A u \in Users : using[u] # NoFile => using[u].table # frameTable[f]
         /\ \A s \in Tables : tables'[s] = IF s = t THEN f
                                           ELSE IF s = frameTable[f] THEN NoFrame
                                           ELSE tables[s]
         /\ \A g \in Frames : frameTable'[g] = IF g = f THEN t ELSE frameTable[g]
         /\ MapsInverse' /\ frameTable[f] # t
         /\ tables' \in [Tables -> Frames \cup {NoFrame}]
         /\ frameTable' \in [Frames -> Tables \cup {NoTable}]
         /\ free' \in Seq(Frames) /\ evictable' \in Seq(Frames) /\ Once(free') /\ Once(evictable')
         /\ Range(free') = Range(free) \ {f} /\ Range(evictable') = Range(evictable) \ {f}
<1>1. /\ \/ free # <<>> /\ frameTable[f] = NoTable
         \/ free = <<>> /\ frameTable[f] \in Tables
      /\ free' \in Seq(Frames) /\ evictable' \in Seq(Frames) /\ Once(free') /\ Once(evictable')
      /\ Range(free') = Range(free) \ {f} /\ Range(evictable') = Range(evictable) \ {f}
      /\ pinCount[f] = 0 /\ f \notin lost
      /\ \A u \in Users : using[u] # NoFile => using[u].table # frameTable[f]
  BY TakenOff DEF Take
<1>3. UsersOf(t) = {}
  BY DEF UsersOf, FileParts, UsersMapped
<1>4. frameTable[f] # t
  BY FileAssumption DEF FileParts, MapsInverse
<1>5. \A s \in Tables : tables'[s] = IF s = t THEN f
                                     ELSE IF s = frameTable[f] THEN NoFrame
                                     ELSE tables[s]
  <2> SUFFICES ASSUME NEW s \in Tables
               PROVE  tables'[s] = IF s = t THEN f
                                   ELSE IF s = frameTable[f] THEN NoFrame ELSE tables[s]
    OBVIOUS
  <2>1. tables'[s] = IF s = t THEN f
                     ELSE IF free = <<>> /\ s = frameTable[f] THEN NoFrame ELSE tables[s]
    BY DEF Take
  <2> QED
    BY <1>1, <2>1, FileAssumption
<1>6. \A g \in Frames : frameTable'[g] = IF g = f THEN t ELSE frameTable[g]
  BY DEF Take, TypeOK
<1>7. tables' \in [Tables -> Frames \cup {NoFrame}] /\ frameTable' \in [Frames -> Tables \cup {NoTable}]
  BY DEF Take, TypeOK
<1>8. MapsInverse'
  <2>1. ASSUME NEW s \in Tables, tables'[s] # NoFrame PROVE frameTable'[tables'[s]] = s
    <3>1. CASE s = t
      BY <1>5, <1>6, <3>1
    <3>2. CASE s # t
      <4>1. s # frameTable[f] /\ tables'[s] = tables[s] /\ tables[s] \in Frames
        BY <1>5, <2>1, <3>2 DEF TypeOK
      <4>2. frameTable[tables[s]] = s
        BY <2>1, <4>1 DEF FileParts, MapsInverse
      <4> QED
        BY <1>6, <4>1, <4>2
    <3> QED
      BY <3>1, <3>2
  <2>2. ASSUME NEW g \in Frames, frameTable'[g] # NoTable PROVE tables'[frameTable'[g]] = g
    <3>1. CASE g = f
      BY <1>5, <1>6, <3>1
    <3>2. CASE g # f
      <4>1. frameTable'[g] = frameTable[g] /\ frameTable[g] \in Tables
        BY <1>6, <2>2, <3>2 DEF TypeOK
      <4>2. tables[frameTable[g]] = g
        BY <2>2, <4>1 DEF FileParts, MapsInverse
      <4>3. frameTable[g] # t
        BY <4>2, FileAssumption
      <4>4. frameTable[g] # frameTable[f]
        BY <2>2, <3>2, <4>1, <4>2 DEF FileParts, MapsInverse
      <4> QED
        BY <1>5, <4>1, <4>2, <4>3, <4>4
    <3> QED
      BY <3>1, <3>2
  <2> QED
    BY <2>1, <2>2 DEF MapsInverse
<1> QED
  BY <1>1, <1>3, <1>4, <1>5, <1>6, <1>7, <1>8

LEMMA HitKeeps ==
  ASSUME TypeOK, FileParts, NEW u \in Users, NEW t \in Tables, AcquireHit(u, t)
  PROVE  (TypeOK /\ FileParts)'
<1> DEFINE f == tables[t]
<1>1. /\ f \in Frames /\ frameTable[f] = t /\ using[u] = NoFile
      /\ UNCHANGED <<tables, frameTable, files, free, failed, lost>>
  BY DEF AcquireHit, TypeOK, FileParts, MapsInverse
<1>2. \A g \in Frames : pinCount'[g] = IF g = f THEN pinCount[g] + 1 ELSE pinCount[g]
  BY DEF AcquireHit, Pin, TypeOK
<1>3. pinCount[f] \in Nat /\ files[f] \in Tables \cup {NoTable}
  BY <1>1 DEF TypeOK
<1>4. \A v \in Users : using'[v] = IF v = u THEN [table |-> t, file |-> files[f]] ELSE using[v]
  BY DEF AcquireHit, Use, TypeOK
<1>5. using'[u] # NoFile /\ using'[u].table = t /\ using'[u].file = files[f]
  BY <1>3, <1>4, UserIsNotNoFile
<1>6. /\ evictable' \in Seq(Frames) /\ Once(evictable')
      /\ Range(evictable') = Range(evictable) \ {f}
  <2>1. CASE pinCount[f] = 0 /\ Evictable(f)
    <3>1. Place(f) \in 1 .. Len(evictable) /\ evictable[Place(f)] = f
      BY <2>1 DEF Evictable, Place
    <3>2. evictable' = RemoveAt(evictable, Place(f))
      BY <2>1 DEF AcquireHit, Pin
    <3> QED
      BY <3>1, <3>2, RemoveOnce DEF TypeOK, FileParts, ListsSound
  <2>2. CASE ~(pinCount[f] = 0 /\ Evictable(f))
    <3>1. evictable' = evictable
      BY <2>2 DEF AcquireHit, Pin
    <3>2. f \notin Range(evictable)
      BY <2>2, EvictableRange DEF FileParts, ListsSound
    <3> QED
      BY <3>1, <3>2 DEF TypeOK, FileParts, ListsSound
  <2> QED
    BY <2>1, <2>2
<1>7. TypeOK'
  <2>1. pinCount' \in [Frames -> Nat]
    BY <1>1, <1>3 DEF AcquireHit, Pin, TypeOK
  <2>2. using' \in [Users -> [table : Tables, file : Tables \cup {NoTable}] \cup {NoFile}]
    BY <1>3 DEF AcquireHit, Use, TypeOK
  <2> QED
    BY <1>1, <1>6, <2>1, <2>2 DEF TypeOK
<1>8. PinsByTable'
  <2>1. UsersOf(t)' = UsersOf(t) \cup {u} /\ u \notin UsersOf(t)
    BY <1>1, <1>4, <1>5 DEF UsersOf
  <2>2. Cardinality(UsersOf(t)') = Cardinality(UsersOf(t)) + 1
    BY <2>1, UsersFinite, FS_AddElement
  <2>3. \A s \in Tables : s # t => UsersOf(s)' = UsersOf(s)
    BY <1>1, <1>4, <1>5 DEF UsersOf
  <2>4. \A g \in Frames : frameTable[g] = NoTable => pinCount'[g] = 0
    BY <1>1, <1>2, FileAssumption DEF FileParts, PinsByTable
  <2>5. ASSUME NEW g \in Frames, NEW s \in Tables, frameTable[g] = s
        PROVE  pinCount'[g] = Cardinality(UsersOf(s)')
    <3>1. CASE g = f
      BY <1>1, <1>2, <2>2, <2>5, <3>1 DEF FileParts, PinsByTable
    <3>2. CASE g # f
      <4>1. s # t
        BY <1>1, <2>5, <3>2, FileAssumption DEF FileParts, MapsInverse
      <4> QED
        BY <1>2, <2>3, <2>5, <3>2, <4>1 DEF FileParts, PinsByTable
    <3> QED
      BY <3>1, <3>2
  <2> QED
    BY <1>1, <2>4, <2>5 DEF PinsByTable
<1>9. MapsInverse' /\ UsersMapped' /\ MappedIsRight'
  BY <1>1, <1>4, <1>5 DEF AcquireHit, FileParts, MapsInverse, UsersMapped, MappedIsRight
<1>10. ListsSound'
  BY <1>1, <1>2, <1>6, RangeOfFrames DEF TypeOK, FileParts, ListsSound
<1>11. NoOtherLost'
  BY <1>1, <1>2, <1>3, <1>6 DEF FileParts, NoOtherLost
<1>12. GivenIsRight'
  BY <1>1, <1>4, <1>5 DEF AcquireHit, FileParts, GivenIsRight, MappedIsRight
<1>13. LostIsNowhere'
  BY <1>1, <1>6 DEF FileParts, LostIsNowhere
<1> QED
  BY <1>7, <1>8, <1>9, <1>10, <1>11, <1>12, <1>13 DEF FileParts

LEMMA OpenKeeps ==
  ASSUME TypeOK, FileParts, NEW u \in Users, NEW t \in Tables, AcquireOpen(u, t)
  PROVE  (TypeOK /\ FileParts)'
<1>1. PICK f \in Frames :
        /\ Take(f, t)
        /\ files' = [files EXCEPT ![f] = t]
        /\ pinCount' = [pinCount EXCEPT ![f] = @ + 1]
        /\ evictable' = IF free # <<>> THEN evictable ELSE Front(evictable)
        /\ failed' = failed \ {frameTable[f], t}
  BY DEF AcquireOpen
<1>2. tables[t] = NoFrame /\ using[u] = NoFile /\ lost' = lost
  BY DEF AcquireOpen
<1>3. /\ pinCount[f] = 0 /\ UsersOf(t) = {} /\ f \notin lost
      /\ \A v \in Users : using[v] # NoFile => using[v].table # frameTable[f]
      /\ \A s \in Tables : tables'[s] = IF s = t THEN f
                                        ELSE IF s = frameTable[f] THEN NoFrame
                                        ELSE tables[s]
      /\ \A g \in Frames : frameTable'[g] = IF g = f THEN t ELSE frameTable[g]
      /\ MapsInverse' /\ frameTable[f] # t
      /\ tables' \in [Tables -> Frames \cup {NoFrame}]
      /\ frameTable' \in [Frames -> Tables \cup {NoTable}]
      /\ free' \in Seq(Frames) /\ evictable' \in Seq(Frames) /\ Once(free') /\ Once(evictable')
      /\ Range(free') = Range(free) \ {f} /\ Range(evictable') = Range(evictable) \ {f}
  BY <1>1, <1>2, TakenFrame
<1>4. \A g \in Frames : /\ pinCount'[g] = IF g = f THEN 1 ELSE pinCount[g]
                        /\ files'[g] = IF g = f THEN t ELSE files[g]
  BY <1>1, <1>3 DEF TypeOK
<1>5. \A v \in Users : using'[v] = IF v = u THEN [table |-> t, file |-> t] ELSE using[v]
  BY DEF AcquireOpen, Use, TypeOK
<1>6. using'[u] # NoFile /\ using'[u].table = t /\ using'[u].file = t
  BY <1>5, UserIsNotNoFile
<1>7. TypeOK'
  <2>1. pinCount' \in [Frames -> Nat] /\ files' \in [Frames -> Tables \cup {NoTable}]
    BY <1>1 DEF TypeOK
  <2>2. using' \in [Users -> [table : Tables, file : Tables \cup {NoTable}] \cup {NoFile}]
    BY DEF AcquireOpen, Use, TypeOK
  <2> QED
    BY <1>1, <1>2, <1>3, <2>1, <2>2 DEF TypeOK
<1>8. PinsByTable'
  <2>1. UsersOf(t)' = {u}
    BY <1>3, <1>5, <1>6 DEF UsersOf
  <2>2. \A s \in Tables : s # t => UsersOf(s)' = UsersOf(s)
    BY <1>2, <1>5, <1>6 DEF UsersOf
  <2>3. \A g \in Frames : frameTable'[g] = NoTable => pinCount'[g] = 0
    <3>1. \A g \in Frames : frameTable'[g] = NoTable => g # f /\ frameTable[g] = NoTable
      BY <1>3, FileAssumption
    <3>2. \A g \in Frames : frameTable[g] = NoTable => pinCount[g] = 0
      BY DEF FileParts, PinsByTable
    <3> QED
      BY <1>4, <3>1, <3>2
  <2>4. ASSUME NEW g \in Frames, NEW s \in Tables, frameTable'[g] = s
        PROVE  pinCount'[g] = Cardinality(UsersOf(s)')
    <3>1. CASE g = f
      <4>1. s = t /\ pinCount'[g] = 1
        BY <1>3, <1>4, <2>4, <3>1
      <4>2. Cardinality({u}) = 1
        BY FS_Singleton
      <4> QED
        BY <2>1, <4>1, <4>2
    <3>2. CASE g # f
      <4>1. frameTable[g] = s /\ pinCount'[g] = pinCount[g]
        BY <1>3, <1>4, <2>4, <3>2
      <4>2. s # t
        BY <1>2, <4>1, FileAssumption DEF FileParts, MapsInverse
      <4> QED
        BY <2>2, <4>1, <4>2 DEF FileParts, PinsByTable
    <3> QED
      BY <3>1, <3>2
  <2> QED
    BY <2>3, <2>4 DEF PinsByTable
<1>9. UsersMapped'
  <2> SUFFICES ASSUME NEW v \in Users, using'[v] # NoFile PROVE tables'[using'[v].table] # NoFrame
    BY DEF UsersMapped
  <2>1. CASE v = u
    BY <1>3, <1>6, <2>1, FileAssumption
  <2>2. CASE v # u
    <3>1. using'[v] = using[v] /\ using[v].table \in Tables /\ tables[using[v].table] # NoFrame
      BY <1>5, <2>2 DEF TypeOK, FileParts, UsersMapped
    <3> QED
      BY <1>3, <3>1, FileAssumption
  <2> QED
    BY <2>1, <2>2
<1>10. ListsSound'
  BY <1>3, <1>4, RangeOfFrames DEF TypeOK, FileParts, ListsSound
<1>11. NoOtherLost'
  <2> SUFFICES ASSUME NEW g \in Frames, g # f,
                      g \notin Range(free), g \notin Range(evictable), ~(pinCount[g] > 0),
                      g \notin lost
               PROVE  frameTable[g] \in failed'
    BY <1>2, <1>3, <1>4 DEF NoOtherLost
  <2>1. frameTable[g] \in failed /\ frameTable[g] \in Tables
    BY DEF TypeOK, FileParts, NoOtherLost
  <2>2. tables[frameTable[g]] = g
    BY <2>1, FileAssumption DEF FileParts, MapsInverse
  <2>3. frameTable[g] # t
    BY <1>2, <2>2, FileAssumption
  <2>4. frameTable[g] # frameTable[f]
    BY <2>1, <2>2, FileAssumption DEF FileParts, MapsInverse
  <2> QED
    BY <1>1, <2>1, <2>3, <2>4
<1>12. MappedIsRight'
  <2> SUFFICES ASSUME NEW s \in Tables, tables'[s] # NoFrame, s \notin failed'
               PROVE  files'[tables'[s]] = s
    BY DEF MappedIsRight
  <2>1. CASE s = t
    BY <1>3, <1>4, <2>1
  <2>2. CASE s # t
    <3>1. s # frameTable[f] /\ tables'[s] = tables[s] /\ tables[s] \in Frames /\ s \notin failed
      BY <1>1, <1>3, <2>2 DEF TypeOK
    <3>2. frameTable[tables[s]] = s
      BY <3>1 DEF FileParts, MapsInverse
    <3>3. tables[s] # f
      BY <3>1, <3>2
    <3> QED
      BY <1>4, <3>1, <3>3 DEF FileParts, MappedIsRight
  <2> QED
    BY <2>1, <2>2
<1>13. GivenIsRight'
  <2> SUFFICES ASSUME NEW v \in Users, using'[v] # NoFile, using'[v].table \notin failed'
               PROVE  using'[v].file = using'[v].table
    BY DEF GivenIsRight
  <2>1. CASE v = u
    BY <1>6, <2>1
  <2>2. CASE v # u
    <3>1. using'[v] = using[v] /\ using[v].table # frameTable[f]
      BY <1>3, <1>5, <2>2
    <3>2. using[v].table # t
      BY <1>3, <3>1 DEF UsersOf
    <3> QED
      BY <1>1, <3>1, <3>2 DEF FileParts, GivenIsRight
  <2> QED
    BY <2>1, <2>2
<1>14. LostIsNowhere'
  BY <1>2, <1>3 DEF FileParts, LostIsNowhere, TypeOK
<1> QED
  BY <1>3, <1>7, <1>8, <1>9, <1>10, <1>11, <1>12, <1>13, <1>14 DEF FileParts

LEMMA FailKeeps ==
  ASSUME TypeOK, FileParts, NEW u \in Users, NEW t \in Tables, AcquireFails(u, t)
  PROVE  (TypeOK /\ FileParts)'
<1>1. PICK f \in Frames :
        /\ Take(f, t)
        /\ evictable' = IF free # <<>> THEN evictable ELSE Front(evictable)
        /\ failed' = (failed \ {frameTable[f]}) \cup {t}
  BY DEF AcquireFails
<1>2. tables[t] = NoFrame /\ UNCHANGED <<files, pinCount, using, lost>>
  BY DEF AcquireFails
<1>3. /\ pinCount[f] = 0 /\ UsersOf(t) = {} /\ f \notin lost
      /\ \A v \in Users : using[v] # NoFile => using[v].table # frameTable[f]
      /\ \A s \in Tables : tables'[s] = IF s = t THEN f
                                        ELSE IF s = frameTable[f] THEN NoFrame
                                        ELSE tables[s]
      /\ \A g \in Frames : frameTable'[g] = IF g = f THEN t ELSE frameTable[g]
      /\ MapsInverse' /\ frameTable[f] # t
      /\ tables' \in [Tables -> Frames \cup {NoFrame}]
      /\ frameTable' \in [Frames -> Tables \cup {NoTable}]
      /\ free' \in Seq(Frames) /\ evictable' \in Seq(Frames) /\ Once(free') /\ Once(evictable')
      /\ Range(free') = Range(free) \ {f} /\ Range(evictable') = Range(evictable) \ {f}
  BY <1>1, <1>2, TakenFrame
<1>4. TypeOK'
  BY <1>1, <1>2, <1>3 DEF TypeOK
<1>5. PinsByTable'
  <2>1. \A s : UsersOf(s)' = UsersOf(s)
    BY <1>2 DEF UsersOf
  <2>2. Cardinality(UsersOf(t)) = 0
    BY <1>3, FS_EmptySet
  <2>3. \A g \in Frames : frameTable'[g] = NoTable => pinCount[g] = 0
    BY <1>3, FileAssumption DEF FileParts, PinsByTable
  <2>4. ASSUME NEW g \in Frames, NEW s \in Tables, frameTable'[g] = s
        PROVE  pinCount[g] = Cardinality(UsersOf(s))
    <3>1. CASE g = f
      BY <1>3, <2>2, <2>4, <3>1
    <3>2. CASE g # f
      <4>1. frameTable[g] = s
        BY <1>3, <2>4, <3>2
      <4> QED
        BY <4>1 DEF FileParts, PinsByTable
    <3> QED
      BY <3>1, <3>2
  <2> QED
    BY <1>2, <2>1, <2>3, <2>4 DEF PinsByTable
<1>6. UsersMapped'
  BY <1>2, <1>3, FileAssumption DEF FileParts, UsersMapped, TypeOK
<1>7. ListsSound'
  BY <1>2, <1>3, RangeOfFrames DEF TypeOK, FileParts, ListsSound
<1>8. NoOtherLost'
  <2> SUFFICES ASSUME NEW g \in Frames, g \notin Range(free) \ {f}, g \notin Range(evictable) \ {f},
                      ~(pinCount[g] > 0), g \notin lost
               PROVE  frameTable'[g] \in failed'
    BY <1>2, <1>3 DEF NoOtherLost
  <2>1. CASE g = f
    BY <1>1, <1>3, <2>1
  <2>2. CASE g # f
    <3>1. frameTable[g] \in failed /\ frameTable[g] \in Tables
      BY <2>2 DEF TypeOK, FileParts, NoOtherLost
    <3>2. frameTable[g] # frameTable[f]
      BY <2>2, <3>1, FileAssumption DEF FileParts, MapsInverse
    <3> QED
      BY <1>1, <1>3, <2>2, <3>1, <3>2
  <2> QED
    BY <2>1, <2>2
<1>9. MappedIsRight'
  <2> SUFFICES ASSUME NEW s \in Tables, tables'[s] # NoFrame, s \notin failed'
               PROVE  files[tables'[s]] = s
    BY <1>2 DEF MappedIsRight
  <2>1. s # t /\ s # frameTable[f] /\ tables'[s] = tables[s] /\ s \notin failed
    BY <1>1, <1>3
  <2> QED
    BY <2>1 DEF FileParts, MappedIsRight
<1>10. GivenIsRight'
  <2> SUFFICES ASSUME NEW v \in Users, using[v] # NoFile, using[v].table \notin failed'
               PROVE  using[v].file = using[v].table
    BY <1>2 DEF GivenIsRight
  <2>1. using[v].table # frameTable[f] /\ using[v].table \notin failed
    BY <1>1, <1>3
  <2> QED
    BY <2>1 DEF FileParts, GivenIsRight
<1>11. LostIsNowhere'
  BY <1>2, <1>3 DEF FileParts, LostIsNowhere, TypeOK
<1> QED
  BY <1>3, <1>4, <1>5, <1>6, <1>7, <1>8, <1>9, <1>10, <1>11 DEF FileParts

LEMMA LoseKeeps ==
  ASSUME TypeOK, FileParts, NEW u \in Users, NEW t \in Tables, AcquireLosesFrame(u, t)
  PROVE  (TypeOK /\ FileParts)'
<1>1. PICK f \in Frames :
        /\ CanTake(f)
        /\ free' = IF free # <<>> THEN Front(free) ELSE free
        /\ evictable' = IF free # <<>> THEN evictable ELSE Front(evictable)
        /\ tables' = [s \in Tables |-> IF free = <<>> /\ s = frameTable[f] THEN NoFrame
                                       ELSE tables[s]]
        /\ frameTable' = [frameTable EXCEPT ![f] = IF free = <<>> THEN NoTable ELSE @]
        /\ failed' = failed \ {frameTable[f]}
        /\ lost' = lost \cup {f}
  BY DEF AcquireLosesFrame
<1>2. UNCHANGED <<files, pinCount, using>>
  BY DEF AcquireLosesFrame
<1>3. /\ \/ free # <<>> /\ frameTable[f] = NoTable
         \/ free = <<>> /\ frameTable[f] \in Tables
      /\ free' \in Seq(Frames) /\ evictable' \in Seq(Frames) /\ Once(free') /\ Once(evictable')
      /\ Range(free') = Range(free) \ {f} /\ Range(evictable') = Range(evictable) \ {f}
      /\ pinCount[f] = 0
      /\ \A v \in Users : using[v] # NoFile => using[v].table # frameTable[f]
  BY <1>1, TakenOff
<1>4. \A s \in Tables : tables'[s] = IF s = frameTable[f] THEN NoFrame ELSE tables[s]
  BY <1>1, <1>3, FileAssumption
<1>5. \A g \in Frames : frameTable'[g] = IF g = f THEN NoTable ELSE frameTable[g]
  BY <1>1, <1>3 DEF TypeOK
<1>6. TypeOK'
  <2>1. tables' \in [Tables -> Frames \cup {NoFrame}]
    BY <1>1 DEF TypeOK
  <2>2. frameTable' \in [Frames -> Tables \cup {NoTable}]
    BY <1>1 DEF TypeOK
  <2> QED
    BY <1>1, <1>2, <1>3, <2>1, <2>2 DEF TypeOK
<1>7. MapsInverse'
  <2>1. ASSUME NEW s \in Tables, tables'[s] # NoFrame PROVE frameTable'[tables'[s]] = s
    <3>1. s # frameTable[f] /\ tables'[s] = tables[s] /\ tables[s] \in Frames
      BY <1>4, <2>1 DEF TypeOK
    <3>2. frameTable[tables[s]] = s
      BY <2>1, <3>1 DEF FileParts, MapsInverse
    <3> QED
      BY <1>5, <3>1, <3>2
  <2>2. ASSUME NEW g \in Frames, frameTable'[g] # NoTable PROVE tables'[frameTable'[g]] = g
    <3>1. g # f /\ frameTable'[g] = frameTable[g] /\ frameTable[g] \in Tables
      BY <1>5, <2>2 DEF TypeOK
    <3>2. tables[frameTable[g]] = g
      BY <2>2, <3>1 DEF FileParts, MapsInverse
    <3>3. frameTable[g] # frameTable[f]
      BY <2>2, <3>1, <3>2 DEF FileParts, MapsInverse
    <3> QED
      BY <1>4, <3>1, <3>2, <3>3
  <2> QED
    BY <2>1, <2>2 DEF MapsInverse
<1>8. PinsByTable'
  <2>1. \A s : UsersOf(s)' = UsersOf(s)
    BY <1>2 DEF UsersOf
  <2>2. \A g \in Frames : frameTable'[g] = NoTable => pinCount[g] = 0
    BY <1>3, <1>5 DEF FileParts, PinsByTable
  <2>3. ASSUME NEW g \in Frames, NEW s \in Tables, frameTable'[g] = s
        PROVE  pinCount[g] = Cardinality(UsersOf(s))
    <3>1. frameTable[g] = s
      BY <1>5, <2>3, FileAssumption
    <3> QED
      BY <3>1 DEF FileParts, PinsByTable
  <2> QED
    BY <1>2, <2>1, <2>2, <2>3 DEF PinsByTable
<1>9. UsersMapped'
  BY <1>2, <1>3, <1>4 DEF FileParts, UsersMapped, TypeOK
<1>10. ListsSound'
  BY <1>2, <1>3, <1>5, RangeOfFrames DEF TypeOK, FileParts, ListsSound
<1>11. LostIsNowhere'
  BY <1>1, <1>3, <1>5 DEF FileParts, LostIsNowhere, TypeOK
<1>12. NoOtherLost'
  <2> SUFFICES ASSUME NEW g \in Frames, g # f,
                      g \notin Range(free), g \notin Range(evictable), ~(pinCount[g] > 0),
                      g \notin lost
               PROVE  frameTable'[g] \in failed'
    BY <1>1, <1>2, <1>3 DEF NoOtherLost
  <2>1. frameTable[g] \in failed /\ frameTable[g] \in Tables
    BY DEF TypeOK, FileParts, NoOtherLost
  <2>2. frameTable[g] # frameTable[f]
    BY <2>1, FileAssumption DEF FileParts, MapsInverse
  <2> QED
    BY <1>1, <1>5, <2>1, <2>2
<1>13. MappedIsRight'
  <2> SUFFICES ASSUME NEW s \in Tables, tables'[s] # NoFrame, s \notin failed'
               PROVE  files[tables'[s]] = s
    BY <1>2 DEF MappedIsRight
  <2>1. s # frameTable[f] /\ tables'[s] = tables[s] /\ s \notin failed
    BY <1>1, <1>4
  <2> QED
    BY <2>1 DEF FileParts, MappedIsRight
<1>14. GivenIsRight'
  <2> SUFFICES ASSUME NEW v \in Users, using[v] # NoFile, using[v].table \notin failed'
               PROVE  using[v].file = using[v].table
    BY <1>2 DEF GivenIsRight
  <2>1. using[v].table \notin failed
    BY <1>1, <1>3
  <2> QED
    BY <2>1 DEF FileParts, GivenIsRight
<1> QED
  BY <1>6, <1>7, <1>8, <1>9, <1>10, <1>11, <1>12, <1>13, <1>14 DEF FileParts

LEMMA ReleaseKeeps ==
  ASSUME TypeOK, FileParts, NEW u \in Users, Release(u)
  PROVE  (TypeOK /\ FileParts)'
<1>1. PICK t \in Tables : t = using[u].table
  BY DEF Release, TypeOK
<1>2. PICK f \in Frames : f = tables[t] /\ frameTable[f] = t
  BY <1>1 DEF Release, TypeOK, FileParts, UsersMapped, MapsInverse
<1>3. /\ using[u] # NoFile /\ Unpin(f)
      /\ UNCHANGED <<tables, frameTable, files, free, failed, lost>>
  BY <1>1, <1>2, FileAssumption DEF Release
<1>4. pinCount[f] \in Nat /\ pinCount[f] > 0
  BY <1>3 DEF Unpin, TypeOK
<1>5. \A g \in Frames : pinCount'[g] = IF g = f THEN pinCount[g] - 1 ELSE pinCount[g]
  BY <1>3 DEF Unpin, TypeOK
<1>6. \A v \in Users : using'[v] = IF v = u THEN NoFile ELSE using[v]
  BY DEF Release, TypeOK
<1>7. f \notin Range(evictable) /\ f \notin Range(free)
  BY <1>2, <1>4, FileAssumption DEF FileParts, ListsSound
<1>8. /\ evictable' \in Seq(Frames) /\ Once(evictable')
      /\ Range(evictable') = IF pinCount[f] = 1 THEN Range(evictable) \cup {f} ELSE Range(evictable)
  <2>1. CASE pinCount[f] = 1
    <3>1. evictable' = Cons(f, evictable)
      BY <1>3, <1>7, <2>1, EvictableRange DEF Unpin
    <3> QED
      BY <1>7, <2>1, <3>1, ConsOnce DEF TypeOK, FileParts, ListsSound
  <2>2. CASE pinCount[f] # 1
    BY <1>3, <2>2 DEF Unpin, TypeOK, FileParts, ListsSound
  <2> QED
    BY <2>1, <2>2
<1>9. TypeOK'
  <2>1. pinCount' \in [Frames -> Nat]
    BY <1>3, <1>4 DEF Unpin, TypeOK
  <2>2. using' \in [Users -> [table : Tables, file : Tables \cup {NoTable}] \cup {NoFile}]
    BY DEF Release, TypeOK
  <2> QED
    BY <1>3, <1>8, <2>1, <2>2 DEF TypeOK
<1>10. PinsByTable'
  <2>1. UsersOf(t)' = UsersOf(t) \ {u} /\ u \in UsersOf(t)
    BY <1>1, <1>3, <1>6 DEF UsersOf
  <2>2. Cardinality(UsersOf(t)') = Cardinality(UsersOf(t)) - 1
    BY <2>1, UsersFinite, FS_RemoveElement
  <2>3. \A s \in Tables : s # t => UsersOf(s)' = UsersOf(s)
    BY <1>1, <1>6 DEF UsersOf
  <2>4. \A g \in Frames : frameTable[g] = NoTable => pinCount'[g] = 0
    BY <1>2, <1>5, FileAssumption DEF FileParts, PinsByTable
  <2>5. ASSUME NEW g \in Frames, NEW s \in Tables, frameTable[g] = s
        PROVE  pinCount'[g] = Cardinality(UsersOf(s)')
    <3>1. CASE g = f
      BY <1>2, <1>5, <2>2, <2>5, <3>1 DEF FileParts, PinsByTable
    <3>2. CASE g # f
      <4>1. s # t
        BY <1>2, <2>5, <3>2, FileAssumption DEF FileParts, MapsInverse
      <4> QED
        BY <1>5, <2>3, <2>5, <3>2, <4>1 DEF FileParts, PinsByTable
    <3> QED
      BY <3>1, <3>2
  <2> QED
    BY <1>3, <2>4, <2>5 DEF PinsByTable
<1>11. MapsInverse' /\ UsersMapped' /\ MappedIsRight' /\ GivenIsRight'
  BY <1>3, <1>6 DEF FileParts, MapsInverse, UsersMapped, MappedIsRight, GivenIsRight
<1>12. ListsSound'
  BY <1>2, <1>3, <1>4, <1>5, <1>7, <1>8, RangeOfFrames, FileAssumption DEF TypeOK, FileParts, ListsSound
<1>13. NoOtherLost'
  BY <1>3, <1>4, <1>5, <1>8 DEF FileParts, NoOtherLost
<1>14. LostIsNowhere'
  BY <1>2, <1>3, <1>8, FileAssumption DEF FileParts, LostIsNowhere
<1> QED
  BY <1>9, <1>10, <1>11, <1>12, <1>13, <1>14 DEF FileParts

LEMMA FileNext == FileInv /\ [Next]_vars => FileInv'
<1> SUFFICES ASSUME TypeOK, FileParts, [Next]_vars PROVE (TypeOK /\ FileParts)'
  BY DEF FileInv
<1>1. CASE UNCHANGED vars
  BY <1>1 DEF vars, TypeOK, FileParts, MapsInverse, UsersMapped, PinsByTable, UsersOf, ListsSound,
              LostIsNowhere, NoOtherLost, MappedIsRight, GivenIsRight
<1>2. ASSUME NEW u \in Users, NEW t \in Tables, AcquireNoFrame(u, t) PROVE UNCHANGED vars
  BY <1>2 DEF AcquireNoFrame
<1> QED
  BY <1>1, <1>2, HitKeeps, OpenKeeps, FailKeeps, LoseKeeps, ReleaseKeeps DEF Next

-----------------------------------------------------------------------------
(***************************************************************************)
(* What a caller sees.                                                     *)
(***************************************************************************)
LEMMA FileInvRight == FileInv => RightFile
<1> SUFFICES ASSUME TypeOK, FileParts, NEW u \in Users, using[u] # NoFile, using[u].table \notin failed
             PROVE  LET t == using[u].table
                    IN  using[u].file = t /\ tables[t] # NoFrame /\ files[tables[t]] = t
  BY DEF FileInv, RightFile
<1>1. using[u].table \in Tables
  BY DEF TypeOK
<1> QED
  BY <1>1 DEF FileParts, UsersMapped, GivenIsRight, MappedIsRight

LEMMA PlacesOfFrame ==
  ASSUME NEW s \in Seq(Frames), Once(s), NEW f
  PROVE  Cardinality({i \in 1 .. Len(s) : s[i] = f}) = IF f \in Range(s) THEN 1 ELSE 0
<1> DEFINE S == {i \in 1 .. Len(s) : s[i] = f}
<1>1. Range(s) = {s[i] : i \in 1 .. Len(s)}
  BY RangeEquality
<1>2. CASE f \in Range(s)
  <2>1. PICK i \in 1 .. Len(s) : s[i] = f
    BY <1>1, <1>2
  <2>2. S = {i}
    BY <2>1 DEF Once
  <2>3. Cardinality(S) = 1
    BY <2>2, FS_Singleton
  <2> QED
    BY <1>2, <2>3
<1>3. CASE f \notin Range(s)
  <2>1. S = {}
    BY <1>1, <1>3
  <2>2. Cardinality(S) = 0
    BY <2>1, FS_EmptySet
  <2> QED
    BY <1>3, <2>2
<1> QED
  BY <1>2, <1>3

LEMMA FileInvAccounted == FileInv => FramesAccounted
<1> SUFFICES ASSUME TypeOK, FileParts, NEW f \in Frames
             PROVE  LET places == Cardinality({i \in 1 .. Len(free) : free[i] = f})
                                  + Cardinality({i \in 1 .. Len(evictable) : evictable[i] = f})
                                  + (IF pinCount[f] > 0 THEN 1 ELSE 0)
                    IN  IF f \in lost THEN places = 0 /\ frameTable[f] = NoTable
                        ELSE places = 1 \/ (places = 0 /\ frameTable[f] \in failed)
  BY DEF FileInv, FramesAccounted
<1>1. /\ Cardinality({i \in 1 .. Len(free) : free[i] = f}) = IF f \in Range(free) THEN 1 ELSE 0
      /\ Cardinality({i \in 1 .. Len(evictable) : evictable[i] = f})
           = IF f \in Range(evictable) THEN 1 ELSE 0
  BY PlacesOfFrame DEF TypeOK, FileParts, ListsSound
<1>2. /\ f \in Range(free) => f \notin Range(evictable) /\ pinCount[f] = 0
      /\ f \in Range(evictable) => pinCount[f] = 0
  BY DEF FileParts, ListsSound, PinsByTable
<1>3. \/ f \in Range(free) \/ f \in Range(evictable) \/ pinCount[f] > 0
      \/ frameTable[f] \in failed \/ f \in lost
  BY DEF FileParts, NoOtherLost
<1>4. f \in lost => /\ f \notin Range(free) /\ f \notin Range(evictable)
                    /\ frameTable[f] = NoTable /\ pinCount[f] = 0
  BY DEF FileParts, LostIsNowhere, PinsByTable
<1> QED
  BY <1>1, <1>2, <1>3, <1>4

(***************************************************************************)
(* The inductive invariant holds for any number of tables, frames and      *)
(* users, whether or not directories can fail to be created and files to   *)
(* open.                                                                   *)
(***************************************************************************)
THEOREM FileInvariant == Spec => []FileInv
BY FileInit, FileNext, PTL DEF Spec

(***************************************************************************)
(* The variables of the file table have their types.                       *)
(***************************************************************************)
THEOREM FileTypeCorrect == Spec => []TypeOK
<1>1. FileInv => TypeOK
  BY DEF FileInv
<1> QED
  BY <1>1, FileInvariant, PTL

(***************************************************************************)
(* A frame's pin count is the number of users of its table, so that        *)
(* Release never fails its assertion.                                      *)
(***************************************************************************)
THEOREM PinsCorrect == Spec => []PinsExact
<1>1. FileInv => PinsExact
  BY DEF FileInv, FileParts, PinsByTable, PinsExact, TypeOK
<1> QED
  BY <1>1, FileInvariant, PTL

(***************************************************************************)
(* Acquire never gives one table's file for another's, but for a table     *)
(* whose file failed to open.                                              *)
(***************************************************************************)
THEOREM FilesCorrect == Spec => []RightFile
BY FileInvRight, FileInvariant, PTL

(***************************************************************************)
(* No frame is listed twice, and no frame is lost but for those of tables  *)
(* that failed to open, and those of Acquires that could not create the    *)
(* directory, which are of no table from then on.                          *)
(***************************************************************************)
THEOREM FramesCounted == Spec => []FramesAccounted
BY FileInvAccounted, FileInvariant, PTL
=============================================================================
