--------------------------- MODULE BufferPoolProofs ---------------------------
(***************************************************************************)
(* Proofs about BufferPool, for every number of frames, tables, pages and  *)
(* references: its types; a page that is held stays where it is; the dirty *)
(* count is exact; pages are handed out twice, and writes are lost, only   *)
(* in the ways that are named; and the pool implements PageStore.          *)
(***************************************************************************)
EXTENDS BufferPool, TLAPS, FiniteSetTheorems

-----------------------------------------------------------------------------
(***************************************************************************)
(* The sweep keeps the usage counters between 0 and LRU_MAX_PIN.           *)
(***************************************************************************)
LEMMA TouchType ==
  ASSUME NEW u \in [Frames -> Usages], NEW f \in Frames
  PROVE  Touch(u, f) \in [Frames -> Usages]
  BY SweepAssumption DEF Touch, Usages

LEMMA PassesType ==
  ASSUME NEW u, NEW f
  PROVE  Passes(u, f) \in Nat
<1> DEFINE S == {k \in 1 .. MaxUsage : \A g \in Frames : g < f => Rank(u, g) > k}
<1>1. IsFiniteSet(1 .. MaxUsage)
  BY FS_Interval, SweepAssumption
<1>2. IsFiniteSet(S)
  BY <1>1, FS_Subset
<1> QED
  BY <1>2, FS_CardinalityType DEF Passes

LEMMA AfterSweepType ==
  ASSUME NEW u \in [Frames -> Usages], NEW v \in Frames
  PROVE  AfterSweep(u, v) \in [Frames -> Usages]
<1>1. \A f \in Frames : u[f] \in 0 .. MaxUsage
  BY DEF Usages
<1>2. \A f \in Frames : Passes(u, f) \in Nat /\ Rank(u, f) \in Nat
  BY <1>1, PassesType, SweepAssumption DEF Rank
<1>3. \A f \in Frames, n \in Nat : Less(u[f], n) \in Usages
  BY <1>1, SweepAssumption DEF Less, Usages
<1>4. 0 \in Usages /\ 1 \in Usages
  BY SweepAssumption DEF Usages
<1> QED
  BY <1>2, <1>3, <1>4 DEF AfterSweep

LEMMA VictimIsFrame ==
  ASSUME TypeOK, NEW f, FindsVictim(f)
  PROVE  f \in Frames
  BY DEF TypeOK, FindsVictim, IsVictim, OpenStops, Stops

(***************************************************************************)
(* Reading and writing the files keeps their type.                         *)
(***************************************************************************)
LEMMA ReadPageType ==
  ASSUME NEW d \in [PageIds -> Bytes \cup {Absent}], NEW p \in PageIds, NEW old \in Bytes
  PROVE  ReadPage(d, p, old) \in Bytes
  BY PoolAssumption DEF ReadPage, Zeroed, Bytes, Contents

LEMMA WritePageType ==
  ASSUME NEW d \in [PageIds -> Bytes \cup {Absent}], NEW p \in PageIds, NEW b \in Bytes, NEW ok
  PROVE  WritePage(d, p, b, ok) \in [PageIds -> Bytes \cup {Absent}]
  BY DEF WritePage

LEMMA EvictType ==
  ASSUME TypeOK, NEW f \in Frames, Evict(f)
  PROVE  disk' \in [PageIds -> Bytes \cup {Absent}] /\ spoilt' \subseteq PageIds
<1>1. PICK ok \in Outcomes(pageId[f]) :
        /\ disk' = EvictFrame(f, ok)
        /\ spoilt' = IF Cleaned(f) /\ ~ok THEN spoilt \cup {pageId[f]} ELSE spoilt
  BY DEF Evict
<1>2. CASE Cleaned(f)
  <2>1. pageId[f] \in PageIds /\ bytes[f] \in Bytes
    BY <1>2 DEF Cleaned, TypeOK
  <2> QED
    BY <1>1, <1>2, <2>1, WritePageType DEF EvictFrame, TypeOK
<1>3. CASE ~Cleaned(f)
  BY <1>1, <1>3 DEF EvictFrame, TypeOK
<1> QED
  BY <1>2, <1>3

InstallType ==
  /\ pageId' \in [Frames -> PageIds \cup {NoPage}]
  /\ pinCount' \in [Frames -> Nat]
  /\ dirty' \in [Frames -> BOOLEAN]
  /\ dirtyCount' \in Int
  /\ pageTable' \in [PageIds -> Frames \cup {NoFrame}]
  /\ freeList' \in Seq(Frames)
  /\ usage' \in [Frames -> Usages]

LEMMA InstallKeepsType ==
  ASSUME TypeOK, NEW f \in Frames, NEW p \in PageIds, NEW d \in BOOLEAN, Install(f, p, d)
  PROVE  InstallType
<1>1. pageId' \in [Frames -> PageIds \cup {NoPage}]
  BY DEF TypeOK, Install
<1>2. pinCount' \in [Frames -> Nat] /\ dirty' \in [Frames -> BOOLEAN]
  BY DEF TypeOK, Install
<1>3. dirtyCount' \in Int
  BY DEF TypeOK, Install
<1>4. pageTable' \in [PageIds -> Frames \cup {NoFrame}]
  BY DEF TypeOK, Install
<1>5. freeList' \in Seq(Frames)
  BY DEF TypeOK, Install
<1>6. usage' \in [Frames -> Usages]
  <2>1. AfterSweep(usage, f) \in [Frames -> Usages]
    BY AfterSweepType DEF TypeOK
  <2> QED
    BY <2>1, TouchType DEF TypeOK, Install
<1> QED
  BY <1>1, <1>2, <1>3, <1>4, <1>5, <1>6 DEF InstallType

-----------------------------------------------------------------------------
(***************************************************************************)
(* Every variable keeps its type, whatever the constants are.              *)
(***************************************************************************)
LEMMA TypeInit == Init => TypeOK
<1> SUFFICES ASSUME Init PROVE TypeOK
  OBVIOUS
<1>1. freeList \in Seq(Frames)
  BY SweepAssumption DEF Init, Frames
<1>2. usage \in [Frames -> Usages]
  BY SweepAssumption DEF Init, Usages
<1>3. nextPageNo \in [Tables -> (0 .. MaxPages) \cup {Unset}]
  BY DEF Init
<1>4. dirty \in [Frames -> BOOLEAN] /\ dirtyCount \in Int
  BY DEF Init
<1>5. pageTable \in [PageIds -> Frames \cup {NoFrame}] /\ pageId \in [Frames -> PageIds \cup {NoPage}]
  BY DEF Init
<1>6. /\ bytes \in [Frames -> Bytes] /\ latest \in [PageIds -> Bytes]
      /\ disk \in [PageIds -> Bytes \cup {Absent}]
      /\ reissued \subseteq PageIds /\ spoilt \subseteq PageIds
  BY DEF Init, Bytes
<1>7. pinCount \in [Frames -> Nat] /\ held \in [Refs -> References \cup {NoRef}]
  BY DEF Init
<1> QED
  BY <1>1, <1>2, <1>3, <1>4, <1>5, <1>6, <1>7 DEF Init, TypeOK

LEMMA HoldType ==
  ASSUME TypeOK, NEW r \in Refs, NEW p \in PageIds, NEW f \in Frames, Hold(r, p, f)
  PROVE  held' \in [Refs -> References \cup {NoRef}]
  BY DEF TypeOK, Hold, References

LEMMA LatestType ==
  ASSUME TypeOK, NEW p \in PageIds, NEW b \in Bytes
  PROVE  [latest EXCEPT ![p] = b] \in [PageIds -> Bytes]
  BY DEF TypeOK

LEMMA ZeroedType ==
  ASSUME NEW p \in PageIds
  PROVE  Zeroed(p) \in Bytes
  BY PoolAssumption DEF Zeroed, Bytes, Contents

LEMMA WriteBackType ==
  ASSUME TypeOK, NEW f \in Frames, NEW p \in PageIds, WriteBack(f, p)
  PROVE  /\ disk' \in [PageIds -> Bytes \cup {Absent}]
         /\ dirty' \in [Frames -> BOOLEAN]
         /\ dirtyCount' \in Int
         /\ spoilt' \subseteq PageIds
<1>1. bytes[f] \in Bytes
  BY DEF TypeOK
<1>2. disk' \in [PageIds -> Bytes \cup {Absent}] /\ spoilt' \subseteq PageIds
  <2>1. PICK ok \in Outcomes(p) : /\ disk' = WritePage(disk, p, bytes[f], ok)
                               /\ spoilt' = IF ok THEN spoilt ELSE spoilt \cup {p}
    BY DEF WriteBack, SavePage
  <2>2. disk' \in [PageIds -> Bytes \cup {Absent}]
    BY <1>1, <2>1, WritePageType DEF TypeOK
  <2> QED
    BY <2>1, <2>2 DEF TypeOK
<1>3. dirty' \in [Frames -> BOOLEAN]
  BY DEF TypeOK, WriteBack
<1>4. dirtyCount' \in Int
  BY DEF TypeOK, WriteBack
<1> QED
  BY <1>2, <1>3, <1>4

LEMMA TypeNext == TypeOK /\ [Next]_vars => TypeOK'
<1> SUFFICES ASSUME TypeOK, [Next]_vars PROVE TypeOK'
  OBVIOUS
<1>1. ASSUME NEW r \in Refs, NEW p \in PageIds, FetchHit(r, p) PROVE TypeOK'
  <2>1. pageTable[p] \in Frames
    BY <1>1 DEF FetchHit, Mapped, TypeOK
  <2>2. usage' \in [Frames -> Usages]
    BY <1>1, <2>1, TouchType DEF FetchHit, TypeOK
  <2>3. held' \in [Refs -> References \cup {NoRef}]
    BY <1>1, <2>1, HoldType DEF FetchHit
  <2>4. pinCount' \in [Frames -> Nat]
    BY <1>1, <2>1 DEF FetchHit, TypeOK
  <2> QED
    BY <1>1, <2>2, <2>3, <2>4 DEF FetchHit, TypeOK
<1>2. ASSUME NEW r \in Refs, NEW p \in PageIds, NEW f \in Frames, FetchMiss(r, p, f)
      PROVE  TypeOK'
  <2>1. InstallType
    BY <1>2, InstallKeepsType DEF FetchMiss
  <2>2. held' \in [Refs -> References \cup {NoRef}]
    BY <1>2, HoldType DEF FetchMiss
  <2>3. disk' \in [PageIds -> Bytes \cup {Absent}] /\ spoilt' \subseteq PageIds
    BY <1>2, EvictType DEF FetchMiss
  <2>4. ReadPage(disk', p, bytes[f]) \in Bytes
    BY <2>3, ReadPageType DEF TypeOK
  <2>5. bytes' \in [Frames -> Bytes]
    BY <1>2, <2>4 DEF FetchMiss, TypeOK
  <2> QED
    BY <1>2, <2>1, <2>2, <2>3, <2>5 DEF FetchMiss, InstallType, TypeOK
<1>3. ASSUME NEW r \in Refs, NEW t \in Tables, NEW f \in Frames, NewPage(r, t, f)
      PROVE  TypeOK'
  <2> DEFINE p == <<t, NextNo(t)>>
  <2>1. NextNo(t) \in 0 .. MaxPages /\ NextNo(t) < MaxPages
    BY <1>3, PoolAssumption DEF NewPage, NextNo, TypeOK
  <2>2. p \in PageIds
    BY <2>1, PoolAssumption DEF PageIds, PageNos
  <2>3. InstallType
    BY <1>3, <2>2, InstallKeepsType DEF NewPage
  <2>4. held' \in [Refs -> References \cup {NoRef}]
    BY <1>3, <2>2, HoldType DEF NewPage
  <2>5. disk' \in [PageIds -> Bytes \cup {Absent}] /\ spoilt' \subseteq PageIds
    BY <1>3, EvictType DEF NewPage
  <2>6. bytes' \in [Frames -> Bytes] /\ latest' \in [PageIds -> Bytes]
    BY <1>3, <2>2, ZeroedType DEF NewPage, TypeOK
  <2>7. nextPageNo' \in [Tables -> (0 .. MaxPages) \cup {Unset}]
    BY <1>3, <2>1, PoolAssumption DEF NewPage, TypeOK
  <2>8. reissued' \subseteq PageIds
    BY <1>3, <2>2 DEF NewPage, TypeOK
  <2> QED
    BY <1>3, <2>3, <2>4, <2>5, <2>6, <2>7, <2>8 DEF NewPage, InstallType, TypeOK
<1>4. ASSUME NEW r \in Refs, HangInSweep(r) PROVE TypeOK'
  BY <1>4 DEF HangInSweep, poolVars, TypeOK
<1>5. ASSUME NEW r \in Refs, Write(r) PROVE TypeOK'
  <2> DEFINE p == held[r].page
             v == IF latest[p] = Junk THEN 1 ELSE latest[p].ver + 1
  <2>1. held[r] \in References
    BY <1>5 DEF Write, TypeOK
  <2>2. p \in PageIds /\ held[r].frame \in Frames
    BY <2>1 DEF References
  <2>3. latest[p] # Junk => latest[p].ver \in 0 .. MaxVersions
    BY <2>2 DEF TypeOK, Bytes, Contents
  <2>4. v \in 0 .. MaxVersions
    BY <1>5, <2>3, PoolAssumption DEF Write
  <2>5. [of |-> p, ver |-> v] \in Bytes
    BY <2>2, <2>4 DEF Bytes, Contents
  <2>6. bytes' \in [Frames -> Bytes] /\ latest' \in [PageIds -> Bytes]
    BY <1>5, <2>2, <2>5 DEF Write, TypeOK
  <2>7. held' \in [Refs -> References \cup {NoRef}]
    BY <1>5, <2>1 DEF Write, TypeOK, References
  <2>8. spoilt' \subseteq PageIds
    <3>1. spoilt' = spoilt \cup ({pageId[held[r].frame]} \ {p, NoPage})
      BY <1>5 DEF Write
    <3>2. pageId[held[r].frame] \in PageIds \cup {NoPage} /\ spoilt \subseteq PageIds
      BY <2>2 DEF TypeOK
    <3> QED
      BY <3>1, <3>2
  <2> QED
    BY <1>5, <2>6, <2>7, <2>8 DEF Write, poolVars, TypeOK
<1>6. ASSUME NEW r \in Refs, NEW d \in BOOLEAN, Unpin(r, d) PROVE TypeOK'
  <2> DEFINE f == pageTable[held[r].page]
  <2>1. f \in Frames \cup {NoFrame}
    BY <1>6 DEF Unpin, TypeOK, References
  <2>2. held' \in [Refs -> References \cup {NoRef}]
    BY <1>6 DEF Unpin, TypeOK
  <2>3. CASE f = NoFrame \/ (f # NoFrame /\ pinCount[f] = 0)
    BY <1>6, <2>2, <2>3 DEF Unpin, TypeOK
  <2>4. CASE ~(f = NoFrame \/ (f # NoFrame /\ pinCount[f] = 0))
    <3>1. f \in Frames /\ pinCount[f] \in Nat \ {0}
      BY <2>1, <2>4 DEF TypeOK
    <3>2. pinCount' = [pinCount EXCEPT ![f] = @ - 1]
      BY <1>6, <2>4 DEF Unpin
    <3>3. pinCount' \in [Frames -> Nat]
      BY <3>1, <3>2 DEF TypeOK
    <3>4. dirty' = [dirty EXCEPT ![f] = dirty[f] \/ d] /\ (dirty[f] \/ d) \in BOOLEAN
      BY <1>6, <2>4 DEF Unpin
    <3>5. dirty' \in [Frames -> BOOLEAN]
      BY <3>4 DEF TypeOK
    <3>6. dirtyCount' \in Int
      BY <1>6, <2>4, <3>1 DEF Unpin, TypeOK
    <3> QED
      BY <1>6, <2>2, <3>3, <3>5, <3>6 DEF Unpin, TypeOK
  <2> QED
    BY <2>3, <2>4
<1>7. ASSUME NEW p \in PageIds, FlushPage(p) PROVE TypeOK'
  <2>1. pageTable[p] \in Frames
    BY <1>7 DEF FlushPage, Mapped, TypeOK
  <2> QED
    BY <1>7, <2>1, WriteBackType DEF FlushPage, WriteBack, TypeOK
<1>8. ASSUME NEW p \in PageIds, DeletePage(p) PROVE TypeOK'
  <2>1. pageTable[p] \in Frames
    BY <1>8 DEF DeletePage, Mapped, TypeOK
  <2>2. freeList' \in Seq(Frames)
    BY <1>8, <2>1 DEF DeletePage, TypeOK
  <2>3. latest' \in [PageIds -> Bytes]
    BY <1>8, LatestType DEF DeletePage, Bytes
  <2> QED
    BY <1>8, <2>1, <2>2, <2>3 DEF DeletePage, TypeOK
<1>9. ASSUME FlushScan PROVE TypeOK'
  BY <1>9 DEF FlushScan, poolVars, TypeOK
<1>10. ASSUME NEW f \in Frames, FlushOne(f) PROVE TypeOK'
  <2>1. CASE ~dirty[f] \/ pinCount[f] # 0 \/ pageId[f] = NoPage
    BY <1>10, <2>1 DEF FlushOne, poolVars, TypeOK
  <2>2. CASE ~(~dirty[f] \/ pinCount[f] # 0 \/ pageId[f] = NoPage)
    <3>1. pageId[f] \in PageIds
      BY <2>2 DEF TypeOK
    <3>2. WriteBack(f, pageId[f])
      BY <1>10, <2>2 DEF FlushOne
    <3> QED
      BY <1>10, <3>1, <3>2, WriteBackType DEF FlushOne, WriteBack, TypeOK
  <2> QED
    BY <2>1, <2>2
<1>11. ASSUME Restart PROVE TypeOK'
  <2>1. freeList' \in Seq(Frames)
    <3>1. freeList' = [i \in 1 .. NumFrames |-> i - 1]
      BY <1>11 DEF Restart
    <3> QED
      BY <3>1, SweepAssumption DEF Frames
  <2>2. usage' \in [Frames -> Usages]
    BY <1>11, SweepAssumption DEF Restart, Usages
  <2>3. disk' \in [PageIds -> Bytes \cup {Absent}] /\ spoilt' \subseteq PageIds
    <3>1. PICK failed \in SUBSET DirtyPages :
            /\ disk' = [p \in PageIds |-> IF p \in DirtyPages \ failed
                                          THEN bytes[pageTable[p]] ELSE disk[p]]
            /\ spoilt' = spoilt \cup failed
      BY <1>11 DEF Restart
    <3> QED
      BY <3>1 DEF DirtyPages, Mapped, TypeOK
  <2>4. nextPageNo' \in [Tables -> (0 .. MaxPages) \cup {Unset}]
    BY <1>11 DEF Restart, TypeOK
  <2> QED
    BY <1>11, <2>1, <2>2, <2>3, <2>4 DEF Restart, TypeOK, Bytes
<1>12. CASE Spin \/ UNCHANGED vars
  BY <1>12 DEF Spin, vars, poolVars, TypeOK
<1> QED
  BY <1>1, <1>2, <1>3, <1>4, <1>5, <1>6, <1>7, <1>8, <1>9, <1>10, <1>11, <1>12
     DEF Next, Flusher

(***************************************************************************)
(* The variables of the pool have their types in every reachable state.    *)
(***************************************************************************)
THEOREM TypeCorrect == Spec => []TypeOK
<1>1. Init => TypeOK
  BY TypeInit
<1>2. TypeOK /\ [Next]_vars => TypeOK'
  BY TypeNext
<1> QED
  BY <1>1, <1>2, PTL DEF Spec

-----------------------------------------------------------------------------
(***************************************************************************)
(* A page somebody holds stays in its frame.  The invariant HoldInv says   *)
(* that a mapped page's frame has it, and that a frame with a page is the  *)
(* one the page is mapped to; that pin_count_ counts the references to the *)
(* page, so that the sweep ends on a frame of a page nobody holds; and     *)
(* that a free frame holds no page.  All but the first and the last fail   *)
(* for a page that was handed out while in use: it has two frames.  What   *)
(* such a page does must not reach the others: it never does, because a    *)
(* mapped page's frame has that page whatever happened, and so two mapped  *)
(* pages never share a frame.                                              *)
(***************************************************************************)
HoldParts == MappingExact /\ PinExact /\ HeldIsMapped /\ FreeIsFree

LEMMA ReferenceIsNotNoRef ==
  ASSUME NEW p \in PageIds, NEW f \in Frames
  PROVE  [page |-> p, frame |-> f, wrote |-> FALSE] # NoRef
<1>1. [page |-> p, frame |-> f, wrote |-> FALSE] \in [page : PageIds, frame : Frames, wrote : BOOLEAN]
  OBVIOUS
<1> QED
  BY <1>1, PoolAssumption

LEMMA HoldersFinite == \A p : IsFiniteSet(Holders(p))
  BY PoolAssumption, FS_Subset DEF Holders

LEMMA HoldInit == Init => HoldParts
<1> SUFFICES ASSUME Init PROVE HoldParts
  OBVIOUS
<1>1. Mapped = {}
  BY DEF Init, Mapped
<1>2. MappingExact /\ HeldIsMapped /\ PinExact
  BY <1>1 DEF Init, MappingExact, HeldIsMapped, PinExact
<1>3. freeList = [i \in 1 .. NumFrames |-> i - 1] /\ Len(freeList) = NumFrames
  BY SweepAssumption DEF Init
<1>4. FreeIsFree
  BY <1>3, SweepAssumption DEF Init, FreeIsFree, Frames
<1> QED
  BY <1>2, <1>4 DEF HoldParts

(***************************************************************************)
(* The frame of a mapped page; two mapped pages have different frames.     *)
(***************************************************************************)
LEMMA FrameOfPage ==
  ASSUME TypeOK, HoldParts, NEW p \in Mapped
  PROVE  /\ p \in PageIds /\ pageTable[p] \in Frames /\ pageTable[p] # NoFrame
         /\ pageId[pageTable[p]] = p /\ p # NoPage
  BY PoolAssumption DEF Mapped, TypeOK, HoldParts, MappingExact

LEMMA PageOfFrame ==
  ASSUME TypeOK, HoldParts, NEW f \in Frames, pageId[f] # NoPage, pageId[f] \notin reissued
  PROVE  /\ pageId[f] \in Mapped /\ pageTable[pageId[f]] = f
<1>1. pageId[f] \in PageIds /\ pageTable[pageId[f]] = f
  BY DEF TypeOK, HoldParts, MappingExact
<1> QED
  BY <1>1, PoolAssumption DEF Mapped

LEMMA HeldFrameHasPage ==
  ASSUME TypeOK, HoldParts, NEW r \in Refs, held[r] # NoRef, held[r].page \notin reissued
  PROVE  /\ held[r].page \in Mapped /\ held[r].frame \in Frames
         /\ pageTable[held[r].page] = held[r].frame
         /\ pageId[held[r].frame] = held[r].page
         /\ pinCount[held[r].frame] # 0
<1>1. held[r].page \in PageIds /\ held[r].frame \in Frames
  BY DEF TypeOK, References
<1>2. pageTable[held[r].page] = held[r].frame
  BY DEF HoldParts, HeldIsMapped
<1>3. held[r].page \in Mapped
  BY <1>1, <1>2, PoolAssumption DEF Mapped
<1>4. r \in Holders(held[r].page)
  BY DEF Holders
<1>5. pinCount[held[r].frame] # 0
  BY <1>2, <1>3, <1>4, HoldersFinite, FS_EmptySet DEF HoldParts, PinExact
<1> QED
  BY <1>1, <1>2, <1>3, <1>5, FrameOfPage

(***************************************************************************)
(* Nobody holds the page in the frame that FindVictimFrame returns.        *)
(***************************************************************************)
LEMMA VictimUnheld ==
  ASSUME TypeOK, HoldParts, NEW f \in Frames, FindsVictim(f)
  PROVE  /\ \A r \in Refs : held[r] # NoRef /\ held[r].page \notin reissued => held[r].frame # f
         /\ freeList # <<>> => pageId[f] = NoPage
<1>1. CASE freeList # <<>>
  <2>1. f = freeList[1] /\ 1 \in 1 .. Len(freeList)
    BY <1>1 DEF FindsVictim, TypeOK
  <2>2. pageId[f] = NoPage
    BY <2>1 DEF HoldParts, FreeIsFree
  <2>3. \A r \in Refs : held[r] # NoRef /\ held[r].page \notin reissued => held[r].frame # f
    BY <2>2, HeldFrameHasPage, FrameOfPage
  <2> QED
    BY <2>2, <2>3
<1>2. CASE freeList = <<>>
  <2>1. pinCount[f] = 0
    BY <1>2 DEF FindsVictim, IsVictim, OpenStops
  <2> QED
    BY <1>2, <2>1, HeldFrameHasPage
<1> QED
  BY <1>1, <1>2

(***************************************************************************)
(* Bringing a page into a frame: one that is not in the pool, or one that  *)
(* from now on is handed out twice.                                        *)
(***************************************************************************)
LEMMA InstallOthers ==
  ASSUME TypeOK, HoldParts, NEW f \in Frames, NEW d \in BOOLEAN, NEW p \in PageIds,
         Install(f, p, d), NEW q \in PageIds, q # p, pageTable'[q] # NoFrame
  PROVE  /\ q \in Mapped /\ q # pageId[f] /\ pageTable'[q] = pageTable[q]
         /\ pageTable[q] \in Frames /\ pageTable[q] # f
<1>1. q # pageId[f] /\ pageTable'[q] = pageTable[q]
  BY DEF Install
<1>2. q \in Mapped /\ pageTable[q] \in Frames /\ pageId[pageTable[q]] = q
  BY <1>1, FrameOfPage DEF Mapped
<1> QED
  BY <1>1, <1>2

LEMMA InstallKeepsHold ==
  ASSUME TypeOK, HoldParts, NEW r \in Refs, NEW f \in Frames, NEW d \in BOOLEAN,
         NEW p \in PageIds, held[r] = NoRef, Install(f, p, d), Hold(r, p, f),
         reissued \subseteq reissued', p \notin reissued' => p \notin Mapped
  PROVE  HoldParts'
<1>1. /\ \A s \in Refs : held[s] # NoRef /\ held[s].page \notin reissued => held[s].frame # f
      /\ freeList # <<>> => pageId[f] = NoPage
  BY VictimUnheld DEF Install
<1>2. \A q \in PageIds : pageTable'[q] = IF q = p THEN f
                                         ELSE IF q = pageId[f] THEN NoFrame
                                         ELSE pageTable[q]
  BY DEF Install
<1>3. \A g \in Frames : /\ pageId'[g] = IF g = f THEN p ELSE pageId[g]
                        /\ pinCount'[g] = IF g = f THEN 1 ELSE pinCount[g]
  BY DEF Install, TypeOK
<1>4. \A s \in Refs : held'[s] = IF s = r THEN [page |-> p, frame |-> f, wrote |-> FALSE]
                                 ELSE held[s]
  BY DEF Hold, TypeOK
<1>5. held'[r] # NoRef
  BY <1>4, ReferenceIsNotNoRef
<1>6. MappingExact'
  <2>1. ASSUME NEW q \in PageIds, pageTable'[q] # NoFrame
        PROVE  pageId'[pageTable'[q]] = q
    <3>1. CASE q = p
      BY <3>1, <1>2, <1>3
    <3>2. CASE q # p
      BY <2>1, <3>2, <1>3, InstallOthers, FrameOfPage
    <3> QED
      BY <3>1, <3>2
  <2>2. ASSUME NEW g \in Frames, pageId'[g] # NoPage, pageId'[g] \notin reissued'
        PROVE  pageTable'[pageId'[g]] = g
    <3>1. CASE g = f
      BY <3>1, <1>2, <1>3
    <3>2. CASE g # f
      <4>1. pageId'[g] = pageId[g] /\ pageId[g] \notin reissued
        BY <2>2, <3>2, <1>3
      <4>2. pageId[g] \in Mapped /\ pageId[g] \in PageIds /\ pageTable[pageId[g]] = g
        BY <2>2, <4>1, PageOfFrame, FrameOfPage
      <4>3. pageId[g] # p
        BY <2>2, <4>1, <4>2
      <4>4. pageId[g] # pageId[f]
        BY <2>2, <3>2, <4>1, <4>2, PageOfFrame
      <4> QED
        BY <4>1, <4>2, <4>3, <4>4, <1>2
    <3> QED
      BY <3>1, <3>2
  <2> QED
    BY <2>1, <2>2 DEF MappingExact, Mapped
<1>7. PinExact'
  <2> SUFFICES ASSUME NEW q \in PageIds, pageTable'[q] # NoFrame, q \notin reissued'
               PROVE  pinCount'[pageTable'[q]] = Cardinality(Holders(q)')
    BY DEF PinExact, Mapped
  <2>1. CASE q = p
    <3>1. p \notin Mapped /\ p \notin reissued
      BY <2>1
    <3>2. \A s \in Refs : held[s] # NoRef => held[s].page # p
      BY <3>1, HeldFrameHasPage
    <3>3. Holders(p)' = {r}
      BY <1>4, <1>5, <3>2 DEF Holders
    <3>4. pageTable'[q] = f /\ pinCount'[f] = 1
      BY <1>2, <1>3, <2>1
    <3> QED
      BY <2>1, <3>3, <3>4, FS_Singleton
  <2>2. CASE q # p
    <3>1. q \in Mapped /\ pageTable'[q] = pageTable[q] /\ pageTable[q] \in Frames /\ pageTable[q] # f
      BY <2>2, InstallOthers
    <3>2. Holders(q)' = Holders(q)
      BY <1>4, <2>2 DEF Holders
    <3>3. pinCount'[pageTable[q]] = pinCount[pageTable[q]]
      BY <1>3, <3>1
    <3> QED
      BY <3>1, <3>2, <3>3 DEF HoldParts, PinExact
  <2> QED
    BY <2>1, <2>2
<1>8. HeldIsMapped'
  <2> SUFFICES ASSUME NEW s \in Refs, held'[s] # NoRef, held'[s].page \notin reissued'
               PROVE  pageTable'[held'[s].page] = held'[s].frame
    BY DEF HeldIsMapped
  <2>1. CASE s = r
    BY <2>1, <1>2, <1>4
  <2>2. CASE s # r
    <3>1. held'[s] = held[s] /\ held[s].page \notin reissued
      BY <2>2, <1>4
    <3>2. /\ held[s].page \in PageIds /\ pageTable[held[s].page] = held[s].frame
          /\ pageId[held[s].frame] = held[s].page /\ held[s].page \in Mapped
          /\ held[s].frame \in Frames
      BY <3>1, HeldFrameHasPage DEF Mapped
    <3>3. held[s].page # p
      BY <3>1, <3>2
    <3>4. held[s].frame # f
      BY <3>1, <1>1
    <3>5. held[s].page # pageId[f]
      BY <3>1, <3>2, <3>4, PageOfFrame, FrameOfPage
    <3> QED
      BY <3>1, <3>2, <3>3, <3>5, <1>2
  <2> QED
    BY <2>1, <2>2
<1>9. FreeIsFree'
  <2>1. CASE freeList = <<>>
    BY <2>1 DEF Install, FreeIsFree
  <2>2. CASE freeList # <<>>
    <3>1. freeList' = Tail(freeList) /\ f = freeList[1] /\ freeList \in Seq(Frames)
      BY <2>2 DEF Install, FindsVictim, TypeOK
    <3>2. /\ Len(freeList') = Len(freeList) - 1
          /\ \A i \in 1 .. Len(freeList') : freeList'[i] = freeList[i + 1] /\ i + 1 \in 1 .. Len(freeList)
          /\ 1 \in 1 .. Len(freeList)
      BY <2>2, <3>1
    <3>3. \A i \in 1 .. Len(freeList') : freeList'[i] # f
      BY <3>1, <3>2 DEF HoldParts, FreeIsFree
    <3>4. \A i \in 1 .. Len(freeList') : freeList'[i] \in Frames
      BY <3>1, <3>2
    <3>5. \A i \in 1 .. Len(freeList') : pageId'[freeList'[i]] = NoPage
      BY <3>2, <3>3, <3>4, <1>3 DEF HoldParts, FreeIsFree
    <3>6. \A i, j \in 1 .. Len(freeList') : freeList'[i] = freeList'[j] => i = j
      BY <3>2 DEF HoldParts, FreeIsFree
    <3> QED
      BY <3>5, <3>6 DEF FreeIsFree
  <2> QED
    BY <2>1, <2>2
<1> QED
  BY <1>6, <1>7, <1>8, <1>9 DEF HoldParts

HoldVars == <<pageId, pageTable, pinCount, freeList, reissued>>

LEMMA SameHold ==
  ASSUME HoldParts, UNCHANGED HoldVars,
         \A r \in Refs : /\ held'[r] # NoRef <=> held[r] # NoRef
                         /\ held[r] # NoRef => /\ held'[r].page = held[r].page
                                               /\ held'[r].frame = held[r].frame
  PROVE  HoldParts'
<1>1. \A p \in PageIds : Holders(p)' = Holders(p)
  BY DEF Holders
<1>2. PinExact'
  BY <1>1 DEF HoldParts, PinExact, HoldVars, Mapped
<1>3. MappingExact' /\ FreeIsFree'
  BY DEF HoldParts, MappingExact, FreeIsFree, Mapped, HoldVars
<1>4. HeldIsMapped'
  BY DEF HoldParts, HeldIsMapped, HoldVars
<1> QED
  BY <1>2, <1>3, <1>4 DEF HoldParts

\* What Write leaves of the references: all but who wrote.
LEMMA WriteKeepsPages ==
  ASSUME TypeOK, NEW r \in Refs, Write(r)
  PROVE  /\ held[r] \in References /\ held[r] # NoRef
         /\ held'[r] \in References /\ held'[r] # NoRef /\ held'[r].wrote
         /\ held'[r].page = held[r].page /\ held'[r].frame = held[r].frame
         /\ \A s \in Refs \ {r} : held'[s] = held[s]
<1>1. held[r] \in References /\ held[r] # NoRef
  BY DEF Write, TypeOK
<1>2. held' = [held EXCEPT ![r].wrote = TRUE]
  BY DEF Write
<1>3. /\ held'[r] \in References /\ held'[r].wrote
      /\ held'[r].page = held[r].page /\ held'[r].frame = held[r].frame
  BY <1>1, <1>2 DEF TypeOK, References
<1>4. \A s \in Refs \ {r} : held'[s] = held[s]
  BY <1>2 DEF TypeOK
<1> QED
  BY <1>1, <1>3, <1>4, PoolAssumption DEF References

LEMMA HoldNext == TypeOK /\ HoldParts /\ [Next]_vars => HoldParts'
<1> SUFFICES ASSUME TypeOK, HoldParts, [Next]_vars PROVE HoldParts'
  OBVIOUS
<1>1. ASSUME NEW r \in Refs, NEW p \in PageIds, FetchHit(r, p) PROVE HoldParts'
  <2>0. p \in Mapped /\ held[r] = NoRef /\ UNCHANGED <<pageId, pageTable, freeList, reissued>>
    BY <1>1 DEF FetchHit
  <2>1. PICK f \in Frames : f = pageTable[p] /\ pageId[f] = p
    BY <2>0, FrameOfPage
  <2>2. \A s \in Refs : held'[s] = IF s = r THEN [page |-> p, frame |-> f, wrote |-> FALSE]
                                   ELSE held[s]
    BY <1>1, <2>1 DEF FetchHit, Hold, TypeOK
  <2>3. held'[r] # NoRef
    BY <2>2, ReferenceIsNotNoRef
  <2>4. Holders(p)' = Holders(p) \cup {r} /\ r \notin Holders(p)
    BY <2>0, <2>2, <2>3 DEF Holders
  <2>5. \A q \in PageIds \ {p} : Holders(q)' = Holders(q)
    BY <2>0, <2>2 DEF Holders
  <2>6. \A g \in Frames : pinCount'[g] = IF g = f THEN pinCount[g] + 1 ELSE pinCount[g]
    BY <1>1, <2>1 DEF FetchHit, TypeOK
  <2>7. PinExact'
    <3> SUFFICES ASSUME NEW q \in Mapped, q \notin reissued
                 PROVE  pinCount'[pageTable[q]] = Cardinality(Holders(q)')
      BY <2>0 DEF PinExact, Mapped
    <3>1. pinCount[pageTable[q]] = Cardinality(Holders(q))
      BY DEF HoldParts, PinExact
    <3>2. CASE q = p
      BY <2>1, <2>4, <2>6, <3>1, <3>2, HoldersFinite, FS_AddElement
    <3>3. CASE q # p
      BY <2>1, <2>5, <2>6, <3>1, <3>3, FrameOfPage
    <3> QED
      BY <3>2, <3>3
  <2>8. HeldIsMapped'
    BY <2>0, <2>1, <2>2 DEF HoldParts, HeldIsMapped
  <2>9. MappingExact' /\ FreeIsFree'
    BY <2>0 DEF HoldParts, MappingExact, FreeIsFree, Mapped
  <2> QED
    BY <2>7, <2>8, <2>9 DEF HoldParts
<1>2. ASSUME NEW r \in Refs, NEW p \in PageIds, NEW f \in Frames, FetchMiss(r, p, f)
      PROVE  HoldParts'
  BY <1>2, InstallKeepsHold DEF FetchMiss
<1>3. ASSUME NEW r \in Refs, NEW t \in Tables, NEW f \in Frames, NewPage(r, t, f)
      PROVE  HoldParts'
  <2>1. NextNo(t) \in 0 .. MaxPages /\ NextNo(t) < MaxPages
    BY <1>3, PoolAssumption DEF NewPage, NextNo, TypeOK
  <2>2. PICK p \in PageIds : p = <<t, NextNo(t)>>
    <3>1. <<t, NextNo(t)>> \in PageIds
      BY <2>1, PoolAssumption DEF PageIds, PageNos
    <3> QED
      BY <3>1
  <2>3. reissued' = IF InUse(p) THEN reissued \cup {p} ELSE reissued
    BY <1>3, <2>2 DEF NewPage
  <2>4. reissued \subseteq reissued' /\ (p \notin reissued' => p \notin Mapped)
    BY <2>3 DEF InUse
  <2> QED
    BY <1>3, <2>2, <2>4, InstallKeepsHold DEF NewPage
<1>4. ASSUME NEW r \in Refs, HangInSweep(r) PROVE HoldParts'
  BY <1>4, SameHold DEF HangInSweep, poolVars, HoldVars
<1>5. ASSUME NEW r \in Refs, Write(r) PROVE HoldParts'
  <2>1. UNCHANGED HoldVars
    BY <1>5 DEF Write, poolVars, HoldVars
  <2> QED
    BY <1>5, <2>1, WriteKeepsPages, SameHold
<1>6. ASSUME NEW r \in Refs, NEW d \in BOOLEAN, Unpin(r, d) PROVE HoldParts'
  <2>0. PICK p \in PageIds : p = held[r].page
    BY <1>6 DEF Unpin, TypeOK, References
  <2> DEFINE f == pageTable[p]
  <2>1. /\ held[r] # NoRef /\ UNCHANGED <<pageId, pageTable, freeList, reissued>>
        /\ \A s \in Refs : held'[s] = IF s = r THEN NoRef ELSE held[s]
    BY <1>6 DEF Unpin, TypeOK
  <2>2. /\ \A q \in PageIds \ {p} : Holders(q)' = Holders(q)
        /\ Holders(p)' = Holders(p) \ {r} /\ r \in Holders(p)
    BY <2>0, <2>1 DEF Holders
  <2>3. PinExact'
    <3> SUFFICES ASSUME NEW q \in Mapped, q \notin reissued
                 PROVE  pinCount'[pageTable[q]] = Cardinality(Holders(q)')
      BY <2>1 DEF PinExact, Mapped
    <3>1. /\ pinCount[pageTable[q]] = Cardinality(Holders(q)) /\ pageTable[q] \in Frames
          /\ pageTable[q] # NoFrame
      BY FrameOfPage DEF HoldParts, PinExact
    <3>2. CASE q = p
      <4>1. f \in Frames /\ f # NoFrame /\ pinCount[f] # 0
        BY <2>0, <2>1, <3>1, <3>2, HeldFrameHasPage
      <4>2. pinCount' = [pinCount EXCEPT ![f] = @ - 1]
        BY <1>6, <2>0, <4>1 DEF Unpin
      <4>3. Cardinality(Holders(p) \ {r}) = Cardinality(Holders(p)) - 1
        BY <2>2, HoldersFinite, FS_RemoveElement
      <4>4. pinCount'[f] = pinCount[f] - 1
        BY <4>1, <4>2 DEF TypeOK
      <4> QED
        BY <2>2, <3>1, <3>2, <4>3, <4>4
    <3>3. CASE q # p
      <4>1. f # NoFrame => f # pageTable[q]
        BY <2>1, <3>3, FrameOfPage DEF Mapped
      <4>2. pinCount'[pageTable[q]] = pinCount[pageTable[q]]
        BY <1>6, <2>0, <3>1, <4>1 DEF Unpin, TypeOK
      <4> QED
        BY <2>2, <3>1, <3>3, <4>2, FrameOfPage
    <3> QED
      BY <3>2, <3>3
  <2>4. HeldIsMapped'
    BY <2>1 DEF HoldParts, HeldIsMapped
  <2>5. MappingExact' /\ FreeIsFree'
    BY <2>1 DEF HoldParts, MappingExact, FreeIsFree, Mapped
  <2> QED
    BY <2>3, <2>4, <2>5 DEF HoldParts
<1>7. ASSUME NEW p \in PageIds, FlushPage(p) PROVE HoldParts'
  BY <1>7, SameHold DEF FlushPage, WriteBack, HoldVars
<1>8. ASSUME NEW p \in PageIds, DeletePage(p) PROVE HoldParts'
  <2> DEFINE f == pageTable[p]
  <2>1. p \in Mapped /\ f \in Frames /\ pageId[f] = p /\ pinCount[f] = 0
    BY <1>8, FrameOfPage DEF DeletePage
  <2>2. p \notin reissued => \A s \in Refs : held[s] # NoRef => held[s].page # p
    BY <2>1, HeldFrameHasPage
  <2>3. /\ \A q \in PageIds : pageTable'[q] = IF q = p THEN NoFrame ELSE pageTable[q]
        /\ \A g \in Frames : pageId'[g] = IF g = f THEN NoPage ELSE pageId[g]
    BY <1>8, <2>1 DEF DeletePage, TypeOK
  <2>4. UNCHANGED <<pinCount, held, reissued>> /\ freeList' = Append(freeList, f)
    BY <1>8 DEF DeletePage
  <2>5. ASSUME NEW q \in PageIds, pageTable'[q] # NoFrame
        PROVE  /\ q # p /\ q \in Mapped /\ pageTable'[q] = pageTable[q]
               /\ pageTable[q] \in Frames /\ pageId[pageTable[q]] = q /\ pageTable[q] # f
    <3>1. q # p /\ q \in Mapped /\ pageTable'[q] = pageTable[q]
      BY <2>3, <2>5 DEF Mapped
    <3> QED
      BY <2>1, <3>1, FrameOfPage
  <2>6. MappingExact'
    <3>1. ASSUME NEW q \in PageIds, pageTable'[q] # NoFrame PROVE pageId'[pageTable'[q]] = q
      BY <2>3, <2>5, <3>1
    <3>2. ASSUME NEW g \in Frames, pageId'[g] # NoPage, pageId'[g] \notin reissued
          PROVE pageTable'[pageId'[g]] = g
      <4>1. g # f /\ pageId'[g] = pageId[g]
        BY <2>3, <3>2
      <4>2. pageId[g] \in PageIds /\ pageTable[pageId[g]] = g
        BY <3>2, <4>1, PageOfFrame, FrameOfPage
      <4> QED
        BY <2>3, <4>1, <4>2
    <3> QED
      BY <2>4, <3>1, <3>2 DEF MappingExact, Mapped
  <2>7. PinExact'
    <3> SUFFICES ASSUME NEW q \in PageIds, pageTable'[q] # NoFrame, q \notin reissued
                 PROVE  pinCount[pageTable'[q]] = Cardinality(Holders(q)')
      BY <2>4 DEF PinExact, Mapped
    <3>1. Holders(q)' = Holders(q)
      BY <2>4 DEF Holders
    <3> QED
      BY <2>5, <3>1 DEF HoldParts, PinExact
  <2>8. HeldIsMapped'
    <3> SUFFICES ASSUME NEW s \in Refs, held[s] # NoRef, held[s].page \notin reissued
                 PROVE  pageTable'[held[s].page] = held[s].frame
      BY <2>4 DEF HeldIsMapped
    <3>1. held[s].page \in PageIds /\ pageTable[held[s].page] = held[s].frame
      BY HeldFrameHasPage DEF Mapped
    <3>2. held[s].page # p
      BY <2>2
    <3> QED
      BY <2>3, <3>1, <3>2
  <2>9. FreeIsFree'
    <3> DEFINE n == Len(freeList)
    <3>1. /\ n \in Nat /\ Len(freeList') = n + 1 /\ freeList'[n + 1] = f
          /\ \A i \in 1 .. n : freeList'[i] = freeList[i] /\ freeList[i] \in Frames
      BY <2>1, <2>4 DEF TypeOK
    <3>2. \A i \in 1 .. n : freeList[i] # f /\ pageId[freeList[i]] = NoPage
      BY <2>1, PoolAssumption DEF HoldParts, FreeIsFree
    <3>3. \A i \in 1 .. Len(freeList') : i \in 1 .. n \/ i = n + 1
      BY <3>1
    <3>4. \A i \in 1 .. Len(freeList') : pageId'[freeList'[i]] = NoPage
      BY <2>1, <2>3, <3>1, <3>2, <3>3
    <3>5. \A i, j \in 1 .. Len(freeList') : freeList'[i] = freeList'[j] => i = j
      BY <3>1, <3>2, <3>3 DEF HoldParts, FreeIsFree
    <3> QED
      BY <3>4, <3>5 DEF FreeIsFree
  <2> QED
    BY <2>6, <2>7, <2>8, <2>9 DEF HoldParts
<1>9. ASSUME FlushScan PROVE HoldParts'
  BY <1>9, SameHold DEF FlushScan, poolVars, HoldVars
<1>10. ASSUME NEW f \in Frames, FlushOne(f) PROVE HoldParts'
  BY <1>10, SameHold DEF FlushOne, WriteBack, poolVars, HoldVars
<1>11. ASSUME Restart PROVE HoldParts'
  <2>1. Mapped' = {}
    BY <1>11 DEF Restart, Mapped
  <2>2. PinExact'
    BY <2>1 DEF PinExact
  <2>3. MappingExact' /\ HeldIsMapped'
    BY <1>11, <2>1 DEF Restart, MappingExact, HeldIsMapped
  <2>4. freeList' = [i \in 1 .. NumFrames |-> i - 1] /\ pageId' = [f \in Frames |-> NoPage]
    BY <1>11 DEF Restart
  <2>5. Len(freeList') = NumFrames
    BY <2>4, SweepAssumption
  <2>6. FreeIsFree'
    BY <2>4, <2>5, SweepAssumption DEF FreeIsFree, Frames
  <2> QED
    BY <2>2, <2>3, <2>6 DEF HoldParts
<1>12. CASE Spin \/ UNCHANGED vars
  BY <1>12, SameHold DEF Spin, vars, poolVars, HoldVars
<1> QED
  BY <1>1, <1>2, <1>3, <1>4, <1>5, <1>6, <1>7, <1>8, <1>9, <1>10, <1>11, <1>12
     DEF Next, Flusher

(***************************************************************************)
(* The invariant holds for any pool, any tables and any number of users,   *)
(* whatever pages they fetch and whatever writes fail.                     *)
(***************************************************************************)
THEOREM HoldInvariant == Spec => []HoldInv
<1>1. Init => TypeOK /\ HoldParts
  BY TypeInit, HoldInit
<1>2. TypeOK /\ HoldParts /\ [Next]_vars => (TypeOK /\ HoldParts)'
  BY TypeNext, HoldNext
<1>3. TypeOK /\ HoldParts => HoldInv
  BY DEF HoldInv, HoldParts
<1> QED
  BY <1>1, <1>2, <1>3, PTL DEF Spec

(***************************************************************************)
(* A page that somebody holds is never evicted, deleted or doubled, unless *)
(* NewPage handed out this page while it was in use.                       *)
(***************************************************************************)
THEOREM HeldPagesStay == Spec => []HeldPageStays
<1>1. TypeOK /\ HoldParts => HeldPageStays
  <2> SUFFICES ASSUME TypeOK, HoldParts, NEW r \in Refs, held[r] # NoRef,
                      held[r].page \notin reissued
               PROVE  /\ pageTable[held[r].page] = held[r].frame
                      /\ pageId[held[r].frame] = held[r].page
                      /\ pinCount[held[r].frame] > 0
    BY DEF HeldPageStays
  <2>1. /\ pageTable[held[r].page] = held[r].frame /\ held[r].frame \in Frames
        /\ pageId[held[r].frame] = held[r].page /\ pinCount[held[r].frame] # 0
    BY HeldFrameHasPage
  <2>2. pinCount[held[r].frame] \in Nat
    BY <2>1 DEF TypeOK
  <2> QED
    BY <2>1, <2>2
<1>2. HoldInv => TypeOK /\ HoldParts
  BY DEF HoldInv, HoldParts
<1> QED
  BY <1>1, <1>2, HoldInvariant, PTL

-----------------------------------------------------------------------------
(***************************************************************************)
(* Which pages NewPage hands out while they are in use.  A page is in use  *)
(* when it is in the pool, in its file, or was written; the invariant says *)
(* that the counter knows of every such page but the miscounted ones.      *)
(***************************************************************************)
UsedIsCounted ==
  \A p \in PageIds : p \in Mapped \/ disk[p] # Absent \/ latest[p] # Junk
                       => Allocated(p) \/ Miscounted(p)

UseParts == UsedIsCounted /\ HandedOutOnce

LEMMA UseInit == Init => UseParts
BY DEF Init, UseParts, UsedIsCounted, HandedOutOnce, Mapped

LEMMA FetchableCounted ==
  ASSUME TypeOK, UseParts, NEW p \in PageIds, p[2] \in Fetchable(p[1])
  PROVE  Allocated(p) \/ Miscounted(p)
<1> SUFFICES ASSUME ~Miscounted(p) PROVE Allocated(p)
  OBVIOUS
<1> DEFINE t == p[1]
<1>1. p = <<t, p[2]>> /\ t \in Tables /\ p[2] \in PageNos /\ t \in RestoredTables
  BY DEF PageIds, Miscounted
<1>2. p[2] < GetPageCount(t)
  BY DEF Fetchable, Miscounted
<1>3. CASE nextPageNo[t] = Unset
  <2> DEFINE S == {n \in PageNos : HasPage(disk, t, n)}
  <2>1. \A m \in PageNos : disk[<<t, m>>] # Absent => m = 0 /\ t \in FetchedEmpty
    BY <1>1, <1>3 DEF UseParts, UsedIsCounted, Allocated, Miscounted, PageIds
  <2>2. \A n \in S : n = 0 /\ t \in FetchedEmpty
    <3> SUFFICES ASSUME NEW n \in PageNos, HasPage(disk, t, n) PROVE n = 0 /\ t \in FetchedEmpty
      OBVIOUS
    <3>1. PICK m \in PageNos : m >= n /\ disk[<<t, m>>] # Absent
      BY DEF HasPage
    <3>2. m = 0 /\ t \in FetchedEmpty
      BY <2>1, <3>1
    <3> QED
      BY <3>1, <3>2, PoolAssumption DEF PageNos
  <2>3. GetPageCount(t) = Cardinality(S)
    BY <1>3 DEF GetPageCount, FileLen
  <2>4. CASE S = {}
    BY <1>1, <1>2, <2>3, <2>4, FS_EmptySet DEF PageNos
  <2>5. CASE S # {}
    <3>1. S = {0} /\ t \in FetchedEmpty
      BY <2>2, <2>5
    <3>2. Cardinality(S) = 1
      BY <3>1, FS_Singleton
    <3>3. p[2] < 1
      BY <1>2, <2>3, <3>2, Zenon
    <3>4. p[2] = 0
      BY <1>1, <3>3 DEF PageNos
    <3> QED
      BY <3>1, <3>4 DEF Miscounted
  <2> QED
    BY <2>4, <2>5
<1>4. CASE nextPageNo[t] # Unset
  BY <1>2, <1>4 DEF GetPageCount, Allocated
<1> QED
  BY <1>3, <1>4

\* The page NewPage hands out is one that the counter does not count yet, and
\* then it does.
LEMMA NewPageCounted ==
  ASSUME TypeOK, NEW r \in Refs, NEW t \in Tables, NEW f \in Frames, NewPage(r, t, f)
  PROVE  LET p == <<t, NextNo(t)>>
         IN  /\ p \in PageIds /\ ~Allocated(p)
             /\ \A q \in PageIds : Allocated(q)' <=> Allocated(q) \/ q = p
<1>1. NextNo(t) \in 0 .. MaxPages /\ NextNo(t) < MaxPages
  BY PoolAssumption DEF NewPage, NextNo, TypeOK
<1>2. PICK p : p = <<t, NextNo(t)>>
  OBVIOUS
<1>3. p \in PageIds
  BY <1>1, <1>2, PoolAssumption DEF PageIds, PageNos
<1>4. ~Allocated(p)
  BY <1>1, <1>2 DEF Allocated, NextNo
<1>5. NextNo(t) + 1 # Unset
  BY <1>1, PoolAssumption
<1>6. \A u \in Tables : nextPageNo'[u] = IF u = t THEN NextNo(t) + 1 ELSE nextPageNo[u]
  BY DEF NewPage, TypeOK
<1>7. ASSUME NEW q \in PageIds PROVE Allocated(q)' <=> Allocated(q) \/ q = p
  <2>1. q[1] \in Tables /\ q[2] \in Int /\ q[2] >= 0 /\ q = <<q[1], q[2]>>
    BY DEF PageIds, PageNos
  <2>2. CASE q[1] = t
    <3>1. Allocated(q)' <=> q[2] < NextNo(t) + 1
      BY <1>5, <1>6, <2>1, <2>2 DEF Allocated
    <3>2. Allocated(q) <=> q[2] < NextNo(t)
      BY <2>1, <2>2 DEF Allocated, NextNo
    <3>3. q = p <=> q[2] = NextNo(t)
      BY <1>2, <2>1, <2>2
    <3> QED
      BY <1>1, <2>1, <3>1, <3>2, <3>3
  <2>3. CASE q[1] # t
    BY <1>2, <1>6, <2>1, <2>3 DEF Allocated
  <2> QED
    BY <2>2, <2>3
<1> QED
  BY <1>2, <1>3, <1>4, <1>7

(***************************************************************************)
(* What is written to a file is a page that is in use.                     *)
(***************************************************************************)
LEMMA FramePageCounted ==
  ASSUME TypeOK, HoldParts, UseParts, NEW f \in Frames, pageId[f] # NoPage
  PROVE  pageId[f] \in PageIds /\ (Allocated(pageId[f]) \/ Miscounted(pageId[f]))
<1>1. pageId[f] \in PageIds
  BY DEF TypeOK
<1>2. CASE pageId[f] \in reissued
  BY <1>1, <1>2 DEF UseParts, HandedOutOnce
<1>3. CASE pageId[f] \notin reissued
  BY <1>1, <1>3, PageOfFrame DEF UseParts, UsedIsCounted
<1> QED
  BY <1>2, <1>3, <1>1

LEMMA EvictWrites ==
  ASSUME TypeOK, NEW f \in Frames, Evict(f)
  PROVE  /\ \A q \in PageIds : q # pageId[f] => disk'[q] = disk[q]
         /\ disk' # disk => pageId[f] # NoPage
BY DEF Evict, EvictFrame, Cleaned, WritePage, TypeOK

LEMMA InstallKeepsUse ==
  ASSUME TypeOK, HoldParts, UseParts, NEW f \in Frames, NEW d \in BOOLEAN, NEW p \in PageIds,
         Install(f, p, d), Evict(f), Allocated(p)' \/ Miscounted(p),
         \A q \in PageIds : Allocated(q) => Allocated(q)',
         \A q \in PageIds : q # p => latest'[q] = latest[q]
  PROVE  UsedIsCounted'
<1> SUFFICES ASSUME NEW q \in PageIds, q # p,
                    pageTable'[q] # NoFrame \/ disk'[q] # Absent \/ latest'[q] # Junk
             PROVE  Allocated(q) \/ Miscounted(q)
  BY DEF UsedIsCounted, Mapped, Miscounted
<1>1. CASE pageTable'[q] # NoFrame
  BY <1>1, InstallOthers DEF UseParts, UsedIsCounted
<1>2. CASE disk'[q] # Absent
  <2>1. CASE disk[q] # Absent
    BY <2>1 DEF UseParts, UsedIsCounted
  <2>2. CASE disk[q] = Absent
    BY <1>2, <2>2, EvictWrites, FramePageCounted
  <2> QED
    BY <2>1, <2>2
<1>3. CASE latest'[q] # Junk
  BY <1>3 DEF UseParts, UsedIsCounted
<1> QED
  BY <1>1, <1>2, <1>3

LEMMA WriteBackKeepsUse ==
  ASSUME TypeOK, HoldParts, UseParts, NEW f \in Frames, pageId[f] # NoPage,
         WriteBack(f, pageId[f]), UNCHANGED <<nextPageNo, latest, reissued>>
  PROVE  UseParts'
<1>1. \A q \in PageIds : q # pageId[f] => disk'[q] = disk[q]
  BY DEF WriteBack, SavePage, WritePage, TypeOK
<1>2. \A q \in PageIds : Allocated(q)' <=> Allocated(q)
  BY DEF Allocated
<1>3. UNCHANGED pageTable
  BY DEF WriteBack
<1>4. UsedIsCounted'
  <2> SUFFICES ASSUME NEW q \in PageIds,
                      pageTable[q] # NoFrame \/ disk'[q] # Absent \/ latest[q] # Junk
               PROVE  Allocated(q) \/ Miscounted(q)
    BY <1>2, <1>3 DEF UsedIsCounted, Mapped, Miscounted
  <2>1. CASE q = pageId[f]
    BY <2>1, FramePageCounted
  <2>2. CASE q # pageId[f]
    BY <1>1, <2>2 DEF UseParts, UsedIsCounted, Mapped
  <2> QED
    BY <2>1, <2>2
<1>5. HandedOutOnce'
  BY DEF UseParts, HandedOutOnce, Miscounted
<1> QED
  BY <1>4, <1>5 DEF UseParts

LEMMA SameUse ==
  ASSUME UseParts, UNCHANGED <<pageTable, disk, latest, nextPageNo, reissued>>
  PROVE  UseParts'
BY DEF UseParts, UsedIsCounted, HandedOutOnce, Allocated, Miscounted, Mapped

LEMMA UseNext == TypeOK /\ HoldParts /\ UseParts /\ [Next]_vars => UseParts'
<1> SUFFICES ASSUME TypeOK, HoldParts, UseParts, [Next]_vars PROVE UseParts'
  OBVIOUS
<1>1. ASSUME NEW r \in Refs, NEW p \in PageIds, FetchHit(r, p) PROVE UseParts'
  BY <1>1, SameUse DEF FetchHit
<1>2. ASSUME NEW r \in Refs, NEW p \in PageIds, NEW f \in Frames, FetchMiss(r, p, f)
      PROVE  UseParts'
  <2>1. UNCHANGED <<nextPageNo, latest, reissued>>
    BY <1>2 DEF FetchMiss
  <2>2. \A q \in PageIds : Allocated(q)' <=> Allocated(q)
    BY <2>1 DEF Allocated
  <2>3. Allocated(p)' \/ Miscounted(p)
    BY <1>2, <2>2, FetchableCounted DEF FetchMiss
  <2>4. UsedIsCounted'
    BY <1>2, <2>1, <2>2, <2>3, InstallKeepsUse DEF FetchMiss
  <2>5. HandedOutOnce'
    BY <2>1 DEF UseParts, HandedOutOnce, Miscounted
  <2> QED
    BY <2>4, <2>5 DEF UseParts
<1>3. ASSUME NEW r \in Refs, NEW t \in Tables, NEW f \in Frames, NewPage(r, t, f)
      PROVE  UseParts'
  <2>1. PICK p \in PageIds : /\ p = <<t, NextNo(t)>> /\ ~Allocated(p)
                             /\ \A q \in PageIds : Allocated(q)' <=> Allocated(q) \/ q = p
    BY <1>3, NewPageCounted
  <2>2. /\ Install(f, p, TRUE) /\ Evict(f)
        /\ reissued' = IF InUse(p) THEN reissued \cup {p} ELSE reissued
        /\ \A q \in PageIds : q # p => latest'[q] = latest[q]
    BY <1>3, <2>1 DEF NewPage, TypeOK
  <2>3. UsedIsCounted'
    BY <2>1, <2>2, InstallKeepsUse
  <2>4. InUse(p) => Miscounted(p)
    BY <2>1 DEF InUse, UseParts, UsedIsCounted
  <2>5. HandedOutOnce'
    BY <2>2, <2>4 DEF UseParts, HandedOutOnce, Miscounted
  <2> QED
    BY <2>3, <2>5 DEF UseParts
<1>4. ASSUME NEW r \in Refs, HangInSweep(r) PROVE UseParts'
  BY <1>4, SameUse DEF HangInSweep, poolVars
<1>5. ASSUME NEW r \in Refs, Write(r) PROVE UseParts'
  <2>1. PICK p \in PageIds : p = held[r].page
    BY <1>5, WriteKeepsPages DEF References
  <2>2. /\ UNCHANGED <<pageTable, disk, nextPageNo, reissued>>
        /\ \A q \in PageIds : q # p => latest'[q] = latest[q]
    BY <1>5, <2>1 DEF Write, poolVars, TypeOK
  <2>3. Allocated(p) \/ Miscounted(p)
    <3>1. CASE p \in reissued
      BY <3>1 DEF UseParts, HandedOutOnce
    <3>2. CASE p \notin reissued
      <4>1. p \in Mapped
        BY <1>5, <2>1, <3>2, HeldFrameHasPage DEF Write
      <4> QED
        BY <4>1 DEF UseParts, UsedIsCounted
    <3> QED
      BY <3>1, <3>2
  <2>4. UsedIsCounted'
    BY <2>2, <2>3 DEF UseParts, UsedIsCounted, Allocated, Miscounted, Mapped
  <2>5. HandedOutOnce'
    BY <2>2 DEF UseParts, HandedOutOnce, Miscounted
  <2> QED
    BY <2>4, <2>5 DEF UseParts
<1>6. ASSUME NEW r \in Refs, NEW d \in BOOLEAN, Unpin(r, d) PROVE UseParts'
  BY <1>6, SameUse DEF Unpin
<1>7. ASSUME NEW p \in PageIds, FlushPage(p) PROVE UseParts'
  <2>1. pageTable[p] \in Frames /\ pageId[pageTable[p]] = p /\ p # NoPage
    BY <1>7, FrameOfPage DEF FlushPage
  <2> QED
    BY <1>7, <2>1, WriteBackKeepsUse DEF FlushPage
<1>8. ASSUME NEW p \in PageIds, DeletePage(p) PROVE UseParts'
  <2>1. /\ UNCHANGED <<disk, nextPageNo, reissued>>
        /\ \A q \in PageIds : /\ latest'[q] # Junk => latest'[q] = latest[q]
                              /\ pageTable'[q] # NoFrame => pageTable'[q] = pageTable[q]
    BY <1>8 DEF DeletePage, TypeOK
  <2>2. UsedIsCounted'
    BY <2>1 DEF UseParts, UsedIsCounted, Allocated, Miscounted, Mapped
  <2>3. HandedOutOnce'
    BY <2>1 DEF UseParts, HandedOutOnce, Miscounted
  <2> QED
    BY <2>2, <2>3 DEF UseParts
<1>9. ASSUME FlushScan PROVE UseParts'
  BY <1>9, SameUse DEF FlushScan, poolVars
<1>10. ASSUME NEW f \in Frames, FlushOne(f) PROVE UseParts'
  <2>1. CASE ~dirty[f] \/ pinCount[f] # 0 \/ pageId[f] = NoPage
    BY <1>10, <2>1, SameUse DEF FlushOne, poolVars
  <2>2. CASE ~(~dirty[f] \/ pinCount[f] # 0 \/ pageId[f] = NoPage)
    BY <1>10, <2>2, WriteBackKeepsUse DEF FlushOne
  <2> QED
    BY <2>1, <2>2
<1>11. ASSUME Restart PROVE UseParts'
  <2>1. /\ Mapped' = {} /\ UNCHANGED <<latest, reissued>>
        /\ \A t \in RestoredTables : nextPageNo'[t] = nextPageNo[t]
        /\ \A q \in PageIds : disk'[q] # Absent => q \in Mapped \/ disk[q] # Absent
    BY <1>11, PoolAssumption DEF Restart, DirtyPages, Mapped
  <2>2. \A q \in PageIds : Allocated(q) \/ Miscounted(q) => Allocated(q)' \/ Miscounted(q)
    BY <2>1 DEF Allocated, Miscounted, PageIds
  <2>3. UsedIsCounted'
    BY <2>1, <2>2 DEF UseParts, UsedIsCounted, Miscounted
  <2>4. HandedOutOnce'
    BY <2>1 DEF UseParts, HandedOutOnce, Miscounted
  <2> QED
    BY <2>3, <2>4 DEF UseParts
<1>12. CASE Spin \/ UNCHANGED vars
  BY <1>12, SameUse DEF Spin, vars, poolVars
<1> QED
  BY <1>1, <1>2, <1>3, <1>4, <1>5, <1>6, <1>7, <1>8, <1>9, <1>10, <1>11, <1>12
     DEF Next, Flusher

LEMMA UseInvariant == Spec => [](TypeOK /\ HoldParts /\ UseParts)
<1>1. Init => TypeOK /\ HoldParts /\ UseParts
  BY TypeInit, HoldInit, UseInit
<1>2. TypeOK /\ HoldParts /\ UseParts /\ [Next]_vars => (TypeOK /\ HoldParts /\ UseParts)'
  BY TypeNext, HoldNext, UseNext
<1> QED
  BY <1>1, <1>2, PTL DEF Spec

(***************************************************************************)
(* NewPage hands out a page in use only in a table whose counter a restart *)
(* does not restore, or when it is page 0 of a table that is read while it *)
(* has no page.                                                            *)
(***************************************************************************)
THEOREM PagesHandedOutOnce == Spec => []HandedOutOnce
<1>1. UseParts => HandedOutOnce
  BY DEF UseParts
<1> QED
  BY <1>1, UseInvariant, PTL

-----------------------------------------------------------------------------
(***************************************************************************)
(* dirty_count_ counts the dirty frames, whatever the callers do.  It      *)
(* needs that a dirty frame has a page, for otherwise an eviction would    *)
(* reuse the frame without taking it off the count, and that UnpinPage     *)
(* marks no frame without a page.                                          *)
(***************************************************************************)
MappedHasPage == \A p \in Mapped : pageId[pageTable[p]] = p

DirtyHasPage == \A f \in Frames : dirty[f] => pageId[f] # NoPage

CountParts == MappedHasPage /\ DirtyHasPage /\ DirtyCountExact

DirtyFrames(d) == {f \in Frames : d[f]}

LEMMA FramesFinite == \A d : IsFiniteSet(DirtyFrames(d)) /\ Cardinality(DirtyFrames(d)) \in Nat
<1>1. IsFiniteSet(Frames)
  BY FS_Interval, SweepAssumption DEF Frames
<1> QED
  BY <1>1, FS_Subset, FS_CardinalityType DEF DirtyFrames

(***************************************************************************)
(* Setting one dirty flag changes the number of dirty frames by at most    *)
(* one, as the hand-kept count does.                                       *)
(***************************************************************************)
LEMMA CountOneFrame ==
  ASSUME NEW d \in [Frames -> BOOLEAN], NEW f \in Frames, NEW b \in BOOLEAN
  PROVE  Cardinality(DirtyFrames([d EXCEPT ![f] = b])) =
           Cardinality(DirtyFrames(d)) - (IF d[f] THEN 1 ELSE 0) + (IF b THEN 1 ELSE 0)
<1> DEFINE e == [d EXCEPT ![f] = b]
           n == Cardinality(DirtyFrames(d))
<1>1. \A g \in Frames : e[g] = IF g = f THEN b ELSE d[g]
  OBVIOUS
<1>2. IsFiniteSet(DirtyFrames(d)) /\ n \in Nat
  BY FramesFinite
<1>3. CASE d[f] = b
  <2>1. DirtyFrames(e) = DirtyFrames(d)
    BY <1>1, <1>3 DEF DirtyFrames
  <2> QED
    BY <1>2, <1>3, <2>1
<1>4. CASE d[f] /\ ~b
  <2>1. DirtyFrames(e) = DirtyFrames(d) \ {f} /\ f \in DirtyFrames(d)
    BY <1>1, <1>4 DEF DirtyFrames
  <2>2. Cardinality(DirtyFrames(d) \ {f}) = n - 1
    BY <1>2, <2>1, FS_RemoveElement
  <2> QED
    <3>1. (IF d[f] THEN 1 ELSE 0) = 1 /\ (IF b THEN 1 ELSE 0) = 0
      BY <1>4
    <3>2. Cardinality(DirtyFrames(e)) = n - 1
      BY <2>1, <2>2
    <3> HIDE DEF e, n
    <3>3. Cardinality(DirtyFrames(e)) = n - 1 + 0
      BY <1>2, <3>2
    <3> QED
      BY <3>1, <3>3 DEF e, n
<1>5. CASE ~d[f] /\ b
  <2>1. DirtyFrames(e) = DirtyFrames(d) \cup {f} /\ f \notin DirtyFrames(d)
    BY <1>1, <1>5 DEF DirtyFrames
  <2>2. Cardinality(DirtyFrames(d) \cup {f}) = n + 1
    BY <1>2, <2>1, FS_AddElement
  <2> QED
    <3>1. (IF d[f] THEN 1 ELSE 0) = 0 /\ (IF b THEN 1 ELSE 0) = 1
      BY <1>5
    <3>2. Cardinality(DirtyFrames(e)) = n + 1
      BY <2>1, <2>2
    <3> HIDE DEF e, n
    <3>3. Cardinality(DirtyFrames(e)) = n - 0 + 1
      BY <1>2, <3>2
    <3> QED
      BY <3>1, <3>3 DEF e, n
<1> QED
  BY <1>3, <1>4, <1>5

LEMMA CountCleared ==
  ASSUME NEW d \in [Frames -> BOOLEAN], NEW f \in Frames
  PROVE  Cardinality(DirtyFrames([d EXCEPT ![f] = FALSE])) =
           Cardinality(DirtyFrames(d)) - (IF d[f] THEN 1 ELSE 0)
<1> DEFINE n == Cardinality(DirtyFrames(d)) - (IF d[f] THEN 1 ELSE 0)
<1>1. Cardinality(DirtyFrames([d EXCEPT ![f] = FALSE])) = n + (IF FALSE THEN 1 ELSE 0)
  BY CountOneFrame, Zenon
<1>2. n \in Int
  BY FramesFinite
<1> HIDE DEF n
<1>3. n + (IF FALSE THEN 1 ELSE 0) = n
  BY <1>2
<1>4. Cardinality(DirtyFrames([d EXCEPT ![f] = FALSE])) = n
  BY <1>1, <1>3
<1> QED
  BY <1>4 DEF n

LEMMA CountInit == Init => CountParts
<1> SUFFICES ASSUME Init PROVE CountParts
  OBVIOUS
<1>1. {f \in Frames : dirty[f]} = {}
  BY DEF Init
<1>2. DirtyCountExact
  BY <1>1, FS_EmptySet DEF Init, DirtyCountExact
<1> QED
  BY <1>2 DEF Init, CountParts, MappedHasPage, DirtyHasPage, Mapped

LEMMA InstallKeepsCount ==
  ASSUME TypeOK, CountParts, NEW f \in Frames, NEW p \in PageIds, NEW d \in BOOLEAN,
         Install(f, p, d)
  PROVE  CountParts'
<1>1. dirty' = [dirty EXCEPT ![f] = d] /\ dirty \in [Frames -> BOOLEAN]
  BY DEF Install, TypeOK
<1>2. Cleaned(f) <=> dirty[f]
  BY DEF Cleaned, CountParts, DirtyHasPage
<1>3. DirtyCountExact'
  <2>1. dirtyCount' = Cardinality(DirtyFrames(dirty)) - (IF dirty[f] THEN 1 ELSE 0)
                                                       + (IF d THEN 1 ELSE 0)
    BY <1>2 DEF Install, CountParts, DirtyCountExact, DirtyFrames
  <2>2. dirtyCount' = Cardinality(DirtyFrames(dirty'))
    BY <1>1, <2>1, CountOneFrame
  <2> QED
    BY <2>2 DEF DirtyCountExact, DirtyFrames
<1>4. \A g \in Frames : pageId'[g] = IF g = f THEN p ELSE pageId[g]
  BY DEF Install, TypeOK
<1>5. DirtyHasPage'
  BY <1>1, <1>4, PoolAssumption DEF DirtyHasPage, CountParts
<1>6. MappedHasPage'
  <2> SUFFICES ASSUME NEW q \in PageIds, pageTable'[q] # NoFrame
               PROVE  pageId'[pageTable'[q]] = q
    BY DEF MappedHasPage, Mapped
  <2>1. pageTable'[q] = IF q = p THEN f ELSE IF q = pageId[f] THEN NoFrame ELSE pageTable[q]
    BY DEF Install
  <2>2. CASE q = p
    BY <1>4, <2>1, <2>2
  <2>3. CASE q # p
    <3>1. q # pageId[f] /\ pageTable'[q] = pageTable[q]
      BY <2>1, <2>3
    <3>2. pageTable[q] \in Frames /\ pageId[pageTable[q]] = q
      BY <3>1 DEF CountParts, MappedHasPage, Mapped, TypeOK
    <3> QED
      BY <1>4, <3>1, <3>2
  <2> QED
    BY <2>2, <2>3
<1> QED
  BY <1>3, <1>5, <1>6 DEF CountParts

LEMMA WriteBackKeepsCount ==
  ASSUME TypeOK, CountParts, NEW f \in Frames, NEW p, WriteBack(f, p)
  PROVE  CountParts'
<1>1. dirty' = [dirty EXCEPT ![f] = FALSE] /\ dirty \in [Frames -> BOOLEAN]
  BY DEF WriteBack, TypeOK
<1>2. DirtyCountExact'
  <2>1. dirtyCount' = Cardinality(DirtyFrames(dirty)) - (IF dirty[f] THEN 1 ELSE 0)
    BY DEF WriteBack, CountParts, DirtyCountExact, DirtyFrames
  <2>2. dirtyCount' = Cardinality(DirtyFrames(dirty'))
    BY <1>1, <2>1, CountCleared
  <2> QED
    BY <2>2 DEF DirtyCountExact, DirtyFrames
<1>3. DirtyHasPage'
  BY <1>1 DEF WriteBack, DirtyHasPage, CountParts
<1>4. MappedHasPage'
  BY DEF WriteBack, MappedHasPage, Mapped, CountParts
<1> QED
  BY <1>2, <1>3, <1>4 DEF CountParts

LEMMA SameCount ==
  ASSUME CountParts, UNCHANGED <<pageId, pageTable, dirty, dirtyCount>>
  PROVE  CountParts'
BY DEF CountParts, MappedHasPage, DirtyHasPage, DirtyCountExact, Mapped

LEMMA CountNext == TypeOK /\ CountParts /\ [Next]_vars => CountParts'
<1> SUFFICES ASSUME TypeOK, CountParts, [Next]_vars PROVE CountParts'
  OBVIOUS
<1>1. ASSUME NEW r \in Refs, NEW p \in PageIds, FetchHit(r, p) PROVE CountParts'
  BY <1>1, SameCount DEF FetchHit
<1>2. ASSUME NEW r \in Refs, NEW p \in PageIds, NEW f \in Frames, FetchMiss(r, p, f)
      PROVE  CountParts'
  BY <1>2, InstallKeepsCount DEF FetchMiss
<1>3. ASSUME NEW r \in Refs, NEW t \in Tables, NEW f \in Frames, NewPage(r, t, f)
      PROVE  CountParts'
  <2>1. NextNo(t) \in 0 .. MaxPages /\ NextNo(t) < MaxPages
    BY <1>3, PoolAssumption DEF NewPage, NextNo, TypeOK
  <2>2. <<t, NextNo(t)>> \in PageIds
    BY <2>1, PoolAssumption DEF PageIds, PageNos
  <2> QED
    BY <1>3, <2>2, InstallKeepsCount DEF NewPage
<1>4. ASSUME NEW r \in Refs, HangInSweep(r) \/ Write(r) PROVE CountParts'
  BY <1>4, SameCount DEF HangInSweep, Write, poolVars
<1>5. ASSUME NEW r \in Refs, NEW d \in BOOLEAN, Unpin(r, d) PROVE CountParts'
  <2> DEFINE p == held[r].page
             f == pageTable[p]
  <2>1. p \in PageIds /\ f \in Frames \cup {NoFrame}
    BY <1>5 DEF Unpin, TypeOK, References
  <2>2. UNCHANGED <<pageId, pageTable>>
    BY <1>5 DEF Unpin
  <2>3. CASE f = NoFrame \/ (f # NoFrame /\ pinCount[f] = 0)
    BY <1>5, <2>2, <2>3, SameCount DEF Unpin
  <2>4. CASE ~(f = NoFrame \/ (f # NoFrame /\ pinCount[f] = 0))
    <3>1. /\ f \in Frames /\ dirty \in [Frames -> BOOLEAN]
          /\ dirty' = [dirty EXCEPT ![f] = dirty[f] \/ d] /\ (dirty[f] \/ d) \in BOOLEAN
          /\ dirtyCount' = dirtyCount + (IF d /\ ~dirty[f] THEN 1 ELSE 0)
      BY <1>5, <2>1, <2>4 DEF Unpin, TypeOK
    <3>2. DirtyCountExact'
      <4>1. dirtyCount' = Cardinality(DirtyFrames(dirty)) + (IF d /\ ~dirty[f] THEN 1 ELSE 0)
        BY <3>1 DEF CountParts, DirtyCountExact, DirtyFrames
      <4> HIDE DEF f
      <4>2. Cardinality(DirtyFrames(dirty')) =
              Cardinality(DirtyFrames(dirty)) - (IF dirty[f] THEN 1 ELSE 0)
                                              + (IF dirty[f] \/ d THEN 1 ELSE 0)
        BY <3>1, CountOneFrame, Zenon
      <4>3. dirtyCount' = Cardinality(DirtyFrames(dirty'))
        BY <4>1, <4>2, FramesFinite
      <4> QED
        BY <4>3 DEF DirtyCountExact, DirtyFrames
    <3>3. pageId[f] = p
      BY <2>1, <2>4 DEF CountParts, MappedHasPage, Mapped
    <3>4. DirtyHasPage'
      BY <2>1, <2>2, <3>1, <3>3, PoolAssumption DEF DirtyHasPage, CountParts
    <3>5. MappedHasPage'
      BY <2>2 DEF MappedHasPage, Mapped, CountParts
    <3> QED
      BY <3>2, <3>4, <3>5 DEF CountParts
  <2> QED
    BY <2>3, <2>4
<1>6. ASSUME NEW p \in PageIds, FlushPage(p) PROVE CountParts'
  <2>1. pageTable[p] \in Frames
    BY <1>6 DEF FlushPage, Mapped, TypeOK
  <2> QED
    BY <1>6, <2>1, WriteBackKeepsCount DEF FlushPage
<1>7. ASSUME NEW p \in PageIds, DeletePage(p) PROVE CountParts'
  <2> DEFINE f == pageTable[p]
  <2>1. /\ f \in Frames /\ pageId[f] = p /\ dirty \in [Frames -> BOOLEAN]
        /\ dirty' = [dirty EXCEPT ![f] = FALSE]
        /\ dirtyCount' = dirtyCount - (IF dirty[f] THEN 1 ELSE 0)
    BY <1>7 DEF DeletePage, CountParts, MappedHasPage, Mapped, TypeOK
  <2>2. /\ \A g \in Frames : pageId'[g] = IF g = f THEN NoPage ELSE pageId[g]
        /\ \A q \in PageIds : pageTable'[q] = IF q = p THEN NoFrame ELSE pageTable[q]
    BY <1>7, <2>1 DEF DeletePage, TypeOK
  <2>3. DirtyCountExact'
    <3>1. dirtyCount' = Cardinality(DirtyFrames(dirty)) - (IF dirty[f] THEN 1 ELSE 0)
      BY <2>1 DEF CountParts, DirtyCountExact, DirtyFrames
    <3> HIDE DEF f
    <3>2. dirtyCount' = Cardinality(DirtyFrames(dirty'))
      BY <2>1, <3>1, CountCleared
    <3> QED
      BY <3>2 DEF DirtyCountExact, DirtyFrames
  <2>4. DirtyHasPage'
    BY <2>1, <2>2 DEF DirtyHasPage, CountParts
  <2>5. MappedHasPage'
    <3> SUFFICES ASSUME NEW q \in PageIds, pageTable'[q] # NoFrame
                 PROVE  pageId'[pageTable'[q]] = q
      BY DEF MappedHasPage, Mapped
    <3>1. q # p /\ pageTable'[q] = pageTable[q]
      BY <2>2
    <3>2. pageTable[q] \in Frames /\ pageId[pageTable[q]] = q
      BY <3>1 DEF CountParts, MappedHasPage, Mapped, TypeOK
    <3> QED
      BY <2>1, <2>2, <3>1, <3>2
  <2> QED
    BY <2>3, <2>4, <2>5 DEF CountParts
<1>8. ASSUME FlushScan PROVE CountParts'
  BY <1>8, SameCount DEF FlushScan, poolVars
<1>9. ASSUME NEW f \in Frames, FlushOne(f) PROVE CountParts'
  BY <1>9, SameCount, WriteBackKeepsCount DEF FlushOne, poolVars
<1>10. ASSUME Restart PROVE CountParts'
  <2>1. dirtyCount' = 0 /\ {f \in Frames : dirty'[f]} = {}
    BY <1>10 DEF Restart
  <2>2. DirtyCountExact'
    BY <2>1, FS_EmptySet DEF DirtyCountExact
  <2>3. MappedHasPage' /\ DirtyHasPage'
    BY <1>10 DEF Restart, MappedHasPage, DirtyHasPage, Mapped
  <2> QED
    BY <2>2, <2>3 DEF CountParts
<1>11. CASE Spin \/ UNCHANGED vars
  BY <1>11, SameCount DEF Spin, vars, poolVars
<1> QED
  BY <1>1, <1>2, <1>3, <1>4, <1>5, <1>6, <1>7, <1>8, <1>9, <1>10, <1>11
     DEF Next, Flusher

(***************************************************************************)
(* dirty_count_ is the number of dirty frames in every reachable state, so *)
(* that the flusher wakes for the ratio it is meant to.                    *)
(***************************************************************************)
THEOREM DirtyCountCorrect == Spec => []DirtyCountExact
<1>1. Init => TypeOK /\ CountParts
  BY TypeInit, CountInit
<1>2. TypeOK /\ CountParts /\ [Next]_vars => (TypeOK /\ CountParts)'
  BY TypeNext, CountNext
<1>3. CountParts => DirtyCountExact
  BY DEF CountParts
<1> QED
  BY <1>1, <1>2, <1>3, PTL DEF Spec

-----------------------------------------------------------------------------
(***************************************************************************)
(* No write is lost.  The invariant says where the last version of a page  *)
(* is: in the frame while the page is cached; in the file when it is not,  *)
(* and also when its frame could be dropped without a write.  It says so   *)
(* of every page but the lost ones: the proof is that nothing else than    *)
(* what makes a page lost can break it.                                    *)
(***************************************************************************)
CachedCurrent ==
  \A p \in Mapped \ Lost : latest[p] # Junk => bytes[pageTable[p]] = latest[p]

Saved(d, p) == ReadPage(d, p, Junk) = latest[p]

UncachedSaved ==
  \A p \in PageIds \ Lost : p \notin Mapped /\ latest[p] # Junk => Saved(disk, p)

StoreParts == CachedCurrent /\ UncachedSaved /\ CleanMeansSaved

LEMMA StoreInit == Init => StoreParts
BY DEF Init, StoreParts, CachedCurrent, UncachedSaved, CleanMeansSaved, Mapped

(***************************************************************************)
(* A page that can be read from the files can still be read when the files *)
(* have grown, into whatever buffer.                                       *)
(***************************************************************************)
LEMMA FileGrows ==
  ASSUME NEW d, NEW e, NEW p \in PageIds, NEW old,
         \A q \in PageIds : d[q] # Absent => e[q] # Absent,
         e[p] = d[p], ReadPage(d, p, Junk) # Junk
  PROVE  ReadPage(e, p, old) = ReadPage(d, p, Junk)
<1>1. CASE d[p] # Absent
  BY <1>1 DEF ReadPage
<1>2. CASE d[p] = Absent
  <2>1. HasPage(d, p[1], p[2])
    BY <1>2 DEF ReadPage
  <2>2. \A m \in PageNos : <<p[1], m>> \in PageIds
    BY DEF PageIds
  <2>3. HasPage(e, p[1], p[2])
    BY <2>1, <2>2 DEF HasPage
  <2> QED
    BY <1>2, <2>1, <2>3 DEF ReadPage
<1> QED
  BY <1>1, <1>2

(***************************************************************************)
(* Writing the last version of a page to its place saves it, and leaves    *)
(* what was saved before.                                                  *)
(***************************************************************************)
LEMMA WriteSaves ==
  ASSUME TypeOK, NEW q \in PageIds, NEW b \in Bytes, NEW p \in PageIds, latest[p] # Junk,
         p = q => b = latest[p], p # q => Saved(disk, p), NEW old
  PROVE  ReadPage([disk EXCEPT ![q] = b], p, old) = latest[p]
<1> DEFINE e == [disk EXCEPT ![q] = b]
<1>1. b # Absent
  BY PoolAssumption
<1>2. /\ \A x \in PageIds : e[x] = IF x = q THEN b ELSE disk[x]
      /\ \A x \in PageIds : disk[x] # Absent => e[x] # Absent
  BY <1>1 DEF TypeOK
<1> SUFFICES ReadPage(e, p, old) = latest[p]
  OBVIOUS
<1> HIDE DEF e
<1>3. CASE p = q
  BY <1>1, <1>2, <1>3 DEF ReadPage
<1>4. CASE p # q
  <2>1. e[p] = disk[p] /\ ReadPage(disk, p, Junk) = latest[p]
    BY <1>2, <1>4 DEF Saved
  <2> QED
    BY <1>2, <2>1, FileGrows
<1> QED
  BY <1>3, <1>4

(***************************************************************************)
(* After EvictFrame the page of the victim is in the file: it was dirty    *)
(* and is written, or it was clean, and nobody held it who had written it. *)
(***************************************************************************)
LEMMA EvictSaves ==
  ASSUME TypeOK, HoldParts, StoreParts, NEW f \in Frames, FindsVictim(f), Evict(f),
         NEW p \in PageIds, p \notin reissued, p \notin spoilt', latest[p] # Junk,
         p \notin Mapped \/ p = pageId[f] \/ Saved(disk, p), NEW old
  PROVE  ReadPage(disk', p, old) = latest[p]
<1>0. PICK ok \in Outcomes(pageId[f]) :
        /\ disk' = EvictFrame(f, ok)
        /\ spoilt' = IF Cleaned(f) /\ ~ok THEN spoilt \cup {pageId[f]} ELSE spoilt
  BY DEF Evict
<1>1. p \notin Lost
  BY <1>0 DEF Lost
<1>2. p \notin Mapped => Saved(disk, p)
  BY <1>1 DEF StoreParts, UncachedSaved
<1>3. p = pageId[f] => p \in Mapped /\ pageTable[p] = f /\ p # NoPage
  BY PageOfFrame, PoolAssumption
<1>4. CASE Cleaned(f) /\ ok
  <2> DEFINE q == pageId[f]
  <2>1. disk' = [disk EXCEPT ![q] = bytes[f]] /\ q \in PageIds /\ bytes[f] \in Bytes
    BY <1>0, <1>4 DEF EvictFrame, WritePage, Cleaned, TypeOK
  <2>2. p = q => bytes[f] = latest[p]
    BY <1>1, <1>3 DEF StoreParts, CachedCurrent
  <2>3. p # q => Saved(disk, p)
    BY <1>2
  <2> HIDE DEF q
  <2>4. ReadPage([disk EXCEPT ![q] = bytes[f]], p, old) = latest[p]
    BY <2>1, <2>2, <2>3, WriteSaves
  <2> QED
    BY <2>1, <2>4
<1>5. CASE ~(Cleaned(f) /\ ok)
  <2>1. disk' = disk
    BY <1>0, <1>5 DEF EvictFrame, WritePage
  <2>2. Saved(disk, p)
    <3>1. CASE p = pageId[f]
      <4>1. p \in Mapped \ Lost /\ pageTable[p] = f
        BY <1>1, <1>3, <3>1
      <4>2. ~dirty[f]
        BY <1>0, <1>3, <1>5, <3>1 DEF Cleaned
      <4>3. Holders(p) = {}
        BY <1>1, <4>1, VictimUnheld, HeldFrameHasPage DEF Holders, Lost
      <4> QED
        BY <4>1, <4>2, <4>3 DEF StoreParts, CleanMeansSaved, Saved
    <3> QED
      BY <1>2, <3>1
  <2> QED
    BY <2>1, <2>2, FileGrows DEF Saved
<1> QED
  BY <1>4, <1>5

(***************************************************************************)
(* Bringing a page into a frame keeps the other pages' versions, and the   *)
(* page's own if the frame is given it.                                    *)
(***************************************************************************)
LEMMA InstallKeepsStore ==
  ASSUME TypeOK, HoldParts, StoreParts,
         NEW r \in Refs, NEW f \in Frames, NEW d \in BOOLEAN, NEW p \in PageIds,
         held[r] = NoRef, Install(f, p, d), Hold(r, p, f), Evict(f),
         reissued \subseteq reissued',
         \A q \in PageIds : q # p => latest'[q] = latest[q],
         \A g \in Frames : g # f => bytes'[g] = bytes[g],
         p \notin Lost' /\ latest'[p] # Junk => /\ bytes'[f] = latest'[p]
                                                /\ d \/ ReadPage(disk', p, Junk) = latest'[p]
  PROVE  StoreParts'
<1>0. Lost \subseteq Lost'
  BY DEF Lost, Evict
<1>1. FindsVictim(f) /\ f # NoFrame
  BY PoolAssumption DEF Install
<1>2. \A q \in PageIds : pageTable'[q] = IF q = p THEN f
                                         ELSE IF q = pageId[f] THEN NoFrame
                                         ELSE pageTable[q]
  BY DEF Install
<1>3. \A g \in Frames : dirty'[g] <=> IF g = f THEN d ELSE dirty[g]
  BY DEF Install, TypeOK
<1>4. ASSUME NEW q \in PageIds, q # p PROVE \A s \in Holders(q) : s \in Holders(q)' /\ held'[s] = held[s]
  <2>1. \A s \in Refs : s # r => held'[s] = held[s]
    BY DEF Hold, TypeOK
  <2> QED
    BY <2>1 DEF Holders
<1>5. CachedCurrent'
  <2> SUFFICES ASSUME NEW q \in PageIds, pageTable'[q] # NoFrame, q \notin Lost', latest'[q] # Junk
               PROVE  bytes'[pageTable'[q]] = latest'[q]
    BY DEF CachedCurrent, Mapped
  <2>1. CASE q = p
    BY <1>2, <2>1
  <2>2. CASE q # p
    BY <1>0, <2>2, InstallOthers DEF StoreParts, CachedCurrent
  <2> QED
    BY <2>1, <2>2
<1>6. UncachedSaved'
  <2> SUFFICES ASSUME NEW q \in PageIds, pageTable'[q] = NoFrame, q \notin Lost', latest'[q] # Junk
               PROVE  ReadPage(disk', q, Junk) = latest'[q]
    BY DEF UncachedSaved, Saved, Mapped
  <2>1. q # p /\ latest'[q] = latest[q] /\ (q = pageId[f] \/ q \notin Mapped)
    BY <1>1, <1>2 DEF Mapped
  <2>2. q \notin reissued /\ q \notin spoilt'
    BY <1>0 DEF Lost
  <2> QED
    BY <1>1, <2>1, <2>2, EvictSaves
<1>7. CleanMeansSaved'
  <2> SUFFICES ASSUME NEW q \in PageIds, pageTable'[q] # NoFrame, q \notin Lost',
                      ~dirty'[pageTable'[q]], latest'[q] # Junk,
                      \A s \in Holders(q)' : ~held'[s].wrote
               PROVE  ReadPage(disk', q, Junk) = latest'[q]
    BY DEF CleanMeansSaved, Mapped
  <2>1. CASE q = p
    BY <1>2, <1>3, <2>1
  <2>2. CASE q # p
    <3>1. /\ q \in Mapped /\ pageTable'[q] = pageTable[q] /\ latest'[q] = latest[q]
          /\ ~dirty[pageTable[q]] /\ q \notin reissued /\ q \notin spoilt' /\ q \notin Lost
      BY <1>0, <1>3, <2>2, InstallOthers DEF Lost
    <3>2. \A s \in Holders(q) : ~held[s].wrote
      BY <1>4, <2>2
    <3>3. Saved(disk, q)
      BY <3>1, <3>2 DEF StoreParts, CleanMeansSaved, Saved
    <3> QED
      BY <1>1, <3>1, <3>3, EvictSaves
  <2> QED
    BY <2>1, <2>2
<1> QED
  BY <1>5, <1>6, <1>7 DEF StoreParts

LEMMA WriteBackKeepsStore ==
  ASSUME TypeOK, HoldParts, StoreParts, NEW f \in Frames, NEW p \in PageIds, pageId[f] = p,
         WriteBack(f, p), UNCHANGED <<bytes, held, latest, reissued>>
  PROVE  StoreParts'
<1>0. PICK ok \in Outcomes(p) : /\ disk' = WritePage(disk, p, bytes[f], ok)
                             /\ spoilt' = IF ok THEN spoilt ELSE spoilt \cup {p}
  BY DEF WriteBack, SavePage
<1>1. Lost \subseteq Lost' /\ (p \notin Lost' => ok) /\ bytes[f] \in Bytes
  BY <1>0 DEF Lost, TypeOK
<1>2. p \notin Lost' => p \in Mapped /\ pageTable[p] = f
  BY <1>1, PageOfFrame, PoolAssumption DEF Lost
<1>3. ASSUME NEW q \in PageIds, q \notin Lost', latest[q] # Junk, q = p \/ Saved(disk, q)
      PROVE  ReadPage(disk', q, Junk) = latest[q]
  <2>1. CASE ok
    <3>1. disk' = [disk EXCEPT ![p] = bytes[f]]
      BY <1>0, <2>1 DEF WritePage
    <3>2. q = p => bytes[f] = latest[q]
      BY <1>1, <1>2, <1>3 DEF StoreParts, CachedCurrent
    <3>3. ReadPage([disk EXCEPT ![p] = bytes[f]], q, Junk) = latest[q]
      BY <1>1, <1>3, <3>2, WriteSaves
    <3> QED
      BY <3>1, <3>3
  <2>2. CASE ~ok
    BY <1>0, <1>1, <1>3, <2>2 DEF WritePage, Saved
  <2> QED
    BY <2>1, <2>2
<1>4. UNCHANGED pageTable /\ \A g \in Frames : g # f => dirty'[g] = dirty[g]
  BY DEF WriteBack, TypeOK
<1>5. CachedCurrent'
  BY <1>1, <1>4 DEF StoreParts, CachedCurrent, Mapped
<1>6. UncachedSaved'
  BY <1>1, <1>3, <1>4 DEF StoreParts, UncachedSaved, Saved, Mapped
<1>7. CleanMeansSaved'
  <2> SUFFICES ASSUME NEW q \in Mapped, q \notin Lost', ~dirty'[pageTable[q]], latest[q] # Junk,
                      \A s \in Holders(q) : ~held[s].wrote
               PROVE  ReadPage(disk', q, Junk) = latest[q]
    BY <1>4 DEF CleanMeansSaved, Mapped, Holders
  <2>1. q \in PageIds /\ (q # p => pageTable[q] \in Frames /\ pageTable[q] # f)
    BY FrameOfPage
  <2>2. q # p => Saved(disk, q)
    BY <1>1, <1>4, <2>1 DEF StoreParts, CleanMeansSaved, Saved
  <2> QED
    BY <1>3, <2>1, <2>2
<1> QED
  BY <1>5, <1>6, <1>7 DEF StoreParts

LEMMA SameStore ==
  ASSUME StoreParts, UNCHANGED <<pageTable, bytes, dirty, disk, latest, held, reissued, spoilt>>
  PROVE  StoreParts'
BY DEF StoreParts, CachedCurrent, UncachedSaved, CleanMeansSaved, Saved, Mapped, Lost, Holders

LEMMA StoreNext == TypeOK /\ HoldParts /\ StoreParts /\ [Next]_vars => StoreParts'
<1> SUFFICES ASSUME TypeOK, HoldParts, StoreParts, [Next]_vars PROVE StoreParts'
  OBVIOUS
<1>1. ASSUME NEW r \in Refs, NEW p \in PageIds, FetchHit(r, p) PROVE StoreParts'
  <2>1. /\ UNCHANGED <<pageTable, bytes, dirty, disk, latest, reissued, spoilt>>
        /\ held[r] = NoRef /\ \A s \in Refs : s # r => held'[s] = held[s]
    BY <1>1 DEF FetchHit, Hold, TypeOK
  <2>2. \A q \in PageIds : \A s \in Holders(q) : s \in Holders(q)' /\ held'[s] = held[s]
    BY <2>1 DEF Holders
  <2>3. CleanMeansSaved'
    BY <2>1, <2>2 DEF StoreParts, CleanMeansSaved, Mapped, Lost
  <2>4. CachedCurrent' /\ UncachedSaved'
    BY <2>1 DEF StoreParts, CachedCurrent, UncachedSaved, Saved, Mapped, Lost
  <2> QED
    BY <2>3, <2>4 DEF StoreParts
<1>2. ASSUME NEW r \in Refs, NEW p \in PageIds, NEW f \in Frames, FetchMiss(r, p, f)
      PROVE  StoreParts'
  <2>1. UNCHANGED <<latest, reissued>> /\ p \notin Mapped /\ FindsVictim(f) /\ Evict(f)
    BY <1>2 DEF FetchMiss, Install
  <2>2. bytes'[f] = ReadPage(disk', p, bytes[f])
        /\ \A g \in Frames : g # f => bytes'[g] = bytes[g]
    BY <1>2 DEF FetchMiss, TypeOK
  <2>3. p \notin Lost' /\ latest[p] # Junk => \A old : ReadPage(disk', p, old) = latest[p]
    BY <2>1, EvictSaves DEF Lost
  <2> QED
    BY <1>2, <2>1, <2>2, <2>3, InstallKeepsStore DEF FetchMiss
<1>3. ASSUME NEW r \in Refs, NEW t \in Tables, NEW f \in Frames, NewPage(r, t, f)
      PROVE  StoreParts'
  <2>1. PICK p \in PageIds : p = <<t, NextNo(t)>>
    BY <1>3, NewPageCounted
  <2>2. /\ bytes'[f] = Zeroed(p) /\ \A g \in Frames : g # f => bytes'[g] = bytes[g]
        /\ latest[p] = Junk => latest'[p] = Zeroed(p)
        /\ \A q \in PageIds : q # p => latest'[q] = latest[q]
        /\ reissued' = IF InUse(p) THEN reissued \cup {p} ELSE reissued
    BY <1>3, <2>1 DEF NewPage, TypeOK
  <2>3. p \notin Lost' => latest[p] = Junk
    BY <2>2 DEF Lost, InUse
  <2> QED
    BY <1>3, <2>1, <2>2, <2>3, InstallKeepsStore DEF NewPage
<1>4. ASSUME NEW r \in Refs, HangInSweep(r) PROVE StoreParts'
  BY <1>4, SameStore DEF HangInSweep, poolVars
<1>5. ASSUME NEW r \in Refs, Write(r) PROVE StoreParts'
  <2>1. PICK p \in PageIds, f \in Frames : p = held[r].page /\ f = held[r].frame
    BY <1>5, WriteKeepsPages DEF References
  <2>2. PICK b : /\ bytes' = [bytes EXCEPT ![f] = b] /\ latest' = [latest EXCEPT ![p] = b]
                 /\ spoilt' = spoilt \cup ({pageId[f]} \ {p, NoPage})
    BY <1>5, <2>1 DEF Write
  <2>3. /\ bytes'[f] = b /\ \A g \in Frames : g # f => bytes'[g] = bytes[g]
        /\ latest'[p] = b /\ \A q \in PageIds : q # p => latest'[q] = latest[q]
    BY <2>1, <2>2 DEF TypeOK
  <2>4. UNCHANGED <<pageTable, dirty, disk, reissued>> /\ Lost \subseteq Lost'
    BY <1>5, <2>2 DEF Write, poolVars, Lost
  <2>5. p \notin Lost' => p \in Mapped /\ pageTable[p] = f
    BY <1>5, <2>1, <2>4, HeldFrameHasPage DEF Write, Lost
  <2>6. ASSUME NEW q \in Mapped, q # p, q \notin Lost'
        PROVE  q \in PageIds /\ pageTable[q] \in Frames /\ pageTable[q] # f
    <3>1. q \in PageIds /\ pageTable[q] \in Frames /\ pageId[pageTable[q]] = q /\ q # NoPage
      BY FrameOfPage
    <3>2. pageId[f] # q
      BY <2>2, <2>6, <3>1 DEF Lost
    <3> QED
      BY <3>1, <3>2
  <2>7. CachedCurrent'
    <3> SUFFICES ASSUME NEW q \in Mapped, q \notin Lost', latest'[q] # Junk
                 PROVE  bytes'[pageTable[q]] = latest'[q]
      BY <2>4 DEF CachedCurrent, Mapped
    <3>1. CASE q = p
      BY <2>3, <2>5, <3>1
    <3>2. CASE q # p
      BY <2>3, <2>4, <2>6, <3>2 DEF StoreParts, CachedCurrent
    <3> QED
      BY <3>1, <3>2
  <2>8. UncachedSaved'
    BY <2>3, <2>4, <2>5 DEF StoreParts, UncachedSaved, Saved, Mapped
  <2>9. CleanMeansSaved'
    <3> SUFFICES ASSUME NEW q \in Mapped, q \notin Lost', ~dirty[pageTable[q]], latest'[q] # Junk,
                        \A s \in Holders(q)' : ~held'[s].wrote
                 PROVE  ReadPage(disk, q, Junk) = latest'[q]
      BY <2>4 DEF CleanMeansSaved, Mapped
    <3>1. q # p
      BY <1>5, <2>1, WriteKeepsPages DEF Holders
    <3>2. \A s \in Holders(q) : s \in Holders(q)' /\ held'[s] = held[s]
      BY <1>5, <2>1, <3>1, WriteKeepsPages DEF Holders
    <3>3. latest'[q] = latest[q]
      BY <2>3, <3>1, FrameOfPage
    <3> QED
      BY <2>4, <3>2, <3>3 DEF StoreParts, CleanMeansSaved
  <2> QED
    BY <2>7, <2>8, <2>9 DEF StoreParts
<1>6. ASSUME NEW r \in Refs, NEW d \in BOOLEAN, Unpin(r, d) PROVE StoreParts'
  <2>1. PICK p \in PageIds : p = held[r].page
    BY <1>6 DEF Unpin, TypeOK, References
  <2>2. /\ UNCHANGED <<pageTable, bytes, disk, latest, reissued, spoilt>>
        /\ held[r] # NoRef /\ (held[r].wrote => d)
        /\ \A s \in Refs : s # r => held'[s] = held[s]
    BY <1>6 DEF Unpin, TypeOK
  <2>3. \A g \in Frames : dirty[g] => dirty'[g]
    BY <1>6 DEF Unpin, TypeOK
  <2>4. p \notin Lost => pageTable[p] \in Frames /\ (d => dirty'[pageTable[p]])
    <3> SUFFICES ASSUME p \notin Lost
                 PROVE  pageTable[p] \in Frames /\ (d => dirty'[pageTable[p]])
      OBVIOUS
    <3>1. pageTable[p] \in Frames /\ pageTable[p] # NoFrame /\ pinCount[pageTable[p]] # 0
      BY <2>1, <2>2, HeldFrameHasPage, FrameOfPage DEF Lost
    <3> QED
      BY <1>6, <2>1, <3>1 DEF Unpin, TypeOK
  <2>5. CleanMeansSaved'
    <3> SUFFICES ASSUME NEW q \in Mapped, q \notin Lost, ~dirty'[pageTable[q]], latest[q] # Junk,
                        \A s \in Holders(q)' : ~held'[s].wrote
                 PROVE  ReadPage(disk, q, Junk) = latest[q]
      BY <2>2 DEF CleanMeansSaved, Mapped, Lost
    <3>1. q \in PageIds /\ ~dirty[pageTable[q]]
      BY <2>3, FrameOfPage
    <3>2. q = p => ~held[r].wrote
      BY <2>2, <2>4
    <3>3. \A s \in Holders(q) : ~held[s].wrote
      BY <2>1, <2>2, <3>2 DEF Holders
    <3> QED
      BY <3>1, <3>3 DEF StoreParts, CleanMeansSaved
  <2>6. CachedCurrent' /\ UncachedSaved'
    BY <2>2 DEF StoreParts, CachedCurrent, UncachedSaved, Saved, Mapped, Lost
  <2> QED
    BY <2>5, <2>6 DEF StoreParts
<1>7. ASSUME NEW p \in PageIds, FlushPage(p) PROVE StoreParts'
  <2>1. pageTable[p] \in Frames /\ pageId[pageTable[p]] = p
    BY <1>7, FrameOfPage DEF FlushPage
  <2> QED
    BY <1>7, <2>1, WriteBackKeepsStore DEF FlushPage
<1>8. ASSUME NEW p \in PageIds, DeletePage(p) PROVE StoreParts'
  <2> DEFINE f == pageTable[p]
  <2>1. f \in Frames /\ p \in Mapped
    BY <1>8, FrameOfPage DEF DeletePage
  <2>2. /\ UNCHANGED <<bytes, disk, held, reissued, spoilt>>
        /\ latest'[p] = Junk /\ \A q \in PageIds : q # p => latest'[q] = latest[q]
        /\ pageTable'[p] = NoFrame /\ \A q \in PageIds : q # p => pageTable'[q] = pageTable[q]
        /\ \A g \in Frames : g # f => dirty'[g] = dirty[g]
    BY <1>8, <2>1 DEF DeletePage, TypeOK
  <2>3. \A q \in Mapped : q # p => q \in PageIds /\ pageTable[q] \in Frames /\ pageTable[q] # f
    BY <2>1, FrameOfPage
  <2>4. CachedCurrent' /\ UncachedSaved'
    BY <2>2 DEF StoreParts, CachedCurrent, UncachedSaved, Saved, Mapped, Lost
  <2>5. CleanMeansSaved'
    <3> SUFFICES ASSUME NEW q \in PageIds, pageTable'[q] # NoFrame, q \notin Lost,
                        ~dirty'[pageTable'[q]], latest'[q] # Junk,
                        \A s \in Holders(q) : ~held[s].wrote
                 PROVE  ReadPage(disk, q, Junk) = latest'[q]
      BY <2>2 DEF CleanMeansSaved, Mapped, Lost, Holders
    <3>1. q # p /\ q \in Mapped /\ pageTable'[q] = pageTable[q] /\ latest'[q] = latest[q]
      BY <2>2 DEF Mapped
    <3>2. ~dirty[pageTable[q]]
      BY <2>2, <2>3, <3>1
    <3> QED
      BY <3>1, <3>2 DEF StoreParts, CleanMeansSaved
  <2> QED
    BY <2>4, <2>5 DEF StoreParts
<1>9. ASSUME FlushScan PROVE StoreParts'
  BY <1>9, SameStore DEF FlushScan, poolVars
<1>10. ASSUME NEW f \in Frames, FlushOne(f) PROVE StoreParts'
  <2>1. CASE ~dirty[f] \/ pinCount[f] # 0 \/ pageId[f] = NoPage
    BY <1>10, <2>1, SameStore DEF FlushOne, poolVars
  <2>2. CASE ~(~dirty[f] \/ pinCount[f] # 0 \/ pageId[f] = NoPage)
    <3>1. pageId[f] \in PageIds
      BY <2>2 DEF TypeOK
    <3> QED
      BY <1>10, <2>2, <3>1, WriteBackKeepsStore DEF FlushOne
  <2> QED
    BY <2>1, <2>2
<1>11. ASSUME Restart PROVE StoreParts'
  <2>1. UNCHANGED <<latest, reissued>> /\ Mapped' = {}
    BY <1>11 DEF Restart, Mapped
  <2>2. PICK failed \in SUBSET DirtyPages :
          /\ disk' = [p \in PageIds |-> IF p \in DirtyPages \ failed
                                        THEN bytes[pageTable[p]] ELSE disk[p]]
          /\ spoilt' = spoilt \cup failed
    BY <1>11 DEF Restart
  <2>3. \A q \in PageIds : disk'[q] = IF q \in DirtyPages \ failed
                                      THEN bytes[pageTable[q]] ELSE disk[q]
    BY <2>2
  <2>4. \A q \in Mapped : bytes[pageTable[q]] # Absent
    BY PoolAssumption DEF Mapped, TypeOK
  <2>5. \A q \in PageIds : disk[q] # Absent => disk'[q] # Absent
    BY <2>3, <2>4 DEF DirtyPages
  <2>6. ASSUME NEW q \in PageIds, q \notin Lost', latest[q] # Junk
        PROVE  ReadPage(disk', q, Junk) = latest[q]
    <3>0. q \notin Lost /\ q \notin failed
      BY <2>1, <2>2, <2>6 DEF Lost
    <3>1. CASE q \in DirtyPages
      <4>1. disk'[q] = latest[q] /\ disk'[q] # Absent
        BY <2>3, <2>4, <2>6, <3>0, <3>1 DEF StoreParts, CachedCurrent, DirtyPages
      <4> QED
        BY <4>1 DEF ReadPage
    <3>2. CASE q \notin DirtyPages
      <4>1. \A r \in Holders(q) : ~held[r].wrote
        BY <1>11 DEF Restart, Holders
      <4>2. ReadPage(disk, q, Junk) = latest[q]
        BY <2>6, <3>0, <3>2, <4>1 DEF StoreParts, UncachedSaved, CleanMeansSaved, Saved, DirtyPages
      <4> QED
        BY <2>3, <2>5, <2>6, <3>2, <4>2, FileGrows
    <3> QED
      BY <3>1, <3>2
  <2>7. UncachedSaved'
    BY <2>1, <2>6 DEF UncachedSaved, Saved
  <2>8. CachedCurrent' /\ CleanMeansSaved'
    BY <2>1 DEF CachedCurrent, CleanMeansSaved
  <2> QED
    BY <2>7, <2>8 DEF StoreParts
<1>12. CASE Spin \/ UNCHANGED vars
  BY <1>12, SameStore DEF Spin, vars, poolVars
<1> QED
  BY <1>1, <1>2, <1>3, <1>4, <1>5, <1>6, <1>7, <1>8, <1>9, <1>10, <1>11, <1>12
     DEF Next, Flusher

LEMMA StoreInvariant == Spec => [](TypeOK /\ HoldParts /\ UseParts /\ StoreParts)
<1>1. Init => TypeOK /\ HoldParts /\ UseParts /\ StoreParts
  BY TypeInit, HoldInit, UseInit, StoreInit
<1>2. TypeOK /\ HoldParts /\ UseParts /\ StoreParts /\ [Next]_vars
        => (TypeOK /\ HoldParts /\ UseParts /\ StoreParts)'
  BY TypeNext, HoldNext, UseNext, StoreNext
<1> QED
  BY <1>1, <1>2, PTL DEF Spec

LEMMA StorePartsReadable == StoreParts => NoLostWrite
<1> SUFFICES ASSUME StoreParts, NEW p \in PageIds, p \notin Lost, latest[p] # Junk
             PROVE  Current(p) = latest[p]
  BY DEF NoLostWrite
<1>1. CASE p \in Mapped
  BY <1>1 DEF StoreParts, CachedCurrent, Current, Mapped
<1>2. CASE p \notin Mapped
  BY <1>2 DEF StoreParts, UncachedSaved, Saved, Current, Mapped
<1> QED
  BY <1>1, <1>2

(***************************************************************************)
(* Whoever fetches an allocated page sees what was last written to it: no  *)
(* eviction, flush, deletion of another page or restart loses a write, and *)
(* no page suffers from what makes another one lost.                       *)
(***************************************************************************)
THEOREM WritesAreKept == Spec => []NoLostWrite
BY StoreInvariant, StorePartsReadable, PTL

(***************************************************************************)
(* A frame that is not marked dirty, and whose page no holder has written, *)
(* can be dropped: the file has its page.                                  *)
(***************************************************************************)
THEOREM CleanFramesSaved == Spec => []CleanMeansSaved
<1>1. StoreParts => CleanMeansSaved
  BY DEF StoreParts
<1> QED
  BY <1>1, StoreInvariant, PTL

-----------------------------------------------------------------------------
(***************************************************************************)
(* The pool implements PageStore.  Under the refinement mapping the        *)
(* abstract store is the history variable latest, but for the lost pages.  *)
(***************************************************************************)
AllocatedPages == {p \in PageIds : Allocated(p)}

StoredPages ==
  [p \in PageIds |-> IF p \in Lost \/ latest[p] = Junk THEN Junk ELSE Current(p)]

OpenPages == [r \in Refs |-> IF held[r] = NoRef THEN NoRef ELSE held[r].page]

KeptPages == [p \in PageIds |-> IF p \in Lost THEN Junk ELSE latest[p]]

LEMMA StoredIsLatest == StoreParts => StoredPages = KeptPages
BY StorePartsReadable DEF StoredPages, KeptPages, NoLostWrite

LEMMA StorePageIds == Store!PageIds = PageIds
BY DEF Store!PageIds, PageIds, PageNos

LEMMA StoreMiscounted == ASSUME NEW p PROVE Store!Miscounted(p) <=> Miscounted(p)
BY DEF Store!Miscounted, Miscounted

(***************************************************************************)
(* What a step has to show of the store: that the pages it has not lost    *)
(* hold what they should.                                                  *)
(***************************************************************************)
LEMMA StoreBecomes ==
  ASSUME StoredPages' = KeptPages', NEW s, \A p \in PageIds : p \notin Lost' => latest'[p] = s[p]
  PROVE  StoredPages' = [p \in Store!PageIds |-> IF p \in Lost' THEN Store!Nothing ELSE s[p]]
BY StorePageIds DEF KeptPages, Store!Nothing, Junk

\* A step that writes nothing new loses no page but to a failed write.
LEMMA OnlyUnwrittenLost ==
  ASSUME StoredPages = KeptPages, StoredPages' = KeptPages', TypeOK', spoilt \subseteq spoilt',
         spoilt' \subseteq spoilt \cup Unwritable, UNCHANGED <<latest, reissued>>
  PROVE  Store!Loses(Unwritable, StoredPages)
<1>1. Lost \subseteq Lost' /\ Lost' \subseteq Lost \cup Unwritable
  BY StorePageIds DEF Lost, TypeOK
<1>2. \A p \in PageIds : p \notin Lost' => latest'[p] = StoredPages[p]
  BY <1>1 DEF KeptPages
<1>3. StoredPages' = [p \in Store!PageIds |-> IF p \in Lost' THEN Store!Nothing ELSE StoredPages[p]]
  BY <1>2, StoreBecomes
<1> QED
  BY <1>1, <1>3 DEF Store!Loses, StoredPages

LEMMA EvictLoses ==
  ASSUME NEW f, Evict(f)
  PROVE  spoilt \subseteq spoilt' /\ spoilt' \subseteq spoilt \cup Unwritable
BY DEF Evict, Outcomes

LEMMA WriteBackLoses ==
  ASSUME NEW f, NEW p, WriteBack(f, p)
  PROVE  spoilt \subseteq spoilt' /\ spoilt' \subseteq spoilt \cup Unwritable
BY DEF WriteBack, SavePage, Outcomes

LEMMA SameAllocated == UNCHANGED nextPageNo => UNCHANGED AllocatedPages
BY DEF AllocatedPages, Allocated

LEMMA SameOpen ==
  ASSUME \A r \in Refs : /\ held'[r] # NoRef <=> held[r] # NoRef
                         /\ held[r] # NoRef => held'[r].page = held[r].page
  PROVE  UNCHANGED OpenPages
BY DEF OpenPages

LEMMA HoldOpens ==
  ASSUME TypeOK, NEW r \in Refs, NEW p \in PageIds, NEW f \in Frames,
         held[r] = NoRef, Hold(r, p, f)
  PROVE  OpenPages[r] = NoRef /\ OpenPages' = [OpenPages EXCEPT ![r] = p]
<1>1. \A s \in Refs : held'[s] = IF s = r THEN [page |-> p, frame |-> f, wrote |-> FALSE]
                                 ELSE held[s]
  BY DEF Hold, TypeOK
<1>2. held'[r] # NoRef /\ held'[r].page = p
  BY <1>1, ReferenceIsNotNoRef
<1> QED
  BY <1>1, <1>2 DEF OpenPages

(***************************************************************************)
(* next_page_no_ counts the pages of a table that were handed out, so the  *)
(* page NewPage takes is the next one of PageStore, too.                   *)
(***************************************************************************)
LEMMA CountIsNext ==
  ASSUME TypeOK, NEW t \in Tables
  PROVE  Store!PageCount(t) = NextNo(t)
<1> DEFINE n == NextNo(t)
           S == {p \in AllocatedPages : p[1] = t}
           F == [i \in 1 .. n |-> <<t, i - 1>>]
<1>1. n \in 0 .. MaxPages /\ n \in Nat
  BY PoolAssumption DEF NextNo, TypeOK
<1>2. \A p \in PageIds : p \in S <=> p[1] = t /\ p[2] < n
  BY PoolAssumption DEF NextNo, AllocatedPages, Allocated, TypeOK, PageIds, PageNos
<1> HIDE DEF n
<1>3. \A i \in 1 .. n : <<t, i - 1>> \in PageIds
  BY <1>1, PoolAssumption DEF PageIds, PageNos
<1>4. F \in [1 .. n -> S]
  BY <1>1, <1>2, <1>3
<1>5. \A i, j \in 1 .. n : F[i] = F[j] => i = j
  BY <1>1
<1>6. ASSUME NEW p \in S PROVE \E i \in 1 .. n : F[i] = p
  <2>1. p \in PageIds /\ p[1] = t /\ p[2] < n
    BY <1>2 DEF AllocatedPages
  <2>2. p = <<t, p[2]>> /\ p[2] \in 0 .. MaxPages - 1
    BY <2>1 DEF PageIds, PageNos
  <2>3. p[2] + 1 \in 1 .. n /\ F[p[2] + 1] = p
    BY <1>1, <2>1, <2>2, PoolAssumption
  <2> QED
    BY <2>3
<1>7. F \in Bijection(1 .. n, S)
  BY <1>4, <1>5, <1>6 DEF Bijection, Injection, Surjection, IsInjective
<1>8. IsFiniteSet(1 .. n) /\ Cardinality(1 .. n) = n
  BY <1>1, FS_Interval
<1>9. Cardinality(S) = n
  BY <1>7, <1>8, FS_Bijection DEF ExistsBijection
<1> QED
  BY <1>9 DEF Store!PageCount, AllocatedPages, n, Store!Cardinality, Cardinality

LEMMA InitImplements == Init => Store!Init
<1> SUFFICES ASSUME Init PROVE Store!Init
  OBVIOUS
<1>1. AllocatedPages = {} /\ StoredPages = [p \in PageIds |-> Junk]
      /\ OpenPages = [r \in Refs |-> NoRef] /\ Lost = {}
  BY DEF Init, AllocatedPages, Allocated, StoredPages, OpenPages, PageIds, Lost
<1> QED
  BY <1>1, StorePageIds DEF Store!Init, Store!Nothing, Junk, AllocatedPages, StoredPages, OpenPages

(***************************************************************************)
(* A user's write changes one page, the one it holds: or, if that page was *)
(* lost, what it changes is lost, too.                                     *)
(***************************************************************************)
LEMMA WriteImplements ==
  ASSUME TypeOK, HoldParts, StoredPages = KeptPages, StoredPages' = KeptPages',
         NEW r \in Refs, Write(r)
  PROVE  Store!Next
<1>1. PICK p \in PageIds, f \in Frames : p = held[r].page /\ f = held[r].frame
  BY WriteKeepsPages DEF References
<1>2. held[r] \in References /\ held' = [held EXCEPT ![r].wrote = TRUE]
  BY DEF Write, TypeOK
<1>3. held'[r] \in References /\ held'[r].page = p /\ \A s \in Refs : s # r => held'[s] = held[s]
  BY <1>1, <1>2 DEF TypeOK, References
<1>4. held[r] # NoRef /\ held'[r] # NoRef
  BY <1>3, PoolAssumption DEF Write, References
<1>5. UNCHANGED OpenPages
  BY <1>1, <1>3, <1>4, SameOpen
<1>6. OpenPages[r] = p /\ p # NoRef
  BY <1>1, <1>4, PoolAssumption DEF OpenPages
<1>7. UNCHANGED AllocatedPages
  BY SameAllocated DEF Write
<1>8. /\ latest[p] \in Bytes /\ Junk.ver = 0
      /\ latest[p] # Junk => latest[p].ver \in 0 .. MaxVersions
  BY DEF TypeOK, Junk, Bytes, Contents
<1>9. PICK v : /\ v = latest[p].ver + 1 /\ v <= MaxVersions
               /\ latest' = [latest EXCEPT ![p] = [of |-> p, ver |-> v]]
  <2> DEFINE v == IF latest[p] = Junk THEN 1 ELSE latest[p].ver + 1
  <2>1. v = latest[p].ver + 1
    BY <1>8
  <2>2. v <= MaxVersions /\ latest' = [latest EXCEPT ![p] = [of |-> p, ver |-> v]]
    BY <1>1 DEF Write
  <2> QED
    BY <2>1, <2>2
<1>10. UNCHANGED reissued /\ spoilt' = spoilt \cup ({pageId[f]} \ {p, NoPage})
  BY <1>1 DEF Write
<1>11. \A q \in PageIds : latest'[q] = IF q = p THEN [of |-> p, ver |-> v] ELSE latest[q]
  BY <1>9 DEF TypeOK
<1>12. CASE p \notin Lost
  <2>1. pageId[f] = p
    BY <1>1, <1>4, <1>12, HeldFrameHasPage DEF Lost
  <2>2. Lost' = Lost
    BY <1>10, <2>1 DEF Lost
  <2>3. StoredPages[p] = latest[p]
    BY <1>12 DEF KeptPages
  <2>4. StoredPages[p].ver < MaxVersions
    BY <1>8, <1>9, <2>3, PoolAssumption
  <2>5. StoredPages' = [StoredPages EXCEPT ![p] = [of |-> p, ver |-> @.ver + 1]]
    BY <1>9, <1>11, <1>12, <2>2, <2>3 DEF KeptPages
  <2>6. Store!Modify(r)
    BY <1>5, <1>6, <1>7, <1>12, <2>2, <2>4, <2>5
       DEF Store!Modify, AllocatedPages, StoredPages, OpenPages
  <2> QED
    BY <2>6 DEF Store!Next
<1>13. CASE p \in Lost
  <2>1. PICK q \in PageIds : {pageId[f]} \ {p, NoPage} \subseteq {q}
    BY DEF TypeOK
  <2>2. Lost \subseteq Lost' /\ Lost' \subseteq Lost \cup {q}
    BY <1>10, <2>1 DEF Lost
  <2>3. \A x \in PageIds : x \notin Lost' => latest'[x] = StoredPages[x]
    BY <1>11, <1>13, <2>2 DEF KeptPages
  <2>4. StoredPages' = [x \in Store!PageIds |-> IF x \in Lost' THEN Store!Nothing ELSE StoredPages[x]]
    BY <2>3, StoreBecomes
  <2>5. Store!Loses({q}, StoredPages)
    BY <2>2, <2>4 DEF Store!Loses, StoredPages
  <2>6. Store!Overwrite(r, q)
    BY <1>5, <1>6, <1>7, <1>13, <2>5 DEF Store!Overwrite, AllocatedPages, StoredPages, OpenPages
  <2> QED
    BY <2>6, StorePageIds DEF Store!Next
<1> QED
  BY <1>12, <1>13

(***************************************************************************)
(* NewPage is Allocate: the page is the next of its table, and if it was   *)
(* in use, it is one the counter could not know, and is lost.              *)
(***************************************************************************)
LEMMA NewPageImplements ==
  ASSUME TypeOK, TypeOK', UseParts, StoredPages = KeptPages, StoredPages' = KeptPages',
         NEW r \in Refs, NEW t \in Tables, NEW f \in Frames, NewPage(r, t, f)
  PROVE  Store!Next
<1>1. PICK p \in PageIds : /\ p = <<t, NextNo(t)>> /\ ~Allocated(p)
                           /\ \A q \in PageIds : Allocated(q)' <=> Allocated(q) \/ q = p
  BY NewPageCounted
<1>2. p = <<t, Store!PageCount(t)>>
  BY <1>1, CountIsNext
<1>3. OpenPages[r] = NoRef /\ OpenPages' = [OpenPages EXCEPT ![r] = p]
  BY <1>1, HoldOpens DEF NewPage
<1>4. AllocatedPages' = AllocatedPages \cup {p}
  BY <1>1 DEF AllocatedPages
<1>5. /\ latest'[p] = IF latest[p] = Junk THEN Zeroed(p) ELSE latest[p]
      /\ \A q \in PageIds : q # p => latest'[q] = latest[q]
      /\ reissued' = IF InUse(p) THEN reissued \cup {p} ELSE reissued
      /\ Evict(f)
  BY <1>1 DEF NewPage, TypeOK
<1>6. InUse(p) => Miscounted(p)
  BY <1>1 DEF InUse, UseParts, UsedIsCounted
<1> DEFINE S == Unwritable \cup (IF Store!Miscounted(p) THEN {p} ELSE {})
           s == [StoredPages EXCEPT ![p] = [of |-> p, ver |-> 0]]
<1>7. Lost \subseteq Lost' /\ Lost' \subseteq Lost \cup S
  <2>1. spoilt \subseteq spoilt' /\ spoilt' \subseteq spoilt \cup Unwritable
    BY <1>5, EvictLoses, StorePageIds DEF TypeOK
  <2>2. reissued \subseteq reissued' /\ (reissued' = reissued \/ (reissued' = reissued \cup {p} /\ Store!Miscounted(p)))
    BY <1>5, <1>6, StoreMiscounted
  <2> QED
    BY <2>1, <2>2 DEF Lost
<1>8. p \notin Lost' => latest[p] = Junk
  BY <1>5 DEF Lost, InUse
<1>9. ASSUME NEW q \in PageIds, q \notin Lost' PROVE latest'[q] = s[q]
  <2>1. CASE q = p
    BY <1>5, <1>8, <1>9, <2>1 DEF Zeroed, StoredPages
  <2>2. CASE q # p
    BY <1>5, <1>7, <1>9, <2>2 DEF KeptPages
  <2> QED
    BY <2>1, <2>2
<1>10. StoredPages' = [q \in Store!PageIds |-> IF q \in Lost' THEN Store!Nothing ELSE s[q]]
  BY <1>9, StoreBecomes
<1>11. StoredPages[p] # Store!Nothing => p \in Lost'
  BY <1>7, <1>8 DEF KeptPages, Store!Nothing, Junk
<1>12. LET n == <<t, Store!PageCount(t)>>
       IN  /\ OpenPages[r] = NoRef /\ n \in PageIds
           /\ AllocatedPages' = AllocatedPages \cup {n}
           /\ Lost \subseteq Lost'
           /\ Lost' \subseteq Lost \cup (Unwritable \cup (IF Store!Miscounted(n) THEN {n} ELSE {}))
           /\ StoredPages' = [q \in Store!PageIds |->
                                IF q \in Lost' THEN Store!Nothing
                                ELSE [StoredPages EXCEPT ![n] = [of |-> n, ver |-> 0]][q]]
           /\ StoredPages[n] # Store!Nothing => n \in Lost'
           /\ OpenPages' = [OpenPages EXCEPT ![r] = n]
  BY <1>2, <1>3, <1>4, <1>7, <1>10, <1>11
<1>13. Store!Allocate(r, t)
  BY <1>12, StorePageIds DEF Store!Allocate, Store!Loses, AllocatedPages, StoredPages, OpenPages
<1> QED
  BY <1>13 DEF Store!Next

(***************************************************************************)
(* A page that was handed out once and is held is not deleted.             *)
(***************************************************************************)
LEMMA DeleteImplements ==
  ASSUME TypeOK, HoldParts, StoredPages = KeptPages, StoredPages' = KeptPages',
         NEW p \in PageIds, DeletePage(p)
  PROVE  Store!Next
<1>1. UNCHANGED <<AllocatedPages, OpenPages, Lost>>
  BY SameAllocated, SameOpen DEF DeletePage, Lost
<1>2. \A q \in PageIds : latest'[q] = IF q = p THEN Junk ELSE latest[q]
  BY DEF DeletePage, TypeOK
<1>3. StoredPages' = [StoredPages EXCEPT ![p] = Store!Nothing]
  BY <1>1, <1>2 DEF KeptPages, Store!Nothing, Junk
<1>4. ASSUME p \notin Lost, NEW r \in Refs PROVE OpenPages[r] # p
  <2>1. CASE held[r] = NoRef
    BY <2>1, PoolAssumption DEF OpenPages
  <2>2. CASE held[r] # NoRef /\ held[r].page = p
    BY <1>4, <2>2, HeldFrameHasPage DEF DeletePage, Lost
  <2>3. CASE held[r] # NoRef /\ held[r].page # p
    BY <2>3 DEF OpenPages
  <2> QED
    BY <2>1, <2>2, <2>3
<1>5. p \in Deletable
  BY DEF DeletePage
<1>6. Store!Delete(p)
  BY <1>1, <1>3, <1>4, <1>5 DEF Store!Delete, AllocatedPages, StoredPages, OpenPages
<1> QED
  BY <1>6, StorePageIds DEF Store!Next

\* A step a user cannot see, in which something may be written to a file.
LEMMA FlushImplements ==
  ASSUME StoredPages = KeptPages, StoredPages' = KeptPages', TypeOK', spoilt \subseteq spoilt',
         spoilt' \subseteq spoilt \cup Unwritable, UNCHANGED <<latest, reissued, nextPageNo, held>>
  PROVE  Store!Next
<1>1. UNCHANGED <<AllocatedPages, OpenPages>>
  BY SameAllocated, SameOpen
<1>2. Store!Flush
  BY <1>1, OnlyUnwrittenLost DEF Store!Flush, AllocatedPages, OpenPages, StoredPages
<1> QED
  BY <1>2 DEF Store!Next

LEMMA NextImplements ==
  TypeOK /\ HoldParts /\ UseParts /\ StoreParts /\ (TypeOK /\ StoreParts)' /\ [Next]_vars
    => [Store!Next]_Store!vars
<1> SUFFICES ASSUME TypeOK, HoldParts, UseParts, StoreParts, TypeOK', StoreParts', [Next]_vars
             PROVE  Store!Next \/ UNCHANGED <<AllocatedPages, StoredPages, OpenPages, Lost>>
  BY DEF Store!vars, AllocatedPages, StoredPages, OpenPages
<1>0. StoredPages = KeptPages /\ StoredPages' = KeptPages'
  <2>1. StoreParts' => (StoredPages = KeptPages)'
    BY StoredIsLatest, PTL
  <2> QED
    BY <2>1, StoredIsLatest
<1>1. ASSUME NEW r \in Refs, NEW p \in PageIds, NEW f \in Frames,
             held[r] = NoRef, p[2] \in Fetchable(p[1]), Hold(r, p, f),
             spoilt \subseteq spoilt', spoilt' \subseteq spoilt \cup Unwritable,
             UNCHANGED <<latest, reissued, nextPageNo>>
      PROVE  Store!Next
  <2>1. (p \in AllocatedPages \/ Store!Miscounted(p)) /\ UNCHANGED AllocatedPages
    BY <1>1, FetchableCounted, SameAllocated, StoreMiscounted DEF AllocatedPages
  <2>2. OpenPages[r] = NoRef /\ OpenPages' = [OpenPages EXCEPT ![r] = p]
    BY <1>1, HoldOpens
  <2>3. Store!Loses(Unwritable, StoredPages)
    BY <1>0, <1>1, OnlyUnwrittenLost
  <2>4. Store!Open(r, p)
    BY <2>1, <2>2, <2>3 DEF Store!Open, AllocatedPages, StoredPages, OpenPages
  <2> QED
    BY <2>4, StorePageIds DEF Store!Next
<1>2. ASSUME NEW r \in Refs, NEW p \in PageIds, FetchHit(r, p) PROVE Store!Next
  <2>1. pageTable[p] \in Frames
    BY <1>2 DEF FetchHit, Mapped, TypeOK
  <2> QED
    BY <1>1, <1>2, <2>1 DEF FetchHit
<1>3. ASSUME NEW r \in Refs, NEW p \in PageIds, NEW f \in Frames, FetchMiss(r, p, f)
      PROVE  Store!Next
  BY <1>1, <1>3, EvictLoses DEF FetchMiss
<1>4. ASSUME NEW r \in Refs, NEW t \in Tables, NEW f \in Frames, NewPage(r, t, f)
      PROVE  Store!Next
  BY <1>0, <1>4, NewPageImplements
<1>5. ASSUME NEW r \in Refs, HangInSweep(r) PROVE Store!Next
  BY <1>0, <1>5, FlushImplements DEF HangInSweep
<1>6. ASSUME NEW r \in Refs, Write(r) PROVE Store!Next
  BY <1>0, <1>6, WriteImplements
<1>7. ASSUME NEW r \in Refs, NEW d \in BOOLEAN, Unpin(r, d) PROVE Store!Next
  <2>1. UNCHANGED <<AllocatedPages, latest, Lost>>
    BY <1>7, SameAllocated DEF Unpin, Lost
  <2>2. UNCHANGED StoredPages
    BY <1>0, <2>1 DEF KeptPages
  <2>3. OpenPages' = [OpenPages EXCEPT ![r] = NoRef]
    BY <1>7 DEF Unpin, OpenPages, TypeOK
  <2>4. Store!Close(r)
    BY <2>1, <2>2, <2>3 DEF Store!Close, AllocatedPages, StoredPages, OpenPages
  <2> QED
    BY <2>4 DEF Store!Next
<1>8. ASSUME NEW p \in PageIds, FlushPage(p) PROVE Store!Next
  BY <1>0, <1>8, FlushImplements, WriteBackLoses DEF FlushPage
<1>9. ASSUME NEW p \in PageIds, DeletePage(p) PROVE Store!Next
  BY <1>0, <1>9, DeleteImplements
<1>10. ASSUME FlushScan PROVE Store!Next
  BY <1>0, <1>10, FlushImplements DEF FlushScan
<1>11. ASSUME NEW f \in Frames, FlushOne(f) PROVE Store!Next
  <2>1. spoilt' = spoilt \/ WriteBack(f, pageId[f])
    BY <1>11 DEF FlushOne
  <2>2. spoilt \subseteq spoilt' /\ spoilt' \subseteq spoilt \cup Unwritable
    BY <2>1, WriteBackLoses
  <2> QED
    BY <1>0, <1>11, <2>2, FlushImplements DEF FlushOne
<1>12. ASSUME Restart PROVE Store!Next
  <2>1. AllocatedPages' = {p \in AllocatedPages : p[1] \in RestoredTables}
    <3>1. \A t \in Tables : nextPageNo'[t] = IF t \in RestoredTables THEN nextPageNo[t] ELSE Unset
      BY <1>12 DEF Restart
    <3>2. \A p \in PageIds : p[1] \in Tables
      BY DEF PageIds
    <3>3. \A p \in PageIds : Allocated(p)' <=> Allocated(p) /\ p[1] \in RestoredTables
      BY <3>1, <3>2 DEF Allocated
    <3> QED
      BY <3>3 DEF AllocatedPages
  <2>2. OpenPages' = [r \in Refs |-> NoRef]
    BY <1>12 DEF Restart, OpenPages
  <2>3. /\ spoilt \subseteq spoilt' /\ spoilt' \subseteq spoilt \cup Unwritable
        /\ UNCHANGED <<latest, reissued>>
    BY <1>12 DEF Restart
  <2>4. Store!Loses(Unwritable, StoredPages)
    BY <1>0, <2>3, OnlyUnwrittenLost
  <2>5. Store!Restart
    BY <2>1, <2>2, <2>4 DEF Store!Restart, AllocatedPages, StoredPages, OpenPages
  <2> QED
    BY <2>5 DEF Store!Next
<1>13. CASE Spin \/ UNCHANGED vars
  <2>1. UNCHANGED <<AllocatedPages, OpenPages, Lost, latest>>
    BY <1>13, SameAllocated, SameOpen DEF Spin, vars, Lost
  <2> QED
    BY <1>0, <2>1 DEF KeptPages
<1> QED
  BY <1>2, <1>3, <1>4, <1>5, <1>6, <1>7, <1>8, <1>9, <1>10, <1>11, <1>12, <1>13
     DEF Next, Flusher

(***************************************************************************)
(* The buffer pool implements PageStore, for any pool, any tables and any  *)
(* number of users, whatever pages they fetch, counters are not restored   *)
(* and writes fail: pages are lost only in the ways PageStore names, and   *)
(* of the others a user cannot tell that there are frames and files.       *)
(***************************************************************************)
THEOREM PoolImplementsStore == Spec => StoreSpec
<1>1. TypeOK /\ HoldParts /\ UseParts /\ StoreParts
      /\ (TypeOK /\ HoldParts /\ UseParts /\ StoreParts)' /\ [Next]_vars
        => [Store!Next]_Store!vars
  BY NextImplements
<1> QED
  BY <1>1, InitImplements, StoreInvariant, PTL DEF Spec, StoreSpec, Store!Spec
=============================================================================
