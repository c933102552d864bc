------------------------------ MODULE BufferPool ------------------------------
(***************************************************************************)
(* BufferManager: a fixed pool of frames in front of the table files.      *)
(*                                                                         *)
(* Every public method holds mutex_ from its first to its last line, so    *)
(* each is one action.  Two things happen outside mutex_: a user of a      *)
(* pinned page writes into the frame through the Page pointer it was       *)
(* given, and the background flusher gives mutex_ back between collecting  *)
(* its candidates and writing each of them.                                *)
(*                                                                         *)
(* A reference is one FetchPage or NewPage that has not been unpinned yet. *)
(* A thread that holds several pages is several references.                *)
(*                                                                         *)
(* The callers' part (which pages they fetch, and that who wrote a page    *)
(* unpins it as dirty) is in the guards of Fetch and Unpin.                *)
(*                                                                         *)
(* Three things the code does can cost a page what is written to it:       *)
(* NewPage hands out a page that is in use already, a failed file write    *)
(* that nobody notices, and a holder of a page handed out twice that       *)
(* writes into a frame which is another page's by now.  The history        *)
(* variables reissued and spoilt name the pages this happened to.          *)
(***************************************************************************)
EXTENDS ClockSweep, Sequences

CONSTANTS
  Tables,          \* tables, each a file of pages
  MaxPages,        \* bound: pages per table
  MaxVersions,     \* bound: times a page is written
  Refs,            \* references that can be outstanding at a time
  RestoredTables,  \* tables whose page counter a restart restores
  Deletable,       \* bound: the pages DeletePage is called for
  FetchedEmpty,    \* tables whose page 0 is fetched while they have no page
  Unwritable,      \* bound: the pages a WritePage of which can fail
  NoPage, NoFrame, NoRef, Absent, Unset   \* sentinels

PageNos == 0 .. MaxPages - 1
PageIds == Tables \X PageNos

\* The bytes of a page: which page they were written for, by which of its
\* writes.  Version 0 is the zeroed page of NewPage.
Contents == [of : PageIds, ver : 0 .. MaxVersions]
Junk == [of |-> NoPage, ver |-> 0]       \* memory nobody has written yet
Bytes == Contents \cup {Junk}
Zeroed(p) == [of |-> p, ver |-> 0]

ASSUME PoolAssumption ==
  /\ MaxPages \in Nat /\ MaxVersions \in Nat
  /\ IsFiniteSet(Refs)
  /\ RestoredTables \subseteq Tables /\ FetchedEmpty \subseteq Tables
  /\ Deletable \subseteq PageIds
  /\ Unwritable \subseteq PageIds
  /\ NoPage \notin PageIds /\ NoRef \notin PageIds /\ NoFrame \notin Frames
  /\ Absent \notin Bytes /\ Unset \notin Int
  /\ NoRef \notin [page : PageIds, frame : Frames, wrote : BOOLEAN]

VARIABLES
  pageId,      \* pages_[f]->page_id_
  bytes,       \* pages_[f]->data
  pinCount,    \* pin_count_
  dirty,       \* dirty_
  dirtyCount,  \* dirty_count_
  pageTable,   \* page_table_
  freeList,    \* free_list_
  usage,       \* frames_ of ClockSweepLRU
  nextPageNo,  \* next_page_no_; Unset: the table has no entry
  hung,        \* a search for a victim is looping for ever, holding mutex_
  pending,     \* the flusher's candidates it has not come to yet
  disk,        \* the table files
  held,        \* the outstanding references, with the Page pointer they have
  latest,      \* history: what was last written to a page; Junk: never allocated
  reissued,    \* history: the pages NewPage handed out while they were in use
  spoilt       \* history: the pages with a failed write, or a stray one

poolVars == <<pageId, pinCount, dirty, dirtyCount, pageTable, freeList, usage>>
vars == <<poolVars, bytes, nextPageNo, hung, pending, disk, held, latest,
          reissued, spoilt>>

-----------------------------------------------------------------------------
\* The table files.

HasPage(d, t, n) == \E m \in PageNos : m >= n /\ d[<<t, m>>] # Absent

FileLen(d, t) == Cardinality({n \in PageNos : HasPage(d, t, n)})

\* PosixDiskManager::ReadPage into a buffer that holds `old`: a hole in the
\* file reads as zeros, a read behind its end leaves the buffer as it was.
ReadPage(d, p, old) ==
  IF d[p] # Absent THEN d[p]
  ELSE IF HasPage(d, p[1], p[2]) THEN Zeroed(p)
  ELSE old

\* WritePage of page p can succeed, or fail.
Outcomes(p) == IF p \in Unwritable THEN BOOLEAN ELSE {TRUE}

\* PosixDiskManager::WritePage: the files it leaves when it succeeds, and when
\* it does not.  Its callers ignore which.
WritePage(d, p, b, ok) == IF ok THEN [d EXCEPT ![p] = b] ELSE d

-----------------------------------------------------------------------------
\* Frames.

Mapped == {p \in PageIds : pageTable[p] # NoFrame}

\* Mutant of FindsVictim: the sweep's frame is taken without a look at its pins.
FindsAnyVictim(f) == IF freeList # <<>>
                     THEN f = Head(freeList)
                     ELSE IsVictim(usage, [g \in Frames |-> 0], f)

\* FindVictimFrame can return f: the oldest free frame, or the end of the sweep.
FindsVictim(f) == IF freeList # <<>>
                  THEN f = Head(freeList)
                  ELSE IsVictim(usage, pinCount, f)

NoVictim == freeList = <<>> /\ OpenStops(usage, pinCount) = {}

\* Was f written back and so taken off dirty_count_?
Cleaned(f) == pageId[f] # NoPage /\ dirty[f]

\* Mutant of EvictFrame: the old page is dropped without being written.
EvictUnsaved(f, ok) == disk

\* The files EvictFrame(f) leaves.
EvictFrame(f, ok) == IF Cleaned(f) THEN WritePage(disk, pageId[f], bytes[f], ok) ELSE disk

Evict(f) == \E ok \in Outcomes(pageId[f]) :
  /\ disk' = EvictFrame(f, ok)
  /\ spoilt' = IF Cleaned(f) /\ ~ok THEN spoilt \cup {pageId[f]} ELSE spoilt

\* FindVictimFrame and EvictFrame, then frame f holds page p with one user.
\* The old page's entry goes by its page id, wherever that entry points.
Install(f, p, isDirty) ==
  /\ FindsVictim(f)
  /\ freeList' = IF freeList # <<>> THEN Tail(freeList) ELSE freeList
  /\ pageId' = [pageId EXCEPT ![f] = p]
  /\ pageTable' = [q \in PageIds |-> IF q = p THEN f
                                     ELSE IF q = pageId[f] THEN NoFrame
                                     ELSE pageTable[q]]
  /\ pinCount' = [pinCount EXCEPT ![f] = 1]
  /\ dirty' = [dirty EXCEPT ![f] = isDirty]
  /\ dirtyCount' = dirtyCount - (IF Cleaned(f) THEN 1 ELSE 0)
                              + (IF isDirty THEN 1 ELSE 0)
  /\ usage' = Touch(IF freeList # <<>> THEN usage ELSE AfterSweep(usage, f), f)

Hold(r, p, f) == held' = [held EXCEPT ![r] = [page |-> p, frame |-> f, wrote |-> FALSE]]

-----------------------------------------------------------------------------
\* The methods of BufferManager, called by reference r.

GetPageCount(t) == IF nextPageNo[t] # Unset THEN nextPageNo[t] ELSE FileLen(disk, t)

\* Mutant of Fetchable: a scan goes one page too far.
FetchableOneMore(t) == {n \in PageNos : n <= GetPageCount(t)}

\* The pages callers ask for.  A scan runs from page 0 to GetPageCount - 1 but
\* never to less than page 0; Catalog reads page 0 to see if the file is new.
Fetchable(t) == {n \in PageNos : \/ n < GetPageCount(t)
                                 \/ t \in FetchedEmpty /\ n = 0}

\* next_page_no_[t], which the map creates as 0.
NextNo(t) == IF nextPageNo[t] = Unset THEN 0 ELSE nextPageNo[t]

FetchHit(r, p) ==
  /\ ~hung /\ held[r] = NoRef /\ p[2] \in Fetchable(p[1])
  /\ p \in Mapped
  /\ LET f == pageTable[p]
     IN  /\ pinCount' = [pinCount EXCEPT ![f] = @ + 1]
         /\ usage' = Touch(usage, f)
         /\ Hold(r, p, f)
  /\ UNCHANGED <<pageId, bytes, dirty, dirtyCount, pageTable, freeList,
                 nextPageNo, hung, pending, disk, latest, reissued, spoilt>>

FetchMiss(r, p, f) ==
  /\ ~hung /\ held[r] = NoRef /\ p[2] \in Fetchable(p[1])
  /\ p \notin Mapped
  /\ Install(f, p, FALSE)
  /\ Evict(f)
  /\ bytes' = [bytes EXCEPT ![f] = ReadPage(disk', p, @)]
  /\ Hold(r, p, f)
  /\ UNCHANGED <<nextPageNo, hung, pending, latest, reissued>>

\* NewPage does not look whether the page is in the pool, or was handed out.
InUse(p) == p \in Mapped \/ latest[p] # Junk

NewPage(r, t, f) ==
  LET p == <<t, NextNo(t)>>
  IN  /\ ~hung /\ held[r] = NoRef /\ NextNo(t) < MaxPages
      /\ Install(f, p, TRUE)
      /\ Evict(f)
      /\ nextPageNo' = [nextPageNo EXCEPT ![t] = NextNo(t) + 1]
      /\ bytes' = [bytes EXCEPT ![f] = Zeroed(p)]
      /\ latest' = [latest EXCEPT ![p] = IF @ = Junk THEN Zeroed(p) ELSE @]
      /\ reissued' = IF InUse(p) THEN reissued \cup {p} ELSE reissued
      /\ Hold(r, p, f)
      /\ UNCHANGED <<hung, pending>>

\* FetchPage or NewPage with no free frame and none the sweep can end on: the
\* caller never returns and never releases mutex_.
HangInSweep(r) ==
  /\ ~hung /\ held[r] = NoRef /\ NoVictim
  /\ \/ \E p \in PageIds : p[2] \in Fetchable(p[1]) /\ p \notin Mapped
     \/ \E t \in Tables : NextNo(t) < MaxPages
  /\ hung' = TRUE
  /\ UNCHANGED <<poolVars, bytes, nextPageNo, pending, disk, held, latest,
                 reissued, spoilt>>

\* The endless sweep itself.
Spin == hung /\ UNCHANGED vars

\* Not a method: the holder of a page writes into it, without mutex_.  It has
\* the frame it was given, which need not be the page's any more.
Write(r) ==
  /\ held[r] # NoRef
  /\ LET p == held[r].page
         v == IF latest[p] = Junk THEN 1 ELSE latest[p].ver + 1
     IN  /\ v <= MaxVersions
         /\ bytes' = [bytes EXCEPT ![held[r].frame] = [of |-> p, ver |-> v]]
         /\ latest' = [latest EXCEPT ![p] = [of |-> p, ver |-> v]]
         /\ spoilt' = spoilt \cup ({pageId[held[r].frame]} \ {p, NoPage})
  /\ held' = [held EXCEPT ![r].wrote = TRUE]
  /\ UNCHANGED <<poolVars, nextPageNo, hung, pending, disk, reissued>>

\* Mutant of Unpin: the last user's flag replaces the frame's.
UnpinOverwritesDirty(r, isDirty) ==
  /\ ~hung /\ held[r] # NoRef /\ (held[r].wrote => isDirty)
  /\ LET f == pageTable[held[r].page]
     IN  IF f = NoFrame \/ (f # NoFrame /\ pinCount[f] = 0)
         THEN UNCHANGED <<pinCount, dirty, dirtyCount>>
         ELSE /\ pinCount' = [pinCount EXCEPT ![f] = @ - 1]
              /\ dirty' = [dirty EXCEPT ![f] = isDirty]
              /\ dirtyCount' = dirtyCount + (IF isDirty THEN 1 ELSE 0)
                                          - (IF dirty[f] THEN 1 ELSE 0)
  /\ held' = [held EXCEPT ![r] = NoRef]
  /\ UNCHANGED <<pageId, bytes, pageTable, freeList, usage, nextPageNo, hung,
                 pending, disk, latest, reissued, spoilt>>

\* Who wrote the page says so.  The page need not be the one in the frame the
\* reference was given: UnpinPage looks it up by its id.
Unpin(r, isDirty) ==
  /\ ~hung /\ held[r] # NoRef /\ (held[r].wrote => isDirty)
  /\ LET f == pageTable[held[r].page]
     IN  IF f = NoFrame \/ (f # NoFrame /\ pinCount[f] = 0)
         THEN UNCHANGED <<pinCount, dirty, dirtyCount>>
         ELSE /\ pinCount' = [pinCount EXCEPT ![f] = @ - 1]
              /\ dirty' = [dirty EXCEPT ![f] = @ \/ isDirty]
              /\ dirtyCount' = dirtyCount + (IF isDirty /\ ~dirty[f] THEN 1 ELSE 0)
  /\ held' = [held EXCEPT ![r] = NoRef]
  /\ UNCHANGED <<pageId, bytes, pageTable, freeList, usage, nextPageNo, hung,
                 pending, disk, latest, reissued, spoilt>>

SavePage(f, p) == \E ok \in Outcomes(p) :
  /\ disk' = WritePage(disk, p, bytes[f], ok)
  /\ spoilt' = IF ok THEN spoilt ELSE spoilt \cup {p}

\* Mutant of WriteBack: one off the count for a clean frame, too.
WriteBackMiscounted(f, p) ==
  /\ SavePage(f, p)
  /\ dirty' = [dirty EXCEPT ![f] = FALSE]
  /\ dirtyCount' = dirtyCount - 1
  /\ UNCHANGED <<pageId, pinCount, pageTable, freeList, usage>>

\* Frame f is written and no longer dirty: the end of FlushPage, and of one
\* turn of FlushDirtyUnpinned.
WriteBack(f, p) ==
  /\ SavePage(f, p)
  /\ dirty' = [dirty EXCEPT ![f] = FALSE]
  /\ dirtyCount' = dirtyCount - (IF dirty[f] THEN 1 ELSE 0)
  /\ UNCHANGED <<pageId, pinCount, pageTable, freeList, usage>>

FlushPage(p) ==
  /\ ~hung /\ p \in Mapped
  /\ WriteBack(pageTable[p], p)
  /\ UNCHANGED <<bytes, nextPageNo, hung, pending, held, latest, reissued>>

\* Mutant of DeletePage: a pinned page is deleted, too.
DeletePinnedPage(p) ==
  /\ ~hung /\ p \in Mapped \cap Deletable
  /\ LET f == pageTable[p]
     IN  /\ pageTable' = [pageTable EXCEPT ![p] = NoFrame]
         /\ dirty' = [dirty EXCEPT ![f] = FALSE]
         /\ dirtyCount' = dirtyCount - (IF dirty[f] THEN 1 ELSE 0)
         /\ pageId' = [pageId EXCEPT ![f] = NoPage]
         /\ freeList' = Append(freeList, f)
  /\ latest' = [latest EXCEPT ![p] = Junk]
  /\ UNCHANGED <<pinCount, usage, bytes, nextPageNo, hung, pending, disk, held,
                 reissued, spoilt>>

\* The frame goes to the free list with whatever was not written back.
DeletePage(p) ==
  /\ ~hung /\ p \in Mapped \cap Deletable
  /\ LET f == pageTable[p]
     IN  /\ pinCount[f] = 0
         /\ pageTable' = [pageTable EXCEPT ![p] = NoFrame]
         /\ dirty' = [dirty EXCEPT ![f] = FALSE]
         /\ dirtyCount' = dirtyCount - (IF dirty[f] THEN 1 ELSE 0)
         /\ pageId' = [pageId EXCEPT ![f] = NoPage]
         /\ freeList' = Append(freeList, f)
  /\ latest' = [latest EXCEPT ![p] = Junk]
  /\ UNCHANGED <<pinCount, usage, bytes, nextPageNo, hung, pending, disk, held,
                 reissued, spoilt>>

-----------------------------------------------------------------------------
\* The background flusher.

\* Mutant of FlushScan: the flusher wakes for the dirty ratio only.
FlushScanByRatio ==
  /\ ~hung /\ pending = {} /\ 2 * dirtyCount > NumFrames
  /\ pending' = {f \in Frames : /\ \E p \in Mapped : pageTable[p] = f
                                /\ dirty[f] /\ pinCount[f] = 0}
  /\ pending' # {}
  /\ UNCHANGED <<poolVars, bytes, nextPageNo, hung, disk, held, latest,
                 reissued, spoilt>>

\* FlushDirtyUnpinned, first half: under mutex_, the frames to write.
FlushScan ==
  /\ ~hung /\ pending = {}
  /\ pending' = {f \in Frames : /\ \E p \in Mapped : pageTable[p] = f
                                /\ dirty[f] /\ pinCount[f] = 0}
  /\ pending' # {}
  /\ UNCHANGED <<poolVars, bytes, nextPageNo, hung, disk, held, latest,
                 reissued, spoilt>>

\* Second half: one candidate.  mutex_ was free in between, so the frame may
\* be pinned, clean, free, or hold another page by now.
FlushOne(f) ==
  /\ ~hung /\ f \in pending
  /\ pending' = pending \ {f}
  /\ IF ~dirty[f] \/ pinCount[f] # 0 \/ pageId[f] = NoPage
     THEN UNCHANGED <<poolVars, disk, spoilt>>
     ELSE WriteBack(f, pageId[f])
  /\ UNCHANGED <<bytes, nextPageNo, hung, held, latest, reissued>>

DirtyPages == {p \in Mapped : dirty[pageTable[p]]}

\* ~BufferManager and a new BufferManager over the same files.  The destructor
\* waits for the flusher, then writes every dirty mapped frame.  Catalog calls
\* InitNextPageNo for RestoredTables.
Restart ==
  /\ ~hung /\ pending = {}
  /\ \A r \in Refs : held[r] # NoRef => ~held[r].wrote
  /\ \E failed \in SUBSET (DirtyPages \cap Unwritable) :
       /\ disk' = [p \in PageIds |-> IF p \in DirtyPages \ failed
                                     THEN bytes[pageTable[p]] ELSE disk[p]]
       /\ spoilt' = spoilt \cup failed
  /\ pageId' = [f \in Frames |-> NoPage]
  /\ bytes' = [f \in Frames |-> Junk]
  /\ pinCount' = [f \in Frames |-> 0]
  /\ dirty' = [f \in Frames |-> FALSE]
  /\ dirtyCount' = 0
  /\ pageTable' = [p \in PageIds |-> NoFrame]
  /\ freeList' = [i \in 1 .. NumFrames |-> i - 1]
  /\ usage' = [f \in Frames |-> 0]
  /\ nextPageNo' = [t \in Tables |-> IF t \in RestoredTables THEN nextPageNo[t] ELSE Unset]
  /\ held' = [r \in Refs |-> NoRef]
  /\ UNCHANGED <<hung, pending, latest, reissued>>

-----------------------------------------------------------------------------
Init ==
  /\ pageId = [f \in Frames |-> NoPage]
  /\ bytes = [f \in Frames |-> Junk]
  /\ pinCount = [f \in Frames |-> 0]
  /\ dirty = [f \in Frames |-> FALSE]
  /\ dirtyCount = 0
  /\ pageTable = [p \in PageIds |-> NoFrame]
  /\ freeList = [i \in 1 .. NumFrames |-> i - 1]
  /\ usage = [f \in Frames |-> 0]
  /\ nextPageNo = [t \in Tables |-> Unset]
  /\ hung = FALSE
  /\ pending = {}
  /\ disk = [p \in PageIds |-> Absent]
  /\ held = [r \in Refs |-> NoRef]
  /\ latest = [p \in PageIds |-> Junk]
  /\ reissued = {} /\ spoilt = {}

Flusher == FlushScan \/ \E f \in Frames : FlushOne(f)

Next ==
  \/ \E r \in Refs :
       \/ \E p \in PageIds : FetchHit(r, p) \/ \E f \in Frames : FetchMiss(r, p, f)
       \/ \E t \in Tables, f \in Frames : NewPage(r, t, f)
       \/ HangInSweep(r) \/ Write(r)
       \/ \E isDirty \in BOOLEAN : Unpin(r, isDirty)
  \/ \E p \in PageIds : FlushPage(p) \/ DeletePage(p)
  \/ Flusher
  \/ Restart
  \/ Spin

\* BackgroundFlush wakes at least every K_FLUSH_INTERVAL_MS, whatever the
\* dirty ratio: the flusher is weakly fair.  Nothing makes a user unpin.
Spec == Init /\ [][Next]_vars /\ WF_vars(Flusher)

-----------------------------------------------------------------------------
References == [page : PageIds, frame : Frames, wrote : BOOLEAN]

TypeOK ==
  /\ pageId \in [Frames -> PageIds \cup {NoPage}]
  /\ bytes \in [Frames -> Bytes]
  /\ pinCount \in [Frames -> Nat]
  /\ dirty \in [Frames -> BOOLEAN]
  /\ dirtyCount \in Int
  /\ pageTable \in [PageIds -> Frames \cup {NoFrame}]
  /\ freeList \in Seq(Frames)
  /\ usage \in [Frames -> Usages]
  /\ nextPageNo \in [Tables -> (0 .. MaxPages) \cup {Unset}]
  /\ hung \in BOOLEAN
  /\ pending \in SUBSET Frames
  /\ disk \in [PageIds -> Bytes \cup {Absent}]
  /\ held \in [Refs -> References \cup {NoRef}]
  /\ latest \in [PageIds -> Bytes]
  /\ reissued \subseteq PageIds /\ spoilt \subseteq PageIds

(***************************************************************************)
(* A page somebody holds stays where the holder's Page pointer says: the   *)
(* page table still maps it to that frame, and the frame to it.  Neither   *)
(* an eviction, nor the flusher, nor DeletePage takes it away; whatever    *)
(* happens to other pages, only a NewPage that hands out this very page    *)
(* while it is in use can.                                                 *)
(***************************************************************************)
HeldPageStays ==
  \A r \in Refs : held[r] # NoRef /\ held[r].page \notin reissued =>
    /\ pageTable[held[r].page] = held[r].frame
    /\ pageId[held[r].frame] = held[r].page
    /\ pinCount[held[r].frame] > 0

(***************************************************************************)
(* The parts of the invariant that HeldPageStays rests on.                 *)
(***************************************************************************)
MappingExact ==
  /\ \A p \in Mapped : pageId[pageTable[p]] = p
  /\ \A f \in Frames : pageId[f] \notin reissued \cup {NoPage} => pageTable[pageId[f]] = f

Holders(p) == {r \in Refs : held[r] # NoRef /\ held[r].page = p}

PinExact == \A p \in Mapped \ reissued : pinCount[pageTable[p]] = Cardinality(Holders(p))

HeldIsMapped ==
  \A r \in Refs : held[r] # NoRef /\ held[r].page \notin reissued =>
    pageTable[held[r].page] = held[r].frame

FreeIsFree ==
  /\ \A i \in 1 .. Len(freeList) : pageId[freeList[i]] = NoPage
  /\ \A i, j \in 1 .. Len(freeList) : freeList[i] = freeList[j] => i = j

HoldInv == TypeOK /\ MappingExact /\ PinExact /\ HeldIsMapped /\ FreeIsFree

Allocated(p) == nextPageNo[p[1]] # Unset /\ p[2] < nextPageNo[p[1]]

(***************************************************************************)
(* NewPage hands out a page in use only where the counter cannot know it:  *)
(* in a table whose counter a restart forgets, or page 0 of a table that   *)
(* is read while it has no page.  So of the catalog's pages only the root, *)
(* read once before InitFreshDisk allocates it, is ever handed out twice.  *)
(***************************************************************************)
Miscounted(p) == \/ p[1] \notin RestoredTables
                 \/ p[1] \in FetchedEmpty /\ p[2] = 0

HandedOutOnce == \A p \in reissued : Miscounted(p)

(***************************************************************************)
(* Whoever fetches an allocated page next sees what was last written to    *)
(* it, whether the page is cached or must be read back.  Every eviction,   *)
(* flush and restart has to keep this, unless the page was handed out      *)
(* twice, a write of it failed, or a stray holder wrote into its frame.    *)
(***************************************************************************)
Lost == reissued \cup spoilt

Current(p) == IF pageTable[p] # NoFrame
              THEN bytes[pageTable[p]]
              ELSE ReadPage(disk, p, Junk)

NoLostWrite == \A p \in PageIds \ Lost : latest[p] # Junk => Current(p) = latest[p]

(***************************************************************************)
(* InitNextPageNo "restores a table's page counter" after a restart: so no *)
(* page loses what was written to it, without exceptions.                  *)
(***************************************************************************)
NoLostPage == \A p \in PageIds : latest[p] # Junk => Current(p) = latest[p]

(***************************************************************************)
(* A frame that is not marked dirty, and whose page nobody has written     *)
(* since it was last pinned, can be dropped without a write: the file has  *)
(* its page.                                                               *)
(***************************************************************************)
CleanMeansSaved ==
  \A p \in Mapped \ Lost :
    (~dirty[pageTable[p]] /\ latest[p] # Junk /\ \A r \in Holders(p) : ~held[r].wrote)
    => ReadPage(disk, p, Junk) = latest[p]

(***************************************************************************)
(* dirty_count_, which wakes the flusher, counts the dirty frames: it is   *)
(* kept by hand in six places.                                             *)
(***************************************************************************)
DirtyCountExact == dirtyCount = Cardinality({f \in Frames : dirty[f]})

(***************************************************************************)
(* A dirty page that stays unpinned is written back, unless the pool hangs *)
(* or the page was handed out twice: the flusher goes by page_table_,      *)
(* which then has another frame for the page, or none.                     *)
(***************************************************************************)
DirtyIsFlushed ==
  \A f \in Frames : dirty[f] /\ pinCount[f] = 0 ~>
    ~dirty[f] \/ pinCount[f] > 0 \/ hung \/ pageId[f] \in reissued

(***************************************************************************)
(* The pool implements PageStore: fetching, evicting, flushing and         *)
(* restarting change nothing a user can read, NewPage hands out the next   *)
(* page, no page is deleted that somebody holds, and pages are lost only   *)
(* in the ways PageStore names.                                            *)
(***************************************************************************)
Store == INSTANCE PageStore WITH
  allocated <- {p \in PageIds : Allocated(p)},
  store <- [p \in PageIds |-> IF p \in Lost \/ latest[p] = Junk THEN Junk ELSE Current(p)],
  open <- [r \in Refs |-> IF held[r] = NoRef THEN NoRef ELSE held[r].page],
  lost <- Lost

StoreSpec == Store!Spec
=============================================================================
