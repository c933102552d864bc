# chickenDB in TLA+

chickenDB is a small relational database in C++: SQL text goes through a parser,
binder, planner and optimizer to physical operators, which work on column pages in
a buffer pool, with a catalog, indexes, and snapshot-isolated transactions over a
write-ahead log. These modules model it from the buffer pool up to the SELECT statement, check it
with TLC on small instances, and prove with TLAPS, for instances of any size, what the buffer
pool with its victim search, the file table, the transactions, the catalog and the disk index promise.

Source paths below are relative to `src/` of the repository (`buffer/...` is
`src/buffer/...`, headers are under `src/include/`).

## The system

| Part | Code | State | Operations | What makes it correct |
|---|---|---|---|---|
| Buffer pool | `buffer/buffer_manager.cpp` | frames, page table, pins, dirty flags and their count, free list, page counters per table | `FetchPage`, `NewPage`, `UnpinPage`, `FlushPage`, `DeletePage`, `GetPageCount`, background flusher | a pinned page stays where its user points; no write is lost; dirty pages reach the disk |
| Clock sweep | `buffer/clock_sweep_lru.cpp` | a usage count per frame | `Pin`, `Unpin`, `Evict` | the search for a victim ends, on an unpinned frame |
| File table | `disk/table_manager.cpp`, `disk/file_lru_manager.cpp` | table-to-frame maps, descriptors, pins, LRU list | `Acquire`, `Release` | a table's users get its own file, also under eviction and failing `open` |
| Disk files | `disk/posix_disk_manager.cpp` | one file per table | page reads and writes, file size | what was written is read back |
| Transactions | `transaction/transaction_manager.cpp`, `transaction/version_store.cpp`, `executor/session.cpp` | id and timestamp counters, metadata per RID, the session's transaction | `BEGIN`, DML, `COMMIT`, `ROLLBACK` | snapshot isolation |
| Log and recovery | `transaction/log_manager.cpp`, `transaction/recovery_manager.cpp` | the log file | `Append`, `Flush`, `Recover` | commits survive, the rest does not |
| DML execution | `executor/execute_insert.cpp`, `executor/execute_delete_update.cpp` | - | INSERT, DELETE, UPDATE | order of page, log, version store, index |
| Catalog | `catalog/catalog.cpp` | table and index entries, schemas, root page | create, drop, index maintenance, load | what was created is there after a restart, ids are not reused |
| Disk B+tree | `index/disk_b_plus_tree.cpp` | nodes in pages | insert, erase, find, range | an ordered multimap |
| In-memory indexes | `index/b_plus_tree.cpp`, `index/hash_index.cpp`, `index/bitmap_index.cpp` | maps | insert, erase, find | a multimap |
| Table pages, scans | `buffer/table_data_page.cpp`, `buffer/table_scan_iterator.cpp`, `buffer/table_heap.cpp` | page layout, position | build, read, next | what is built is read |
| Operators | `planner/physical/*`, `executor/expression_evaluator.h`, `executor/like_matcher.h` | chunks, positions taken when opened | scans, filter, sort, top-n, joins, aggregates, limit, distinct | agree with their definition, on the rows of one snapshot |
| Optimizer | `optimizer/rule/*` | - | constant folding, predicate pushdown | keeps the result of a plan |
| Parser, binder, planner | `parser/`, `binder/`, `planner/` | the parser's current table | translation | a query means what it says |
| Command line | `cli/main.cpp` | one session | terminal | - |

How they interact: a session calls the executor, which calls the buffer pool, the
version store, the log and the catalog one after another. The buffer pool, file table,
version store, transaction manager and log each have a mutex of their own, held for one
method call; nothing is held across calls. The buffer pool calls the file table, and
that the disk, while holding its mutex. The flusher is a thread of the buffer pool. The
command line opens one session; the tests open several over the same instances, and the
classes lock for many.

What is hard: the flusher's candidates outlive the mutex; users write page bytes
outside it; a victim's page is dropped by id; sessions interleave between the steps of a
commit; pages and log reach the disk in either order; an exception can leave a
half-changed map or an unfinished transaction. `PROJECT.json` lists these points with
the properties aimed at each.

## Modules

| Module | Models | EXTENDS |
|---|---|---|
| `ClockSweep` | closed form of `FindVictimFrame` + `Evict`: which frame it can return and what counts it leaves | |
| `ClockSweepLoop` | the same loop, one turn per action | `ClockSweep` |
| `ClockSweepProofs` | the loop has its closed form | `ClockSweepLoop`, `TLAPS` |
| `PageStore` | abstract: what the buffer pool promises | |
| `BufferPool` | `BufferManager` over the table files | `ClockSweep` |
| `BufferPoolProofs` | types, held pages stay, which pages are handed out twice, dirty count, no write is lost, the pool implements `PageStore` | `BufferPool`, `TLAPS` |
| `FileTable` | `LRUTableManager`, `FileLruManager` | |
| `FileTableProofs` | the file table's invariants | `FileTable`, `TLAPS` |
| `Mvcc` | `Session`, `TransactionManager`, `VersionStore`, `LogManager`, `RecoveryManager`, and the DML executors' order of steps | |
| `MvccProofs` | types, commit protocol, recovery | `Mvcc`, `TLAPS` |
| `MvccSnapshotProofs` | snapshots | `MvccProofs` |
| `OrderedIndex` | abstract: what the interface `Index` promises of an ordered index | |
| `DiskBTree` | `DiskBPlusTreeIndex` | |
| `DiskBTreeProofs` | the shape of the tree, exact answers, the tree implements `OrderedIndex` | `DiskBTree`, `TLAPS` |
| `Catalog` | `Catalog`, its pages and reload; `ExecuteCreateIndex` and the index side of DML, step by step | |
| `CatalogProofs` | directory, reload, pages and columns | `Catalog`, `TLAPS` |
| `CatalogIndexProofs` | what the indexes hold | `CatalogProofs` |
| `Chunks` | `Vector`, `Chunk`, `VarcharCodec`, `TableDataPage`, `TableHeap`, the page split of `ExecuteInsert` | |
| `Expressions` | bound expressions, `ExpressionEvaluator`, `LikeMatcher` | `Chunks` |
| `MemIndexes` | `IndexKey`, `BPlusTreeIndex`, `HashIndex`, `BitmapIndex` | `Expressions` |
| `Operators` | scans and physical operators, `Init` and `Next` | `MemIndexes` |
| `SqlFrontEnd` | the transformers and the binder | `Operators` |
| `Planning` | logical planner, optimizer rules, physical planner | `SqlFrontEnd` |
| `Query` | a session's SELECT between other sessions' statements | `Planning` |
| `MC*` | instances for TLC | |

**ClockSweep.** `Evict` decrements frame after frame and returns the first at zero;
`FindVictimFrame` bumps it again and goes on when it is pinned. `Stops(u)` are the frames
this can end at: those whose rank (the passes needed to bring them to zero) is lower than
that of every frame before them, because a bounced frame is at zero again when the next
pass comes to it, before any frame behind it. `AfterSweep` is what the passes leave. The
loop and the closed form are compared in the run `clock`; the pool uses the closed form,
so one call stays one action.

**BufferPool.** Public methods hold the mutex throughout and are single actions. `held`
is a reference: the `Page *` a caller got and has not unpinned. `Write(r)` is the caller
writing through it, outside the mutex. `bytes` and `disk` hold contents as (page, version)
pairs; `latest` is history, what was written last. `ReadPage` leaves the frame's old bytes
when the page is behind the end of the file and reads zeros in a hole, as `pread` does.
The flusher is `FlushScan` (collect under the mutex) and one `FlushOne` per candidate.
`Restart` is the destructor, which writes what is dirty, and a new pool. `HangInSweep` is a
search that cannot end: from then on the mutex is never free. `Deletable` bounds `DeletePage`,
which has no caller.

Three constants say which of the code's weak points are on: `RestoredTables` (tables whose page
counter a restart restores; the code restores only the catalog's), `FetchedEmpty` (tables whose page 0
is fetched while they have no page: a scan of an empty table asks for page 0, and
`Catalog::LoadFromDisk` reads the root page before `InitFreshDisk` allocates it) and `Unwritable` (the pages
a `WritePage` of which can fail; the code ignores its result). Each can cost a page what is written to it, and two histories name
the pages: `reissued` those that `NewPage` handed out while they were in use, which then have two frames, and
`spoilt` those with a failed write, or with a holder of a reissued page that wrote into their frame. The
properties hold of all other pages, whatever the constants are. `PageStore` has the same
in the abstract: its `lost` pages, and the only ways to become one.

**FileTable.** `InitFile` can throw at two places. `AcquireFails` is an `open` that fails after both maps
were changed: the table stays mapped to a frame with another table's descriptor, and the
frame is neither pinned nor listed. `failed` is history: the tables in that state.
`RightFile` says that only these can ever get a wrong file. `AcquireLosesFrame` is a
`create_directories` that fails before the maps are changed: the frame has left the free stack or the LRU list, the
table it was taken from is gone, and nothing refers to it again. `lost` is history: these frames.

**Mvcc.** One action per method call; `pc` is where a session's thread is. A statement is
`Start` (which begins an autocommit transaction), then page, log, version store, flush; an
UPDATE deletes one row and inserts one. `Fail` is an exception before anything was
written, which leaves the transaction to the session. `Stamp` and `Publish` are
`TransactionManager::Commit` on both sides of its compare-exchange; then the COMMIT record,
the flush and one `Backfill` per write. `Crash` keeps the flushed log and any prefix of the
rest; `Recover` is both passes in closed form, the last INSERT and DELETE of committed
transactions for each RID. Rows are (table, RID) pairs, metadata is by RID alone, as in the
code. No program of the repository calls `RecoveryManager`; it is modelled as written.

**DiskBTree.** A node is a record per page; the catalog holds its mutex for an insertion or
removal and the shell runs one statement at a time, so `Insert` and `Erase` are one action
each. `SplitLeaf` and `SplitInternal` return a split the parent has not been told of, and
`Climb` tells the parents up to the root: `InsertIntoParent` and `SplitInternal` call each
other in tail position. `LiftRoot` keeps the root in its page. A descent (`WayTo`) and the
chain of the leaves (`Chain`) are paths from a page along a next one (`Path`, a recursive
function). When `FindParent` does not find the parent (-1), the code goes on
with page -1, which no file has; the model leaves the new page without a parent. The page of a
merged leaf is never used again by the code; its number is by the model, as the name of
the next new page, which keeps the number of states finite.

**Catalog.** `mem` is the object, `pages` the catalog's file, `files` the tables' files (a
row per page, since a page is made per INSERT here; the root of a disk index is a page of its
table's file that is not a data page), `contents` what each index holds. Each operation
changes memory and pages as the code does, page by page in its order but as one action, since
the catalog's mutex is held and only the pages' final contents are read again. What the mutex
does not cover is split: an INSERT is `InsertNewPage`, `InsertBuild`, `MaintainIndexInsert`,
`AddRowCount`; CREATE INDEX is `RegisterIndex`, `CountPages`, a `FillPage` per page, `EndFill`.
`Restart` is a clean stop (the pool writes everything) and `LoadFromDisk`, `LoadIndexes` and
`RebuildIndex` in a new process. Tables that had pages before a restart do not grow after it:
what happens then is the violated run `buffer_restart`. `ghost` records what the names
should find, which ids were handed out twice, and which rows overlapped a CREATE INDEX.

**Query side.** `Chunks` to `Planning` are operators, one per function of the code, composed
as the code composes them: a statement's tree goes through `TransformerSelectStatement`,
`BinderSelectStatement`, `LogicalSelectPlanner`, `Optimize` and `CreatePhysicalPlanner` to a
plan, which `Opened` gives its `Init` and `Run` pulls to the end. A stream is the chunks an
operator returns, or a throw. Nulls are kept as the code keeps them: a validity bit beside a
slot of zero or "", which each operator either copies or loses. In `MemIndexes` a tree is
a function from node numbers to nodes with their parents and leaf chain.

`Query` has the session. `Submit` is everything up to and with `Init`, when table scans take
the last page and index scans look their RIDs up; `Fetch` is `ExecuteQuery`; `InsertRows`,
`DeleteRows` and `UpdateRows` are statements of others, before and in between, each one step.
The set `hidden` stands for the version store, which module `Mvcc` models: the RIDs that a snapshot taken
now does not see. While a query is open, what others write stays undecided or is rolled back,
so its snapshot never has to see it. `truth` and `gone` are history: the rows each table was
given, and those whose index entries were taken out. The constant `Queries` gives each
query by its tree, or, for the operators the planner never chooses (merge and nested-loop
join, external sort, top-n, limit, distinct, stream aggregate, range and bitmap scans), by its plan.

## Runs

| Run | Instance | Shows |
|---|---|---|
| `clock` | 4 frames, usage up to 3 | the loop ends exactly where and as `ClockSweep` says (`ClosedFormExact`), and ends if a stop is unpinned (`SearchEnds`) |
| `buffer` | 2 frames, 1 table of 2 pages, 2 references, usage up to 1, 1 rewrite per page; page 0 fetched before it is allocated, writes of page 1 failing or not | `HeldPageStays`, `HandedOutOnce`, `NoLostWrite`, `CleanMeansSaved`, `DirtyCountExact`, refinement of `PageStore` (`StoreSpec`), `DirtyIsFlushed` |
| `buffer_restart` (violated) | 3 pages, usage up to 2, no early fetch and no failing write, counters not restored | `NoLostPage`: the first INSERT after a restart overwrites page 0 |
| `mvcc` | 2 sessions, 3 transactions, 1 table, 3 rows (1 committed before), 1 delete per transaction | `SnapshotExact`, `LatestSnapshot`, `CommittedIsLogged`, `RecoveryExact` |
| `mvcc_tables` (violated) | 2 tables | tables share metadata of equal RIDs |
| `mvcc_lost_delete` (violated) | 1 table | a second delete erases a committed one |
| `filetable` | 4 tables, 3 frames, 3 users, failing `create_directories` and `open` | `RightFile`, `PinsExact`, `FramesAccounted` |
| `btree` | 7 keys with 3 entries or separators to a page; 9 keys with 5 entries and 3 separators; each key once | refinement of `OrderedIndex` (`IndexSpec`), `LookupExact`, `ChainIsTree`, `WithinCapacity` |
| `btree_same_key` (violated) | 2 keys, 6 rows each, 4 slots | `Find` and `Erase` miss entries left of an equal separator |
| `catalog` | 2 names, 2 indexes, 2 tables, 1 entry per catalog page, 2 rows, 2 restarts | `DirectoryExact`, `ReloadExact`, `PagesDisjoint`, `ColumnsUnique`, `IndexExact` |
| `query` | 3 tables, 4 indexes, 41 queries, 10 statements; 7 index entries | `FilterExact`, `IndexScanExact`, `JoinExact`, `OrderExact`, `GroupExact`, `WindowExact`, `OptimizerKeepsAnswer`, `MemIndexExact` |
| `query_index` (violated) | the same | `IndexKeepsAnswer`: an index scan and a full scan of one query differ |

Why the bounds suffice. `clock`: four frames give stops with bounced frames before, between
and behind them. `buffer`: page 0 in both frames and page 1
force evictions of clean and dirty pages, while holders of either still write; two references cover
a page held twice and a full pool; one rewrite distinguishes new from stale bytes. Two pages that were each
handed out once fit into the two frames, so page 1 is evicted only by a page 0 in two frames: a third page makes
the graph too large for liveness. That two such pages do not harm each other is proved, for any
number of frames and pages. `mvcc`: a reader, a writer and a row that was there before need three
transactions, with two active at a time; one delete each keeps the ping-pong of two
transactions deleting one row finite. `filetable`: one table more than frames evicts, three
users pin every frame or one frame three times. `btree`: seven keys in the small nodes
make trees of four inner nodes, so an inner node below the root is split; nine keys in the larger
ones reach three levels and merge two leaves that both hold entries; every order of insertions
and removals of these keys is explored, and `MaxPages` is never reached. `catalog`: one entry to a page links a second page and goes back
to update the first; two restarts let a dropped id be handed out and the result be
reloaded; two rows overlap one CREATE INDEX, one before its page count and one behind.
`query`: pages of two rows and batches of three split every larger INSERT; runs of two rows
give an external sort a shorter last run; three pages per table hold a split batch and a row added
or changed while a query is open; nodes of two keys and six keys split the root twice. Every
order of the seven entries' insertions and removals is explored. A query is open at most once
at a time and sees one statement of others (`MaxMeanwhile`).

The runs of `Catalog` and `Query` do not check deadlock: their pages, rows and comparisons are
bounded.

**Fairness.** The flusher (`WF_vars(Flusher)`): `BackgroundFlush` wakes on a timer. The sweep
in `ClockSweepLoop`: a running thread goes on. Nothing is assumed of callers: a page may stay
pinned for ever, a client may never commit.

**What the properties leave out on purpose.** `SnapshotExact` speaks of rows the version store
knows and of snapshots into which no unfinished commit falls: in the window between `Publish`
and the last `Backfill` snapshots do change, and a row without metadata is visible to all.
It excludes rows deleted by two transactions (`Contested`), which the run
`mvcc_lost_delete` is about, tables sharing RIDs (`mvcc_tables`), and rows deleted by a
transaction they were neither inserted by nor committed before (not `Entitled`). The last comes
from the proof, which failed without it: a row is on its page, and visible to all, before
`RegisterInsert` gives it metadata; a session that deletes it then marks nothing, and when
both have committed the row is there again. The run `btree` has each key at most once in the tree
(`MaxSame = 1`): with equal keys `LookupExact` is the violated run. One thread uses the tree, and
its pages are intact: a crash between the page writes of one split is listed as a hazard that no
run covers. The properties of `catalog` hold until a dropped table's id is handed out
again (`ghost.reused`). `HeldPageStays`, `NoLostWrite` and `CleanMeansSaved` except the pages handed out twice, and
the last two those with a failed or stray write; `HandedOutOnce` and `StoreSpec` bound the exceptions.

**What the code does and a reader would not expect.** The properties of `query` say what a SELECT
returns, and where that is not what SQL says, they say so or leave it open. Where the repository itself says otherwise,
its line is given; `query_index` is the run for the one of these that depends on what other sessions do:

- `NOT x` is taken for `x IS NULL` and `x IS NULL` for its opposite; `IS NOT NULL` throws.
- A null compares as 0 or "", and comes out of sort, join and UPDATE as 0 or "".
- A null test beside a JOIN is pushed to its left side: on a column of the right table it
  throws, although `include/optimizer/rule/predicate_pushdown.h:21-23` says that conditions on the right table
  go to its side (`JoinExact` and `OptimizerKeepsAnswer` have no such query), on one of the left table it finds the nulls that would be gone above the join. Other
  conditions stay above, since a join's tables are asked for by fields that stay null.
- An ON that is not column = column is ignored; the join is then a product.
- The value of a NUMBER that groups is shown as 0 (a double written over four bytes; the last
  one ends four bytes behind the buffer, which is taken as harmless), although
  `planner/physical/physical_aggregate_operator.cpp:85` says group columns keep their type and
  `test/executor/operators_test.cpp:147-161` expects the keys. `GroupExact` leaves the shown value of such a column open. An aggregate without
  GROUP BY returns its plain column row by row. HAVING, and ORDER BY with GROUP BY or JOIN, are ignored.
- An expression in the select list is dropped from the rows and keeps its column name.
- In a batch, a bare column of a JOIN belongs to the table the statement before it named.
- LIKE may take a percent sign of the text for the one of the pattern, and then fails: `%` does not match the
  text `%a`, although `include/executor/like_matcher.h:9-10` says it matches anything. The queries' texts have none.
- A scan planned for an index that is not there does not ask which rows are visible.
- DELETE and UPDATE take index entries at once, so a query that uses the index misses rows its snapshot
  sees, against `planner/logical/logical_select_planner.cpp:114-115` (`query_index`); CREATE INDEX and the rebuild at a restart put
  those of deleted rows back, and an INSERT that overlaps a CREATE INDEX is indexed twice.

Of transactions: a page can reach its file before the transaction that filled it commits. Recovery gives its rows
no metadata, and rows without metadata are visible to all (`transaction/version_store.cpp:66-69`), although
`include/transaction/recovery_manager.h:17` says that such writes are discarded. `RecoveryExact` speaks only of rows
a committed transaction inserted. And since `cli/main.cpp` calls no recovery, after a restart the version store is empty,
deleted rows are back, and transaction ids start at 1 again in the same log.

## Proofs

Every theorem holds for every value of the module's constants that meets its named assumption:
any number of frames, tables, pages, users, sessions, transactions and rows. Each rests on an
inductive invariant, kept by every action in a lemma of its own.

**Victim search** (`ClockSweepProofs`): `CountersStayInRange`, `LoopHasClosedForm`. `ClosedFormExact`
speaks of finished searches only. Its invariant `SweepInv` says where a search is: on some pass k, the frames
in front of the hand passed k times and the others k - 1 times as far as they were reached
(`Passes`), and each stop that came to 0 meanwhile pinned, with one usage. `PassesAre` turns the
cardinality in `Passes` into "the pass reaches the frame"; `BehindAStop` says that nothing behind a stop at
0 is reached again. So `BufferPool` may take the search for one step.

**Buffer pool** (`BufferPoolProofs`):

| Theorem | States |
|---|---|
| `TypeCorrect` | `[]TypeOK` |
| `HoldInvariant`, `HeldPagesStay` | `[]HoldInv`, `[]HeldPageStays` |
| `PagesHandedOutOnce` | `[]HandedOutOnce` |
| `DirtyCountCorrect` | `[]DirtyCountExact` |
| `WritesAreKept` | `[]NoLostWrite` |
| `CleanFramesSaved` | `[]CleanMeansSaved` |
| `PoolImplementsStore` | `StoreSpec`, the refinement of `PageStore` |

None of them assumes anything of the callers, of the counters a restart restores or of the writes: that a
page can be handed out twice and a write can fail is in the theorems. What they show is that the damage
stays with the page it is done to.

`HeldPageStays` is not inductive: that a victim is not held needs the pin count to be the number
of references (`PinExact`), that dropping the old page by id does not unmap another frame
needs page table and frames to be inverse (`MappingExact`), and that a free frame carries no
page needs `FreeIsFree`. Their conjunction `HoldInv` is. A page in two frames breaks all but the last for
itself; it cannot for others, since the frame that the page table gives for a page has that page, always, and
so two pages never share one. `HandedOutOnce` needs to know where pages come from: every page in the pool,
in a file or with a history is one the counter counts, or a page 0 fetched too early, or of a table whose
counter a restart forgets (`UsedIsCounted`); the flusher and evictions write only such pages, so `GetPageCount`
by the file's length leads to no other. `NoLostWrite` splits into what a cached page
holds (`CachedCurrent`), what the file holds of the others (`UncachedSaved`) and `CleanMeansSaved`, which is
what lets a clean victim be dropped. Under them the abstract store is `latest` with the lost pages
taken out (`KeptPages`), and every step of the pool maps to a step of `PageStore`: evictions and
flushes to those that may lose a page to a failed write, a stray write to `Overwrite`, a second `NewPage`
to an `Allocate` of a page that is lost from then on.
`DirtyCountExact` needs only that a mapped frame carries the page it is mapped by.

**File table** (`FileTableProofs`): `FileInvariant`, and from it `FileTypeCorrect`, `PinsCorrect`
(`PinsExact`), `FilesCorrect` (`RightFile`) and `FramesCounted` (`FramesAccounted`), with `create_directories`
and `open` failing at will. Eviction is sound because the two maps are inverse (`MapsInverse`), free stack and LRU list hold no
frame twice and no frame with a user (`ListsSound`), and a frame in neither and unpinned belongs
to a table whose `open` failed, or to none because the directory could not be created: these are gone for
good (`LostIsNowhere`). `RemoveOnce` and its neighbours say what the lists' operations do to
the set of their frames.

**Transactions** (`MvccProofs`, `MvccSnapshotProofs`):

| Theorem | States | Assumes |
|---|---|---|
| `MvccInvariant`, `MvccTypes` | `[]MvccInv`, `[]TypeOK` | nothing |
| `SnapshotsAreLatest` | `[]LatestSnapshot` | nothing |
| `StampsAreLogged` | `[]CommittedIsLogged` | nothing |
| `RecoveryIsExact` | `[]RecoveryExact` | `OneTable` |
| `SnapshotInvariant`, `SnapshotsAreExact` | `[]SnapInv`, `[]SnapshotExact` | `OneTable` |

`OneTable`: metadata is by RID alone, so two tables' rows share it; `mvcc_tables` is the run that
violates `SnapshotExact` without it. `MvccInv` says what a session's place in its command implies.
Two of its parts are not obvious: `Counted` (the timestamps drawn are as many as the committed transactions,
without which even the type of a timestamp has no bound) and `Published` (a timestamp above
`lastCommitTs` belongs to a session about to publish, however the compare-exchange loops interleave).
`CommitLogged` and `StoreLogged` order record, flush and back-fill; `Replay` is what a recovery leaves.
`SnapInv` ties a row's metadata to the transactions that inserted and deleted it: `BeginOf` and
`EndOf` say which of begin and end stands in the store at each stage of a commit, a back-fill or an undo
(which back-fill of another row must not disturb), `OwnWrites` that a commit finishes its own rows, `NewRows` and `OneInserter`
that rows are registered once. From it a snapshot's rows follow by cases over the states of the two transactions.

**Catalog** (`CatalogProofs`, `CatalogIndexProofs`): `CatalogInvariant`, and from it `TypeCorrect`, `DirectoryCorrect`
(`DirectoryExact`), `ReloadCorrect` (`ReloadExact`), `PagesApart` (`PagesDisjoint`) and `ColumnsApart`
(`ColumnsUnique`), for any page capacity and number of tables, rows and restarts. Memory and what a load
would build are related only through the pages, so the invariant is about these: the chain of entry pages
is whole and ends where memory appends (`Chain` and its neighbours), every entry in memory has its last copy
on the page that `entryPage` names, each table ever created has a schema page of its own (`ghost.given`, which
holds through reused ids too), and root and definitions page say what memory says. As long as no id was handed out
twice, each id has one entry, and live ids and columns stay below the allocators, which is all
a restart restores of them. `LoadChain` is written as what its loop leaves, the last place of each id
along the chain; `Places` and `Latest` carry the proof from one page write to the next.

`IndexesExact` (`IndexExact`) needs to know, for each index and row, how often the row has been filed so far
(`Filed`): INSERT files a row in every index there is, the fill of CREATE INDEX files the rows of the pages it
comes to, and neither knows of the other. A row in an index still to be filled is `Ahead` of the fill, and
must be on a page the fill will come to (`WillCome`); while its INSERT has not filed it (`NotFiled`) it is in the
index only if the fill has passed a page already built, which is an overlap. Hence once without overlap and at most twice
with it, in every interleaving. `Columns` (a table has a first column) is what makes the keys match.

**Disk B+tree** (`DiskBTreeProofs`): `TreeInvariant`, and from it `TreeTypeCorrect` (`TypeOK`), `TreeWithinCapacity`
(`WithinCapacity`), `TreeIsOrderedIndex` (`IndexSpec`, the refinement of `OrderedIndex`) and `TreeLookupsExact`
(`LookupExact`), for any set of integer keys, nodes with room for at least two entries, any height and number of pages.
All five assume `MaxSame = 1`: no two rows of one key in the index at a time. Without it they are false of the
code (`btree_same_key`); a key may still leave and come back with another RID.

The properties speak of descents and of the chain of leaves, paths of any length; the invariant `TreeInv` speaks of
single pages instead. It says that the tree can be measured: there is a height for each page and an
interval of keys, such that a page's keys lie in its interval, the children of an inner page are one level lower and divide
its interval at its keys, each page but the root hangs from a page, and a leaf is followed by the leaf whose interval
starts where its own ends (`Measured`, `NodeOK`, `LeafOK`, `InnerOK`, joined in `Shape`). The measures are no variables: each
lemma about an operation gives the measures of the tree it leaves. While a split climbs, the tree is `Open`:
what the left page holds (`hi`) is less than what its parent takes it to hold (`far`), and one page has no
parent. `OneUp` brings it a level up or closes it, and the height bounds how often, so `ClimbIs` needs no
induction over the tree; `LiftRootIs` is the split of the root, which keeps its page number. On the way down a merge or loan
under one parent moves a separator between two intervals (`BorrowIs`, `MergeIs`). A way along pages that get
lower (`CollectorExists`, `WayDescends`) is a function defined by recursion over the height, an induction over numbers; from
it `LeafIs` (the descent ends at the one leaf a key belongs to), `ParentIs` (`FindParent` finds the parent) and
`EntriesFromList` and `EntriesInOrder` (what a scan along the chain returns).

**Only model-checked**, and why:

- `DirtyIsFlushed` and `SearchEnds`: liveness is beyond the prover.
- `ChainIsTree` of `DiskBTree`: it compares the chain with a concatenation of the children's leaves, which is
  recursive in two ways at once. What it is there for, that a descent and a scan agree, is proved
  as `LookupExact` and `IndexSpec`.
- The query side: recursive operators over plans, trees and expressions; its properties are exact answers over
  bounded inputs.

## Not modelled

- **Command line**: terminal input and output. **Vendored libraries**: the text of a statement is
  parsed by one of them; the models start from its tree.
- **Page bytes**: header layout, zstd and checksum of a data page, O_DIRECT alignment, torn pages (bytes
  are written without a latch) and torn log records.
- **Crashes** between the page writes of one catalog operation or one split of a disk index;
  `Catalog` restarts cleanly, `Mvcc` crashes at the log.
- **Statements**: CREATE and DROP come to `Catalog` already bound. An INSERT that names an unknown
  column and a DELETE without WHERE dereference null; neither is in the inputs. Nor are
  a string compared with a number, 0/0 and IN, or divisions that are not whole. UPDATE of a table
  with strings throws and has no step.
- **Order of a hash table**: groups come by first occurrence, joins by the left rows, `ScanAll` of a hash
  index by key; the properties compare such answers as bags and ask for no order.

## Plan

1. Proofs: `ChainIsTree` of `DiskBTree`, and the operators of the query side as recursive functions.
2. A crash between the page writes of `Catalog` and `DiskBTree`.
