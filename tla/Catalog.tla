------------------------------ MODULE Catalog ------------------------------
(***************************************************************************)
(* The catalog (catalog/catalog.cpp): tables, columns and indexes, held in *)
(* memory and written through to the pages of the catalog file, together   *)
(* with the statements that change it step by step (CREATE INDEX, INSERT)  *)
(* and the load that rebuilds the memory image from the pages.             *)
(*                                                                         *)
(* The pages are the buffer pool's, all written out by a clean shutdown    *)
(* (BufferPool.tla has the pool).  A row is the data page of its own that  *)
(* a one-row INSERT writes, so a RID is a page number; an index entry is   *)
(* a RID with the kind of key it was filed under; a disk index owns one    *)
(* page of the table's file, its root.                                     *)
(***************************************************************************)
EXTENDS Naturals, Sequences, FiniteSets, Bags, SequencesExt

CONSTANTS
    TableNames,     \* names CREATE TABLE may be given
    IndexNames,     \* names CREATE INDEX may be given
    PageCapacity,   \* kMaxEntriesPerCatalogPage
    ColumnCounts,   \* how many columns a table may get
    MaxTables, MaxRows, MaxRestarts   \* bounds of the model

ASSUME CatalogAssumption ==
    PageCapacity \in Nat \ {0} /\ ColumnCounts \subseteq Nat \ {0} /\ {MaxTables, MaxRows, MaxRestarts} \subseteq Nat

VARIABLES
    pages,      \* the catalog file: page number -> content
    mem,        \* the Catalog object
    files,      \* table id -> the pages of its data file
    grown,      \* tables whose page counter this process knows (next_page_no_)
    contents,   \* index id -> bag of its entries
    inserting,  \* INSERT statements under way
    indexing,   \* CREATE INDEX statements under way
    restarts,
    ghost       \* what the statements have promised so far (history only)

vars == <<pages, mem, files, grown, contents, inserting, indexing, restarts, ghost>>

NoPage == 0     \* free_list_page_id: 0 stands for "no index page"

----------------------------------------------------------------------------
(* The pages.                                                              *)

RootPage == 0
FirstEntriesPage == 1

RootMeta(total, index) == [kind |-> "root", total |-> total, index |-> index]
EntriesPage(entries, next) == [kind |-> "entries", entries |-> entries, next |-> next]
SchemaPage(cols) == [kind |-> "schema", cols |-> cols]
DefsPage(defs) == [kind |-> "defs", defs |-> defs]

WritePage(pgs, p, content) ==
    [q \in DOMAIN pgs \cup {p} |-> IF q = p THEN content ELSE pgs[q]]

\* f with x mapped to y, and the emplace of std::unordered_map, which leaves
\* a key that is there alone.
Put(f, x, y) == [z \in DOMAIN f \cup {x} |-> IF z = x THEN y ELSE f[z]]
Emplace(f, x, y) == IF x \in DOMAIN f THEN f ELSE Put(f, x, y)

Empty == [x \in {} |-> x]

----------------------------------------------------------------------------
(* Loading: the object the constructor builds from the pages.              *)

Blank == [names |-> Empty, entries |-> Empty, schemas |-> Empty, entryPage |-> Empty,
          catPage |-> FirstEntriesPage, nextTable |-> 1, nextCol |-> 1, nextIndex |-> 1,
          nextFree |-> 2, indexPage |-> NoPage, indexes |-> Empty]

\* The pages from p on, along next_page_id.
Chain(pgs, p) ==
    LET from[q \in {r \in DOMAIN pgs : pgs[r].kind = "entries"}] ==
            IF pgs[q].next = NoPage THEN <<q>> ELSE <<q>> \o from[pgs[q].next]
    IN  from[p]

\* Where the walk finds an entry: <<k, i>> is the i-th of the k-th page.  Of
\* several places the walk comes to Latest last.
Places(pgs, chain) == UNION {{k} \X DOMAIN pgs[chain[k]].entries : k \in DOMAIN chain}

Latest(S) ==
    LET k == Max({a[1] : a \in S})
    IN  <<k, Max({a[2] : a \in {b \in S : b[1] = k}})>>

NextAfter(S) == IF S = {} THEN 1 ELSE Max(S) + 1

\* The walk along the chain: a later entry with the same id replaces an
\* earlier one, and only an active one is named, has its schema read and
\* moves the id allocator.
LoadChain(m, pgs) ==
    LET chain == Chain(pgs, FirstEntriesPage)
        Entry(a) == pgs[chain[a[1]]].entries[a[2]]
        found == Places(pgs, chain)
        live == {a \in found : Entry(a).active}
        Ids(S) == {Entry(a).id : a \in S}
        LastOf(S, t) == Latest({a \in S : Entry(a).id = t})
    IN  [m EXCEPT
          !.names = [x \in {Entry(a).name : a \in live} |->
                        Entry(Latest({a \in live : Entry(a).name = x})).id],
          !.entries = [t \in Ids(found) |-> Entry(LastOf(found, t))],
          !.entryPage = [t \in Ids(found) |-> chain[LastOf(found, t)[1]]],
          !.schemas = [t \in Ids(live) |-> pgs[Entry(LastOf(live, t)).schema].cols],
          !.nextTable = NextAfter(Ids(live)),
          !.catPage = chain[Len(chain)]]

\* The column allocator is recomputed from the schemas read.
NextColumn(m) == NextAfter(UNION {ToSet(m.schemas[t]) : t \in DOMAIN m.schemas})

\* Mutant: the page allocator is not restored.
LoadTablesAllocatorReset(pgs) ==
    LET m == LoadChain([Blank EXCEPT !.indexPage = pgs[RootPage].index], pgs)
    IN  [m EXCEPT !.nextCol = NextColumn(m)]

\* Mutant: the column allocator is not recomputed.
LoadTablesColumnsReset(pgs) ==
    LoadChain([Blank EXCEPT !.nextFree = pgs[RootPage].total, !.indexPage = pgs[RootPage].index], pgs)

LoadTables(pgs) ==
    LET m == LoadChain([Blank EXCEPT !.nextFree = pgs[RootPage].total,
                                     !.indexPage = pgs[RootPage].index], pgs)
    IN  [m EXCEPT !.nextCol = NextColumn(m)]

LoadIndexes(m, pgs) ==
    IF m.indexPage = NoPage THEN m
    ELSE [m EXCEPT !.indexes = pgs[m.indexPage].defs,
                   !.nextIndex = NextAfter(DOMAIN pgs[m.indexPage].defs)]

LoadFromDisk(pgs) == LoadIndexes(LoadTables(pgs), pgs)

----------------------------------------------------------------------------
(* Looking up.                                                             *)

GetTable(m, name) ==
    {t \in DOMAIN m.entries : /\ name \in DOMAIN m.names /\ m.names[name] = t
                              /\ m.entries[t].active}

GetSchema(m, t) ==
    IF t \in DOMAIN m.entries /\ m.entries[t].active /\ t \in DOMAIN m.schemas
    THEN {m.schemas[t]} ELSE {}

TableIndexes(m, t) == {i \in DOMAIN m.indexes : m.indexes[i].table = t}

\* A scan reads every data page up to page_count - 1; of a table without
\* pages it still tries page 0.
LastPage(t) == IF Len(files[t]) = 0 THEN 0 ELSE Len(files[t]) - 1
IsRow(t, p) == p < Len(files[t]) /\ files[t][p + 1] = "row"
Rows(t) == {p \in 0..LastPage(t) : IsRow(t, p)}

\* The key a scan files a row under and the one DML files it under: an index
\* whose column is not in the table's schema gets the empty key or 0.0.
ScanKey(m, i) ==
    IF m.indexes[i].col \in ToSet(m.schemas[m.indexes[i].table]) THEN "value" ELSE "empty"
RowKey(m, i) ==
    IF m.indexes[i].col \in ToSet(m.schemas[m.indexes[i].table]) THEN "value" ELSE "zero"

----------------------------------------------------------------------------
(* Writing through.  Each takes the object and the pages and returns both. *)

AllocateDiskPage(s, content) ==
    [m |-> [s.m EXCEPT !.nextFree = @ + 1], pg |-> WritePage(s.pg, s.m.nextFree, content)]

PersistRootMeta(s) ==
    [s EXCEPT !.pg = WritePage(@, RootPage, RootMeta(s.m.nextFree, s.m.indexPage))]

PersistSchema(s, cols) == AllocateDiskPage(s, SchemaPage(cols))

\* A full page is linked to the page about to be allocated.
LinkNewPage(s) ==
    LET cur == s.m.catPage
        linked == [s EXCEPT !.pg = WritePage(@, cur, [@[cur] EXCEPT !.next = s.m.nextFree])]
        grownTo == AllocateDiskPage(linked, EntriesPage(<<>>, NoPage))
    IN  [grownTo EXCEPT !.m.catPage = s.m.nextFree]

PersistNewEntry(s, e) ==
    LET r == IF Len(s.pg[s.m.catPage].entries) >= PageCapacity THEN LinkNewPage(s) ELSE s
        cur == r.m.catPage
    IN  PersistRootMeta(
            [m |-> [r.m EXCEPT !.entryPage = Put(@, e.id, cur)],
             pg |-> WritePage(r.pg, cur, [r.pg[cur] EXCEPT !.entries = Append(@, e)])])

\* Mutant: the updated entry is looked for on the newest page only.
PersistUpdatedEntryNewest(s, t) ==
    LET p == s.m.catPage
        es == s.pg[p].entries
        at == {k \in DOMAIN es : es[k].id = t}
    IN  IF at = {} THEN s
        ELSE [s EXCEPT !.pg = WritePage(@, p, [@[p] EXCEPT !.entries[Min(at)] = s.m.entries[t]])]

\* The first entry of that id on the page the map names.
PersistUpdatedEntry(s, t) ==
    LET p == s.m.entryPage[t]
        es == s.pg[p].entries
        at == {k \in DOMAIN es : es[k].id = t}
    IN  IF at = {} THEN s
        ELSE [s EXCEPT !.pg = WritePage(@, p, [@[p] EXCEPT !.entries[Min(at)] = s.m.entries[t]])]

\* Mutant: the page of the definitions is not recorded in the root.
PersistIndexDefsUnrooted(s) ==
    LET here == IF s.m.indexPage # NoPage THEN s.m.indexPage ELSE s.m.nextFree
        lazily == IF s.m.indexPage # NoPage THEN s
                  ELSE AllocateDiskPage([s EXCEPT !.m.indexPage = here], DefsPage(Empty))
    IN  [lazily EXCEPT !.pg = WritePage(@, here, DefsPage(s.m.indexes))]

PersistIndexDefs(s) ==
    LET lazily == IF s.m.indexPage # NoPage THEN s
                  ELSE PersistRootMeta(AllocateDiskPage(
                           [s EXCEPT !.m.indexPage = s.m.nextFree], DefsPage(Empty)))
        \* the page number is taken from the page allocated
        here == IF s.m.indexPage # NoPage THEN s.m.indexPage ELSE s.m.nextFree
    IN  [lazily EXCEPT !.pg = WritePage(@, here, DefsPage(s.m.indexes))]

Become(s) == mem' = s.m /\ pages' = s.pg
Here == [m |-> mem, pg |-> pages]

----------------------------------------------------------------------------
(* DDL.                                                                    *)

\* Mutant: the column allocator is bumped before it is read.
BuildInitialSchemaPre(m, n) == [k \in 1..n |-> m.nextCol + k]

BuildInitialSchema(m, n) == [k \in 1..n |-> m.nextCol + k - 1]

CreateTable(name, n) ==
    /\ GetTable(mem, name) = {}
    /\ Cardinality(ghost.given) < MaxTables
    /\ LET t == mem.nextTable
           cols == BuildInitialSchema(mem, n)
           s == PersistSchema([Here EXCEPT !.m.nextTable = t + 1, !.m.nextCol = @ + n], cols)
           e == [id |-> t, name |-> name, schema |-> mem.nextFree, rows |-> 0, active |-> TRUE]
       IN  /\ Become(PersistNewEntry(
                  [s EXCEPT !.m.names = Emplace(@, name, t),
                            !.m.entries = Emplace(@, t, e),
                            !.m.schemas = Emplace(@, t, cols)], e))
           /\ files' = Emplace(files, t, <<>>)
           /\ ghost' = [ghost EXCEPT !.made = Put(@, name, cols),
                                     !.given = @ \cup {<<t, mem.nextFree>>},
                                     !.reused = @ \/ \E g \in ghost.given : g[1] = t]
    /\ UNCHANGED <<grown, contents, inserting, indexing, restarts>>

DropTable(name) ==
    /\ name \in DOMAIN mem.names
    /\ LET t == mem.names[name]
       IN  Become(PersistUpdatedEntry(
               [Here EXCEPT !.m.entries[t].active = FALSE,
                            !.m.names = [x \in DOMAIN @ \ {name} |-> @[x]]], t))
    /\ ghost' = [ghost EXCEPT !.made = [x \in DOMAIN @ \ {name} |-> @[x]]]
    /\ UNCHANGED <<files, grown, contents, inserting, indexing, restarts>>

\* A table with pages from before the restart has lost its page counter, and
\* its next page would overwrite page 0 (the run buffer_restart): what the
\* bytes of such a table mean is not modelled, so it is not grown.
CanGrow(t) == t \in grown \/ files[t] = <<>>

\* CREATE INDEX: register, with the root page of a disk tree in the table's
\* own file; the definitions are saved before the index holds anything.
RegisterIndex(name, t, disk) ==
    /\ \A i \in DOMAIN mem.indexes : mem.indexes[i].name # name
    /\ indexing = {}
    /\ disk => CanGrow(t)
    /\ \E cols \in GetSchema(mem, t) :
         LET i == mem.nextIndex
             def == [name |-> name, table |-> t, col |-> Head(cols), disk |-> disk]
         IN  /\ Become(PersistIndexDefs([Here EXCEPT !.m.nextIndex = @ + 1,
                                                     !.m.indexes = Emplace(@, i, def)]))
             /\ contents' = Put(contents, i, EmptyBag)
             /\ indexing' = {[index |-> i, table |-> t, step |-> "count", next |-> 0, last |-> 0]}
             /\ ghost' = [ghost EXCEPT !.overlap = @ \cup
                             {<<i, j.page>> : j \in {k \in inserting : k.table = t}}]
    /\ files' = IF disk THEN [files EXCEPT ![t] = Append(@, "node")] ELSE files
    /\ grown' = IF disk THEN grown \cup {t} ELSE grown
    /\ UNCHANGED <<inserting, restarts>>

\* The schema is fetched again; a table dropped meanwhile ends the statement
\* with the index registered and empty.
CountPages(j) ==
    /\ j.step = "count"
    /\ indexing' = IF GetSchema(mem, j.table) = {} THEN {}
                   ELSE {[j EXCEPT !.step = "fill", !.last = LastPage(j.table)]}
    /\ UNCHANGED <<pages, mem, files, grown, contents, inserting, restarts, ghost>>

FillPage(j) ==
    /\ j.step = "fill" /\ j.next <= j.last
    /\ contents' = IF IsRow(j.table, j.next)
                   THEN [contents EXCEPT ![j.index] =
                            @ (+) SetToBag({<<ScanKey(mem, j.index), j.next>>})]
                   ELSE contents
    /\ indexing' = {[j EXCEPT !.next = @ + 1]}
    /\ UNCHANGED <<pages, mem, files, grown, inserting, restarts, ghost>>

EndFill(j) ==
    /\ j.step = "fill" /\ j.next > j.last
    /\ indexing' = {}
    /\ ghost' = [ghost EXCEPT !.complete = @ \cup {j.index}]
    /\ UNCHANGED <<pages, mem, files, grown, contents, inserting, restarts>>

----------------------------------------------------------------------------
(* DML, as far as it touches the catalog and the indexes.                  *)

RowsSoFar == Cardinality(UNION {{<<t, p>> : p \in 1..Len(files[t])} : t \in DOMAIN files})

InsertNewPage(t) ==
    /\ CanGrow(t) /\ inserting = {} /\ RowsSoFar < MaxRows
    /\ GetSchema(mem, t) # {}
    /\ files' = [files EXCEPT ![t] = Append(@, "blank")]
    /\ grown' = grown \cup {t}
    /\ inserting' = {[table |-> t, page |-> Len(files[t]), step |-> "build"]}
    /\ ghost' = [ghost EXCEPT !.overlap = @ \cup
                    {<<k.index, Len(files[t])>> : k \in {x \in indexing : x.table = t}}]
    /\ UNCHANGED <<pages, mem, contents, indexing, restarts>>

InsertBuild(j) ==
    /\ j.step = "build"
    /\ files' = [files EXCEPT ![j.table][j.page + 1] = "row"]
    /\ inserting' = {[j EXCEPT !.step = "index"]}
    /\ UNCHANGED <<pages, mem, grown, contents, indexing, restarts, ghost>>

\* Mutant: an index whose CREATE INDEX still fills it is left to the fill.
MaintainIndexInsertComplete(j) ==
    /\ j.step = "index"
    /\ contents' = [i \in DOMAIN contents |->
                      IF i \in TableIndexes(mem, j.table) \cap ghost.complete
                      THEN contents[i] (+) SetToBag({<<RowKey(mem, i), j.page>>})
                      ELSE contents[i]]
    /\ inserting' = {[j EXCEPT !.step = "count"]}
    /\ UNCHANGED <<pages, mem, files, grown, indexing, restarts, ghost>>

MaintainIndexInsert(j) ==
    /\ j.step = "index"
    /\ contents' = [i \in DOMAIN contents |->
                      IF i \in TableIndexes(mem, j.table)
                      THEN contents[i] (+) SetToBag({<<RowKey(mem, i), j.page>>})
                      ELSE contents[i]]
    /\ inserting' = {[j EXCEPT !.step = "count"]}
    /\ UNCHANGED <<pages, mem, files, grown, indexing, restarts, ghost>>

AddRowCount(j) ==
    /\ j.step = "count"
    /\ Become(PersistUpdatedEntry([Here EXCEPT !.m.entries[j.table].rows = @ + 1], j.table))
    /\ inserting' = {}
    /\ UNCHANGED <<files, grown, contents, indexing, restarts, ghost>>

\* DELETE of one row another statement is done with: marked in the version
\* store and taken out of every index, one entry of each.
DeleteRow(t, p) ==
    /\ p \in Rows(t) /\ GetSchema(mem, t) # {}
    /\ <<t, p>> \notin ghost.marked
    /\ \A j \in inserting : <<j.table, j.page>> # <<t, p>>
    /\ contents' = [i \in DOMAIN contents |->
                      IF i \in TableIndexes(mem, t)
                      THEN contents[i] (-) SetToBag({<<RowKey(mem, i), p>>})
                      ELSE contents[i]]
    /\ ghost' = [ghost EXCEPT !.marked = @ \cup {<<t, p>>},
                              !.gone = @ \cup {<<i, p>> : i \in TableIndexes(mem, t) \cap ghost.complete}]
    /\ UNCHANGED <<pages, mem, files, grown, inserting, indexing, restarts>>

----------------------------------------------------------------------------
(* A clean stop and a new process: tables and definitions come back from   *)
(* the pages, a disk index keeps its entries, the others are rebuilt from  *)
(* every row of the file, deleted ones included.                           *)

RebuildIndex(m, i) ==
    LET t == m.indexes[i].table
    IN  IF t \in DOMAIN m.schemas
        THEN SetToBag({<<ScanKey(m, i), p>> : p \in Rows(t)})
        ELSE EmptyBag

Restart ==
    /\ inserting = {} /\ indexing = {} /\ restarts < MaxRestarts
    /\ LET m == LoadFromDisk(pages)
           rebuilt == {i \in DOMAIN m.indexes : ~m.indexes[i].disk}
       IN  /\ mem' = m
           /\ contents' = [i \in DOMAIN m.indexes |->
                             IF i \in rebuilt THEN RebuildIndex(m, i) ELSE contents[i]]
           /\ ghost' = [ghost EXCEPT
                          !.complete = @ \cup {i \in rebuilt : m.indexes[i].table \in DOMAIN m.schemas},
                          !.gone = {g \in @ : g[1] \notin rebuilt},
                          !.overlap = {o \in @ : o[1] \notin rebuilt}]
    /\ grown' = {}
    /\ restarts' = restarts + 1
    /\ UNCHANGED <<pages, files, inserting, indexing>>

InitFreshDisk ==
    Put(Put(Empty, RootPage, RootMeta(2, NoPage)), FirstEntriesPage, EntriesPage(<<>>, NoPage))

Init ==
    /\ pages = InitFreshDisk /\ mem = Blank
    /\ files = Empty /\ grown = {} /\ contents = Empty
    /\ inserting = {} /\ indexing = {} /\ restarts = 0
    /\ ghost = [made |-> Empty, given |-> {}, reused |-> FALSE, complete |-> {},
                overlap |-> {}, marked |-> {}, gone |-> {}]

Next ==
    \/ \E name \in TableNames, n \in ColumnCounts : CreateTable(name, n)
    \/ \E name \in TableNames : DropTable(name)
    \/ \E name \in IndexNames, t \in DOMAIN files, disk \in BOOLEAN : RegisterIndex(name, t, disk)
    \/ \E j \in indexing : CountPages(j) \/ FillPage(j) \/ EndFill(j)
    \/ \E t \in DOMAIN files : InsertNewPage(t)
    \/ \E j \in inserting : InsertBuild(j) \/ MaintainIndexInsert(j) \/ AddRowCount(j)
    \/ \E t \in DOMAIN files : \E p \in Rows(t) : DeleteRow(t, p)
    \/ Restart

Spec == Init /\ [][Next]_vars

----------------------------------------------------------------------------
(* Properties.                                                             *)

Names == DOMAIN ghost.made

\* The object's maps agree with each other and the ids stay under their
\* allocators (catalog.h members).
TypeOK ==
    /\ DOMAIN mem.names \subseteq TableNames
    /\ DOMAIN mem.entries \subseteq 1..MaxTables /\ DOMAIN mem.entryPage = DOMAIN mem.entries
    /\ \A name \in DOMAIN mem.names : mem.names[name] \in DOMAIN mem.entries
    /\ \A t \in DOMAIN mem.schemas : ToSet(mem.schemas[t]) \subseteq 1..(mem.nextCol - 1)
    /\ DOMAIN mem.indexes \subseteq 1..(mem.nextIndex - 1)
    /\ DOMAIN pages = 0..(mem.nextFree - 1)
    /\ \A t \in DOMAIN files : files[t] \in Seq({"blank", "row", "node"})
    /\ DOMAIN contents = DOMAIN mem.indexes

\* Through creations, drops and restarts a name finds the table created last
\* under it, with its columns, and a dropped name finds nothing - as long as
\* no dropped table's id was handed out again (LoadFromDisk, CreateTable).
DirectoryExact ==
    ghost.reused \/
    \A name \in TableNames :
        IF name \in Names
        THEN \E t \in GetTable(mem, name) : GetSchema(mem, t) = {ghost.made[name]}
        ELSE GetTable(mem, name) = {}

\* The pages always hold the whole catalog: a process started now would load
\* what this one has in memory, but for the schemas of dropped tables and
\* the allocators, which may only fall back to ids no active table or
\* column has (write-through of every operation).
ReloadExact ==
    LET m == LoadFromDisk(pages)
        active == {t \in DOMAIN m.entries : m.entries[t].active}
    IN  ghost.reused \/
        /\ m.names = mem.names /\ m.entries = mem.entries /\ m.entryPage = mem.entryPage
        /\ m.catPage = mem.catPage /\ m.nextFree = mem.nextFree /\ m.indexPage = mem.indexPage
        /\ m.indexes = mem.indexes /\ m.nextIndex = mem.nextIndex
        /\ \A t \in active : m.schemas[t] = mem.schemas[t]
        /\ m.nextTable <= mem.nextTable /\ m.nextCol <= mem.nextCol

\* Root, chain, schema and definition pages are pages of their own, all
\* below the allocator the root records (AllocateDiskPage, PersistRootMeta).
PagesDisjoint ==
    LET chain == ToSet(Chain(pages, FirstEntriesPage))
        schemas == {mem.entries[t].schema : t \in DOMAIN mem.entries}
        index == {mem.indexPage} \ {NoPage}
    IN  /\ pages[RootPage].kind = "root" /\ pages[RootPage].total = mem.nextFree
        /\ \A p \in chain : pages[p].kind = "entries"
        /\ \A p \in schemas : pages[p].kind = "schema"
        /\ \A p \in index : pages[p].kind = "defs"
        /\ Cardinality(schemas) = Cardinality(DOMAIN mem.entries)

\* No two tables that can be found share a column id, which is what lets
\* joins look columns up by id alone (BuildInitialSchema's comment,
\* catalog.cpp:481-482).
ColumnsUnique ==
    \A a, b \in TableNames : \A s \in GetTable(mem, a), t \in GetTable(mem, b) :
        s # t => ToSet(mem.schemas[s]) \cap ToSet(mem.schemas[t]) = {}

Done(t, p) == \A j \in inserting : <<j.table, j.page>> # <<t, p>>
Count(i, p) == IF BagIn(<<"value", p>>, contents[i]) THEN contents[i][<<"value", p>>] ELSE 0

\* Every index of a table that is there and whose CREATE INDEX has ended holds
\* each row never deleted once its INSERT has ended: exactly once, or twice when the two statements
\* overlapped; and an index that was complete when a row was deleted no
\* longer holds it, until a restart rebuilds the index.
IndexExact ==
    ghost.reused \/
    \A i \in ghost.complete \cap DOMAIN mem.indexes :
        LET t == mem.indexes[i].table
        IN  GetSchema(mem, t) # {} =>
            /\ BagToSet(contents[i]) \subseteq {<<"value", p>> : p \in Rows(t)}
            /\ \A p \in Rows(t) :
                 /\ (Done(t, p) /\ <<t, p>> \notin ghost.marked) =>
                        Count(i, p) \in (IF <<i, p>> \in ghost.overlap THEN {1, 2} ELSE {1})
                 /\ (<<i, p>> \in ghost.gone /\ <<i, p>> \notin ghost.overlap) => Count(i, p) = 0
=============================================================================
