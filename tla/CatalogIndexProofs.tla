------------------------- MODULE CatalogIndexProofs -------------------------
(***************************************************************************)
(* Proofs about the contents of the indexes.  INSERT and CREATE INDEX each *)
(* put a row into an index, one by the row's page, the other by the index, *)
(* and neither knows of the other.  The invariant says, for each index and *)
(* each row, how often the row has been filed so far: by where the row's   *)
(* INSERT is, by whether the fill has passed the page or will come to it,  *)
(* and by whether the two statements overlap.                              *)
(***************************************************************************)
EXTENDS CatalogProofs

\* The table can be found: GetSchema returns its columns.
IsThere(m, t) == t \in DOMAIN m.entries /\ m.entries[t].active /\ t \in DOMAIN m.schemas

\* The row's INSERT has not filed it under any index yet.
NotFiled(t, p) == \E j \in inserting : j.table = t /\ j.page = p /\ j.step # "count"

\* A CREATE INDEX fills the index and has not come to page p; it will.
Ahead(i, p) == \E k \in indexing : k.index = i /\ (k.step = "count" \/ k.next <= p)
WillCome(i, p) ==
    \E k \in indexing : k.index = i /\ (k.step = "count" \/ (k.next <= p /\ p <= k.last))

\* How often index i holds the row on page p of its table.
Filed(i, p) ==
    LET both == <<i, p>> \in ghost.overlap
        n == Count(i, p)
    IN  IF NotFiled(mem.indexes[i].table, p)
        THEN n <= (IF both /\ ~Ahead(i, p) THEN 1 ELSE 0)
        ELSE IF Ahead(i, p) THEN IF both THEN n <= 1 /\ (n = 0 => WillCome(i, p))
                                 ELSE n = 0 /\ WillCome(i, p)
        ELSE n \in (IF both THEN {1, 2} ELSE {1})

RowKeys(t) == {<<"value", p>> : p \in Rows(t)}

IndexFiled(i) ==
    LET t == mem.indexes[i].table
    IN  /\ mem.indexes[i].col \in ToSet(mem.schemas[t])
        /\ IsABag(contents[i]) /\ DOMAIN contents[i] \subseteq RowKeys(t)
        /\ \A p \in Rows(t) :
             /\ <<t, p>> \notin ghost.marked => Filed(i, p)
             /\ (<<i, p>> \in ghost.gone /\ <<i, p>> \notin ghost.overlap) => Count(i, p) = 0

Inserts ==
    /\ \A j, k \in inserting : j = k
    /\ \A j \in inserting :
          /\ j = [table |-> j.table, page |-> j.page, step |-> j.step]
          /\ j.table \in DOMAIN files /\ j.page \in Nat /\ j.page < Len(files[j.table])
          /\ j.step \in {"build", "index", "count"}
          /\ files[j.table][j.page + 1] = IF j.step = "build" THEN "blank" ELSE "row"
          /\ <<j.table, j.page>> \notin ghost.marked

Indexings ==
    /\ \A j, k \in indexing : j = k
    /\ \A k \in indexing :
          /\ k = [index |-> k.index, table |-> k.table, step |-> k.step, next |-> k.next, last |-> k.last]
          /\ k.index \in DOMAIN mem.indexes \ ghost.complete
          /\ k.table = mem.indexes[k.index].table
          /\ k.step \in {"count", "fill"} /\ k.next \in Nat /\ k.last \in Nat
          /\ k.step = "count" => k.next = 0
          /\ \A j \in inserting : j.table = k.table => <<k.index, j.page>> \in ghost.overlap

History ==
    /\ \A i \in DOMAIN mem.indexes :
          /\ mem.indexes[i].table \in DOMAIN files
          /\ \E g \in ghost.given : g[1] = mem.indexes[i].table
    /\ ghost.complete \subseteq DOMAIN mem.indexes
    /\ \A x \in ghost.marked : x[1] \in DOMAIN files /\ x[2] \in Rows(x[1])
    /\ \A x \in ghost.gone :
          x[1] \in ghost.complete /\ <<mem.indexes[x[1]].table, x[2]>> \in ghost.marked

Contents ==
    \A i \in DOMAIN mem.indexes : IsThere(mem, mem.indexes[i].table) => IndexFiled(i)

FInv == Inserts /\ Indexings /\ History /\ (~ghost.reused => Contents)

----------------------------------------------------------------------------
(* Rows and bags.                                                          *)

LEMMA RowsAre ==
  ASSUME IInv, NEW t \in DOMAIN files
  PROVE  /\ files[t] \in Seq({"blank", "row", "node"}) /\ Len(files[t]) \in Nat
         /\ \A p : p \in Rows(t) <=> p \in Nat /\ p < Len(files[t]) /\ files[t][p + 1] = "row"
<1>1. files[t] \in Seq({"blank", "row", "node"})
  BY DEF IInv, Statements
<1> QED
  BY <1>1 DEF Rows, IsRow, LastPage

LEMMA RowsNext ==
  ASSUME IInv', NEW t \in DOMAIN files'
  PROVE  /\ files'[t] \in Seq({"blank", "row", "node"}) /\ Len(files'[t]) \in Nat
         /\ \A p : p \in Rows(t)' <=> p \in Nat /\ p < Len(files'[t]) /\ files'[t][p + 1] = "row"
<1>1. files'[t] \in Seq({"blank", "row", "node"})
  BY DEF IInv, Statements
<1> QED
  BY <1>1 DEF Rows, IsRow, LastPage

\* C is B but for x, and a bag.
OthersOf(C, B, x) ==
    /\ IsABag(C)
    /\ \A y : y # x => (y \in DOMAIN C <=> y \in DOMAIN B) /\ (y \in DOMAIN C => C[y] = B[y])

\* One more, or one less, of x.
IsOneMore(C, B, x) ==
    /\ OthersOf(C, B, x) /\ DOMAIN C = DOMAIN B \cup {x}
    /\ C[x] = IF x \in DOMAIN B THEN B[x] + 1 ELSE 1
IsOneLess(C, B, x) ==
    /\ OthersOf(C, B, x) /\ DOMAIN C \subseteq DOMAIN B
    /\ x \in DOMAIN B /\ B[x] = 1 => x \notin DOMAIN C

LEMMA OneMore ==
  ASSUME NEW B, IsABag(B), NEW x
  PROVE  IsOneMore(B (+) SetToBag({x}), B, x)
BY DEF IsOneMore, OthersOf, IsABag, (+), SetToBag

LEMMA OneLess ==
  ASSUME NEW B, IsABag(B), NEW x
  PROVE  IsOneLess(B (-) SetToBag({x}), B, x)
<1> DEFINE C == B (-) SetToBag({x})
<1> DEFINE D == [e \in DOMAIN B |-> IF e \in DOMAIN SetToBag({x}) THEN B[e] - SetToBag({x})[e] ELSE B[e]]
<1>1. C = [e \in {d \in DOMAIN D : D[d] > 0} |-> D[e]]
  BY DEF (-)
<1>2. DOMAIN D = DOMAIN B
  OBVIOUS
<1>3. \A y \in DOMAIN B : B[y] \in Nat /\ B[y] > 0
  BY DEF IsABag
<1>4. \A y \in DOMAIN B : D[y] = IF y = x THEN B[y] - 1 ELSE B[y]
  BY DEF SetToBag
<1> HIDE DEF C, D
<1>5. \A y : y \in DOMAIN C <=> y \in DOMAIN B /\ D[y] > 0
  BY <1>1, <1>2
<1>6. \A y \in DOMAIN C : C[y] = D[y]
  BY <1>1, <1>2
<1>7. IsABag(C)
  <2>1. C = [e \in DOMAIN C |-> C[e]]
    BY <1>1
  <2>2. \A y \in DOMAIN C : C[y] \in {n \in Nat : n > 0}
    BY <1>3, <1>4, <1>5, <1>6
  <2> QED
    BY <2>1, <2>2 DEF IsABag
<1>8. IsOneLess(C, B, x)
  BY <1>3, <1>4, <1>5, <1>6, <1>7 DEF IsOneLess, OthersOf
<1> QED
  BY <1>8 DEF C

LEMMA CountIs ==
  ASSUME NEW i, NEW p, IsABag(contents[i])
  PROVE  /\ Count(i, p) \in Nat
         /\ Count(i, p) = IF <<"value", p>> \in DOMAIN contents[i] THEN contents[i][<<"value", p>>] ELSE 0
BY DEF Count, BagIn, BagToSet, IsABag

LEMMA CountNext ==
  ASSUME NEW i, NEW p, IsABag(contents'[i])
  PROVE  /\ Count(i, p)' \in Nat
         /\ Count(i, p)' = IF <<"value", p>> \in DOMAIN contents'[i] THEN contents'[i][<<"value", p>>] ELSE 0
BY DEF Count, BagIn, BagToSet, IsABag

----------------------------------------------------------------------------
(* What a step that does not concern an index leaves.                      *)

LEMMA IndexKept ==
  ASSUME NEW i, NEW t, t = mem.indexes[i].table, IndexFiled(i), mem'.indexes[i] = mem.indexes[i],
         mem'.schemas[t] = mem.schemas[t], contents'[i] = contents[i], Rows(t)' = Rows(t),
         \A p \in Rows(t) :
            /\ NotFiled(t, p)' <=> NotFiled(t, p)
            /\ Ahead(i, p)' <=> Ahead(i, p)
            /\ WillCome(i, p) => WillCome(i, p)'
            /\ <<i, p>> \in ghost'.overlap <=> <<i, p>> \in ghost.overlap
            /\ <<t, p>> \in ghost.marked => <<t, p>> \in ghost'.marked
            /\ <<i, p>> \in ghost'.gone => <<i, p>> \in ghost.gone
  PROVE  IndexFiled(i)'
<1> USE DEF IndexFiled
<1>1. mem'.indexes[i].table = t /\ mem'.indexes[i].col \in ToSet(mem'.schemas[t])
  OBVIOUS
<1>2. RowKeys(t)' = RowKeys(t)
  BY DEF RowKeys
<1>3. \A p : Count(i, p)' = Count(i, p)
  BY DEF Count
<1>4. IsABag(contents'[i]) /\ DOMAIN contents'[i] \subseteq RowKeys(t)'
  BY <1>2
<1>5. ASSUME NEW p \in Rows(t), <<t, p>> \notin ghost'.marked
      PROVE  Filed(i, p)'
  <2>1. Filed(i, p)
    BY <1>5
  <2>2. NotFiled(mem.indexes[i].table, p)' <=> NotFiled(mem.indexes[i].table, p)
    BY <1>1 DEF NotFiled
  <2>3. Count(i, p)' = Count(i, p)
    BY <1>3
  <2> QED
    BY <2>1, <2>2, <2>3 DEF Filed
<1>6. ASSUME NEW p \in Rows(t), <<i, p>> \in ghost'.gone, <<i, p>> \notin ghost'.overlap
      PROVE  Count(i, p)' = 0
  BY <1>3, <1>6
<1> QED
  BY <1>1, <1>4, <1>5, <1>6

\* The tables that indexes are of, and their columns, are those that were there.
OwnersKept ==
    \A i \in DOMAIN mem.indexes :
       LET t == mem.indexes[i].table
       IN  /\ mem'.indexes[i] = mem.indexes[i]
           /\ IsThere(mem', t) => IsThere(mem, t) /\ mem'.schemas[t] = mem.schemas[t]

\* A step that changes tables only: no row, no index and nothing that is under way.
LEMMA TablesOnly ==
  ASSUME FInv, DOMAIN mem'.indexes = DOMAIN mem.indexes,
         \A i \in DOMAIN mem.indexes : mem'.indexes[i] = mem.indexes[i],
         ~ghost'.reused => ~ghost.reused /\ OwnersKept,
         contents' = contents, indexing' = indexing, inserting' \in SUBSET inserting,
         \A j \in inserting : j.step # "count" => j \in inserting',
         \A t \in DOMAIN files : t \in DOMAIN files' /\ files'[t] = files[t],
         ghost.given \subseteq ghost'.given, ghost'.complete = ghost.complete,
         ghost'.overlap = ghost.overlap, ghost'.marked = ghost.marked, ghost'.gone = ghost.gone
  PROVE  FInv'
<1> USE DEF FInv
<1>1. \A t \in DOMAIN files : Rows(t)' = Rows(t)
  BY DEF Rows, IsRow, LastPage
<1>2. Inserts'
  BY DEF Inserts
<1>3. Indexings'
  BY DEF Indexings
<1>4. History'
  <2>1. ASSUME NEW i \in DOMAIN mem'.indexes
        PROVE  mem'.indexes[i].table \in DOMAIN files' /\ \E g \in ghost'.given : g[1] = mem'.indexes[i].table
    BY DEF History
  <2>2. ghost'.complete \subseteq DOMAIN mem'.indexes
    BY DEF History
  <2>3. ASSUME NEW x \in ghost'.marked
        PROVE  x[1] \in DOMAIN files' /\ x[2] \in Rows(x[1])'
    BY <1>1 DEF History
  <2>4. ASSUME NEW x \in ghost'.gone
        PROVE  x[1] \in ghost'.complete /\ <<mem'.indexes[x[1]].table, x[2]>> \in ghost'.marked
    BY DEF History
  <2> QED
    BY <2>1, <2>2, <2>3, <2>4 DEF History
<1>5. ASSUME ~ghost'.reused
      PROVE  Contents'
  <2>1. SUFFICES ASSUME NEW i \in DOMAIN mem'.indexes, IsThere(mem', mem'.indexes[i].table)
                 PROVE  IndexFiled(i)'
    BY DEF Contents
  <2> DEFINE t == mem.indexes[i].table
  <2>2. /\ i \in DOMAIN mem.indexes /\ mem'.indexes[i] = mem.indexes[i] /\ t \in DOMAIN files
        /\ IsThere(mem, t) /\ mem'.schemas[t] = mem.schemas[t]
    BY <1>5, <2>1 DEF OwnersKept, History
  <2>3. IndexFiled(i)
    BY <1>5, <2>2 DEF Contents
  <2>4. Rows(t)' = Rows(t)
    BY <1>1, <2>2
  <2>5. \A p \in Rows(t) :
            /\ NotFiled(t, p)' <=> NotFiled(t, p)
            /\ Ahead(i, p)' <=> Ahead(i, p)
            /\ WillCome(i, p) => WillCome(i, p)'
    BY DEF NotFiled, Ahead, WillCome
  <2> QED
    BY <2>2, <2>3, <2>4, <2>5, IndexKept
<1> QED
  BY <1>2, <1>3, <1>4, <1>5

----------------------------------------------------------------------------
(* The steps that change tables.                                           *)

\* While ids are new, an index's table is not the one being created.
LEMMA CreateFiled ==
  ASSUME IInv, FInv, NEW name \in TableNames, NEW n \in ColumnCounts, CreateTable(name, n)
  PROVE  FInv'
<1> PICK t : t = mem.nextTable
  OBVIOUS
<1>1. /\ mem'.entries = Emplace(mem.entries, t, NewEntry(name))
      /\ mem'.schemas = Emplace(mem.schemas, t, NewCols(n)) /\ SameIndexes(mem', mem)
  BY CreateEffect
<1>2. /\ files' = Emplace(files, t, <<>>) /\ contents' = contents
      /\ indexing' = indexing /\ inserting' = inserting
      /\ ghost.given \subseteq ghost'.given /\ ghost'.complete = ghost.complete
      /\ ghost'.overlap = ghost.overlap /\ ghost'.marked = ghost.marked /\ ghost'.gone = ghost.gone
      /\ ghost'.reused = (ghost.reused \/ \E g \in ghost.given : g[1] = t)
  BY GhostShape DEF CreateTable
<1>3. mem'.indexes = mem.indexes
  BY <1>1 DEF SameIndexes
<1>4. \A u \in DOMAIN files : u \in DOMAIN files' /\ files'[u] = files[u]
  BY <1>2 DEF Emplace, Put
<1>5. ASSUME ~ghost'.reused
      PROVE  ~ghost.reused /\ OwnersKept
  <2>1. ASSUME NEW i \in DOMAIN mem.indexes, NEW u, u = mem.indexes[i].table, IsThere(mem', u)
        PROVE  IsThere(mem, u) /\ mem'.schemas[u] = mem.schemas[u]
    <3>1. u # t
      BY <1>2, <1>5, <2>1 DEF FInv, History
    <3>2. /\ u \in DOMAIN mem'.entries => u \in DOMAIN mem.entries /\ mem'.entries[u] = mem.entries[u]
          /\ u \in DOMAIN mem'.schemas => u \in DOMAIN mem.schemas /\ mem'.schemas[u] = mem.schemas[u]
      BY <1>1, <3>1 DEF Emplace, Put
    <3> QED
      BY <2>1, <3>2 DEF IsThere
  <2>2. ~ghost.reused
    BY <1>2, <1>5, GhostShape DEF IInv, Shapes
  <2> QED
    BY <1>3, <2>1, <2>2 DEF OwnersKept
<1> QED
  BY <1>2, <1>3, <1>4, <1>5, TablesOnly

LEMMA ReplacedOwners ==
  ASSUME NEW t \in DOMAIN mem.entries, NEW f \in Entry, f.active => mem.entries[t].active,
         EntryReplaced(t, f)
  PROVE  OwnersKept /\ mem'.indexes = mem.indexes
BY DEF OwnersKept, IsThere, EntryReplaced, SameAllocators, SameIndexes

LEMMA DropFiled ==
  ASSUME IInv, FInv, NEW name \in TableNames, DropTable(name)
  PROVE  FInv'
<1>1. OwnersKept /\ mem'.indexes = mem.indexes
  BY DropInv, ReplacedOwners
<1>2. /\ files' = files /\ contents' = contents /\ indexing' = indexing /\ inserting' = inserting
      /\ ghost'.given = ghost.given /\ ghost'.complete = ghost.complete /\ ghost'.reused = ghost.reused
      /\ ghost'.overlap = ghost.overlap /\ ghost'.marked = ghost.marked /\ ghost'.gone = ghost.gone
  BY GhostShape DEF DropTable
<1> QED
  BY <1>1, <1>2, TablesOnly

LEMMA AddRowCountFiled ==
  ASSUME IInv, FInv, NEW j \in inserting, AddRowCount(j)
  PROVE  FInv'
<1>1. OwnersKept /\ mem'.indexes = mem.indexes
  BY AddRowCountInv, ReplacedOwners
<1>2. /\ files' = files /\ contents' = contents /\ indexing' = indexing /\ inserting' = {}
      /\ ghost' = ghost /\ j.step = "count"
  BY DEF AddRowCount
<1>3. \A k \in inserting : k.step = "count"
  BY <1>2 DEF FInv, Inserts
<1> QED
  BY <1>1, <1>2, <1>3, TablesOnly

----------------------------------------------------------------------------
(* CREATE INDEX, page by page.                                             *)

\* The parts that only the statements under way and the history are in.
LEMMA HistoryKept ==
  ASSUME History, mem' = mem, ghost' = ghost, \A t \in DOMAIN files : t \in DOMAIN files' /\ Rows(t)' = Rows(t)
  PROVE  History'
BY DEF History

LEMMA CountPagesFiled ==
  ASSUME IInv, FInv, NEW k \in indexing, CountPages(k)
  PROVE  FInv'
<1> USE DEF FInv
<1>1. /\ k.step = "count" /\ mem' = mem /\ files' = files /\ contents' = contents
      /\ inserting' = inserting /\ ghost' = ghost
      /\ indexing' = IF GetSchema(mem, k.table) = {} THEN {}
                     ELSE {[k EXCEPT !.step = "fill", !.last = LastPage(k.table)]}
  BY DEF CountPages
<1>2. /\ k = [index |-> k.index, table |-> k.table, step |-> k.step, next |-> k.next, last |-> k.last]
      /\ k.index \in DOMAIN mem.indexes \ ghost.complete /\ k.table = mem.indexes[k.index].table
      /\ k.next = 0 /\ k.last \in Nat /\ indexing = {k}
      /\ \A j \in inserting : j.table = k.table => <<k.index, j.page>> \in ghost.overlap
  BY <1>1 DEF Indexings
<1>3. \A t \in DOMAIN files : Rows(t)' = Rows(t)
  BY <1>1 DEF Rows, IsRow, LastPage
<1>4. k.table \in DOMAIN files /\ LastPage(k.table) \in Nat
  BY <1>2, RowsAre DEF History, LastPage
<1>5. Inserts' /\ History'
  BY <1>1, <1>3, HistoryKept DEF Inserts
<1> PICK q : q = [k EXCEPT !.step = "fill", !.last = LastPage(k.table)]
  OBVIOUS
<1>6. /\ q = [index |-> k.index, table |-> k.table, step |-> "fill", next |-> 0, last |-> LastPage(k.table)]
      /\ q.index = k.index /\ q.table = k.table /\ q.step = "fill" /\ q.next = 0
      /\ q.last = LastPage(k.table)
  BY <1>2
<1>7. indexing' \in {{}, {q}}
  BY <1>1
<1>8. Indexings'
  <2>1. ASSUME NEW x \in indexing' PROVE x = q
    BY <1>7
  <2> QED
    BY <1>1, <1>2, <1>4, <1>6, <2>1 DEF Indexings
<1>9. ASSUME ~ghost'.reused
      PROVE  Contents'
  <2>1. SUFFICES ASSUME NEW i \in DOMAIN mem'.indexes, IsThere(mem', mem'.indexes[i].table)
                 PROVE  IndexFiled(i)'
    BY DEF Contents
  <2> PICK t : t = mem.indexes[i].table
    OBVIOUS
  <2>2. IndexFiled(i) /\ t \in DOMAIN files
    BY <1>1, <1>9, <2>1 DEF Contents, History
  <2>3. i = k.index => indexing' = {q}
    BY <1>1, <1>2, <2>1 DEF IsThere, GetSchema
  <2>4. ASSUME NEW p \in Rows(t)
        PROVE  /\ NotFiled(t, p)' <=> NotFiled(t, p)
               /\ Ahead(i, p)' <=> Ahead(i, p)
               /\ WillCome(i, p) => WillCome(i, p)'
    <3>1. NotFiled(t, p)' <=> NotFiled(t, p)
      BY <1>1 DEF NotFiled
    <3>2. p \in Nat /\ p <= LastPage(t)
      BY <2>2, RowsAre DEF LastPage
    <3>3. CASE i = k.index
      <4>1. t = k.table
        BY <1>2, <3>3
      <4>2. Ahead(i, p) /\ Ahead(i, p)' /\ WillCome(i, p)'
        <5>1. Ahead(i, p)
          BY <1>1, <3>3 DEF Ahead
        <5>2. q \in indexing' /\ q.index = i /\ q.next <= p /\ p <= q.last
          BY <1>6, <2>3, <3>2, <3>3, <4>1
        <5> QED
          BY <5>1, <5>2 DEF Ahead, WillCome
      <4> QED
        BY <3>1, <4>2
    <3>4. CASE i # k.index
      <4>1. ~Ahead(i, p) /\ ~Ahead(i, p)' /\ ~WillCome(i, p)
        BY <1>2, <1>6, <1>7, <3>4 DEF Ahead, WillCome
      <4> QED
        BY <3>1, <4>1
    <3> QED
      BY <3>3, <3>4
  <2> QED
    BY <1>1, <1>3, <2>2, <2>4, IndexKept
<1> QED
  BY <1>5, <1>8, <1>9

LEMMA EndFillFiled ==
  ASSUME IInv, FInv, NEW k \in indexing, EndFill(k)
  PROVE  FInv'
<1> USE DEF FInv
<1>1. /\ k.step = "fill" /\ k.next > k.last /\ mem' = mem /\ files' = files /\ contents' = contents
      /\ inserting' = inserting /\ indexing' = {} /\ ghost'.complete = ghost.complete \cup {k.index}
      /\ ghost'.given = ghost.given /\ ghost'.reused = ghost.reused
      /\ ghost'.overlap = ghost.overlap /\ ghost'.marked = ghost.marked /\ ghost'.gone = ghost.gone
  BY GhostShape DEF EndFill
<1>2. /\ k.index \in DOMAIN mem.indexes \ ghost.complete /\ indexing = {k}
      /\ k.next \in Nat /\ k.last \in Nat
      /\ \A j \in inserting : j.table = mem.indexes[k.index].table => <<k.index, j.page>> \in ghost.overlap
  BY DEF Indexings
<1>3. \A t \in DOMAIN files : Rows(t)' = Rows(t)
  BY <1>1 DEF Rows, IsRow, LastPage
<1>4. Inserts' /\ Indexings'
  BY <1>1 DEF Inserts, Indexings
<1>5. History'
  BY <1>1, <1>2, <1>3 DEF History
<1>6. ASSUME ~ghost'.reused
      PROVE  Contents'
  <2>1. SUFFICES ASSUME NEW i \in DOMAIN mem'.indexes, IsThere(mem', mem'.indexes[i].table)
                 PROVE  IndexFiled(i)'
    BY DEF Contents
  <2> PICK t : t = mem.indexes[i].table
    OBVIOUS
  <2>2. IndexFiled(i) /\ t \in DOMAIN files
    BY <1>1, <1>6, <2>1 DEF Contents, History
  <2>3. \A p : NotFiled(t, p)' <=> NotFiled(t, p)
    BY <1>1 DEF NotFiled
  <2>4. \A p : ~Ahead(i, p)' /\ ~WillCome(i, p)'
    BY <1>1 DEF Ahead, WillCome
  <2>5. CASE i # k.index
    <3>1. \A p : ~Ahead(i, p) /\ ~WillCome(i, p)
      BY <1>2, <2>5 DEF Ahead, WillCome
    <3> QED
      BY <1>1, <1>3, <2>2, <2>3, <2>4, <3>1, IndexKept
  <2>6. CASE i = k.index
    <3>1. /\ mem'.indexes[i].table = t /\ mem'.indexes[i].col \in ToSet(mem'.schemas[t])
          /\ IsABag(contents'[i]) /\ DOMAIN contents'[i] \subseteq RowKeys(t)'
      BY <1>1, <1>3, <2>2 DEF IndexFiled, RowKeys
    <3>2. \A p : Count(i, p)' = Count(i, p)
      BY <1>1 DEF Count
    <3>3. ASSUME NEW p \in Rows(t), <<t, p>> \notin ghost'.marked
          PROVE  Filed(i, p)'
      <4>1. Filed(i, p) /\ p \in Nat /\ Count(i, p) \in Nat
        BY <1>1, <2>2, <3>3, RowsAre, CountIs DEF IndexFiled
      <4>2. ~WillCome(i, p)
        BY <1>1, <1>2, <4>1 DEF WillCome
      <4>3. NotFiled(t, p) => <<i, p>> \in ghost.overlap
        BY <1>2, <2>6 DEF NotFiled
      <4>4. IF NotFiled(t, p) THEN Count(i, p) <= 1
            ELSE Count(i, p) \in (IF <<i, p>> \in ghost.overlap THEN {1, 2} ELSE {1})
        BY <4>1, <4>2 DEF Filed
      <4>5. NotFiled(mem.indexes[i].table, p)' <=> NotFiled(t, p)
        BY <1>1 DEF NotFiled
      <4>6. Count(i, p)' = Count(i, p) /\ ~Ahead(i, p)'
        BY <2>4, <3>2
      <4> QED
        BY <1>1, <4>3, <4>4, <4>5, <4>6 DEF Filed
    <3>4. ASSUME NEW p \in Rows(t), <<i, p>> \in ghost'.gone, <<i, p>> \notin ghost'.overlap
          PROVE  Count(i, p)' = 0
      BY <1>1, <2>2, <3>2, <3>4 DEF IndexFiled
    <3> QED
      BY <1>3, <2>2, <3>1, <3>3, <3>4 DEF IndexFiled
  <2> QED
    BY <2>5, <2>6
<1> QED
  BY <1>4, <1>5, <1>6

\* The fill files the page it comes to, if a row is on it.
LEMMA FillPageFiled ==
  ASSUME IInv, FInv, NEW k \in indexing, FillPage(k)
  PROVE  FInv'
<1> USE DEF FInv
<1> PICK n : n = k.next
  OBVIOUS
<1>1. /\ k.step = "fill" /\ n <= k.last /\ mem' = mem /\ files' = files /\ ghost' = ghost
      /\ inserting' = inserting /\ indexing' = {[k EXCEPT !.next = @ + 1]}
      /\ contents' = IF IsRow(k.table, n)
                     THEN [contents EXCEPT ![k.index] = @ (+) SetToBag({<<ScanKey(mem, k.index), n>>})]
                     ELSE contents
  BY DEF FillPage
<1>2. /\ k = [index |-> k.index, table |-> k.table, step |-> k.step, next |-> n, last |-> k.last]
      /\ k.index \in DOMAIN mem.indexes \ ghost.complete /\ k.table = mem.indexes[k.index].table
      /\ n \in Nat /\ k.last \in Nat /\ indexing = {k}
      /\ \A j \in inserting : j.table = k.table => <<k.index, j.page>> \in ghost.overlap
  BY <1>1 DEF Indexings
<1> PICK q : q = [k EXCEPT !.next = @ + 1]
  OBVIOUS
<1>3. /\ q = [index |-> k.index, table |-> k.table, step |-> "fill", next |-> n + 1, last |-> k.last]
      /\ q.index = k.index /\ q.table = k.table /\ q.step = "fill" /\ q.next = n + 1 /\ q.last = k.last
      /\ indexing' = {q}
  BY <1>1, <1>2
<1>4. \A t \in DOMAIN files : Rows(t)' = Rows(t)
  BY <1>1 DEF Rows, IsRow, LastPage
<1>5. Inserts' /\ History'
  BY <1>1, <1>4, HistoryKept DEF Inserts
<1>6. Indexings'
  <2>1. ASSUME NEW x \in indexing' PROVE x = q
    BY <1>3
  <2> QED
    BY <1>1, <1>2, <1>3, <2>1 DEF Indexings
<1>7. DOMAIN contents = DOMAIN mem.indexes
  BY DEF IInv, IndexDefs
<1>8. ASSUME ~ghost'.reused
      PROVE  Contents'
  <2>1. SUFFICES ASSUME NEW i \in DOMAIN mem'.indexes, IsThere(mem', mem'.indexes[i].table)
                 PROVE  IndexFiled(i)'
    BY DEF Contents
  <2> PICK t : t = mem.indexes[i].table
    OBVIOUS
  <2>2. IndexFiled(i) /\ t \in DOMAIN files
    BY <1>1, <1>8, <2>1 DEF Contents, History
  <2>3. \A p : NotFiled(t, p)' <=> NotFiled(t, p)
    BY <1>1 DEF NotFiled
  <2>4. CASE i # k.index
    <3>1. \A p : ~Ahead(i, p) /\ ~WillCome(i, p) /\ ~Ahead(i, p)' /\ ~WillCome(i, p)'
      BY <1>2, <1>3, <2>4 DEF Ahead, WillCome
    <3>2. contents'[i] = contents[i]
      BY <1>1, <2>4
    <3> QED
      BY <1>1, <1>4, <2>2, <2>3, <3>1, <3>2, IndexKept
  <2>5. CASE i = k.index
    <3>1. \A p \in Rows(t) : p \in Nat /\ IsRow(t, p)
      BY <2>2, RowsAre DEF IsRow
    <3>2. /\ mem'.indexes[i].table = t /\ mem'.indexes[i].col \in ToSet(mem'.schemas[t])
          /\ IsABag(contents[i]) /\ DOMAIN contents[i] \subseteq RowKeys(t)
          /\ RowKeys(t)' = RowKeys(t) /\ t = k.table
      BY <1>1, <1>2, <1>4, <2>2, <2>5 DEF IndexFiled, RowKeys
    <3>3. ScanKey(mem, i) = "value"
      BY <1>1, <3>2 DEF ScanKey
    <3>4. /\ IsABag(contents'[i]) /\ DOMAIN contents'[i] \subseteq RowKeys(t)
          /\ \A p \in Rows(t) : Count(i, p)' = IF p = n THEN Count(i, p) + 1 ELSE Count(i, p)
      <4>1. CASE IsRow(t, n)
        <5>1. contents'[i] = contents[i] (+) SetToBag({<<"value", n>>})
          BY <1>1, <1>2, <1>7, <2>5, <3>2, <3>3, <4>1
        <5>2. n \in Rows(t)
          BY <1>2, <2>2, <4>1, RowsAre DEF IsRow
        <5>3. /\ IsABag(contents'[i]) /\ DOMAIN contents'[i] = DOMAIN contents[i] \cup {<<"value", n>>}
              /\ \A y : y # <<"value", n>> =>
                    /\ y \in DOMAIN contents'[i] <=> y \in DOMAIN contents[i]
                    /\ y \in DOMAIN contents'[i] => contents'[i][y] = contents[i][y]
              /\ contents'[i][<<"value", n>>] = IF <<"value", n>> \in DOMAIN contents[i]
                                                THEN contents[i][<<"value", n>>] + 1 ELSE 1
          <6>1. IsOneMore(contents'[i], contents[i], <<"value", n>>)
            BY <3>2, <5>1, OneMore
          <6> QED
            BY <6>1 DEF IsOneMore, OthersOf
        <5>4. DOMAIN contents'[i] \subseteq RowKeys(t)
          BY <3>2, <5>2, <5>3 DEF RowKeys
        <5>5. ASSUME NEW p \in Rows(t)
              PROVE  Count(i, p)' = IF p = n THEN Count(i, p) + 1 ELSE Count(i, p)
          <6>1. Count(i, p) = IF <<"value", p>> \in DOMAIN contents[i] THEN contents[i][<<"value", p>>] ELSE 0
            BY <3>2, CountIs
          <6>2. Count(i, p)' = IF <<"value", p>> \in DOMAIN contents'[i] THEN contents'[i][<<"value", p>>] ELSE 0
            BY <5>3, CountNext
          <6>3. CASE p = n
            BY <5>3, <6>1, <6>2, <6>3
          <6>4. CASE p # n
            <7>1. <<"value", p>> # <<"value", n>>
              BY <6>4
            <7> QED
              BY <5>3, <6>1, <6>2, <6>4, <7>1
          <6> QED
            BY <6>3, <6>4
        <5> QED
          BY <5>3, <5>4, <5>5
      <4>2. CASE ~IsRow(t, n)
        <5>1. contents' = contents
          BY <1>1, <3>2, <4>2
        <5> QED
          BY <3>1, <3>2, <4>2, <5>1 DEF Count
      <4> QED
        BY <4>1, <4>2
    <3>5. ASSUME NEW p \in Rows(t), <<t, p>> \notin ghost'.marked
          PROVE  Filed(i, p)'
      <4>1. Filed(i, p) /\ p \in Nat /\ Count(i, p) \in Nat
        BY <1>1, <2>2, <3>1, <3>2, <3>5, CountIs DEF IndexFiled
      <4>2. Ahead(i, p) <=> n <= p
        BY <1>1, <1>2, <2>5 DEF Ahead
      <4>3. Ahead(i, p)' <=> n + 1 <= p
        BY <1>3, <2>5 DEF Ahead
      <4>4. WillCome(i, p) <=> n <= p /\ p <= k.last
        BY <1>1, <1>2, <2>5 DEF WillCome
      <4>5. WillCome(i, p)' <=> n + 1 <= p /\ p <= k.last
        BY <1>3, <2>5 DEF WillCome
      <4>6. NotFiled(mem.indexes[i].table, p)' <=> NotFiled(t, p)
        BY <1>1 DEF NotFiled
      <4>7. NotFiled(t, p) => <<i, p>> \in ghost.overlap
        BY <1>2, <2>5, <3>2 DEF NotFiled
      <4>8. CASE p = n
        <5>1. Count(i, p)' = Count(i, p) + 1
          BY <3>4, <4>8
        <5>2. /\ Ahead(i, p) /\ ~Ahead(i, p)'
              /\ NotFiled(t, p) => Count(i, p) = 0
              /\ Count(i, p) = 0 \/ (<<i, p>> \in ghost.overlap /\ Count(i, p) <= 1)
          BY <1>2, <4>1, <4>2, <4>3, <4>8 DEF Filed
        <5>3. NotFiled(mem.indexes[i].table, p)' => Count(i, p)' <= 1
          BY <4>6, <5>1, <5>2
        <5> QED
          BY <1>1, <4>1, <4>6, <4>7, <5>1, <5>2, <5>3 DEF Filed
      <4>9. CASE p # n
        <5>1. Count(i, p)' = Count(i, p) /\ (Ahead(i, p)' <=> Ahead(i, p)) /\ (WillCome(i, p)' <=> WillCome(i, p))
          BY <1>2, <3>4, <4>1, <4>2, <4>3, <4>4, <4>5, <4>9
        <5> QED
          BY <1>1, <4>1, <4>6, <5>1 DEF Filed
      <4> QED
        BY <4>8, <4>9
    <3>6. ASSUME NEW p \in Rows(t), <<i, p>> \in ghost'.gone, <<i, p>> \notin ghost'.overlap
          PROVE  Count(i, p)' = 0
      BY <1>1, <1>2, <2>5, <3>6 DEF History
    <3> QED
      BY <1>4, <2>2, <3>2, <3>4, <3>5, <3>6 DEF IndexFiled
  <2> QED
    BY <2>4, <2>5
<1> QED
  BY <1>5, <1>6, <1>8

----------------------------------------------------------------------------
(* INSERT and DELETE.                                                      *)

LEMMA InsertPageFiled ==
  ASSUME IInv, IInv', FInv, NEW u \in DOMAIN files, InsertNewPage(u)
  PROVE  FInv'
<1> USE DEF FInv
<1> PICK n : n = Len(files[u])
  OBVIOUS
<1> PICK j : j = [table |-> u, page |-> n, step |-> "build"]
  OBVIOUS
<1>1. /\ inserting = {} /\ inserting' = {j} /\ files' = [files EXCEPT ![u] = Append(@, "blank")]
      /\ mem' = mem /\ contents' = contents /\ indexing' = indexing
      /\ ghost'.overlap = ghost.overlap \cup {<<k.index, n>> : k \in {x \in indexing : x.table = u}}
      /\ ghost'.given = ghost.given /\ ghost'.reused = ghost.reused
      /\ ghost'.complete = ghost.complete /\ ghost'.marked = ghost.marked /\ ghost'.gone = ghost.gone
  BY GhostShape DEF InsertNewPage
<1>2. files[u] \in Seq({"blank", "row", "node"}) /\ n \in Nat
  BY RowsAre
<1>3. /\ DOMAIN files' = DOMAIN files /\ files'[u] = Append(files[u], "blank")
      /\ \A t \in DOMAIN files \ {u} : files'[t] = files[t]
      /\ Len(files'[u]) = n + 1 /\ files'[u][n + 1] = "blank"
      /\ \A p \in 1 .. n : files'[u][p] = files[u][p]
  BY <1>1, <1>2
<1>4. ASSUME NEW t \in DOMAIN files
      PROVE  Rows(t)' = Rows(t)
  <2>1. CASE t # u
    BY <1>3, <2>1 DEF Rows, IsRow, LastPage
  <2>2. CASE t = u
    <3>1. \A p : p \in Rows(u) <=> p \in Nat /\ p < n /\ files[u][p + 1] = "row"
      BY RowsAre
    <3>2. \A p : p \in Rows(u)' <=> p \in Nat /\ p < n + 1 /\ files'[u][p + 1] = "row"
      BY <1>3, RowsNext
    <3>3. ASSUME NEW p PROVE p \in Rows(u)' <=> p \in Rows(u)
      <4>1. CASE p \in Nat /\ p < n
        BY <1>2, <1>3, <3>1, <3>2, <4>1
      <4>2. CASE ~(p \in Nat /\ p < n)
        BY <1>2, <1>3, <3>1, <3>2, <4>2
      <4> QED
        BY <4>1, <4>2
    <3>4. Rows(u)' = Rows(u)
      BY <3>3
    <3> QED
      BY <2>2, <3>4
  <2> QED
    BY <2>1, <2>2
<1>5. Inserts'
  <2>1. <<u, n>> \notin ghost.marked
    <3>1. n \notin Rows(u)
      BY <1>2, RowsAre
    <3> QED
      BY <3>1 DEF History
  <2> QED
    BY <1>1, <1>2, <1>3, <2>1 DEF Inserts
<1>6. Indexings'
  BY <1>1 DEF Indexings
<1>7. History'
  BY <1>1, <1>3, <1>4 DEF History
<1>8. ASSUME ~ghost'.reused
      PROVE  Contents'
  <2>1. SUFFICES ASSUME NEW i \in DOMAIN mem'.indexes, IsThere(mem', mem'.indexes[i].table)
                 PROVE  IndexFiled(i)'
    BY DEF Contents
  <2> PICK t : t = mem.indexes[i].table
    OBVIOUS
  <2>2. IndexFiled(i) /\ t \in DOMAIN files
    BY <1>1, <1>8, <2>1 DEF Contents, History
  <2>3. ASSUME NEW p \in Rows(t)
        PROVE  /\ NotFiled(t, p)' <=> NotFiled(t, p)
               /\ <<i, p>> \in ghost'.overlap <=> <<i, p>> \in ghost.overlap
    <3>1. t = u => p # n
      BY <1>2, <2>2, RowsAre
    <3>2. ~NotFiled(t, p) /\ ~NotFiled(t, p)'
      BY <1>1, <3>1 DEF NotFiled
    <3>3. \A k \in indexing : k.table = u => <<k.index, n>> # <<i, p>>
      BY <3>1 DEF Indexings
    <3> QED
      BY <1>1, <3>2, <3>3
  <2>4. \A p : (Ahead(i, p)' <=> Ahead(i, p)) /\ (WillCome(i, p)' <=> WillCome(i, p))
    BY <1>1 DEF Ahead, WillCome
  <2> QED
    BY <1>1, <1>4, <2>2, <2>3, <2>4, IndexKept
<1> QED
  BY <1>5, <1>6, <1>7, <1>8

LEMMA InsertBuildFiled ==
  ASSUME IInv, IInv', FInv, NEW j \in inserting, InsertBuild(j)
  PROVE  FInv'
<1> USE DEF FInv
<1> PICK u, n : u = j.table /\ n = j.page
  OBVIOUS
<1> PICK q : q = [j EXCEPT !.step = "index"]
  OBVIOUS
<1>1. /\ j.step = "build" /\ inserting' = {q} /\ files' = [files EXCEPT ![u][n + 1] = "row"]
      /\ mem' = mem /\ contents' = contents /\ indexing' = indexing /\ ghost' = ghost
  BY DEF InsertBuild
<1>2. /\ j = [table |-> u, page |-> n, step |-> "build"] /\ inserting = {j}
      /\ u \in DOMAIN files /\ n \in Nat /\ n < Len(files[u]) /\ files[u][n + 1] = "blank"
      /\ <<u, n>> \notin ghost.marked
  BY <1>1 DEF Inserts
<1>3. q = [table |-> u, page |-> n, step |-> "index"] /\ q.table = u /\ q.page = n /\ q.step = "index"
  BY <1>2
<1>4. files[u] \in Seq({"blank", "row", "node"}) /\ Len(files[u]) \in Nat
  BY <1>2, RowsAre
<1>5. /\ DOMAIN files' = DOMAIN files /\ \A t \in DOMAIN files \ {u} : files'[t] = files[t]
      /\ Len(files'[u]) = Len(files[u]) /\ files'[u][n + 1] = "row"
      /\ \A p \in 1 .. Len(files[u]) : p # n + 1 => files'[u][p] = files[u][p]
  <2>1. files'[u] = [files[u] EXCEPT ![n + 1] = "row"]
    BY <1>1, <1>2
  <2> QED
    BY <1>1, <1>2, <1>4, <2>1
<1>6. ASSUME NEW t \in DOMAIN files
      PROVE  Rows(t)' = IF t = u THEN Rows(u) \cup {n} ELSE Rows(t)
  <2>1. CASE t # u
    BY <1>5, <2>1 DEF Rows, IsRow, LastPage
  <2>2. CASE t = u
    <3>1. \A p : p \in Rows(u) <=> p \in Nat /\ p < Len(files[u]) /\ files[u][p + 1] = "row"
      BY <1>2, RowsAre
    <3>2. \A p : p \in Rows(u)' <=> p \in Nat /\ p < Len(files[u]) /\ files'[u][p + 1] = "row"
      BY <1>2, <1>5, RowsNext
    <3>3. ASSUME NEW p PROVE p \in Rows(u)' <=> p \in Rows(u) \/ p = n
      <4>1. CASE p \in Nat /\ p < Len(files[u]) /\ p # n
        <5>1. p + 1 \in 1 .. Len(files[u]) /\ p + 1 # n + 1
          BY <1>2, <1>4, <4>1
        <5>2. files'[u][p + 1] = files[u][p + 1]
          BY <1>5, <5>1
        <5> QED
          BY <3>1, <3>2, <4>1, <5>2
      <4>2. CASE p = n
        BY <1>2, <1>5, <3>2, <4>2
      <4> QED
        BY <3>1, <3>2, <4>1, <4>2
    <3> QED
      BY <2>2, <3>3
  <2> QED
    BY <2>1, <2>2
<1>7. n \notin Rows(u)
  BY <1>2, RowsAre
<1>8. Inserts'
  BY <1>1, <1>2, <1>3, <1>5 DEF Inserts
<1>9. Indexings'
  BY <1>1, <1>2, <1>3 DEF Indexings
<1>10. History'
  BY <1>1, <1>5, <1>6 DEF History
<1>11. ASSUME ~ghost'.reused
       PROVE  Contents'
  <2>1. SUFFICES ASSUME NEW i \in DOMAIN mem'.indexes, IsThere(mem', mem'.indexes[i].table)
                 PROVE  IndexFiled(i)'
    BY DEF Contents
  <2> PICK t : t = mem.indexes[i].table
    OBVIOUS
  <2>2. IndexFiled(i) /\ t \in DOMAIN files
    BY <1>1, <1>11, <2>1 DEF Contents, History
  <2>3. \A p : (Ahead(i, p)' <=> Ahead(i, p)) /\ (WillCome(i, p)' <=> WillCome(i, p))
    BY <1>1 DEF Ahead, WillCome
  <2>4. \A p : NotFiled(t, p)' <=> NotFiled(t, p)
    BY <1>1, <1>2, <1>3 DEF NotFiled
  <2>5. CASE t # u
    BY <1>1, <1>6, <2>2, <2>3, <2>4, <2>5, IndexKept
  <2>6. CASE t = u
    <3>1. /\ mem'.indexes[i].table = t /\ mem'.indexes[i].col \in ToSet(mem'.schemas[t])
          /\ IsABag(contents'[i]) /\ DOMAIN contents'[i] \subseteq RowKeys(t)'
          /\ <<"value", n>> \notin DOMAIN contents[i]
      BY <1>1, <1>6, <1>7, <2>2, <2>6 DEF IndexFiled, RowKeys
    <3>2. \A p : Count(i, p)' = Count(i, p)
      BY <1>1 DEF Count
    <3>3. Count(i, n) = 0
      BY <3>1 DEF Count, BagIn, BagToSet
    <3>4. ASSUME NEW p \in Rows(t) \cup {n}, <<t, p>> \notin ghost'.marked
          PROVE  Filed(i, p)'
      <4>1. NotFiled(mem.indexes[i].table, p)' <=> NotFiled(t, p)
        BY <1>1, <2>4 DEF NotFiled
      <4>2. Count(i, p)' = Count(i, p) /\ (Ahead(i, p)' <=> Ahead(i, p)) /\ (WillCome(i, p)' <=> WillCome(i, p))
        BY <2>3, <3>2
      <4>3. CASE p = n
        <5>1. NotFiled(t, n) /\ Count(i, n)' = 0
          BY <1>2, <2>6, <3>2, <3>3 DEF NotFiled
        <5> QED
          BY <4>1, <4>3, <5>1 DEF Filed
      <4>4. CASE p # n
        <5>1. Filed(i, p)
          BY <1>1, <2>2, <3>4, <4>4 DEF IndexFiled
        <5> QED
          BY <1>1, <4>1, <4>2, <5>1 DEF Filed
      <4> QED
        BY <4>3, <4>4
    <3>5. ASSUME NEW p \in Rows(t) \cup {n}, <<i, p>> \in ghost'.gone, <<i, p>> \notin ghost'.overlap
          PROVE  Count(i, p)' = 0
      BY <1>1, <2>2, <3>2, <3>3, <3>5 DEF IndexFiled
    <3>6. Rows(t)' = Rows(t) \cup {n}
      BY <1>6, <2>2, <2>6
    <3> QED
      BY <3>1, <3>4, <3>5, <3>6 DEF IndexFiled
  <2> QED
    BY <2>5, <2>6
<1> QED
  BY <1>8, <1>9, <1>10, <1>11

\* The row enters every index of its table once; one that is being filled, or was
\* when the INSERT began, overlaps with it.
LEMMA MaintainFiled ==
  ASSUME IInv, FInv, NEW j \in inserting, MaintainIndexInsert(j)
  PROVE  FInv'
<1> USE DEF FInv
<1> PICK u, n : u = j.table /\ n = j.page
  OBVIOUS
<1> PICK q : q = [j EXCEPT !.step = "count"]
  OBVIOUS
<1>1. /\ j.step = "index" /\ inserting' = {q} /\ files' = files
      /\ mem' = mem /\ indexing' = indexing /\ ghost' = ghost
      /\ contents' = [i \in DOMAIN contents |->
                        IF i \in TableIndexes(mem, u)
                        THEN contents[i] (+) SetToBag({<<RowKey(mem, i), n>>}) ELSE contents[i]]
  BY DEF MaintainIndexInsert
<1>2. /\ j = [table |-> u, page |-> n, step |-> "index"] /\ inserting = {j}
      /\ u \in DOMAIN files /\ n \in Nat /\ n < Len(files[u]) /\ files[u][n + 1] = "row"
      /\ <<u, n>> \notin ghost.marked
  BY <1>1 DEF Inserts
<1>3. q = [table |-> u, page |-> n, step |-> "count"] /\ q.table = u /\ q.page = n /\ q.step = "count"
  BY <1>2
<1>4. \A t \in DOMAIN files : Rows(t)' = Rows(t)
  BY <1>1 DEF Rows, IsRow, LastPage
<1>5. n \in Rows(u)
  BY <1>2, RowsAre
<1>6. Inserts'
  BY <1>1, <1>2, <1>3 DEF Inserts
<1>7. Indexings'
  BY <1>1, <1>2, <1>3 DEF Indexings
<1>8. History'
  BY <1>1, <1>4, HistoryKept
<1>9. DOMAIN contents = DOMAIN mem.indexes
  BY DEF IInv, IndexDefs
<1>10. ASSUME ~ghost'.reused
       PROVE  Contents'
  <2>1. SUFFICES ASSUME NEW i \in DOMAIN mem'.indexes, IsThere(mem', mem'.indexes[i].table)
                 PROVE  IndexFiled(i)'
    BY DEF Contents
  <2> PICK t : t = mem.indexes[i].table
    OBVIOUS
  <2>2. IndexFiled(i) /\ t \in DOMAIN files /\ i \in DOMAIN mem.indexes
    BY <1>1, <1>10, <2>1 DEF Contents, History
  <2>3. \A p : (Ahead(i, p)' <=> Ahead(i, p)) /\ (WillCome(i, p)' <=> WillCome(i, p))
    BY <1>1 DEF Ahead, WillCome
  <2>4. \A p : /\ NotFiled(t, p) <=> t = u /\ p = n
               /\ ~NotFiled(t, p)'
    BY <1>1, <1>2, <1>3 DEF NotFiled
  <2>5. i \in TableIndexes(mem, u) <=> t = u
    BY <2>2 DEF TableIndexes
  <2>6. CASE t # u
    <3>1. contents'[i] = contents[i]
      BY <1>1, <1>9, <2>2, <2>5, <2>6
    <3>2. \A p : NotFiled(t, p)' <=> NotFiled(t, p)
      BY <2>4, <2>6
    <3> QED
      BY <1>1, <1>4, <2>2, <2>3, <3>1, <3>2, IndexKept
  <2>7. CASE t = u
    <3>1. /\ mem'.indexes[i].table = t /\ mem'.indexes[i].col \in ToSet(mem'.schemas[t])
          /\ IsABag(contents[i]) /\ DOMAIN contents[i] \subseteq RowKeys(t)
          /\ RowKeys(t)' = RowKeys(t)
      BY <1>1, <1>4, <2>2 DEF IndexFiled, RowKeys
    <3>2. RowKey(mem, i) = "value"
      BY <1>1, <3>1 DEF RowKey
    <3>3. contents'[i] = contents[i] (+) SetToBag({<<"value", n>>})
      BY <1>1, <1>9, <2>2, <2>5, <2>7, <3>2
    <3>4. IsOneMore(contents'[i], contents[i], <<"value", n>>)
      BY <3>1, <3>3, OneMore
    <3>5. IsABag(contents'[i]) /\ DOMAIN contents'[i] \subseteq RowKeys(t)
      BY <1>5, <2>7, <3>1, <3>4 DEF IsOneMore, OthersOf, RowKeys
    <3>6. ASSUME NEW p
          PROVE  Count(i, p)' = IF p = n THEN Count(i, p) + 1 ELSE Count(i, p)
      <4>1. Count(i, p) = IF <<"value", p>> \in DOMAIN contents[i] THEN contents[i][<<"value", p>>] ELSE 0
        BY <3>1, CountIs
      <4>2. Count(i, p)' = IF <<"value", p>> \in DOMAIN contents'[i] THEN contents'[i][<<"value", p>>] ELSE 0
        BY <3>5, CountNext
      <4>3. CASE p = n
        BY <3>4, <4>1, <4>2, <4>3 DEF IsOneMore
      <4>4. CASE p # n
        <5>1. <<"value", p>> # <<"value", n>>
          BY <4>4
        <5> QED
          BY <3>4, <4>1, <4>2, <4>4, <5>1 DEF IsOneMore, OthersOf
      <4> QED
        BY <4>3, <4>4
    <3>7. ASSUME NEW p \in Rows(t), <<t, p>> \notin ghost'.marked
          PROVE  Filed(i, p)'
      <4>1. Filed(i, p) /\ Count(i, p) \in Nat
        BY <1>1, <2>2, <3>1, <3>7, CountIs DEF IndexFiled
      <4>2. ~NotFiled(mem.indexes[i].table, p)'
        BY <1>1, <2>4 DEF NotFiled
      <4>3. CASE p = n
        <5>1. Count(i, p)' = Count(i, p) + 1
          BY <3>6, <4>3
        <5>2. NotFiled(t, p)
          BY <2>4, <2>7, <4>3
        <5>3. Count(i, p) <= IF <<i, p>> \in ghost.overlap /\ ~Ahead(i, p) THEN 1 ELSE 0
          BY <4>1, <5>2 DEF Filed
        <5>4. Ahead(i, p) => <<i, p>> \in ghost.overlap
          BY <1>2, <2>7, <4>3 DEF Ahead, Indexings
        <5> QED
          BY <1>1, <2>3, <4>1, <4>2, <5>1, <5>3, <5>4 DEF Filed
      <4>4. CASE p # n
        <5>1. Count(i, p)' = Count(i, p) /\ ~NotFiled(t, p)
          BY <2>4, <3>6, <4>4
        <5> QED
          BY <1>1, <2>3, <4>1, <4>2, <5>1 DEF Filed
      <4> QED
        BY <4>3, <4>4
    <3>8. ASSUME NEW p \in Rows(t), <<i, p>> \in ghost'.gone, <<i, p>> \notin ghost'.overlap
          PROVE  Count(i, p)' = 0
      <4>1. p # n
        BY <1>1, <1>2, <2>7, <3>8 DEF History
      <4> QED
        BY <1>1, <2>2, <3>6, <3>8, <4>1 DEF IndexFiled
    <3> QED
      BY <1>4, <2>2, <3>1, <3>5, <3>7, <3>8 DEF IndexFiled
  <2> QED
    BY <2>6, <2>7
<1> QED
  BY <1>6, <1>7, <1>8, <1>10

\* A complete index holds a finished row once, and loses it.
LEMMA DeleteFiled ==
  ASSUME IInv, FInv, NEW u \in DOMAIN files, NEW n \in Rows(u), DeleteRow(u, n)
  PROVE  FInv'
<1> USE DEF FInv
<1>1. /\ inserting' = inserting /\ files' = files /\ mem' = mem /\ indexing' = indexing
      /\ <<u, n>> \notin ghost.marked
      /\ \A j \in inserting : <<j.table, j.page>> # <<u, n>>
      /\ contents' = [i \in DOMAIN contents |->
                        IF i \in TableIndexes(mem, u)
                        THEN contents[i] (-) SetToBag({<<RowKey(mem, i), n>>}) ELSE contents[i]]
      /\ ghost'.marked = ghost.marked \cup {<<u, n>>}
      /\ ghost'.gone = ghost.gone \cup {<<i, n>> : i \in TableIndexes(mem, u) \cap ghost.complete}
      /\ ghost'.given = ghost.given /\ ghost'.reused = ghost.reused
      /\ ghost'.overlap = ghost.overlap /\ ghost'.complete = ghost.complete
  BY GhostShape DEF DeleteRow
<1>2. \A t \in DOMAIN files : Rows(t)' = Rows(t)
  BY <1>1 DEF Rows, IsRow, LastPage
<1>3. Inserts'
  BY <1>1 DEF Inserts
<1>4. Indexings'
  BY <1>1 DEF Indexings
<1>5. History'
  <2>1. ASSUME NEW x \in ghost'.marked
        PROVE  x[1] \in DOMAIN files' /\ x[2] \in Rows(x[1])'
    <3>1. CASE x \in ghost.marked
      BY <1>1, <1>2, <3>1 DEF History
    <3>2. CASE x = <<u, n>>
      BY <1>1, <1>2, <3>2
    <3> QED
      BY <1>1, <3>1, <3>2
  <2>2. ASSUME NEW x \in ghost'.gone
        PROVE  x[1] \in ghost'.complete /\ <<mem'.indexes[x[1]].table, x[2]>> \in ghost'.marked
    <3>1. CASE x \in ghost.gone
      BY <1>1, <3>1 DEF History
    <3>2. ASSUME NEW i \in TableIndexes(mem, u) \cap ghost.complete, x = <<i, n>>
          PROVE  x[1] \in ghost'.complete /\ <<mem'.indexes[x[1]].table, x[2]>> \in ghost'.marked
      BY <1>1, <3>2 DEF TableIndexes
    <3> QED
      BY <1>1, <3>1, <3>2
  <2> QED
    BY <1>1, <2>1, <2>2 DEF History
<1>6. DOMAIN contents = DOMAIN mem.indexes
  BY DEF IInv, IndexDefs
<1>7. ASSUME ~ghost'.reused
      PROVE  Contents'
  <2>1. SUFFICES ASSUME NEW i \in DOMAIN mem'.indexes, IsThere(mem', mem'.indexes[i].table)
                 PROVE  IndexFiled(i)'
    BY DEF Contents
  <2> PICK t : t = mem.indexes[i].table
    OBVIOUS
  <2>2. IndexFiled(i) /\ t \in DOMAIN files /\ i \in DOMAIN mem.indexes
    BY <1>1, <1>7, <2>1 DEF Contents, History
  <2>3. \A p : (Ahead(i, p)' <=> Ahead(i, p)) /\ (WillCome(i, p)' <=> WillCome(i, p))
    BY <1>1 DEF Ahead, WillCome
  <2>4. \A p : NotFiled(t, p)' <=> NotFiled(t, p)
    BY <1>1 DEF NotFiled
  <2>5. i \in TableIndexes(mem, u) <=> t = u
    BY <2>2 DEF TableIndexes
  <2>6. CASE t # u
    <3>1. contents'[i] = contents[i]
      BY <1>1, <1>6, <2>2, <2>5, <2>6
    <3>2. \A p : <<i, p>> \in ghost'.gone => <<i, p>> \in ghost.gone
      BY <1>1, <2>5, <2>6
    <3> QED
      BY <1>1, <1>2, <2>2, <2>3, <2>4, <3>1, <3>2, IndexKept
  <2>7. CASE t = u
    <3>1. /\ mem'.indexes[i].table = t /\ mem'.indexes[i].col \in ToSet(mem'.schemas[t])
          /\ IsABag(contents[i]) /\ DOMAIN contents[i] \subseteq RowKeys(t)
          /\ RowKeys(t)' = RowKeys(t)
      BY <1>1, <1>2, <2>2 DEF IndexFiled, RowKeys
    <3>2. RowKey(mem, i) = "value"
      BY <1>1, <3>1 DEF RowKey
    <3>3. contents'[i] = contents[i] (-) SetToBag({<<"value", n>>})
      BY <1>1, <1>6, <2>2, <2>5, <2>7, <3>2
    <3>4. IsOneLess(contents'[i], contents[i], <<"value", n>>)
      BY <3>1, <3>3, OneLess
    <3>5. IsABag(contents'[i]) /\ DOMAIN contents'[i] \subseteq RowKeys(t)
      BY <3>1, <3>4 DEF IsOneLess, OthersOf
    <3>6. ASSUME NEW p
          PROVE  /\ p # n => Count(i, p)' = Count(i, p)
                 /\ p = n /\ Count(i, n) \in {0, 1} => Count(i, n)' = 0
      <4>1. Count(i, p) = IF <<"value", p>> \in DOMAIN contents[i] THEN contents[i][<<"value", p>>] ELSE 0
        BY <3>1, CountIs
      <4>2. Count(i, p)' = IF <<"value", p>> \in DOMAIN contents'[i] THEN contents'[i][<<"value", p>>] ELSE 0
        BY <3>5, CountNext
      <4>3. CASE p = n
        <5>1. <<"value", p>> \in DOMAIN contents[i] => contents[i][<<"value", p>>] > 0
          BY <3>1 DEF IsABag
        <5> QED
          BY <3>4, <4>1, <4>2, <4>3, <5>1 DEF IsOneLess
      <4>4. CASE p # n
        <5>1. <<"value", p>> # <<"value", n>>
          BY <4>4
        <5> QED
          BY <3>4, <4>1, <4>2, <4>4, <5>1 DEF IsOneLess, OthersOf
      <4> QED
        BY <4>3, <4>4
    <3>7. ASSUME NEW p \in Rows(t), <<t, p>> \notin ghost'.marked
          PROVE  Filed(i, p)'
      <4>1. p # n /\ <<t, p>> \notin ghost.marked
        BY <1>1, <2>7, <3>7
      <4>2. Filed(i, p)
        BY <2>2, <4>1 DEF IndexFiled
      <4>3. NotFiled(mem.indexes[i].table, p)' <=> NotFiled(t, p)
        BY <1>1, <2>4 DEF NotFiled
      <4>4. Count(i, p)' = Count(i, p)
        BY <3>6, <4>1
      <4> QED
        BY <1>1, <2>3, <4>2, <4>3, <4>4 DEF Filed
    <3>8. ASSUME NEW p \in Rows(t), <<i, p>> \in ghost'.gone, <<i, p>> \notin ghost'.overlap
          PROVE  Count(i, p)' = 0
      <4>1. CASE p # n
        <5>1. <<i, p>> \in ghost.gone
          BY <1>1, <3>8, <4>1
        <5> QED
          BY <1>1, <2>2, <3>6, <3>8, <4>1, <5>1 DEF IndexFiled
      <4>2. CASE p = n
        <5>1. <<i, n>> \notin ghost.gone
          BY <1>1, <2>7 DEF History
        <5>2. i \in ghost.complete
          BY <1>1, <3>8, <4>2, <5>1
        <5>3. ~Ahead(i, n) /\ ~NotFiled(t, n)
          BY <1>1, <2>7, <5>2 DEF Ahead, NotFiled, Indexings
        <5>4. Filed(i, n)
          BY <1>1, <2>2, <2>7 DEF IndexFiled
        <5>5. Count(i, n) = 1
          BY <1>1, <3>8, <4>2, <5>3, <5>4 DEF Filed
        <5> QED
          BY <3>6, <4>2, <5>5
      <4> QED
        BY <4>1, <4>2
    <3> QED
      BY <1>2, <2>2, <3>1, <3>5, <3>7, <3>8 DEF IndexFiled
  <2> QED
    BY <2>6, <2>7
<1> QED
  BY <1>3, <1>4, <1>5, <1>7

----------------------------------------------------------------------------
(* A new index, and the columns it can be on.                              *)

\* A table that is there has a first column.
Columns == \A t \in DOMAIN mem.entries : IsThere(mem, t) => 1 \in DOMAIN mem.schemas[t]

LEMMA RegisterFiled ==
  ASSUME IInv, IInv', FInv, ~ghost.reused => Columns,
         NEW name \in IndexNames, NEW u \in DOMAIN files, NEW disk \in BOOLEAN,
         RegisterIndex(name, u, disk)
  PROVE  FInv' /\ (~ghost'.reused => Columns')
<1> USE DEF FInv
<1> PICK n : n = mem.nextIndex
  OBVIOUS
<1> PICK k : k = [index |-> n, table |-> u, step |-> "count", next |-> 0, last |-> 0]
  OBVIOUS
<1>1. /\ indexing = {} /\ indexing' = {k} /\ inserting' = inserting
      /\ contents' = Put(contents, n, EmptyBag)
      /\ files' = IF disk THEN [files EXCEPT ![u] = Append(@, "node")] ELSE files
      /\ ghost'.overlap = ghost.overlap \cup {<<n, j.page>> : j \in {x \in inserting : x.table = u}}
      /\ ghost'.given = ghost.given /\ ghost'.reused = ghost.reused
      /\ ghost'.complete = ghost.complete /\ ghost'.marked = ghost.marked /\ ghost'.gone = ghost.gone
  BY GhostShape DEF RegisterIndex
<1>2. PICK cols \in GetSchema(mem, u) :
         mem'.indexes = Emplace(mem.indexes, n, [name |-> name, table |-> u, col |-> Head(cols), disk |-> disk])
  BY RegisterEffect
<1>3. mem'.entries = mem.entries /\ mem'.schemas = mem.schemas
  BY RegisterEffect DEF SameTables
<1>4. IsThere(mem, u) /\ cols = mem.schemas[u]
  BY <1>2 DEF GetSchema, IsThere
<1>5. n \notin DOMAIN mem.indexes /\ DOMAIN contents = DOMAIN mem.indexes
  BY DEF IInv, IndexDefs
<1>6. /\ DOMAIN mem'.indexes = DOMAIN mem.indexes \cup {n}
      /\ mem'.indexes[n].table = u /\ mem'.indexes[n].col = Head(cols)
      /\ \A i \in DOMAIN mem.indexes : mem'.indexes[i] = mem.indexes[i]
  BY <1>2, <1>5 DEF Emplace, Put
<1>7. contents'[n] = EmptyBag /\ \A i \in DOMAIN mem.indexes : contents'[i] = contents[i]
  BY <1>1, <1>5 DEF Put
<1>8. files[u] \in Seq({"blank", "row", "node"}) /\ Len(files[u]) \in Nat
  BY RowsAre
<1>9. /\ DOMAIN files' = DOMAIN files /\ \A t \in DOMAIN files \ {u} : files'[t] = files[t]
      /\ \A p \in 1 .. Len(files[u]) : files'[u][p] = files[u][p]
      /\ \/ Len(files'[u]) = Len(files[u])
         \/ Len(files'[u]) = Len(files[u]) + 1 /\ files'[u][Len(files[u]) + 1] = "node"
  BY <1>1, <1>8
<1>10. ASSUME NEW t \in DOMAIN files
       PROVE  Rows(t)' = Rows(t)
  <2>1. CASE t # u
    BY <1>9, <2>1 DEF Rows, IsRow, LastPage
  <2>2. CASE t = u
    <3>1. \A p : p \in Rows(u) <=> p \in Nat /\ p < Len(files[u]) /\ files[u][p + 1] = "row"
      BY RowsAre
    <3>2. \A p : p \in Rows(u)' <=> p \in Nat /\ p < Len(files'[u]) /\ files'[u][p + 1] = "row"
      BY <1>9, RowsNext
    <3>3. ASSUME NEW p PROVE p \in Rows(u)' <=> p \in Rows(u)
      <4>1. CASE p \in Nat /\ p < Len(files[u])
        BY <1>8, <1>9, <3>1, <3>2, <4>1
      <4>2. CASE ~(p \in Nat /\ p < Len(files[u]))
        BY <1>8, <1>9, <3>1, <3>2, <4>2
      <4> QED
        BY <4>1, <4>2
    <3>4. Rows(u)' = Rows(u)
      BY <3>3
    <3> QED
      BY <2>2, <3>4
  <2> QED
    BY <2>1, <2>2
<1>11. Inserts'
  <2>1. ASSUME NEW j \in inserting
        PROVE  /\ j.table \in DOMAIN files' /\ j.page < Len(files'[j.table])
               /\ files'[j.table][j.page + 1] = files[j.table][j.page + 1]
    <3>1. j.table \in DOMAIN files /\ j.page \in Nat /\ j.page < Len(files[j.table])
      BY DEF Inserts
    <3>2. CASE j.table # u
      BY <1>9, <3>1, <3>2
    <3>3. CASE j.table = u
      <4>1. j.page + 1 \in 1 .. Len(files[u])
        BY <1>8, <3>1, <3>3
      <4> QED
        BY <1>8, <1>9, <3>1, <3>3, <4>1
    <3> QED
      BY <3>2, <3>3
  <2> QED
    BY <1>1, <2>1 DEF Inserts
<1>12. ghost.complete \subseteq DOMAIN mem.indexes
  BY DEF History
<1>13. Indexings'
  <2>1. k.index = n /\ k.table = u /\ k.step = "count" /\ k.next = 0 /\ k.last = 0
    OBVIOUS
  <2>2. \A j \in inserting : j.table = u => <<n, j.page>> \in ghost'.overlap
    BY <1>1
  <2> QED
    BY <1>1, <1>5, <1>6, <1>12, <2>1, <2>2 DEF Indexings
<1>14. History'
  <2>1. ASSUME NEW i \in DOMAIN mem'.indexes
        PROVE  mem'.indexes[i].table \in DOMAIN files' /\ \E g \in ghost'.given : g[1] = mem'.indexes[i].table
    <3>1. CASE i \in DOMAIN mem.indexes
      BY <1>1, <1>6, <1>9, <3>1 DEF History
    <3>2. CASE i = n
      <4>1. <<u, mem.entries[u].schema>> \in ghost.given
        BY <1>4 DEF IsThere, IInv, MemOfPages
      <4> QED
        BY <1>1, <1>6, <1>9, <3>2, <4>1
    <3> QED
      BY <1>6, <3>1, <3>2
  <2>2. ghost'.complete \subseteq DOMAIN mem'.indexes
    BY <1>1, <1>6, <1>12
  <2>3. \A x \in ghost'.marked : x[1] \in DOMAIN files' /\ x[2] \in Rows(x[1])'
    BY <1>1, <1>9, <1>10 DEF History
  <2>4. \A x \in ghost'.gone :
            x[1] \in ghost'.complete /\ <<mem'.indexes[x[1]].table, x[2]>> \in ghost'.marked
    BY <1>1, <1>6, <1>12 DEF History
  <2> QED
    BY <2>1, <2>2, <2>3, <2>4 DEF History
<1>15. ASSUME ~ghost'.reused
       PROVE  Contents'
  <2>1. SUFFICES ASSUME NEW i \in DOMAIN mem'.indexes, IsThere(mem', mem'.indexes[i].table)
                 PROVE  IndexFiled(i)'
    BY DEF Contents
  <2>2. CASE i # n
    <3> PICK t : t = mem.indexes[i].table
      OBVIOUS
    <3>1. i \in DOMAIN mem.indexes /\ mem'.indexes[i] = mem.indexes[i] /\ contents'[i] = contents[i]
      BY <1>6, <1>7, <2>2
    <3>2. IndexFiled(i) /\ t \in DOMAIN files
      BY <1>1, <1>3, <1>15, <2>1, <3>1 DEF Contents, History, IsThere
    <3>3. \A p : /\ ~Ahead(i, p) /\ ~Ahead(i, p)' /\ ~WillCome(i, p)
                 /\ NotFiled(t, p)' <=> NotFiled(t, p)
      BY <1>1, <2>2 DEF Ahead, WillCome, NotFiled
    <3>4. \A p : <<i, p>> \in ghost'.overlap <=> <<i, p>> \in ghost.overlap
      BY <1>1, <2>2
    <3> QED
      BY <1>1, <1>3, <1>10, <3>1, <3>2, <3>3, <3>4, IndexKept
  <2>3. CASE i = n
    <3>1. Head(cols) \in ToSet(mem'.schemas[u])
      <4>1. 1 \in DOMAIN cols
        BY <1>1, <1>4, <1>15 DEF Columns, IsThere
      <4> QED
        BY <1>3, <1>4, <4>1 DEF ToSet
    <3>2. IsABag(contents'[n]) /\ DOMAIN contents'[n] = {}
      BY <1>7 DEF EmptyBag, SetToBag, IsABag
    <3>3. \A p : Count(n, p)' = 0
      BY <3>2 DEF Count, BagIn, BagToSet
    <3>4. \A p : Ahead(n, p)' /\ WillCome(n, p)'
      BY <1>1 DEF Ahead, WillCome
    <3>5. \A p : Filed(n, p)'
      BY <3>3, <3>4 DEF Filed
    <3> QED
      BY <1>6, <2>3, <3>1, <3>2, <3>3, <3>5 DEF IndexFiled
  <2> QED
    BY <2>2, <2>3
<1>16. ASSUME ~ghost'.reused
       PROVE  Columns'
  BY <1>1, <1>3, <1>16 DEF Columns, IsThere
<1> QED
  BY <1>11, <1>13, <1>14, <1>15, <1>16

----------------------------------------------------------------------------
(* A restart.                                                              *)

\* A rebuilt index holds each row of the file once.
LEMMA RebuiltFiled ==
  ASSUME NEW i, NEW t, t = mem'.indexes[i].table, t \in DOMAIN mem'.schemas,
         mem'.indexes[i].col \in ToSet(mem'.schemas[t]), Rows(t)' = Rows(t),
         contents'[i] = RebuildIndex(mem', i), inserting' = {}, indexing' = {},
         \A p : <<i, p>> \notin ghost'.overlap /\ <<i, p>> \notin ghost'.gone
  PROVE  IndexFiled(i)'
<1>1. ScanKey(mem', i) = "value"
  BY DEF ScanKey
<1>2. contents'[i] = SetToBag(RowKeys(t))
  BY <1>1 DEF RebuildIndex, RowKeys
<1>3. IsABag(contents'[i]) /\ DOMAIN contents'[i] = RowKeys(t) /\ RowKeys(t)' = RowKeys(t)
  BY <1>2 DEF SetToBag, IsABag, RowKeys
<1>4. \A p \in Rows(t) : Count(i, p)' = 1
  BY <1>2, <1>3 DEF Count, BagIn, BagToSet, SetToBag, RowKeys
<1>5. \A p : ~Ahead(i, p)' /\ ~NotFiled(mem.indexes[i].table, p)'
  BY DEF Ahead, NotFiled
<1>6. \A p \in Rows(t) : Filed(i, p)'
  BY <1>4, <1>5 DEF Filed
<1> QED
  BY <1>3, <1>6 DEF IndexFiled

LEMMA RestartFiled ==
  ASSUME IInv, FInv, ~ghost.reused => Columns, Restart
  PROVE  FInv' /\ (~ghost'.reused => Columns')
<1> USE DEF FInv
<1> PICK m : m = LoadFromDisk(pages)
  OBVIOUS
<1> PICK rebuilt : rebuilt = {i \in DOMAIN m.indexes : ~m.indexes[i].disk}
  OBVIOUS
<1>1. /\ inserting = {} /\ inserting' = {} /\ indexing = {} /\ indexing' = {} /\ files' = files /\ mem' = m
      /\ contents' = [i \in DOMAIN m.indexes |-> IF i \in rebuilt THEN RebuildIndex(m, i) ELSE contents[i]]
      /\ ghost'.complete = ghost.complete \cup {i \in rebuilt : m.indexes[i].table \in DOMAIN m.schemas}
      /\ ghost'.gone = {g \in ghost.gone : g[1] \notin rebuilt}
      /\ ghost'.overlap = {o \in ghost.overlap : o[1] \notin rebuilt}
      /\ ghost'.given = ghost.given /\ ghost'.reused = ghost.reused /\ ghost'.marked = ghost.marked
  BY GhostShape DEF Restart
<1>2. m.indexes = mem.indexes
  BY LoadAllocators
<1>3. \A t \in DOMAIN files : Rows(t)' = Rows(t)
  BY <1>1 DEF Rows, IsRow, LastPage
<1>4. Inserts' /\ Indexings'
  BY <1>1 DEF Inserts, Indexings
<1>5. History'
  <2>1. \A i \in DOMAIN mem'.indexes :
            mem'.indexes[i].table \in DOMAIN files' /\ \E g \in ghost'.given : g[1] = mem'.indexes[i].table
    BY <1>1, <1>2 DEF History
  <2>2. ghost'.complete \subseteq DOMAIN mem'.indexes
    BY <1>1, <1>2 DEF History
  <2>3. \A x \in ghost'.marked : x[1] \in DOMAIN files' /\ x[2] \in Rows(x[1])'
    BY <1>1, <1>3 DEF History
  <2>4. \A x \in ghost'.gone :
            x[1] \in ghost'.complete /\ <<mem'.indexes[x[1]].table, x[2]>> \in ghost'.marked
    BY <1>1, <1>2 DEF History
  <2> QED
    BY <2>1, <2>2, <2>3, <2>4 DEF History
<1>6. ASSUME ~ghost'.reused
      PROVE  /\ DOMAIN m.entries = DOMAIN mem.entries
             /\ \A t \in DOMAIN m.entries : m.entries[t].active =>
                   IsThere(mem, t) /\ m.schemas[t] = mem.schemas[t]
  <2>1. Exact
    BY <1>1, <1>6 DEF IInv
  <2>2. /\ DOMAIN m.entries = DOMAIN mem.entries
        /\ \A t \in DOMAIN mem.entries : m.entries[t] = mem.entries[t]
        /\ \A t \in DOMAIN mem.entries : mem.entries[t].active => m.schemas[t] = mem.schemas[t]
    BY <2>1, LoadExact
  <2> QED
    BY <2>2 DEF IInv, MemOfPages, IsThere
<1>7. ASSUME ~ghost'.reused
      PROVE  Contents'
  <2>1. SUFFICES ASSUME NEW i \in DOMAIN mem'.indexes, IsThere(mem', mem'.indexes[i].table)
                 PROVE  IndexFiled(i)'
    BY DEF Contents
  <2> PICK t : t = mem.indexes[i].table
    OBVIOUS
  <2>2. /\ i \in DOMAIN mem.indexes /\ IsThere(mem, t) /\ m.schemas[t] = mem.schemas[t]
        /\ t \in DOMAIN m.schemas /\ t \in DOMAIN files
    BY <1>1, <1>2, <1>6, <1>7, <2>1 DEF IsThere, History
  <2>3. IndexFiled(i)
    BY <1>1, <1>7, <2>2 DEF Contents
  <2>4. CASE i \in rebuilt
    <3>1. contents'[i] = RebuildIndex(mem', i)
      BY <1>1, <1>2, <2>2, <2>4
    <3>2. \A p : <<i, p>> \notin ghost'.overlap /\ <<i, p>> \notin ghost'.gone
      BY <1>1, <2>4
    <3>3. t = mem'.indexes[i].table /\ mem'.indexes[i].col \in ToSet(mem'.schemas[t])
      BY <1>1, <1>2, <2>2, <2>3 DEF IndexFiled
    <3> QED
      BY <1>1, <1>3, <2>2, <3>1, <3>2, <3>3, RebuiltFiled
  <2>5. CASE i \notin rebuilt
    <3>1. contents'[i] = contents[i]
      BY <1>1, <1>2, <2>2, <2>5
    <3>2. \A p : /\ NotFiled(t, p)' <=> NotFiled(t, p)
                 /\ Ahead(i, p)' <=> Ahead(i, p)
                 /\ WillCome(i, p) => WillCome(i, p)'
      BY <1>1 DEF NotFiled, Ahead, WillCome
    <3>3. \A p : /\ <<i, p>> \in ghost'.overlap <=> <<i, p>> \in ghost.overlap
                 /\ <<i, p>> \in ghost'.gone => <<i, p>> \in ghost.gone
      BY <1>1, <2>5
    <3> QED
      BY <1>1, <1>2, <1>3, <2>2, <2>3, <3>1, <3>2, <3>3, IndexKept
  <2> QED
    BY <2>4, <2>5
<1>8. ASSUME ~ghost'.reused
      PROVE  Columns'
  BY <1>1, <1>6, <1>8 DEF Columns, IsThere
<1> QED
  BY <1>4, <1>5, <1>7, <1>8

----------------------------------------------------------------------------
(* The invariant and the property.                                         *)

FilingInv == FInv /\ (~ghost.reused => Columns)

LEMMA InitFiled ==
  ASSUME Init
  PROVE  FInv /\ (~ghost.reused => Columns)
<1>1. /\ inserting = {} /\ indexing = {} /\ mem.indexes = Empty /\ mem.entries = Empty
      /\ ghost.complete = {} /\ ghost.marked = {} /\ ghost.gone = {}
  BY DEF Init, Blank
<1>2. DOMAIN mem.indexes = {} /\ DOMAIN mem.entries = {}
  BY <1>1 DEF Empty
<1> QED
  BY <1>1, <1>2 DEF FInv, Inserts, Indexings, History, Contents, Columns

\* The steps that build no table and leave the entries of memory as they are.
LEMMA ColumnsKept ==
  ASSUME ~ghost.reused => Columns, ghost'.reused = ghost.reused,
         mem'.schemas = mem.schemas, DOMAIN mem'.entries = DOMAIN mem.entries,
         \A t \in DOMAIN mem.entries : mem'.entries[t].active => mem.entries[t].active
  PROVE  ~ghost'.reused => Columns'
BY DEF Columns, IsThere

LEMMA CreateColumns ==
  ASSUME IInv, ~ghost.reused => Columns,
         NEW name \in TableNames, NEW n \in ColumnCounts, CreateTable(name, n)
  PROVE  ~ghost'.reused => Columns'
<1> PICK t : t = mem.nextTable
  OBVIOUS
<1>1. /\ mem'.entries = Emplace(mem.entries, t, NewEntry(name))
      /\ mem'.schemas = Emplace(mem.schemas, t, NewCols(n))
  BY CreateEffect
<1>2. ghost'.reused = (ghost.reused \/ \E g \in ghost.given : g[1] = t)
  BY GhostShape DEF CreateTable
<1>3. n \in Nat \ {0} /\ 1 \in DOMAIN NewCols(n)
  <2>1. n \in Nat \ {0}
    BY CatalogAssumption
  <2> QED
    BY <2>1 DEF NewCols, BuildInitialSchema
<1>4. ASSUME ~ghost'.reused
      PROVE  Columns'
  <2>1. t \notin DOMAIN mem.entries /\ t \notin DOMAIN mem.schemas
    BY <1>2, <1>4 DEF IInv, MemOfPages
  <2>2. ~ghost.reused
    BY <1>2, <1>4 DEF IInv, Shapes
  <2>3. ASSUME NEW u \in DOMAIN mem'.entries, IsThere(mem', u)
        PROVE  1 \in DOMAIN mem'.schemas[u]
    <3>1. CASE u = t
      BY <1>1, <1>3, <2>1, <3>1 DEF Emplace, Put
    <3>2. CASE u # t
      BY <1>1, <2>1, <2>2, <2>3, <3>2 DEF Emplace, Put, Columns, IsThere
    <3> QED
      BY <3>1, <3>2
  <2> QED
    BY <2>3 DEF Columns
<1> QED
  BY <1>4

LEMMA NextFiled ==
  ASSUME IInv, IInv', FInv, ~ghost.reused => Columns, [Next]_vars
  PROVE  FInv' /\ (~ghost'.reused => Columns')
<1>1. ASSUME NEW name \in TableNames, NEW n \in ColumnCounts, CreateTable(name, n)
      PROVE  FInv' /\ (~ghost'.reused => Columns')
  BY <1>1, CreateFiled, CreateColumns
<1>2. ASSUME NEW t \in DOMAIN mem.entries, NEW f \in Entry, f.active => mem.entries[t].active,
             EntryReplaced(t, f), ghost'.reused = ghost.reused
      PROVE  ~ghost'.reused => Columns'
  <2>1. /\ mem'.schemas = mem.schemas /\ DOMAIN mem'.entries = DOMAIN mem.entries
        /\ \A u \in DOMAIN mem.entries : mem'.entries[u].active => mem.entries[u].active
    BY <1>2 DEF EntryReplaced, SameAllocators
  <2> QED
    BY <1>2, <2>1, ColumnsKept
<1>3. ASSUME NEW name \in TableNames, DropTable(name)
      PROVE  FInv' /\ (~ghost'.reused => Columns')
  <2>1. ghost'.reused = ghost.reused
    BY <1>3, GhostShape DEF DropTable
  <2> QED
    BY <1>2, <1>3, <2>1, DropFiled, DropInv
<1>4. ASSUME NEW name \in IndexNames, NEW t \in DOMAIN files, NEW disk \in BOOLEAN,
             RegisterIndex(name, t, disk)
      PROVE  FInv' /\ (~ghost'.reused => Columns')
  BY <1>4, RegisterFiled
<1>5. ASSUME mem' = mem, ghost'.reused = ghost.reused
      PROVE  ~ghost'.reused => Columns'
  BY <1>5, ColumnsKept
<1>6. ASSUME NEW k \in indexing, CountPages(k) \/ FillPage(k) \/ EndFill(k)
      PROVE  FInv' /\ (~ghost'.reused => Columns')
  <2>1. mem' = mem /\ ghost'.reused = ghost.reused
    BY <1>6, GhostShape DEF CountPages, FillPage, EndFill
  <2> QED
    BY <1>5, <1>6, <2>1, CountPagesFiled, FillPageFiled, EndFillFiled
<1>7. ASSUME NEW t \in DOMAIN files, InsertNewPage(t)
      PROVE  FInv' /\ (~ghost'.reused => Columns')
  <2>1. mem' = mem /\ ghost'.reused = ghost.reused
    BY <1>7, GhostShape DEF InsertNewPage
  <2> QED
    BY <1>5, <1>7, <2>1, InsertPageFiled
<1>8. ASSUME NEW j \in inserting, InsertBuild(j) \/ MaintainIndexInsert(j)
      PROVE  FInv' /\ (~ghost'.reused => Columns')
  <2>1. mem' = mem /\ ghost'.reused = ghost.reused
    BY <1>8 DEF InsertBuild, MaintainIndexInsert
  <2> QED
    BY <1>5, <1>8, <2>1, InsertBuildFiled, MaintainFiled
<1>9. ASSUME NEW j \in inserting, AddRowCount(j)
      PROVE  FInv' /\ (~ghost'.reused => Columns')
  <2>1. ghost'.reused = ghost.reused
    BY <1>9 DEF AddRowCount
  <2> QED
    BY <1>2, <1>9, <2>1, AddRowCountFiled, AddRowCountInv
<1>10. ASSUME NEW t \in DOMAIN files, NEW p \in Rows(t), DeleteRow(t, p)
       PROVE  FInv' /\ (~ghost'.reused => Columns')
  <2>1. mem' = mem /\ ghost'.reused = ghost.reused
    BY <1>10, GhostShape DEF DeleteRow
  <2> QED
    BY <1>5, <1>10, <2>1, DeleteFiled
<1>11. CASE Restart
  BY <1>11, RestartFiled
<1>12. CASE UNCHANGED vars
  <2>1. FInv'
    BY <1>12, TablesOnly DEF vars, OwnersKept
  <2> QED
    BY <1>5, <1>12, <2>1 DEF vars
<1> QED
  BY <1>1, <1>3, <1>4, <1>6, <1>7, <1>8, <1>9, <1>10, <1>11, <1>12 DEF Next

\* Each index holds each row as often as the statements that concern the two have
\* filed it so far, in every interleaving of CREATE INDEX, INSERT, DELETE and DROP.
THEOREM FilingInvariant == Spec => []FilingInv
<1>1. Init => FilingInv
  BY InitFiled DEF FilingInv
<1>2. IInv /\ IInv' /\ FilingInv /\ [Next]_vars => FilingInv'
  BY NextFiled DEF FilingInv
<1> QED
  BY <1>1, <1>2, CatalogInvariant, PTL DEF Spec

\* Each row never deleted is in every complete index of its table once its INSERT
\* has ended, once, or twice when INSERT and CREATE INDEX overlapped; and a complete
\* index from which a row was deleted holds it no more until it is rebuilt.
THEOREM IndexesExact == Spec => []IndexExact
<1>1. FilingInv => IndexExact
  <2> SUFFICES ASSUME FilingInv, ~ghost.reused, NEW i \in ghost.complete \cap DOMAIN mem.indexes,
                      NEW t, t = mem.indexes[i].table, GetSchema(mem, t) # {}
               PROVE  /\ BagToSet(contents[i]) \subseteq {<<"value", p>> : p \in Rows(t)}
                      /\ \A p \in Rows(t) :
                           /\ (Done(t, p) /\ <<t, p>> \notin ghost.marked) =>
                                 Count(i, p) \in (IF <<i, p>> \in ghost.overlap THEN {1, 2} ELSE {1})
                           /\ (<<i, p>> \in ghost.gone /\ <<i, p>> \notin ghost.overlap) => Count(i, p) = 0
    BY DEF IndexExact
  <2>1. IsThere(mem, t)
    BY DEF GetSchema, IsThere
  <2>2. IndexFiled(i)
    BY <2>1 DEF FilingInv, FInv, Contents
  <2>3. \A p : ~Ahead(i, p)
    BY DEF FilingInv, FInv, Indexings, Ahead
  <2>4. \A p : Done(t, p) => ~NotFiled(t, p)
    BY DEF Done, NotFiled
  <2> QED
    BY <2>2, <2>3, <2>4 DEF IndexFiled, Filed, RowKeys, BagToSet
<1> QED
  BY <1>1, FilingInvariant, PTL

=============================================================================
