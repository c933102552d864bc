----------------------------- MODULE Operators -----------------------------
(***************************************************************************)
(* The physical operators, pulled by ExecuteQuery: each gives the chunks   *)
(* of its stream, or throws.                                               *)
(*                                                                         *)
(* A plan is a record: the operator k, its children kids and its           *)
(* parameters.  Init runs when the query is opened (Opened captures what   *)
(* the scans capture there), Next runs afterwards, against the pages and   *)
(* the visibility of that later moment (Run).                              *)
(*                                                                         *)
(* env: pages, the pages of every table; hidden, the RIDs whose version    *)
(* the transaction may not see (VersionStore::IsVisible, which module Mvcc *)
(* models); index, the indexes by name.                                    *)
(***************************************************************************)
EXTENDS MemIndexes

CONSTANTS
  Tables,
  Schemas,     \* the columns of each table
  RunRows      \* K_RUN_ROWS: rows of a run of the external sort

ASSUME OperatorsAssumption == RunRows \in Nat \ {0} /\ Tables = DOMAIN Schemas

NoIndex == "none"
NoExpr == [op |-> "none"]
NoKey == <<>>

-----------------------------------------------------------------------------
(* Plans.                                                                  *)

SeqScan(table) == [k |-> "SeqScan", kids |-> <<>>, table |-> table, last |-> 0]

\* PhysicalIndexScan, PhysicalBitmapScan: a point lookup of lo, or a range.
IndexScan(k, table, index, range, lo, hi, pred) ==
  [k |-> k, kids |-> <<>>, table |-> table, index |-> index, range |-> range,
   lo |-> lo, hi |-> hi, pred |-> pred, used |-> FALSE, rids |-> <<>>, last |-> 0]

IndexOnlyScan(table, index, cols) ==
  [k |-> "IndexOnlyScan", kids |-> <<>>, table |-> table, index |-> index, cols |-> cols,
   used |-> FALSE, last |-> 0]

Filter(child, pred) == [k |-> "Filter", kids |-> <<child>>, pred |-> pred]
Project(child, cols) == [k |-> "Project", kids |-> <<child>>, cols |-> cols]
LimitTo(child, start, size) == [k |-> "Limit", kids |-> <<child>>, start |-> start, size |-> size]
Distinct(child, cols) == [k |-> "Distinct", kids |-> <<child>>, cols |-> cols]

\* k: InMemorySort, TopN or ExternalSort; keys: column ids with their direction.
Sort(k, child, keys, n) == [k |-> k, kids |-> <<child>>, keys |-> keys, n |-> n]

\* k: NestedLoopJoin, HashJoin, MergeJoin or IndexNLJoin.
Join(k, left, right, lkeys, rkeys) ==
  [k |-> k, kids |-> <<left, right>>, lkeys |-> lkeys, rkeys |-> rkeys]

\* k: HashAggregate or StreamAggregate.
Aggregate(k, child, group, agg, fn) ==
  [k |-> k, kids |-> <<child>>, group |-> group, agg |-> agg, fn |-> fn]

-----------------------------------------------------------------------------
(* Streams.                                                                *)

Failed == [ok |-> FALSE, chunks |-> <<>>]
Stream(chunks) == [ok |-> TRUE, chunks |-> SelectSeq(chunks, LAMBDA c : c.rows # <<>>)]
One(ids, types, rows) == Stream(<<Chunk(ids, types, rows)>>)

Resolves(c, cols) == \A i \in DOMAIN cols : HasCol(c, cols[i])
Places(c, cols) == [i \in DOMAIN cols |-> ColAt(c, cols[i])]
AllValid(row) == [i \in DOMAIN row |-> Valid(row[i])]

-----------------------------------------------------------------------------
(* Scans.                                                                  *)

\* The data pages a TableScanIterator gives, up to the last page of its Init.
TableScan(p, env) ==
  LET upto == SubSeq(env.pages[p.table], 1, p.last)
  IN  Concat([n \in DOMAIN upto |->
                IF ~ IsDataPage(upto[n]) THEN <<>>
                ELSE <<[page |-> n - 1, chunk |-> FillChunkFromPage(upto[n], Schemas[p.table])]>>])

VisibleRows(scanned, hidden) ==
  LET rows == scanned.chunk.rows
      seen == SelectSeq([i \in DOMAIN rows |-> i],
                        LAMBDA i : <<scanned.page, i - 1>> \notin hidden)
  IN  [scanned.chunk EXCEPT !.rows = [j \in DOMAIN seen |-> rows[seen[j]]]]

SeqScanNext(p, env) ==
  LET scanned == TableScan(p, env)
  IN  Stream([i \in DOMAIN scanned |-> VisibleRows(scanned[i], env.hidden)])

FilterNext(chunks, pred) ==
  LET kept(c) == [c EXCEPT !.rows = SelectSeq(@, LAMBDA row : EvalPredicate(pred, c, row))]
  IN  IF \E i \in DOMAIN chunks : Refused(pred, chunks[i]) THEN Failed
      ELSE Stream([i \in DOMAIN chunks |-> kept(chunks[i])])

Bound(p, env) == p.index \in DOMAIN env.index

\* The RIDs an index gives at Init; those of rows the snapshot sees are fetched
\* at Next, as one chunk.
LookUp(p, env) ==
  LET ix == env.index[p.index].ix
  IN  IF p.range THEN IndexRange(ix, p.lo, p.hi) ELSE IndexFind(ix, p.lo)

\* Mutant of FetchVisible: the lookup trusts the index.
FetchAll(p, env) ==
  SelectSeq(p.rids, LAMBDA rid : HasRow(env.pages[p.table], rid))

FetchVisible(p, env) ==
  SelectSeq(p.rids, LAMBDA rid : rid \notin env.hidden /\ HasRow(env.pages[p.table], rid))

\* Without its index the scan reads every row of the table, seen or not.
IndexScanNext(p, env) ==
  LET schema == Schemas[p.table]
      rids == FetchVisible(p, env)
      rows == [i \in DOMAIN rids |-> FetchRow(env.pages[p.table], schema, rids[i])]
      scanned == TableScan(p, env)
      chunks == [i \in DOMAIN scanned |-> scanned[i].chunk]
  IN  IF p.used THEN One(Ids(schema), Types(schema), rows)
      ELSE IF p.pred = NoExpr THEN Stream(chunks)
      ELSE FilterNext(chunks, p.pred)

ProjectNext(chunks, cols) ==
  LET projected(c) ==
        LET at == Places(c, cols)
        IN  Chunk(cols, [i \in DOMAIN at |-> c.types[at[i]]],
                  [r \in DOMAIN c.rows |-> CopyRowProjected(c.rows[r], at)])
  IN  IF \E i \in DOMAIN chunks : ~ Resolves(chunks[i], cols) THEN Failed
      ELSE Stream([i \in DOMAIN chunks |-> projected(chunks[i])])

\* Covering columns straight from the keys, where a null is 0 or "".
IndexOnlyScanNext(p, env) ==
  LET info == env.index[p.index]
      cols == IF p.cols = <<>> THEN info.cols ELSE p.cols
      schema == Schemas[p.table]
      entries == SelectSeq(IndexScanAll(info.ix), LAMBDA e : e[2] \notin env.hidden)
      at == [i \in DOMAIN cols |-> SelectInSeq(info.cols, LAMBDA c : c = cols[i])]
      cell(v) == IF v.is_str THEN Text(v.str) ELSE Number(v.num)
      types == [i \in DOMAIN cols |-> schema[SelectInSeq(schema, LAMBDA c : c.id = cols[i])].type]
      scanned == TableScan(p, env)
      chunks == [i \in DOMAIN scanned |-> scanned[i].chunk]
  IN  IF ~ p.used THEN IF p.cols = <<>> THEN Stream(chunks) ELSE ProjectNext(chunks, p.cols)
      ELSE IF \E i \in DOMAIN at : at[i] = 0 THEN Failed
      ELSE One(cols, types, [r \in DOMAIN entries |->
                               [i \in DOMAIN at |-> cell(entries[r][1][at[i]])]])

-----------------------------------------------------------------------------
(* Limit and Distinct.                                                     *)

\* Mutant of LimitNext: the window is applied to every chunk by itself.
LimitNextPerChunk(chunks, start, size) ==
  Stream([i \in DOMAIN chunks |->
            [chunks[i] EXCEPT !.rows = SubSeq(@, start + 1, Min({Len(@), start + size}))]])

\* seen_ and emitted_ run on from chunk to chunk.
LimitNext(chunks, start, size) ==
  LET seen(i) == Len(AllRows(SubSeq(chunks, 1, i - 1)))
      low(i) == IF start > seen(i) THEN start - seen(i) ELSE 0
  IN  Stream([i \in DOMAIN chunks |->
                [chunks[i] EXCEPT !.rows =
                   SubSeq(@, low(i) + 1, Min({Len(@), start + size - seen(i)}))]])

\* Columns that do not resolve are passed over; if none is left, all count.
DistinctNext(chunks, cols) ==
  LET all == AllRows(chunks)
      at == Places(chunks[1], SelectSeq(cols, LAMBDA id : HasCol(chunks[1], id)))
      key == [g \in DOMAIN all |-> RowKey(all[g], at)]
      offset(i) == Len(AllRows(SubSeq(chunks, 1, i - 1)))
      firsts(i) == SelectSeq([r \in DOMAIN chunks[i].rows |-> offset(i) + r],
                             LAMBDA g : \A h \in 1 .. g - 1 : key[h] # key[g])
  IN  Stream([i \in DOMAIN chunks |->
                [chunks[i] EXCEPT !.rows = [q \in DOMAIN firsts(i) |-> all[firsts(i)[q]]]]])

-----------------------------------------------------------------------------
(* Sorts.  Cells are copied without their validity (SortCell).             *)

CellLess(x, y) == x.num < y.num \/ (x.num = y.num /\ StrLess(x.str, y.str))

\* MakeComparator; keys: places and directions.
RowLess(a, b, keys) ==
  \E n \in DOMAIN keys :
    /\ \A i \in 1 .. n - 1 : a[keys[i].at] = b[keys[i].at]
    /\ IF keys[n].desc THEN CellLess(b[keys[n].at], a[keys[n].at])
       ELSE CellLess(a[keys[n].at], b[keys[n].at])

\* std::sort leaves ties in any order, this one among them.
SortRows(rows, keys) == SortSeq(rows, LAMBDA a, b : RowLess(a, b, keys))

\* The smallest head, of the first run that has it.
RECURSIVE MergeRuns(_, _)
MergeRuns(runs, keys) ==
  LET live == {i \in DOMAIN runs : runs[i] # <<>>}
      best == CHOOSE i \in live :
                \A j \in live : /\ ~ RowLess(runs[j][1], runs[i][1], keys)
                                /\ j < i => RowLess(runs[i][1], runs[j][1], keys)
  IN  IF live = {} THEN <<>>
      ELSE <<runs[best][1]>> \o MergeRuns([runs EXCEPT ![best] = Tail(@)], keys)

\* Mutant of Runs: the rows after the last full run are not written out.
RunsFull(rows) ==
  [i \in 1 .. Len(rows) \div RunRows |-> SubSeq(rows, (i - 1) * RunRows + 1, i * RunRows)]

Runs(rows) ==
  [i \in 1 .. (Len(rows) + RunRows - 1) \div RunRows |->
     SubSeq(rows, (i - 1) * RunRows + 1, Min({i * RunRows, Len(rows)}))]

SortNext(k, chunks, sortKeys, n) ==
  LET first == chunks[1]
      rows == LET all == AllRows(chunks) IN [r \in DOMAIN all |-> AllValid(all[r])]
      keys == [i \in DOMAIN sortKeys |->
                 [at |-> ColAt(first, sortKeys[i].id), desc |-> sortKeys[i].desc]]
      sorted == SortRows(rows, keys)
      runs == Runs(rows)
      merged == MergeRuns([i \in DOMAIN runs |-> SortRows(runs[i], keys)], keys)
  IN  IF chunks = <<>> THEN Stream(<<>>)
      ELSE IF \E i \in DOMAIN sortKeys : ~ HasCol(first, sortKeys[i].id) THEN Failed
      ELSE IF k = "ExternalSort" /\ \E c \in DOMAIN first.types : IsVarlen(first.types[c]) THEN Failed
      ELSE One(first.ids, first.types,
               IF k = "TopN" THEN SubSeq(sorted, 1, Min({n, Len(sorted)}))
               ELSE IF k = "ExternalSort" THEN merged ELSE sorted)

-----------------------------------------------------------------------------
(* Joins: both sides are drained into rows of doubles (JoinUtil).          *)

Refuses(chunks, keys) ==
  /\ chunks # <<>>
  /\ ~ Resolves(chunks[1], keys) \/ \E c \in DOMAIN chunks[1].types : IsVarlen(chunks[1].types[c])

Materialize(chunks, keys) ==
  IF chunks = <<>> THEN [ids |-> <<>>, types |-> <<>>, key |-> <<>>, rows |-> <<>>]
  ELSE [ids |-> chunks[1].ids, types |-> chunks[1].types, key |-> Places(chunks[1], keys),
        rows |-> AllRows(chunks)]

KeyVals(row, key) == [i \in DOMAIN key |-> row[key[i]].num]

Positions(rows) == [i \in DOMAIN rows |-> i]

\* The pairs <<left row, right row>> that match, in the order they are emitted.
NestedLoopMatches(left, right) ==
  Concat([l \in DOMAIN left.rows |->
    LET hits == SelectSeq(Positions(right.rows), LAMBDA r :
                  KeyVals(left.rows[l], left.key) = KeyVals(right.rows[r], right.key))
    IN  [i \in DOMAIN hits |-> <<l, hits[i]>>]])

HashMatches(build, probe) ==
  Concat([p \in DOMAIN probe.rows |->
    LET hits == SelectSeq(Positions(build.rows), LAMBDA b :
                  KeyVals(build.rows[b], build.key) = KeyVals(probe.rows[p], probe.key))
    IN  [i \in DOMAIN hits |-> <<hits[i], p>>]])

\* A HashIndex over the left keys is looked up for every right row.
IndexMatches(left, right) ==
  LET key(row, at) == [i \in DOMAIN at |-> NumComponent(row[at[i]].num)]
      index == FoldLeft(LAMBDA map, l : MapInsert(map, key(left.rows[l], left.key), l),
                        EmptyMap, Positions(left.rows))
  IN  Concat([r \in DOMAIN right.rows |->
        LET hits == MapFind(index, key(right.rows[r], right.key))
        IN  [i \in DOMAIN hits |-> <<hits[i], r>>]])

NumsLess(v, w) == \E n \in DOMAIN v : SubSeq(v, 1, n - 1) = SubSeq(w, 1, n - 1) /\ v[n] < w[n]

SortedByKey(side) ==
  [side EXCEPT !.rows = SortSeq(@, LAMBDA a, b : NumsLess(KeyVals(a, side.key), KeyVals(b, side.key)))]

\* Mutant of MergeFrom: of a block of equal keys only the first left row is paired.
RECURSIVE MergeFromFirst(_, _, _, _)
MergeFromFirst(left, right, i, j) ==
  LET l == KeyVals(left.rows[i], left.key)
      r == KeyVals(right.rows[j], right.key)
      js == {b \in DOMAIN right.rows : KeyVals(right.rows[b], right.key) = l}
  IN  IF i > Len(left.rows) \/ j > Len(right.rows) THEN <<>>
      ELSE IF NumsLess(l, r) THEN MergeFromFirst(left, right, i + 1, j)
      ELSE IF NumsLess(r, l) THEN MergeFromFirst(left, right, i, j + 1)
      ELSE [b \in 1 .. Cardinality(js) |-> <<i, j + b - 1>>]
           \o MergeFromFirst(left, right, i + 1, j + Cardinality(js))

\* Both sides sorted: two cursors, and the product of blocks with equal keys.
RECURSIVE MergeFrom(_, _, _, _)
MergeFrom(left, right, i, j) ==
  LET l == KeyVals(left.rows[i], left.key)
      r == KeyVals(right.rows[j], right.key)
      ie == Cardinality({a \in DOMAIN left.rows : KeyVals(left.rows[a], left.key) = r})
      je == Cardinality({b \in DOMAIN right.rows : KeyVals(right.rows[b], right.key) = l})
  IN  IF i > Len(left.rows) \/ j > Len(right.rows) THEN <<>>
      ELSE IF NumsLess(l, r) THEN MergeFrom(left, right, i + 1, j)
      ELSE IF NumsLess(r, l) THEN MergeFrom(left, right, i, j + 1)
      ELSE Concat([a \in 1 .. ie |-> [b \in 1 .. je |-> <<i + a - 1, j + b - 1>>]])
           \o MergeFrom(left, right, i + ie, j + je)

\* EmitJoined: left columns, then right columns; every cell comes out valid.
EmitJoined(k, left, right) ==
  LET matches == CASE k = "NestedLoopJoin" -> NestedLoopMatches(left, right)
                   [] k = "HashJoin" -> HashMatches(left, right)
                   [] k = "IndexNLJoin" -> IndexMatches(left, right)
                   [] k = "MergeJoin" -> MergeFrom(left, right, 1, 1)
  IN  One(left.ids \o right.ids, left.types \o right.types,
          [m \in DOMAIN matches |->
             AllValid(left.rows[matches[m][1]] \o right.rows[matches[m][2]])])

JoinNext(p, lchunks, rchunks) ==
  LET side(chunks, keys) == IF p.k = "MergeJoin" THEN SortedByKey(Materialize(chunks, keys))
                            ELSE Materialize(chunks, keys)
  IN  IF Refuses(lchunks, p.lkeys) \/ Refuses(rchunks, p.rkeys) THEN Failed
      ELSE EmitJoined(p.k, side(lchunks, p.lkeys), side(rchunks, p.rkeys))

-----------------------------------------------------------------------------
(* Aggregates.                                                             *)

\* AggregateState over the numbers of a group; an average is in sixtieths.
Result(fn, nums) ==
  LET total == FoldLeft(LAMBDA a, b : a + b, 0, nums)
  IN  CASE fn = "COUNT" -> Len(nums)
        [] fn = "MIN" -> Min(ToSet(nums))
        [] fn = "MAX" -> Max(ToSet(nums))
        [] fn = "AVG" -> (60 * total) \div Len(nums)
        [] OTHER -> total

\* A double written over the four bytes of a NUMBER: what is read back is the
\* low half, which is zero for the whole numbers at hand.
GroupCell(type, cell) ==
  IF IsVarlen(type) THEN Text(cell.str) ELSE Number(IF type = "DOUBLE" THEN cell.num ELSE 0)

\* The rows of each group, by first occurrence; the hash table may give another
\* order.
HashGroups(rows, at) ==
  LET key == [r \in DOMAIN rows |-> RowKey(rows[r], at)]
      firsts == SelectSeq(Positions(rows), LAMBDA r : \A q \in 1 .. r - 1 : key[q] # key[r])
  IN  [g \in DOMAIN firsts |->
         LET members == SelectSeq(Positions(rows), LAMBDA r : key[r] = key[firsts[g]])
         IN  [i \in DOMAIN members |-> rows[members[i]]]]

\* Runs of consecutive rows with one key.
StreamGroups(rows, at) ==
  LET key(row) == RowKey(row, at)
      put(gs, row) == IF gs # <<>> /\ key(Last(gs)[1]) = key(row)
                      THEN [gs EXCEPT ![Len(gs)] = Append(@, row)] ELSE Append(gs, <<row>>)
  IN  FoldLeft(put, <<>>, rows)

\* The group's cells, then the result; a stream gives the sum and the count.
HashRow(p, types, at, agg, group) ==
  LET nums == [i \in DOMAIN group |-> group[i][agg].num]
  IN  [i \in DOMAIN at |-> GroupCell(types[at[i]], group[1][at[i]])]
      \o <<Number(Result(p.fn, nums))>>
StreamRow(at, agg, group) ==
  LET nums == [i \in DOMAIN group |-> group[i][agg].num]
  IN  [i \in DOMAIN at |-> Number(group[1][at[i]].num)]
      \o <<Number(Result("SUM", nums)), Number(Len(nums))>>

HashAggregateNext(p, first, rows, at, agg) ==
  LET groups == HashGroups(rows, at)
  IN  One(Append(p.group, p.agg),
          CopyRowProjected(first.types, at) \o <<IF p.fn = "COUNT" THEN "NUMBER" ELSE "DOUBLE">>,
          [g \in DOMAIN groups |-> HashRow(p, first.types, at, agg, groups[g])])

StreamAggregateNext(p, first, rows, at, agg) ==
  LET groups == StreamGroups(rows, at)
  IN  IF \E i \in DOMAIN at : IsVarlen(first.types[at[i]]) THEN Failed
      ELSE One(p.group \o <<p.agg, -1>>, [i \in DOMAIN at |-> "DOUBLE"] \o <<"DOUBLE", "NUMBER">>,
               [g \in DOMAIN groups |-> StreamRow(at, agg, groups[g])])

AggregateNext(p, chunks) ==
  LET first == chunks[1]
      agg == ColAt(first, p.agg)
  IN  IF chunks = <<>> THEN Stream(<<>>)
      ELSE IF ~ Resolves(first, Append(p.group, p.agg)) \/ IsVarlen(first.types[agg]) THEN Failed
      ELSE IF p.k = "StreamAggregate"
      THEN StreamAggregateNext(p, first, AllRows(chunks), Places(first, p.group), agg)
      ELSE HashAggregateNext(p, first, AllRows(chunks), Places(first, p.group), agg)

-----------------------------------------------------------------------------
(* Execution: Init of the whole plan, then Next until it gives nothing.    *)

IndexScans == {"IndexScan", "BitmapScan"}

\* Init throws: the index has no ranges.  BitmapScan does not ask.
RECURSIVE InitThrows(_, _)
InitThrows(p, env) ==
  \/ p.k \in IndexScans /\ Bound(p, env) /\ p.range /\ ~ SupportsRange(env.index[p.index].ix)
  \/ \E i \in DOMAIN p.kids : InitThrows(p.kids[i], env)

RECURSIVE Opened(_, _)
Opened(p, env) ==
  LET opened == [p EXCEPT !.kids = [i \in DOMAIN @ |-> Opened(@[i], env)]]
      last == Len(env.pages[p.table])
  IN  CASE p.k = "SeqScan" -> [opened EXCEPT !.last = last]
        [] p.k = "IndexOnlyScan" -> [opened EXCEPT !.used = Bound(p, env), !.last = last]
        [] p.k \in IndexScans ->
             IF Bound(p, env) THEN [opened EXCEPT !.used = TRUE, !.rids = LookUp(p, env)]
             ELSE [opened EXCEPT !.last = last]
        [] OTHER -> opened

RECURSIVE Run(_, _)
Run(p, env) ==
  LET in == [i \in DOMAIN p.kids |-> Run(p.kids[i], env)]
      chunks(i) == in[i].chunks
      next ==
        CASE p.k = "SeqScan" -> SeqScanNext(p, env)
          [] p.k \in IndexScans -> IndexScanNext(p, env)
          [] p.k = "IndexOnlyScan" -> IndexOnlyScanNext(p, env)
          [] p.k = "Filter" -> FilterNext(chunks(1), p.pred)
          [] p.k = "Project" -> ProjectNext(chunks(1), p.cols)
          [] p.k = "Limit" -> LimitNext(chunks(1), p.start, p.size)
          [] p.k = "Distinct" -> DistinctNext(chunks(1), p.cols)
          [] p.k \in {"InMemorySort", "TopN", "ExternalSort"} ->
               SortNext(p.k, chunks(1), p.keys, p.n)
          [] p.k \in {"NestedLoopJoin", "HashJoin", "MergeJoin", "IndexNLJoin"} ->
               JoinNext(p, chunks(1), chunks(2))
          [] p.k \in {"HashAggregate", "StreamAggregate"} -> AggregateNext(p, chunks(1))
  IN  IF p.k = "Limit" /\ p.size = 0 THEN Stream(<<>>)     \* asks its child for nothing
      ELSE IF \E i \in DOMAIN in : ~ in[i].ok THEN Failed ELSE next
=============================================================================
