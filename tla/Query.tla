------------------------------- MODULE Query -------------------------------
(***************************************************************************)
(* A session's SELECT from its text to its answer, while other sessions    *)
(* insert, delete and update.                                              *)
(*                                                                         *)
(* Submit parses, binds, plans and optimises a query and runs Init of its  *)
(* operators, which is when scans take the last page and index scans the   *)
(* RIDs; Fetch pulls everything (ExecuteQuery).  Statements of other       *)
(* sessions come in between, each as one step.                             *)
(*                                                                         *)
(* Which row versions a snapshot sees is decided by the version store,     *)
(* which module Mvcc models.  Here it is the set of the RIDs that are      *)
(* hidden: a statement either has committed for the next snapshot to see,  *)
(* or never does (it is undecided, or rolled back).  The version store     *)
(* knows a row by its RID alone, so tables share that set.                 *)
(*                                                                         *)
(* load chooses between three workloads: queries on a table with strings   *)
(* ("scan"), queries on two tables of numbers ("join"), and the in-memory  *)
(* indexes by themselves ("index").                                        *)
(***************************************************************************)
EXTENDS Planning

CONSTANTS
  Inserts, Deletes, Updates,  \* statements: their load, table and arguments
  Queries,      \* by name: the load, the tree or the plan, what it means
  Selects(_, _),  \* does a query, by name, mean to return a row?
  IndexDefs,    \* indexes in the order they are created: name, table, cols, kind
  IndexEntries, \* the <<key, RID>> of the workload "index"
  MaxPages,     \* bound: pages of a table
  MaxMeanwhile, \* bound: statements of others while a query is open
  NoQuery, NoAnswer

Loads == {"scan", "join", "index"}

VARIABLES
  load,      \* the workload; never changes
  pages,     \* each table's pages
  hidden,    \* the RIDs that a snapshot taken now does not see
  index,     \* the indexes, by name
  truth,     \* ghost: the rows each table was given, by RID
  gone,      \* ghost: <<table, RID>> that a DELETE or UPDATE took from the indexes
  entries,   \* ghost: the entries of the workload "index"
  query,     \* the query that is open, or NoQuery
  answer     \* what it has returned, or NoAnswer

dbVars == <<pages, hidden, index, truth, gone>>
vars == <<load, dbVars, entries, query, answer>>

Env == [pages |-> pages, hidden |-> hidden, index |-> index]

PlannerIndexes == SelectSeq(IndexDefs, LAMBDA i : i.name \in DOMAIN index)

-----------------------------------------------------------------------------
(* Index maintenance (Catalog::MaintainIndexInsert, MaintainIndexDelete).  *)

KeyOfRow(table, cols, row) ==
  [i \in DOMAIN cols |->
     LET at == SelectInSeq(Schemas[table], LAMBDA c : c.id = cols[i])
     IN  IF IsVarlen(Schemas[table][at].type) THEN StrComponent(row[at].str)
         ELSE NumComponent(row[at].num)]

\* rows: from RID to row, in the order of rids.
MaintainIndexInsert(ixs, table, rids, rows) ==
  [n \in DOMAIN ixs |->
     IF ixs[n].table # table THEN ixs[n]
     ELSE [ixs[n] EXCEPT !.ix =
             FoldLeft(LAMBDA ix, rid : IndexInsert(ix, KeyOfRow(table, ixs[n].cols, rows[rid]), rid),
                      @, rids)]]

MaintainIndexDelete(ixs, table, rids, rows) ==
  [n \in DOMAIN ixs |->
     IF ixs[n].table # table THEN ixs[n]
     ELSE [ixs[n] EXCEPT !.ix =
             FoldLeft(LAMBDA ix, rid : IndexErase(ix, KeyOfRow(table, ixs[n].cols, rows[rid]), rid),
                      @, rids)]]

-----------------------------------------------------------------------------
(* INSERT, DELETE, UPDATE.                                                 *)

\* AsInt32, AsDouble, AsString: the values a column takes.
Takes(type, val) ==
  val.kind \in CASE type = "NUMBER" -> {"int", "null"}
                 [] type = "DOUBLE" -> {"int", "float", "null"}
                 [] type = "VARCHAR" -> {"string", "null"}

\* The cell of a column that the statement names at position pos, or at none (0).
CellOf(type, vals, pos) ==
  IF pos = 0 THEN Null ELSE IF vals[pos].kind = "null" THEN Null
  ELSE IF IsVarlen(type) THEN Text(vals[pos].str) ELSE Number(vals[pos].num)

Position(stmt, col) == SelectInSeq(stmt.cols, LAMBDA name : name = col.name)

InsertRefused(stmt) ==
  \E c \in DOMAIN Schemas[stmt.table], r \in DOMAIN stmt.rows :
    LET pos == Position(stmt, Schemas[stmt.table][c])
    IN  pos # 0 /\ ~ Takes(Schemas[stmt.table][c].type, stmt.rows[r][pos])

InsertedRows(stmt) ==
  LET schema == Schemas[stmt.table]
  IN  [r \in DOMAIN stmt.rows |->
         [c \in DOMAIN schema |->
            CellOf(schema[c].type, stmt.rows[r], Position(stmt, schema[c]))]]

\* The RIDs of new pages, in page order.
NewRids(table, new) ==
  Concat([p \in DOMAIN new |->
            [r \in 1 .. new[p].n |-> <<Len(pages[table]) + p - 1, r - 1>>]])

\* While a query is open nothing commits that its snapshot would have to see.
Meanwhile(seen) ==
  /\ answer = NoAnswer
  /\ IF query = NoQuery THEN UNCHANGED query
     ELSE /\ ~ seen /\ query.meanwhile < MaxMeanwhile
          /\ query' = [query EXCEPT !.meanwhile = @ + 1]

\* ExecuteInsert: all values are converted before the first page is made.
InsertRows(stmt, seen) ==
  LET rows == InsertedRows(stmt)
      new == BuildPages(Schemas[stmt.table], rows, 0)
      rids == NewRids(stmt.table, new)
      given == [rid \in ToSet(rids) |-> rows[SelectInSeq(rids, LAMBDA r : r = rid)]]
  IN  /\ stmt.load = load /\ Meanwhile(seen)
      /\ ~ InsertRefused(stmt)
      /\ Len(pages[stmt.table]) + Len(new) <= MaxPages
      /\ pages' = [pages EXCEPT ![stmt.table] = @ \o new]
      /\ hidden' = IF seen THEN hidden \ ToSet(rids) ELSE hidden \cup ToSet(rids)
      /\ index' = MaintainIndexInsert(index, stmt.table, rids, given)
      /\ truth' = [truth EXCEPT ![stmt.table] = given @@ @]
      /\ UNCHANGED <<load, gone, entries, answer>>

\* The rows that DELETE and UPDATE scan and see, that satisfy their condition.
StoredRids(table) ==
  Concat([p \in DOMAIN pages[table] |->
            [r \in 1 .. pages[table][p].n |-> <<p - 1, r - 1>>]])

Matching(stmt) ==
  LET table == stmt.table
      chunk == Chunk(Ids(Schemas[table]), Types(Schemas[table]), <<>>)
      row(rid) == FetchRow(pages[table], Schemas[table], rid)
      matches(cond, rid) == EvalPredicate(cond, chunk, row(rid))
      among(seen, cond) ==
        IF seen # <<>> /\ Refused(cond, chunk) THEN [refused |-> TRUE, rids |-> <<>>]
        ELSE [refused |-> FALSE, rids |-> SelectSeq(seen, LAMBDA rid : matches(cond, rid))]
  IN  among(SelectSeq(StoredRids(table), LAMBDA rid : rid \notin hidden),
            BoundExpression(TransformerExpression(stmt.where, table), table))

RowsAt(table, rids) == [rid \in ToSet(rids) |-> FetchRow(pages[table], Schemas[table], rid)]

\* ExecuteDelete takes the rows from the indexes at once, whatever becomes of the
\* transaction.
DeleteRows(stmt, seen) ==
  LET hit == Matching(stmt)
  IN  /\ stmt.load = load /\ Meanwhile(seen)
      /\ ~ hit.refused
      /\ hidden' = IF seen THEN hidden \cup ToSet(hit.rids) ELSE hidden
      /\ index' = MaintainIndexDelete(index, stmt.table, hit.rids, RowsAt(stmt.table, hit.rids))
      /\ gone' = gone \cup {<<stmt.table, rid>> : rid \in ToSet(hit.rids)}
      /\ UNCHANGED <<load, pages, truth, entries, answer>>

\* ExecuteUpdate: a row is copied as numbers, so a null becomes a zero; every new
\* row gets a page of its own.  Tables with strings are refused.
UpdatedRow(stmt, row) ==
  [c \in DOMAIN row |->
     LET pos == Position(stmt, Schemas[stmt.table][c])
     IN  IF pos = 0 THEN Valid(row[c]) ELSE Number(stmt.rows[1][pos].num)]

ReplaceRows(table, old, given, new, seen) ==
  LET rids == NewRids(table, new)
      rows == [rid \in ToSet(rids) |-> given[SelectInSeq(rids, LAMBDA r : r = rid)]]
      erased == MaintainIndexDelete(index, table, old, RowsAt(table, old))
  IN  /\ Len(pages[table]) + Len(new) <= MaxPages
      /\ pages' = [pages EXCEPT ![table] = @ \o new]
      /\ hidden' = IF seen THEN (hidden \cup ToSet(old)) \ ToSet(rids)
                   ELSE hidden \cup ToSet(rids)
      /\ index' = MaintainIndexInsert(erased, table, rids, rows)
      /\ truth' = [truth EXCEPT ![table] = rows @@ @]
      /\ gone' = gone \cup {<<table, rid>> : rid \in ToSet(old)}

UpdateRows(stmt, seen) ==
  LET schema == Schemas[stmt.table]
      hit == Matching(stmt)
      updated == [i \in DOMAIN hit.rids |->
                    UpdatedRow(stmt, FetchRow(pages[stmt.table], schema, hit.rids[i]))]
      replace(rids, rows) ==
        ReplaceRows(stmt.table, rids, rows,
                    Concat([i \in DOMAIN rows |-> BuildPages(schema, <<rows[i]>>, 0)]), seen)
  IN  /\ stmt.load = load /\ Meanwhile(seen)
      /\ \A c \in DOMAIN schema : ~ IsVarlen(schema[c].type)
      /\ ~ hit.refused
      /\ replace(hit.rids, updated)
      /\ UNCHANGED <<load, entries, answer>>

-----------------------------------------------------------------------------
(* SELECT (Session::Execute, Execution::ExecuteQuery).                     *)

IsSql(name) == Queries[name].ast # NoExpr

BoundSelect(name, stale) ==
  BinderSelectStatement(TransformerSelectStatement(Queries[name].ast, stale))

\* The plan of a query, or the plan that is given for an operator the planner
\* never chooses.
PlanOf(name, stale) ==
  IF IsSql(name)
  THEN CreatePhysicalPlanner(Optimize(LogicalSelectPlanner(BoundSelect(name, stale), PlannerIndexes)))
  ELSE Queries[name].plan

SubmitThrows(name, stale) ==
  \/ IsSql(name) /\ Throws(BoundSelect(name, stale))
  \/ InitThrows(PlanOf(name, stale), Env)

\* stale: the table that an earlier statement of the batch named last.
Submit(name, stale) ==
  /\ Queries[name].load = load /\ query = NoQuery
  /\ ~ SubmitThrows(name, stale)
  /\ query' = [name |-> name, stale |-> stale, plan |-> Opened(PlanOf(name, stale), Env),
               meanwhile |-> 0, gone |-> gone, stored |-> [table \in Tables |-> DOMAIN truth[table]]]
  /\ UNCHANGED <<load, dbVars, entries, answer>>

\* The names come from the select list, the rows from the plan.
Fetch ==
  /\ query # NoQuery /\ answer = NoAnswer
  /\ LET stream == Run(query.plan, Env)
     IN  answer' = [ok |-> stream.ok, rows |-> AllRows(stream.chunks),
                    names |-> IF IsSql(query.name)
                              THEN ResultColumnNames(BoundSelect(query.name, query.stale))
                              ELSE <<>>]
  /\ UNCHANGED <<load, dbVars, entries, query>>

Close ==
  /\ answer # NoAnswer
  /\ query' = NoQuery /\ answer' = NoAnswer
  /\ UNCHANGED <<load, dbVars, entries>>

-----------------------------------------------------------------------------
(* The other workloads.                                                    *)

InsertEntry(key, rid) ==
  /\ load = "index" /\ <<key, rid>> \notin entries
  /\ index' = [n \in Kinds |-> [index[n] EXCEPT !.ix = IndexInsert(@, key, rid)]]
  /\ entries' = entries \cup {<<key, rid>>}
  /\ UNCHANGED <<load, pages, hidden, truth, gone, query, answer>>

EraseEntry(key, rid) ==
  /\ load = "index"
  /\ index' = [n \in Kinds |-> [index[n] EXCEPT !.ix = IndexErase(@, key, rid)]]
  /\ entries' = entries \ {<<key, rid>>}
  /\ UNCHANGED <<load, pages, hidden, truth, gone, query, answer>>

-----------------------------------------------------------------------------

\* The indexes of a workload: all, or none.
NewIndexes(defs) ==
  [n \in {defs[i].name : i \in DOMAIN defs} |->
     LET def == CHOOSE d \in ToSet(defs) : d.name = n
     IN  [table |-> def.table, cols |-> def.cols, ix |-> NewIndex(def.kind)]]

KindDefs == [i \in 1 .. 3 |-> LET kind == <<"tree", "hash", "bitmap">>[i]
                              IN  [name |-> kind, table |-> NoTable, cols |-> <<>>, kind |-> kind]]

Init ==
  /\ load \in Loads
  /\ pages = [table \in Tables |-> <<>>] /\ hidden = {}
  /\ index \in IF load = "index" THEN {NewIndexes(KindDefs)}
               ELSE {NewIndexes(<<>>), NewIndexes(IndexDefs)}
  /\ truth = [table \in Tables |-> <<>>] /\ gone = {} /\ entries = {}
  /\ query = NoQuery /\ answer = NoAnswer

Next ==
  \/ \E stmt \in Inserts, seen \in BOOLEAN : InsertRows(stmt, seen)
  \/ \E stmt \in Deletes, seen \in BOOLEAN : DeleteRows(stmt, seen)
  \/ \E stmt \in Updates, seen \in BOOLEAN : UpdateRows(stmt, seen)
  \/ \E name \in DOMAIN Queries : \E stale \in Queries[name].stale : Submit(name, stale)
  \/ Fetch
  \/ Close
  \/ \E e \in IndexEntries : InsertEntry(e[1], e[2]) \/ EraseEntry(e[1], e[2])

Spec == Init /\ [][Next]_vars

-----------------------------------------------------------------------------
(* What a query means: over the rows its tables were given.                *)

\* The rows a snapshot sees, and the rows or pairs of rows a query is about.
Seen(table) == DOMAIN truth[table] \ hidden
Sources(q) == IF q.join = NoTable THEN {<<rid>> : rid \in Seen(q.table)}
              ELSE Seen(q.table) \X Seen(q.join)
RowOf(q, src) == IF q.join = NoTable THEN truth[q.table][src[1]]
                 ELSE truth[q.table][src[1]] \o truth[q.join][src[2]]

Meant(name) == {src \in Sources(Queries[name]) : Selects(name, RowOf(Queries[name], src))}

\* The query throws as soon as one of these tables gives a row.
Fails(q) == \E table \in q.throws : Seen(table) # {}

\* rows: the same rows as Row gives for the members of S, as often, in any order.
SameRows(rows, S, Row(_)) ==
  /\ Len(rows) = Cardinality(S)
  /\ \A x \in ToSet(rows) : Cardinality({i \in DOMAIN rows : rows[i] = x})
                            = Cardinality({s \in S : Row(s) = x})

Answered(kind) == query # NoQuery /\ answer # NoAnswer /\ Queries[query.name].kind = kind

TypeOK ==
  /\ load \in Loads
  /\ \A table \in Tables :
       /\ Len(pages[table]) <= MaxPages
       /\ \A p \in ToSet(pages[table]) :
            /\ p.magic /\ p.n \in 1 .. PageRows
            /\ \A c \in DOMAIN p.cols : Len(p.cols[c].valid) = p.n
       /\ DOMAIN truth[table] = UNION {{<<p - 1, r - 1>> : r \in 1 .. pages[table][p].n} :
                                          p \in DOMAIN pages[table]}
  /\ query # NoQuery => query.name \in DOMAIN Queries
  /\ answer # NoAnswer => query # NoQuery /\ answer.ok \in BOOLEAN

\* A SELECT with a WHERE returns each row its snapshot sees that satisfies the
\* condition, once, with the columns of the list and their names: across page
\* splits of an INSERT, nulls and strings, and whatever other sessions have
\* written since it was opened.  It throws only for a condition or a list that
\* the evaluator refuses, and then only if the scan gives a row.
\* (session.cpp Execute, execute_insert.cpp, expression_evaluator.h)
FilterExact ==
  Answered("filter") =>
    LET q == Queries[query.name]
        row(src) == CopyRowProjected(RowOf(q, src), q.cols)
    IN  IF Fails(q) THEN ~ answer.ok
        ELSE /\ answer.ok /\ SameRows(answer.rows, Meant(query.name), row)
             /\ Len(answer.names) = Len(q.cols) =>
                  \A i \in DOMAIN q.cols : answer.names[i][2] = Schemas[q.table][q.cols[i]].name

\* A query that goes through an index returns no row that the table scan would
\* not, none twice, and misses none whose entry was never taken from the index
\* before it was opened (an index-only scan: before it is read); IndexKeepsAnswer is
\* about the others.  A scan planned for an index that is not there reads rows
\* whether its snapshot sees them or not.
\* (physical_index_scan_operator.cpp, catalog.cpp MaintainIndexInsert/Delete)
IndexScanExact ==
  Answered("index") =>
    LET q == Queries[query.name]
        scan == IF IsSql(query.name) THEN query.plan.kids[1].kids[1] ELSE query.plan
        used == scan.k # "SeqScan" /\ scan.used
        only == used /\ scan.k = "IndexOnlyScan"
        taken == IF only THEN gone ELSE query.gone
        stored == {<<rid>> : rid \in query.stored[q.table]}
        meant == IF IsSql(query.name) \/ used THEN Meant(query.name)
                 ELSE {src \in stored : Selects(query.name, RowOf(q, src))}
        missable == IF used THEN {src \in meant : <<q.table, src[1]>> \in taken} ELSE {}
        row(src) == LET cells == CopyRowProjected(RowOf(q, src), q.cols)
                    IN  IF only THEN AllValid(cells) ELSE cells
    IN  /\ answer.ok
        /\ \E missed \in SUBSET missable : SameRows(answer.rows, meant \ missed, row)

\* Taking an index for a WHERE changes no answer: every row the snapshot sees that
\* satisfies the condition is returned.
\* (logical_select_planner.cpp, "the Filter stays on top": always correct)
IndexKeepsAnswer ==
  Answered("index") /\ IsSql(query.name) =>
    LET q == Queries[query.name]
        row(src) == CopyRowProjected(RowOf(q, src), q.cols)
    IN  answer.ok /\ SameRows(answer.rows, Meant(query.name), row)

\* A join returns each pair of rows that match, once, whichever algorithm runs
\* and with duplicate keys on both sides; nulls take part as zeroes and come out
\* as zeroes.  A name without a table means the table that the statement before
\* it in the batch named last, else the left table.
\* (physical_join_operator.cpp, join_util.h, transformer_select.cpp)
JoinExact ==
  Answered("join") =>
    LET q == Queries[query.name]
        cols == IF query.stale = q.join THEN q.other ELSE q.cols
        row(src) == AllValid(CopyRowProjected(RowOf(q, src), cols))
    IN  IF Fails(q) THEN ~ answer.ok
        ELSE answer.ok /\ SameRows(answer.rows, Meant(query.name), row)

\* The sort keys of a query compare two of its rows.
Before(a, b, keys) ==
  \E n \in DOMAIN keys :
    /\ \A i \in 1 .. n - 1 : a[keys[i].id] = b[keys[i].id]
    /\ LET x == a[keys[n].id]
           y == b[keys[n].id]
           up == x.num < y.num \/ StrLess(x.str, y.str)
       IN  x # y /\ (up <=> ~ keys[n].desc)

\* A sort returns the rows of its input in an order that no two neighbours, and
\* so no two rows, violate: also when the rows went through several sorted runs.
\* TopN returns as many as it is asked for, and none that it leaves out comes
\* before one it returns.  Nulls are sorted and returned as zeroes and "".
\* (physical_sort_operator.cpp)
OrderExact ==
  Answered("order") =>
    LET q == Queries[query.name]
        meant == Meant(query.name)
        row(src) == AllValid(RowOf(q, src))
        shown(src) == CopyRowProjected(row(src), q.cols)
        top == ~ IsSql(query.name) /\ query.plan.k = "TopN"
        out == answer.rows
        times(x) == Cardinality({i \in DOMAIN out : out[i] = x})
        held(x) == Cardinality({src \in meant : row(src) = x})
    IN  /\ answer.ok
        /\ \A i, j \in DOMAIN out : i < j => ~ Before(out[j], out[i], q.keys)
        /\ IF top
           THEN /\ Len(out) = Min({q.size, Cardinality(meant)})
                /\ \A x \in {row(src) : src \in meant} \cup ToSet(out) :
                     /\ times(x) <= held(x)
                     /\ times(x) < held(x) =>
                          \A i \in DOMAIN out : ~ Before(x, out[i], q.keys)
           ELSE SameRows(out, meant, shown)

\* The group of a row: its cells of the columns that group.  A null is a group of
\* its own, but for a stream.
GroupOf(q, src) ==
  LET cells == CopyRowProjected(RowOf(q, src), q.cols)
  IN  IF q.ast = NoExpr THEN AllValid(cells) ELSE cells

\* One row for each group, with the group and the aggregate of its rows; nulls are
\* counted, and summed as zeroes.  What is shown of a NUMBER that groups is left
\* open: it should be the group's own value and is not.
\* (physical_aggregate_operator.cpp, physical_stream_aggregate_operator.cpp)
GroupExact ==
  Answered("group") =>
    LET q == Queries[query.name]
        stream == ~ IsSql(query.name)
        key(src) == GroupOf(q, src)
        meant == Meant(query.name)
        num(src) == RowOf(q, src)[q.agg].num
        sum(S) == MapThenSumSet(num, S)
        nums(S) == {num(src) : src \in S}
        value(S) == CASE q.fn = "COUNT" -> Cardinality(S)
                      [] q.fn = "SUM" -> sum(S)
                      [] q.fn = "AVG" -> (60 * sum(S)) \div Cardinality(S)
                      [] q.fn = "MIN" -> CHOOSE n \in nums(S) : \A m \in nums(S) : n <= m
                      [] q.fn = "MAX" -> CHOOSE n \in nums(S) : \A m \in nums(S) : n >= m
        open(i) == /\ ~ stream /\ i \in DOMAIN q.cols
                   /\ Schemas[q.table][q.cols[i]].type = "NUMBER"
        known(cells) == [i \in DOMAIN cells |-> IF open(i) THEN Null ELSE cells[i]]
        row(k) == LET S == {src \in meant : key(src) = k}
                  IN  known(AllValid(k) \o <<Number(value(S))>>
                            \o (IF stream THEN <<Number(Cardinality(S))>> ELSE <<>>))
        shown == [i \in DOMAIN answer.rows |-> known(answer.rows[i])]
    IN  IF Fails(q) THEN ~ answer.ok
        ELSE answer.ok /\ SameRows(shown, {key(src) : src \in meant}, row)

\* Limit returns the rows of its window and Distinct the first row of each key,
\* in the order of the table, wherever the chunks are cut.
\* (physical_limit_operator.cpp, physical_distinct_operator.cpp)
WindowExact ==
  Answered("window") =>
    LET q == Queries[query.name]
        order == SetToSortSeq(Meant(query.name), LAMBDA s, t :
                   s[1][1] < t[1][1] \/ (s[1][1] = t[1][1] /\ s[1][2] < t[1][2]))
        rows == [i \in DOMAIN order |-> RowOf(q, order[i])]
        same(i, j) == \A c \in ToSet(q.cols) : rows[i][c] = rows[j][c]
        kept == SelectSeq([i \in DOMAIN rows |-> i], LAMBDA i :
                  q.distinct => \A j \in 1 .. i - 1 : ~ same(i, j))
        window == SelectSeq([n \in DOMAIN kept |-> n], LAMBDA n : n \in q.start + 1 .. q.start + q.size)
    IN  answer.ok /\ answer.rows = [n \in DOMAIN window |-> rows[kept[window[n]]]]

\* The optimiser changes no answer: what the plan as first made returns, the
\* folded and pushed-down plan returns, in the same order, and it throws only if
\* the other does.  Excepted are null tests with a JOIN, which are pushed down to
\* its left side: the right table's columns are not there, and the left table's
\* have their nulls there and no longer above the join.
\* (constant_folding.cpp, predicate_pushdown.cpp)
OptimizerKeepsAnswer ==
  query # NoQuery /\ query.meanwhile = 0 /\ answer = NoAnswer /\ IsSql(query.name) =>
    LET b == BoundSelect(query.name, query.stale)
        plan == LogicalSelectPlanner(b, PlannerIndexes)
        outcome(stream) == <<stream.ok, AllRows(stream.chunks)>>
        answers == {outcome(Run(Opened(CreatePhysicalPlanner(p), Env), Env)) :
                      p \in {plan, Optimize(plan)}}
        misplaced == b.join # NoTable /\ \E e \in ToSet(SplitAnd(b.where)) : e.op \in NullTests
    IN  misplaced \/ Cardinality(answers) = 1

\* The entries an index should have: every row given to its table that no DELETE
\* or UPDATE has taken out again.
Kept(n) ==
  LET info == index[n]
      live == {rid \in DOMAIN truth[info.table] : <<info.table, rid>> \notin gone}
  IN  IF load = "index" THEN entries
      ELSE {<<KeyOfRow(info.table, info.cols, truth[info.table][rid]), rid>> : rid \in live}

\* Each in-memory index finds, lists and ranges over exactly the entries it holds,
\* after any sequence of inserts and erases: leaves and inner nodes that split,
\* keys with several rids, leaves left empty.  Tree and bitmap list them in key
\* order; the hash index promises no order.
\* (b_plus_tree.cpp, hash_index.cpp, bitmap_index.cpp)
MemIndexExact ==
  query = NoQuery =>
    \A n \in DOMAIN index :
      LET ix == index[n].ix
          kept == Kept(n)
          keys == {e[1] : e \in kept \cup IndexEntries}
          all == IndexScanAll(ix)
          rid(e) == e[2]
      IN  /\ SameRows(all, kept, LAMBDA e : e)
          /\ ix.kind # "hash" =>
               \A i \in 1 .. Len(all) - 1 : KeyLeq(all[i][1], all[i + 1][1])
          /\ \A k \in keys : SameRows(IndexFind(ix, k), {e \in kept : e[1] = k}, rid)
          /\ SupportsRange(ix) => \A lo, hi \in keys :
               SameRows(IndexRange(ix, lo, hi),
                        {e \in kept : KeyLeq(lo, e[1]) /\ KeyLeq(e[1], hi)}, rid)
=============================================================================
