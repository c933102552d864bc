------------------------------ MODULE Planning ------------------------------
(***************************************************************************)
(* Planner and Optimizer: the logical plan of a bound SELECT, its rewriting *)
(* by ConstantFolding and PredicatePushdown, and the physical plan.        *)
(***************************************************************************)
EXTENDS SqlFrontEnd

-----------------------------------------------------------------------------
(* Logical plans.                                                          *)

LogicalScan(table) ==
  [k |-> "SCAN", kids |-> <<>>, table |-> table, index |-> NoIndex, key |-> NoKey]
LogicalFilter(child, cond) == [k |-> "FILTER", kids |-> <<child>>, cond |-> cond]
LogicalProject(child, cols) == [k |-> "PROJECT", kids |-> <<child>>, cols |-> cols]
LogicalSort(child, keys) == [k |-> "SORT", kids |-> <<child>>, keys |-> keys]
LogicalAggregate(child, group, agg, fn) ==
  [k |-> "AGGREGATE", kids |-> <<child>>, group |-> group, agg |-> agg, fn |-> fn]
LogicalJoin(left, right, lkeys, rkeys) ==
  [k |-> "JOIN", kids |-> <<left, right>>, lkeys |-> lkeys, rkeys |-> rkeys]

IsColumn(e) == e.op = "column"
ColumnsOf(exprs) == LET cols == SelectSeq(exprs, IsColumn)
                    IN  [i \in DOMAIN cols |-> cols[i].id]

\* col = const, either way round, for a constant that an index can look up.
MatchEquality(e) ==
  /\ e.op = "EQ" /\ {e.l.op, e.r.op} = Leaves
  /\ \A side \in {e.l, e.r} : side.op = "const" => side.val.kind # "null"

EqualityColumn(e) == IF IsColumn(e.l) THEN e.l.id ELSE e.r.id
EqualityKey(e) ==
  LET val == IF IsColumn(e.l) THEN e.r.val ELSE e.l.val
  IN  <<IF val.kind = "string" THEN StrComponent(val.str) ELSE NumComponent(val.num)>>

\* The first index created on exactly that column.
ScanOf(b, indexes) ==
  LET usable == SelectSeq(indexes, LAMBDA i : i.table = b.from
                                              /\ i.cols = <<EqualityColumn(b.where)>>)
  IN  IF b.where # NoExpr /\ MatchEquality(b.where) /\ usable # <<>>
      THEN [LogicalScan(b.from) EXCEPT !.index = usable[1].name, !.key = EqualityKey(b.where)]
      ELSE LogicalScan(b.from)

Where(plan, cond) == IF cond = NoExpr THEN plan ELSE LogicalFilter(plan, cond)

\* ON column = column gives the keys, the left table's first; anything else none.
JoinOf(b) ==
  LET keyed == b.on.op = "EQ" /\ IsColumn(b.on.l) /\ IsColumn(b.on.r)
      straight == b.on.l.table = b.from
      l == IF straight THEN b.on.l.id ELSE b.on.r.id
      r == IF straight THEN b.on.r.id ELSE b.on.l.id
  IN  LogicalJoin(LogicalScan(b.from), LogicalScan(b.join),
                  IF keyed THEN <<l>> ELSE <<>>, IF keyed THEN <<r>> ELSE <<>>)

\* The first aggregate of the select list, or the sum of the first group column.
AggregateOf(b, child) ==
  LET group == ColumnsOf(b.group)
      calls == SelectSeq(b.sel, LAMBDA e : IsColumn(e) /\ e.fn # NoFn)
      known == {"COUNT", "MIN", "MAX", "AVG"}
  IN  IF calls = <<>>
      THEN LogicalAggregate(child, group, IF group = <<>> THEN 0 ELSE group[1], "SUM")
      ELSE LogicalAggregate(child, group, calls[1].id,
                            IF calls[1].fn \in known THEN calls[1].fn ELSE "SUM")

SortOf(b, child) ==
  LET cols == SelectSeq(b.order, LAMBDA o : IsColumn(o.e))
  IN  LogicalSort(child, [i \in DOMAIN cols |-> [id |-> cols[i].e.id, desc |-> cols[i].desc]])

\* A JOIN knows no GROUP BY and no ORDER BY, a GROUP BY no select list.
LogicalSelectPlanner(b, indexes) ==
  LET filtered == Where(ScanOf(b, indexes), b.where)
      project(child) == LogicalProject(child, ColumnsOf(b.sel))
  IN  IF b.join # NoTable THEN project(Where(JoinOf(b), b.where))
      ELSE IF b.group # <<>> THEN AggregateOf(b, filtered)
      ELSE IF b.order # <<>> THEN project(SortOf(b, filtered))
      ELSE project(filtered)

-----------------------------------------------------------------------------
(* ConstantFolding.                                                        *)

Arithmetic == {"ADD", "SUB", "MUL", "DRI"}
IsNumber(e) == e.op = "const" /\ e.val.kind \in {"int", "float"}
IsString(e) == e.op = "const" /\ e.val.kind = "string"

\* FoldArithmetic, FoldComparison, FoldStringComparison.
Folded(op, l, r) ==
  IF IsNumber(l) /\ IsNumber(r) /\ op \in Arithmetic /\ ~ (op = "DRI" /\ r.val.num = 0)
  THEN Constant("float", Compute(op, l.val.num, r.val.num), <<>>)
  ELSE IF IsNumber(l) /\ IsNumber(r) /\ op \in Comparisons
  THEN IntLit(Compute(op, l.val.num, r.val.num))
  ELSE IF IsString(l) /\ IsString(r) /\ op \in {"EQ", "NE"}
  THEN IntLit(CompareText(op, l.val.str, r.val.str))
  ELSE Binary(op, l, r)

RECURSIVE FoldExpr(_)
FoldExpr(e) == IF e.op \in BinaryOps THEN Folded(e.op, FoldExpr(e.l), FoldExpr(e.r)) ELSE e

\* Mutant of IsConstantTrue: a filter on any number is dropped.
IsConstantTrueAny(e) == IsNumber(e)

IsConstantTrue(e) == IsNumber(e) /\ e.val.num # 0

RECURSIVE FoldPlan(_)
FoldPlan(p) ==
  LET plan == [p EXCEPT !.kids = [i \in DOMAIN @ |-> FoldPlan(@[i])]]
      cond == FoldExpr(p.cond)
  IN  IF p.k # "FILTER" THEN plan
      ELSE IF IsConstantTrue(cond) THEN plan.kids[1] ELSE [plan EXCEPT !.cond = cond]

-----------------------------------------------------------------------------
(* PredicatePushdown.                                                      *)

RECURSIVE SplitAnd(_)
SplitAnd(e) == IF e.op = "AND" THEN SplitAnd(e.l) \o SplitAnd(e.r) ELSE <<e>>

CombineAnd(preds) == FoldLeft(LAMBDA a, e : Binary("AND", a, e), Head(preds), Tail(preds))

WrapWithFilter(plan, preds) == IF preds = <<>> THEN plan ELSE LogicalFilter(plan, CombineAnd(preds))

\* The column of a null test is not collected.
RECURSIVE CollectTableRefs(_)
CollectTableRefs(e) ==
  IF IsColumn(e) THEN {e.table}
  ELSE IF e.op \in BinaryOps THEN CollectTableRefs(e.l) \cup CollectTableRefs(e.r)
  ELSE {}

\* LogicalJoin keeps its children in children_; left_ and right_, which are asked
\* for the tables of each side, stay null.
SideTables(join) == {}

OnlyRefs(e, allowed) == CollectTableRefs(e) \subseteq allowed

RECURSIVE PushdownPlan(_, _)
PushdownPlan(p, extra) ==
  LET tables == SideTables(p)
      below == SelectSeq(extra, LAMBDA e : OnlyRefs(e, tables))
      above == SelectSeq(extra, LAMBDA e : ~ OnlyRefs(e, tables))
  IN  CASE p.k = "FILTER" -> PushdownPlan(p.kids[1], extra \o SplitAnd(p.cond))
        [] p.k = "PROJECT" -> [p EXCEPT !.kids = <<PushdownPlan(@[1], extra)>>]
        [] p.k = "JOIN" ->
             WrapWithFilter([p EXCEPT !.kids = <<PushdownPlan(@[1], below),
                                                 PushdownPlan(@[2], <<>>)>>], above)
        [] OTHER ->
             WrapWithFilter([p EXCEPT !.kids = [i \in DOMAIN @ |-> PushdownPlan(@[i], <<>>)]], extra)

Optimize(plan) == PushdownPlan(FoldPlan(plan), <<>>)

-----------------------------------------------------------------------------
(* CreatePhysicalPlanner.                                                  *)

PhysicalScanOperator(p) ==
  IF p.index = NoIndex THEN SeqScan(p.table)
  ELSE IndexScan("IndexScan", p.table, p.index, FALSE, p.key, p.key, NoExpr)

RECURSIVE CreatePhysicalPlanner(_)
CreatePhysicalPlanner(p) ==
  LET kid(i) == CreatePhysicalPlanner(p.kids[i])
  IN  CASE p.k = "SCAN" -> PhysicalScanOperator(p)
        [] p.k = "FILTER" -> Filter(kid(1), p.cond)
        [] p.k = "PROJECT" -> Project(kid(1), p.cols)
        [] p.k = "JOIN" -> Join("HashJoin", kid(1), kid(2), p.lkeys, p.rkeys)
        [] p.k = "SORT" -> Sort("InMemorySort", kid(1), p.keys, 0)
        [] p.k = "AGGREGATE" -> Aggregate("HashAggregate", kid(1), p.group, p.agg, p.fn)
=============================================================================
