------------------------------ MODULE MCQuery ------------------------------
(* Three tables, four indexes, statements and queries.  Pages of two rows    *)
(* and batches of three, so that an INSERT is split; runs of two rows.       *)
EXTENDS Query

Col(id, name, type) == [id |-> id, name |-> name, type |-> type]

MCSchemas ==
  [t |-> <<Col(1, "a", "NUMBER"), Col(2, "s", "VARCHAR")>>,
   u |-> <<Col(3, "a", "NUMBER"), Col(4, "d", "DOUBLE")>>,
   w |-> <<Col(5, "a", "NUMBER")>>]

MCIndexDefs ==
  <<[name |-> "ia", table |-> "t", cols |-> <<1>>, kind |-> "bitmap"],
    [name |-> "is", table |-> "t", cols |-> <<2>>, kind |-> "tree"],
    [name |-> "hs", table |-> "t", cols |-> <<2>>, kind |-> "hash"],
    [name |-> "iu", table |-> "u", cols |-> <<3, 4>>, kind |-> "tree"]>>

X == <<120>>
Y == <<88, 121>>       \* "Xy"
Val(kind, num, str) == [kind |-> kind, num |-> num, str |-> str]
I(n) == Val("int", n, <<>>)
S(str) == Val("string", 0, str)
N == Val("null", 0, <<>>)

Stmt(on, table, cols, rows, where) ==
  [load |-> on, table |-> table, cols |-> cols, rows |-> rows, where |-> where]

Eq(e, f) == Binary("EQ", e, f)
And(e, f) == Binary("AND", e, f)
Or(e, f) == Binary("OR", e, f)
C(name) == Ref(NoTable, name)

MCInserts ==
  {Stmt("scan", "t", <<"a", "s">>, << <<I(2), S(X)>>, <<N, S(Y)>>, <<I(0), N>> >>, NoExpr),
   Stmt("scan", "t", <<"s">>, << <<S(X)>> >>, NoExpr),
   Stmt("scan", "t", <<"a">>, << <<S(X)>> >>, NoExpr),
   Stmt("join", "u", <<"a", "d">>, << <<I(1), I(5)>>, <<N, I(1)>>, <<I(0), I(2)>> >>, NoExpr),
   Stmt("join", "u", <<"d", "a">>, << <<I(5), I(2)>> >>, NoExpr),
   Stmt("join", "w", <<"a">>, << <<I(1)>>, <<I(0)>>, <<I(1)>> >>, NoExpr)}

MCDeletes ==
  {Stmt("scan", "t", <<>>, <<>>, Eq(C("s"), StrLit(X))),
   Stmt("join", "u", <<>>, <<>>, Eq(C("a"), IntLit(1)))}

MCUpdates ==
  {Stmt("join", "u", <<"a">>, << <<I(1)>> >>, Eq(C("d"), IntLit(1))),
   Stmt("scan", "t", <<"a">>, << <<I(1)>> >>, Eq(C("s"), StrLit(X)))}

-----------------------------------------------------------------------------

\* kind: the property that speaks of the query; cols: places in its row; other:
\* the same for a stale name; size: all, if there is no limit.
PlainQuery == [load |-> "scan", kind |-> "filter", ast |-> NoExpr, plan |-> NoExpr, table |-> "t",
        join |-> NoTable, stale |-> {NoTable}, cols |-> <<1, 2>>, other |-> <<>>, throws |-> {}, keys |-> <<>>,
        start |-> 0, size |-> 100, distinct |-> FALSE, agg |-> 1, fn |-> "SUM"]

Sql(kind, ast, cols) ==
  [PlainQuery EXCEPT !.kind = kind, !.ast = ast, !.table = ast.from, !.join = ast.join,
              !.cols = cols, !.other = cols, !.load = IF ast.from = "t" THEN "scan" ELSE "join"]
Given(kind, plan, table, cols) ==
  [PlainQuery EXCEPT !.kind = kind, !.plan = plan, !.table = table, !.cols = cols,
              !.load = IF table = "t" THEN "scan" ELSE "join"]
Throwing(q, tables) == [q EXCEPT !.throws = tables]

All(where) == Select(<<Star>>, "t", where)
Up(id) == [id |-> id, desc |-> FALSE]
Down(id) == [id |-> id, desc |-> TRUE]
OrderBy(e, desc) == [e |-> e, desc |-> desc]
Num(n) == <<NumComponent(n)>>
Str(s) == <<StrComponent(s)>>

Filters ==
  [equalnull |-> Throwing(Sql("filter", All(Or(Eq(C("s"), StrLit(X)), Eq(C("a"), NullLit))), <<1, 2>>), {"t"}),
   ilike     |-> Sql("filter", All(And(Binary("ILIKE", C("s"), StrLit(<<120, Percent>>)),
                                       Binary("LTE", C("a"), IntLit(0)))), <<1, 2>>),
   notlike   |-> Sql("filter", Select(<<C("s")>>, "t", Binary("NOT_LIKE", C("s"), StrLit(<<Underscore>>))), <<2>>),
   isnull    |-> Sql("filter", Select(<<C("a")>>, "t", IsNull(C("a"))), <<1>>),
   not       |-> Sql("filter", Select(<<C("s"), C("a")>>, "t", Not(C("a"))), <<2, 1>>),
   isnotnull |-> Throwing(Sql("filter", All(Not(IsNull(C("a")))), <<1, 2>>), {"t"}),
   always    |-> Sql("filter", Select(<<Call("COUNT", "")>>, "t", Eq(IntLit(1), IntLit(1))), <<1>>),
   never     |-> Sql("filter", All(Binary("NE", StrLit(X), StrLit(X))), <<1, 2>>),
   folded    |-> Sql("filter", Select(<<Binary("ADD", C("a"), IntLit(1)), C("s")>>, "t",
                       Eq(Binary("MUL", IntLit(2), IntLit(1)), C("a"))), <<2>>),
   infinite  |-> Sql("filter", All(Binary("LT", C("a"), Binary("DRI", IntLit(1), IntLit(0)))), <<1, 2>>)]

MCTables == DOMAIN MCSchemas

IndexQueries ==
  [two    |-> Sql("index", Select(<<C("a")>>, "t", Eq(C("a"), IntLit(2))), <<1>>),
   zero   |-> Sql("index", All(Eq(IntLit(0), C("a"))), <<1, 2>>),
   x      |-> Sql("index", All(Eq(C("s"), StrLit(X))), <<1, 2>>),
   point  |-> Given("index", IndexScan("BitmapScan", "t", "ia", FALSE, Num(0), Num(0),
                               Eq(Column("t", 1, NoFn), IntLit(0))), "t", <<1, 2>>),
   range  |-> Given("index", IndexScan("IndexScan", "t", "is", TRUE, Str(Y), Str(X),
                               Binary("GTE", Column("t", 2, NoFn), StrLit(Y))), "t", <<1, 2>>),
   hashed |-> Given("index", IndexScan("IndexScan", "t", "hs", TRUE, Str(<<>>), Str(X), NoExpr), "t", <<1, 2>>),
   whole  |-> Given("index", IndexScan("BitmapScan", "t", "ia", TRUE, Num(0), Num(9), NoExpr), "t", <<1, 2>>),
   keys   |-> Given("index", IndexOnlyScan("t", "hs", <<2>>), "t", <<2>>),
   covered |-> Given("index", IndexOnlyScan("u", "iu", <<>>), "u", <<1, 2>>)]

Joins ==
  [equal   |-> Sql("join", Joined(Select(<<Star>>, "u", NoExpr), "w", Eq(Ref("u", "a"), Ref("w", "a"))), <<1, 2, 3>>),
   turned  |-> Sql("join", Joined(Select(<<Ref("u", "d"), Ref("w", "a")>>, "u",
                     And(Eq(Ref("u", "d"), IntLit(5)), Eq(IntLit(1), IntLit(1)))), "w",
                     Eq(Ref("w", "a"), Ref("u", "a"))), <<2, 3>>),
   crossed |-> [Sql("join", Joined(Select(<<C("a")>>, "u", NoExpr), "w",
                     Binary("LT", Ref("u", "a"), Ref("w", "a"))), <<1>>)
              EXCEPT !.stale = {NoTable, "w"}, !.other = <<3>>],
   leftnull |-> Sql("join", Joined(Select(<<Ref("w", "a")>>, "u", Not(Ref("u", "a"))), "w",
                     Eq(Ref("u", "a"), Ref("w", "a"))), <<3>>),
   strings |-> Throwing(Sql("join", Joined(Select(<<Star>>, "t", NoExpr), "u",
                     Eq(Ref("t", "a"), Ref("u", "a"))), <<1, 2, 3, 4>>), {"t"}),
   nested  |-> [Given("join", Join("NestedLoopJoin", SeqScan("w"), SeqScan("u"), <<5>>, <<3>>), "w", <<1, 2, 3>>)
                EXCEPT !.join = "u", !.other = <<1, 2, 3>>],
   merged  |-> [Given("join", Join("MergeJoin", SeqScan("w"), SeqScan("u"), <<5>>, <<3>>), "w", <<1, 2, 3>>)
                EXCEPT !.join = "u", !.other = <<1, 2, 3>>],
   looked  |-> [Given("join", Join("IndexNLJoin", SeqScan("u"), SeqScan("w"), <<3>>, <<5>>), "u", <<1, 2, 3>>)
                EXCEPT !.join = "w", !.other = <<1, 2, 3>>]]

Orders ==
  [bytext |-> [Sql("order", OrderedBy(All(NoExpr), <<OrderBy(C("s"), TRUE), OrderBy(C("a"), FALSE)>>), <<1, 2>>)
               EXCEPT !.keys = <<Down(2), Up(1)>>],
   top    |-> [Given("order", Sort("TopN", SeqScan("t"), <<Up(1)>>, 2), "t", <<1, 2>>)
               EXCEPT !.keys = <<Up(1)>>, !.size = 2],
   external |-> [Given("order", Sort("ExternalSort", SeqScan("u"), <<Down(4), Up(3)>>, 0), "u", <<1, 2>>)
                 EXCEPT !.keys = <<Down(2), Up(1)>>]]

Groups ==
  [sums  |-> [Sql("group", GroupedBy(Select(<<C("s"), Call("SUM", "a")>>, "t", NoExpr), <<C("s")>>), <<2>>)
              EXCEPT !.agg = 1],
   count |-> [Sql("group", GroupedBy(Select(<<C("a"), Call("COUNT", "")>>, "t", NoExpr), <<C("a")>>), <<1>>)
              EXCEPT !.fn = "COUNT"],
   texts |-> Throwing(Sql("group", GroupedBy(Select(<<Call("MIN", "s")>>, "t", NoExpr), <<C("a")>>), <<1>>), {"t"}),
   average |-> [Sql("group", GroupedBy(Select(<<Call("AVG", "a")>>, "u", NoExpr), <<C("d")>>), <<2>>)
                EXCEPT !.fn = "AVG"],
   least |-> [Sql("group", GroupedBy(Select(<<Call("MIN", "d"), Call("MAX", "a")>>, "u", NoExpr), <<C("a")>>), <<1>>)
              EXCEPT !.fn = "MIN", !.agg = 2],
   most  |-> [Sql("group", GroupedBy(Select(<<Call("MAX", "a")>>, "u", NoExpr), <<C("d"), C("a")>>), <<2, 1>>)
              EXCEPT !.fn = "MAX"],
   sorted |-> [Given("group", Aggregate("StreamAggregate",
                       Sort("InMemorySort", SeqScan("u"), <<Up(3)>>, 0), <<3>>, 4, "SUM"), "u", <<1>>)
               EXCEPT !.agg = 2]]

Windows ==
  [second |-> [Given("window", LimitTo(SeqScan("t"), 1, 2), "t", <<1, 2>>) EXCEPT !.start = 1, !.size = 2],
   nothing |-> [Given("window", LimitTo(SeqScan("t"), 0, 0), "t", <<1, 2>>) EXCEPT !.size = 0],
   distinct |-> [Given("window", LimitTo(Distinct(SeqScan("t"), <<2, 9>>), 0, 2), "t", <<2>>)
                 EXCEPT !.distinct = TRUE, !.size = 2],
   rows |-> [Given("window", Distinct(SeqScan("u"), <<9>>), "u", <<1, 2>>) EXCEPT !.distinct = TRUE]]

MCQueries == Filters @@ IndexQueries @@ Joins @@ Orders @@ Groups @@ Windows

\* What each condition means, of the cells of a row.  NOT is a test for null, and
\* IS NULL its opposite; a condition takes a null for 0 or ""; an ON that is not
\* an equation is ignored.
MCSelects(name, row) ==
  LET a == row[1].num
      s == row[2].str
  IN  CASE name = "ilike" -> s \in {X, Y} /\ a = 0
        [] name = "notlike" -> s # X
        [] name = "isnull" -> row[1].ok
        [] name \in {"not", "leftnull"} -> ~ row[1].ok /\ (name = "leftnull" => row[3].num = 0)
        [] name = "never" -> FALSE
        [] name \in {"two", "folded"} -> a = 2
        [] name \in {"zero", "point"} -> a = 0
        [] name = "x" -> s = X
        [] name = "range" -> s \in {X, Y}
        [] name \in {"equal", "looked"} -> a = row[3].num
        [] name \in {"nested", "merged"} -> a = row[2].num
        [] name = "turned" -> a = row[3].num /\ row[2].num = 5
        [] OTHER -> TRUE

-----------------------------------------------------------------------------

\* Keys of one component and of two, numbers and strings; one key with two rids.
MCIndexEntries ==
  {<<k, <<0, 0>>>> : k \in {Num(0), Num(1), Num(2), <<NumComponent(1), StrComponent(X)>>,
                            Str(Y), Str(X)}}
  \cup {<<Num(1), <<0, 1>>>>}
=============================================================================
