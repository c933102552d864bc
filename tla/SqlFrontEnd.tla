---------------------------- MODULE SqlFrontEnd ----------------------------
(***************************************************************************)
(* Transformer and Binder: from the syntax tree of a SELECT to a bound     *)
(* statement, whose columns are table and column ids.                      *)
(*                                                                         *)
(* The tree is what the vendored SQL parser gives: a reference to a        *)
(* column, a call of an aggregate (its name in capitals), a star, a        *)
(* literal, or an operator.  An expression that makes Transformer or       *)
(* Binder throw becomes Error.                                             *)
(***************************************************************************)
EXTENDS Operators

NoTable == ""
NoFn == ""

-----------------------------------------------------------------------------
(* Syntax trees.                                                           *)

Ref(table, name) == [op |-> "ref", table |-> table, name |-> name]
Call(fn, name) == [op |-> "call", fn |-> fn, name |-> name]
Star == [op |-> "star"]
IntLit(n) == Constant("int", n, <<>>)
StrLit(s) == Constant("string", 0, s)
NullLit == Constant("null", 0, <<>>)

\* IS NOT NULL is a NOT over an IS NULL.
IsNull(e) == Unary("ISNULL", e)
Not(e) == Unary("NOT", e)
Exists(e) == Unary("EXISTS", e)

\* A SELECT of one table; join: the other table of a JOIN, with its condition.
Select(sel, from, where) ==
  [from |-> from, join |-> NoTable, on |-> NoExpr, sel |-> sel, where |-> where,
   group |-> <<>>, order |-> <<>>]
Joined(q, table, on) == [q EXCEPT !.join = table, !.on = on]
GroupedBy(q, exprs) == [q EXCEPT !.group = exprs]

\* exprs: each with its direction.
OrderedBy(q, exprs) == [q EXCEPT !.order = exprs]

-----------------------------------------------------------------------------
(* Transformer.                                                            *)

Error == [op |-> "error"]

BinaryOps == Comparisons \cup Likes \cup {"ADD", "SUB", "MUL", "DRI", "AND", "OR", "IN"}
UnaryOps == {"ISNULL", "NOT", "EXISTS"}

\* Mutant of TransformerColumnRef: a name without a table gets no table.
TransformerColumnRefBare(e, current) ==
  [op |-> "parsed", table |-> e.table, name |-> e.name, fn |-> NoFn]

\* A name without a table belongs to the table named last (current_table_name_).
TransformerColumnRef(e, current) ==
  [op |-> "parsed", table |-> IF e.table = NoTable THEN current ELSE e.table,
   name |-> e.name, fn |-> NoFn]

\* transformerUnaryOperatorType: NOT is taken for IS NULL, and IS NULL for its
\* opposite; EXISTS has no type.
TransformerUnary(e, arg) ==
  CASE e.op = "NOT" -> Unary("IS_NULL", arg)
    [] e.op = "ISNULL" -> Unary("NON_NULL", arg)
    [] OTHER -> Error

RECURSIVE TransformerExpression(_, _)
TransformerExpression(e, current) ==
  CASE e.op = "ref" -> TransformerColumnRef(e, current)
    [] e.op = "call" -> [op |-> "parsed", table |-> NoTable, name |-> e.name, fn |-> e.fn]
    [] e.op \in {"const", "star", "none"} -> e
    [] e.op \in UnaryOps -> TransformerUnary(e, TransformerExpression(e.l, current))
    [] e.op \in BinaryOps -> Binary(e.op, TransformerExpression(e.l, current),
                                    TransformerExpression(e.r, current))
    [] OTHER -> Error

\* The name of a joined FROM is null, so a JOIN leaves what an earlier statement
\* of the batch has set.
CurrentTable(q, stale) == IF q.join = NoTable THEN q.from ELSE stale

TransformerSelectStatement(q, stale) ==
  LET t(e) == TransformerExpression(e, CurrentTable(q, stale))
      all(es) == [i \in DOMAIN es |-> t(es[i])]
  IN  [q EXCEPT !.on = t(@), !.sel = all(@), !.where = t(@), !.group = all(@),
                !.order = [i \in DOMAIN @ |-> [@[i] EXCEPT !.e = t(@)]]]

-----------------------------------------------------------------------------
(* Binder.                                                                 *)

\* A name without a table belongs to the first table of the statement; an
\* aggregate without a column counts the first one.
BoundColumnExpression(e, from) ==
  LET table == IF e.table = NoTable THEN from ELSE e.table
      schema == Schemas[table]
      at == IF e.name = "" /\ e.fn # NoFn THEN 1
            ELSE SelectInSeq(schema, LAMBDA col : col.name = e.name)
  IN  IF table \notin Tables THEN Error
      ELSE IF at = 0 THEN Error ELSE Column(table, schema[at].id, e.fn)

RECURSIVE BoundExpression(_, _)
BoundExpression(e, from) ==
  CASE e.op = "parsed" -> BoundColumnExpression(e, from)
    [] e.op \in NullTests -> Unary(e.op, BoundExpression(e.l, from))
    [] e.op \in BinaryOps -> Binary(e.op, BoundExpression(e.l, from), BoundExpression(e.r, from))
    [] OTHER -> e

ExpandStar(table) ==
  [i \in DOMAIN Schemas[table] |-> Column(table, Schemas[table][i].id, NoFn)]

BinderSelectStatement(q) ==
  LET b(e) == BoundExpression(e, q.from)
      stars == ExpandStar(q.from) \o (IF q.join = NoTable THEN <<>> ELSE ExpandStar(q.join))
      all(es) == Concat([i \in DOMAIN es |-> IF es[i] = Star THEN stars ELSE <<b(es[i])>>])
  IN  [q EXCEPT !.on = b(@), !.sel = all(@), !.where = b(@), !.group = all(@),
                !.order = [i \in DOMAIN @ |-> [@[i] EXCEPT !.e = b(@)]]]

\* Something in the expression has thrown.
RECURSIVE HasError(_)
HasError(e) ==
  \/ e = Error
  \/ e.op \in NullTests /\ HasError(e.l)
  \/ e.op \in BinaryOps /\ (HasError(e.l) \/ HasError(e.r))

Throws(b) ==
  \/ b.from \notin Tables \/ b.join \notin Tables \cup {NoTable}
  \/ HasError(b.on) \/ HasError(b.where)
  \/ \E e \in ToSet(b.sel) \cup ToSet(b.group) \cup {o.e : o \in ToSet(b.order)} : HasError(e)

\* ResultColumnNames: one for every expression of the list, whatever the plan
\* returns.
ResultColumnNames(b) ==
  LET named(e) == <<e.fn, (CHOOSE col \in ToSet(Schemas[e.table]) : col.id = e.id).name>>
  IN  [i \in DOMAIN b.sel |-> IF b.sel[i].op = "column" THEN named(b.sel[i]) ELSE <<NoFn, "">>]
=============================================================================
