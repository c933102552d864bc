---------------------------- MODULE Expressions ----------------------------
(***************************************************************************)
(* ExpressionEvaluator and LikeMatcher: the value of a bound expression    *)
(* over one row of a chunk.                                                *)
(*                                                                         *)
(* A bound expression is a record: a column (its table, its id and, for an *)
(* aggregate, the function's name), a constant, a binary or a unary        *)
(* operator.  Doubles are whole numbers here, so the quotients enumerated  *)
(* divide evenly or divide a number other than zero by zero.  A string     *)
(* compared with a numeric column reads a vector that has no strings; it   *)
(* is left out of the inputs.                                              *)
(***************************************************************************)
EXTENDS Chunks

Constant(kind, num, str) ==
  [op |-> "const", val |-> [kind |-> kind, num |-> num, str |-> str]]
Column(table, id, fn) == [op |-> "column", table |-> table, id |-> id, fn |-> fn]
Binary(op, l, r) == [op |-> op, l |-> l, r |-> r]
Unary(op, l) == [op |-> op, l |-> l]

NullTests == {"IS_NULL", "NON_NULL"}
Comparisons == {"EQ", "NE", "GT", "GTE", "LT", "LTE"}
Likes == {"LIKE", "NOT_LIKE", "ILIKE"}
Leaves == {"const", "column"}

-----------------------------------------------------------------------------
(* LikeMatcher.                                                            *)

Percent == 37
Underscore == 95

ToLower(b) == IF b \in 65 .. 90 THEN b + 32 ELSE b

CharEq(a, b, ci) == IF ci THEN ToLower(a) = ToLower(b) ELSE a = b

\* The text is used up: what is left of the pattern must be percent signs.
Exhausted(pattern, pi) == \A i \in pi .. Len(pattern) : pattern[i] = Percent

\* ti, pi: cursors; star: the last percent sign met, 0 for none; mark: where
\* the text resumes when that percent sign swallows one more character.
RECURSIVE MatchFrom(_, _, _, _, _, _, _)
MatchFrom(text, pattern, ci, ti, pi, star, mark) ==
  LET inside == pi <= Len(pattern)
  IN  IF ti > Len(text) THEN Exhausted(pattern, pi)
      ELSE IF inside /\ (pattern[pi] = Underscore \/ CharEq(pattern[pi], text[ti], ci))
        THEN MatchFrom(text, pattern, ci, ti + 1, pi + 1, star, mark)
      ELSE IF inside /\ pattern[pi] = Percent
        THEN MatchFrom(text, pattern, ci, ti, pi + 1, pi, ti)
      ELSE IF star # 0
        THEN MatchFrom(text, pattern, ci, mark + 1, star + 1, star, mark + 1)
      ELSE FALSE

Match(text, pattern, ci) == MatchFrom(text, pattern, ci, 1, 1, 0, 0)

-----------------------------------------------------------------------------
(* Values.                                                                 *)

StrLess(s, t) ==
  \E n \in 0 .. Len(t) - 1 :
    /\ n <= Len(s) /\ SubSeq(s, 1, n) = SubSeq(t, 1, n)
    /\ n = Len(s) \/ s[n + 1] < t[n + 1]

Bit(b) == IF b THEN 1 ELSE 0

Infinity == 1000000
Divide(l, r) == IF r # 0 THEN l \div r ELSE IF l > 0 THEN Infinity ELSE -Infinity

\* EvalBinary: two numbers.
Compute(op, l, r) ==
  CASE op = "AND" -> Bit(l # 0 /\ r # 0)
    [] op = "OR"  -> Bit(l # 0 \/ r # 0)
    [] op = "EQ"  -> Bit(l = r)
    [] op = "NE"  -> Bit(l # r)
    [] op = "GT"  -> Bit(l > r)
    [] op = "GTE" -> Bit(l >= r)
    [] op = "LT"  -> Bit(l < r)
    [] op = "LTE" -> Bit(l <= r)
    [] op = "ADD" -> l + r
    [] op = "SUB" -> l - r
    [] op = "MUL" -> l * r
    [] op = "DRI" -> Divide(l, r)

\* EvalStringComparison: two strings.
CompareText(op, l, r) ==
  CASE op = "EQ"  -> Bit(l = r)
    [] op = "NE"  -> Bit(l # r)
    [] op = "GT"  -> Bit(StrLess(r, l))
    [] op = "GTE" -> Bit(~ StrLess(l, r))
    [] op = "LT"  -> Bit(StrLess(l, r))
    [] op = "LTE" -> Bit(~ StrLess(r, l))
    [] op = "LIKE"     -> Bit(Match(l, r, FALSE))
    [] op = "NOT_LIKE" -> Bit(~ Match(l, r, FALSE))
    [] op = "ILIKE"    -> Bit(Match(l, r, TRUE))

IsStringOperand(e, c) ==
  \/ e.op = "column" /\ HasCol(c, e.id) /\ IsVarlen(c.types[ColAt(c, e.id)])
  \/ e.op = "const" /\ e.val.kind = "string"

StringDomain(e, c) ==
  /\ e.op \in Comparisons \cup Likes
  /\ IsStringOperand(e.l, c) \/ IsStringOperand(e.r, c)

\* EvalString throws.
RefusedString(e, c) ==
  CASE e.op = "column" -> ~ HasCol(c, e.id)
    [] e.op = "const" -> e.val.kind # "string"
    [] OTHER -> TRUE

\* Eval throws for every row of such a chunk: no operator short-circuits.
RECURSIVE Refused(_, _)
Refused(e, c) ==
  CASE e.op = "const" -> e.val.kind \in {"string", "null"}
    [] e.op = "column" -> ~ HasCol(c, e.id) \/ IsVarlen(c.types[ColAt(c, e.id)])
    [] e.op \in NullTests -> e.l.op # "column" \/ ~ HasCol(c, e.l.id)
    [] StringDomain(e, c) -> RefusedString(e.l, c) \/ RefusedString(e.r, c)
    [] OTHER -> e.op \in Likes \cup {"IN"} \/ Refused(e.l, c) \/ Refused(e.r, c)

EvalString(e, c, row) == IF e.op = "const" THEN e.val.str ELSE row[ColAt(c, e.id)].str

EvalUnary(op, cell) == Bit(IF op = "IS_NULL" THEN ~ cell.ok ELSE cell.ok)

RECURSIVE Eval(_, _, _)
Eval(e, c, row) ==
  CASE e.op = "const" -> e.val.num
    [] e.op = "column" -> row[ColAt(c, e.id)].num
    [] e.op \in NullTests -> EvalUnary(e.op, row[ColAt(c, e.l.id)])
    [] StringDomain(e, c) ->
         CompareText(e.op, EvalString(e.l, c, row), EvalString(e.r, c, row))
    [] OTHER -> Compute(e.op, Eval(e.l, c, row), Eval(e.r, c, row))

EvalPredicate(e, c, row) == Eval(e, c, row) # 0
=============================================================================
