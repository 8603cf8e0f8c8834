------------------------------ MODULE Grammar ------------------------------
(***************************************************************************)
(* Expressions as text: how a CHECK condition is written into the catalog  *)
(* file (frontend/ast.cpp, expressionToString) and how the parser reads it *)
(* back (frontend/parser.cpp, parseWholeExpression).  Text is a sequence   *)
(* of tokens, which the lexer separates again; quoting a string literal    *)
(* and reading it are inverse to each other.                               *)
(***************************************************************************)
EXTENDS Expressions

CONSTANT Scale      \* 10 to the number of decimals of std::to_string(double)

ASSUME ScaleAssumption == Scale \in Nat \ {0}

\* A token: its kind, the value of a literal or the column of an identifier.
Tok(k) == [k |-> k, v |-> Null]
Literal(a) == [k |-> "literal", v |-> a]
Bracketed(s) == <<Tok("(")>> \o s \o <<Tok(")")>>

----------------------------------------------------------------------------
(******************************* Writing ***********************************)

\* std::to_string: a fixed number of decimals.
Printed(a) ==
    IF a.t = "Double" THEN MakeDouble(Rounded(Num(a) * Scale, Den(a)), Scale) ELSE a

\* A sign is a token of its own.
LiteralText(a) ==
    LET p == Printed(a)
    IN  IF IsNumeric(a) /\ Num(p) < 0
        THEN <<Tok("-"), Literal([p EXCEPT !.v[1] = -@])>>
        ELSE <<Literal(p)>>

RECURSIVE Written(_)
Written(e) ==
    LET arg(i) == Written(e.args[i])
        not == IF e.neg THEN <<Tok("NOT")>> ELSE << >>
        listed[i \in 0 .. Len(e.args)] ==
            IF i <= 1 THEN IF i = 0 THEN << >> ELSE arg(1)
            ELSE listed[i - 1] \o <<Tok(",")>> \o arg(i)
        items[i \in 1 .. Len(e.args)] ==
            CASE i = 1 -> << >> [] i = 2 -> arg(2)
              [] OTHER -> items[i - 1] \o <<Tok(",")>> \o arg(i)
        branches[i \in 0 .. Len(e.args) \div 2] ==
            IF i = 0 THEN << >>
            ELSE branches[i - 1] \o <<Tok("WHEN")>> \o arg(2 * i - 1)
                                 \o <<Tok("THEN")>> \o arg(2 * i)
    IN CASE e.op = "lit" -> LiteralText(e.v)
         [] e.op = "col" -> <<[k |-> "identifier", v |-> e.v]>>
         [] e.op \in Comparisons \cup Arithmetic \cup Connectives ->
              Bracketed(arg(1) \o <<Tok(e.op)>> \o arg(2))
         [] e.op = "NOT" -> Bracketed(<<Tok("NOT")>> \o arg(1))
         [] e.op = "IS" -> Bracketed(arg(1) \o <<Tok("IS")>> \o not \o <<Literal(Null)>>)
         [] e.op = "BETWEEN" ->
              Bracketed(arg(1) \o not \o <<Tok("BETWEEN")>> \o arg(2) \o <<Tok("AND")>> \o arg(3))
         [] e.op = "LIKE" -> Bracketed(arg(1) \o not \o <<Tok("LIKE")>> \o arg(2))
         [] e.op = "IN" ->
              Bracketed(arg(1) \o not \o <<Tok("IN")>> \o Bracketed(items[Len(e.args)]))
         [] e.op = "CAST" ->
              <<Tok("CAST")>> \o Bracketed(arg(1) \o <<Tok("AS"), Tok(e.as)>>)
         [] e.op = "CASE" ->
              <<Tok("CASE")>> \o branches[Len(e.args) \div 2]
              \o (IF Len(e.args) % 2 = 1 THEN <<Tok("ELSE")>> \o arg(Len(e.args)) ELSE << >>)
              \o <<Tok("END")>>
         [] OTHER -> <<Tok(e.op)>> \o Bracketed(listed[Len(e.args)])

----------------------------------------------------------------------------
(******************************* Reading ***********************************)

\* A parse function returns the tree and the position behind it; position 0
\* is a ParseError, after which only the end of input is seen.
Result(e, i) == [e |-> e, i |-> i]
Failure == Result(Lit(Null), 0)
Peek(t, i) == IF i \in DOMAIN t THEN t[i].k
              ELSE "end of input"
Consumed(t, i, k) == IF Peek(t, i) = k THEN i + 1 ELSE 0
Extended(r, e) == IF r.i = 0 THEN Failure ELSE Result(e, r.i)
Closed(t, r, k) == Extended(Result(r.e, Consumed(t, r.i, k)), r.e)

IsLiteral(t, i) == Peek(t, i) = "literal"
IsNullToken(t, i) == IsLiteral(t, i) /\ IsNull(t[i].v)

MutantDropsSign(e) == e

MinusLiteral(e) == Lit([e.v EXCEPT !.v[1] = -@])

Minus(e) ==
    IF e.op = "lit" /\ IsNumeric(e.v) THEN MinusLiteral(e)
    ELSE Node("-", <<Lit(MakeInt(0)), e>>)

\* parseLiteral, for the items of IN: one sign at most.
ParseLiteral(t, i) ==
    CASE IsLiteral(t, i) -> Result(Lit(t[i].v), i + 1)
      [] /\ Peek(t, i) \in {"+", "-"} /\ IsLiteral(t, i + 1) /\ IsNumeric(t[i + 1].v) ->
            Result(IF Peek(t, i) = "-" THEN MinusLiteral(Lit(t[i + 1].v))
                   ELSE Lit(t[i + 1].v), i + 2)
      [] OTHER -> Failure

\* The levels that group to the left, what they are built from, their tokens.
Below == [or |-> "and", and |-> "not", add |-> "mul", mul |-> "unary"]
Joins == [or |-> {"OR"}, and |-> {"AND"}, add |-> {"+", "-"}, mul |-> {"*", "/"}]

RECURSIVE Parse(_, _, _), Rest(_, _, _), ItemsFrom(_, _, _, _), Branches(_, _, _)

\* The loop of parseOr, parseAnd, parseAdditive, parseMultiplicative.
Rest(level, t, left) ==
    IF Peek(t, left.i) \in Joins[level]
    THEN LET right == Parse(Below[level], t, left.i + 1)
         IN  Rest(level, t, Extended(right, Node(t[left.i].k, <<left.e, right.e>>)))
    ELSE left

\* What follows the first operand of a comparison.
Tested(t, left) ==
    LET neg == Peek(t, left.i) = "NOT" /\ Peek(t, left.i + 1) \in {"IN", "BETWEEN", "LIKE"}
        at == IF neg THEN left.i + 1 ELSE left.i
        op == Peek(t, at)
        isNot == Peek(t, at + 1) = "NOT"
        null == IF isNot THEN at + 2 ELSE at + 1
        second == Parse("add", t, at + 1)
        third == Parse("add", t, Consumed(t, second.i, "AND"))
        list == ItemsFrom("literal", t, Consumed(t, at + 1, "("), <<left.e>>)
        Made(args, i, n) == Extended(Result(left.e, i), [Node(op, args) EXCEPT !.neg = n])
    IN CASE left.i = 0 -> Failure
         [] op = "IS" ->
              Made(<<left.e>>, IF IsNullToken(t, null) THEN null + 1 ELSE 0, isNot)
         [] op = "IN" -> Made(list.e.args, Consumed(t, list.i, ")"), neg)
         [] op = "BETWEEN" -> Made(<<left.e, second.e, third.e>>, third.i, neg)
         [] op = "LIKE" \/ op \in Comparisons -> Made(<<left.e, second.e>>, second.i, neg)
         [] OTHER -> left

\* Operands separated by commas, as the arguments of one node.
ItemsFrom(level, t, i, args) ==
    LET item == IF level = "literal" THEN ParseLiteral(t, i) ELSE Parse(level, t, i)
        all == Append(args, item.e)
    IN  IF item.i = 0 THEN Failure
        ELSE IF Peek(t, item.i) = "," THEN ItemsFrom(level, t, item.i + 1, all)
        ELSE Result(Node("list", all), item.i)

\* WHEN ... THEN ..., as often as there is a WHEN.
Branches(t, i, args) ==
    LET when == Parse("or", t, i + 1)
        then == Parse("add", t, Consumed(t, when.i, "THEN"))
    IN  IF Peek(t, i) = "WHEN" /\ then.i # 0
        THEN Branches(t, then.i, args \o <<when.e, then.e>>)
        ELSE IF Peek(t, i) = "WHEN" \/ args = << >> THEN Failure
        ELSE Result(Node("CASE", args), i)

ParseCase(t, i) ==
    LET whens == Branches(t, i + 1, << >>)
        else == Parse("add", t, whens.i + 1)
    IN  IF Peek(t, whens.i) # "ELSE" THEN Closed(t, whens, "END")
        ELSE Closed(t, Extended(else, Node("CASE", Append(whens.e.args, else.e))), "END")

ParseCall(t, i) ==
    LET list == ItemsFrom("or", t, i + 2, << >>)
        operand == Parse("or", t, i + 2)
        type == Consumed(t, operand.i, "AS")
    IN  IF t[i].k = "CAST"
        THEN Closed(t, Extended(Result(operand.e, IF type = 0 THEN 0 ELSE type + 1),
                                [Node("CAST", <<operand.e>>) EXCEPT !.as = Peek(t, type)]), ")")
        ELSE Closed(t, Extended(list, Node(t[i].k, list.e.args)), ")")

Parse(level, t, i) ==
    CASE i = 0 -> Failure
      [] level \in DOMAIN Below -> Rest(level, t, Parse(Below[level], t, i))
      [] level = "not" ->
            IF Peek(t, i) = "NOT"
            THEN LET r == Parse("not", t, i + 1) IN Extended(r, Node("NOT", <<r.e>>))
            ELSE Tested(t, Parse("add", t, i))
      [] level = "unary" ->
            CASE Peek(t, i) = "-" ->
                    LET r == Parse("unary", t, i + 1) IN Extended(r, Minus(r.e))
              [] Peek(t, i) = "+" -> Parse("unary", t, i + 1)
              [] Peek(t, i) = "CASE" -> ParseCase(t, i)
              [] Peek(t, i + 1) = "(" /\ Peek(t, i) \in Functions \cup {"CAST"} -> ParseCall(t, i)
              [] Peek(t, i) = "(" -> Closed(t, Parse("or", t, i + 1), ")")
              [] IsLiteral(t, i) -> Result(Lit(t[i].v), i + 1)
              [] Peek(t, i) = "identifier" -> Result(Col(Num(t[i].v)), i + 1)
              [] OTHER -> Failure

\* The whole text is one expression: {} or the tree.
ReadBack(t) ==
    LET r == Parse("or", t, 1)
    IN  IF r.i = Len(t) + 1 THEN {r.e} ELSE {}
=============================================================================
