---------------------------- MODULE Expressions ----------------------------
(***************************************************************************)
(* Expression trees: how they are evaluated on a row                       *)
(* (vm/expression_eval.cpp), the type the semantic analyzer gives them,    *)
(* the rewrite before execution (vm/rewrite.cpp), and the rows an index    *)
(* offers for a condition (vm/executor_engine.cpp).                        *)
(*                                                                         *)
(* Subqueries are not part of the tree here: a materialized one is its     *)
(* list of literals.                                                       *)
(***************************************************************************)
EXTENDS Values

CONSTANTS
    ColumnTypes,    \* the type of each column of the table
    Indexes         \* the column lists of its indexes

ASSUME ColumnAssumption ==
    /\ ColumnTypes \in Seq({"Int", "Float", "Bool", "Text"})
    /\ \A i \in Indexes : i \in Seq(DOMAIN ColumnTypes) /\ i # << >>

Comparisons == {"=", "!=", "<", "<=", ">", ">="}
Arithmetic == {"+", "-", "*", "/"}
Connectives == {"AND", "OR"}
Functions == {"COALESCE", "NULLIF", "UPPER", "LOWER", "LENGTH", "TRIM", "SUBSTR",
              "ABS", "CEIL", "FLOOR", "ROUND", "MOD"}

\* A node: what it is, its operands, whether it is negated (IS NOT, NOT IN
\* ...), the value of a literal or column number, the type of a CAST.
Node(op, args) == [op |-> op, args |-> args, neg |-> FALSE, v |-> Null, as |-> "Int"]
Lit(a) == [Node("lit", << >>) EXCEPT !.v = a]
Col(c) == [Node("col", << >>) EXCEPT !.v = MakeInt(c)]
ColumnOf(e) == Num(e.v)

----------------------------------------------------------------------------
(***************************** Evaluation **********************************)

AsText(a) == IF a.t = "Text" THEN a.v ELSE ToString(a)

\* std::stoll and std::stod: the digits at the start of a text, if there are.
ParsedInt(s) ==
    LET digits == {n \in 1 .. Len(s) : \A i \in 1 .. n : s[i] \in 48 .. 57}
        value[n \in Nat] == IF n = 0 THEN 0 ELSE 10 * value[n - 1] + s[n] - 48
    IN  IF digits = {} THEN {}
        ELSE {value[CHOOSE n \in digits : \A m \in digits : m <= n]}

CastValue(a, type) ==
    CASE IsNull(a) -> Null
      [] type = "Int" /\ a.t = "Int" -> a
      [] type = "Int" /\ a.t = "Double" -> MakeInt(Truncated(Num(a), Den(a)))
      [] type = "Int" /\ a.t = "Bool" -> MakeInt(a.v[1])
      [] type = "Int" /\ a.t = "Text" ->
            IF ParsedInt(a.v) = {} THEN Null ELSE MakeInt(CHOOSE i \in ParsedInt(a.v) : TRUE)
      [] type = "Float" /\ IsNumeric(a) -> AsDouble(a)
      [] type = "Float" /\ a.t = "Text" ->
            IF ParsedInt(a.v) = {} THEN Null
            ELSE MakeDouble(CHOOSE i \in ParsedInt(a.v) : TRUE, 1)
      [] type = "Bool" /\ a.t = "Bool" -> a
      [] type = "Bool" /\ a.t = "Int" -> MakeBool(Num(a) # 0)
      [] type = "Text" -> MakeText(AsText(a))
      [] OTHER -> Null

\* Characters: small letters 97 .. 122, capital letters 65 .. 90, blank 32.
Upper(c) == IF c \in 97 .. 122 THEN c - 32 ELSE c
Lower(c) == IF c \in 65 .. 90 THEN c + 32 ELSE c
Mapped(s, F(_)) == [i \in DOMAIN s |-> F(s[i])]
Trimmed(s) ==
    LET solid == {i \in DOMAIN s : s[i] # 32}
    IN  IF solid = {} THEN << >>
        ELSE SubSeq(s, CHOOSE i \in solid : \A j \in solid : i <= j,
                       CHOOSE i \in solid : \A j \in solid : i >= j)
\* intValue of a value that is no Int is 0.
IntOf(a) == IF a.t = "Int" THEN Num(a) ELSE 0
SubString(s, from, length) ==
    LET last == from + length - 1
    IN  SubSeq(s, from, IF last < Len(s) THEN last ELSE Len(s))
AtLeast(n, i) == IF i < n THEN n ELSE i
Rounded(n, d) == LET q == Truncated(2 * Abs(n) + d, 2 * d) IN IF n < 0 THEN -q ELSE q

\* The functions of a text, of a number n / d, and of any values.
TextCall(fn, s) ==
    CASE fn = "UPPER" -> MakeText(Mapped(s, Upper))
      [] fn = "LOWER" -> MakeText(Mapped(s, Lower))
      [] fn = "LENGTH" -> MakeInt(Len(s))
      [] fn = "TRIM" -> MakeText(Trimmed(s))
NumberCall(fn, n, d) ==
    CASE fn = "CEIL" -> MakeInt(-((-n) \div d))
      [] fn = "FLOOR" -> MakeInt(n \div d)
      [] fn = "ROUND" -> MakeDouble(Rounded(n, d), 1)
EvalCall(fn, a) ==
    LET some == {i \in DOMAIN a : ~IsNull(a[i])}
    IN CASE fn = "COALESCE" ->
              IF some = {} THEN Null ELSE a[CHOOSE i \in some : \A j \in some : i <= j]
         [] IsNull(a[1]) -> Null
         [] fn = "NULLIF" -> IF CompareValues(a[1], a[2]) = {0} THEN Null ELSE a[1]
         [] fn \in {"UPPER", "LOWER", "LENGTH", "TRIM"} -> TextCall(fn, AsText(a[1]))
         [] fn = "SUBSTR" ->
              IF IsNull(a[2]) THEN Null
              ELSE MakeText(SubString(AsText(a[1]), AtLeast(1, IntOf(a[2])),
                                      IF Len(a) = 3 /\ ~IsNull(a[3]) THEN AtLeast(0, IntOf(a[3]))
                                      ELSE Len(AsText(a[1]))))
         [] fn = "ABS" -> IF a[1].t = "Double" THEN MakeDouble(Abs(Num(a[1])), Den(a[1]))
                          ELSE MakeInt(Abs(IntOf(a[1])))
         [] fn \in {"CEIL", "FLOOR", "ROUND"} ->
              IF IsNumeric(a[1]) THEN NumberCall(fn, Num(a[1]), Den(a[1])) ELSE Null
         [] fn = "MOD" -> IF IsNull(a[2]) \/ IntOf(a[2]) = 0 THEN Null
                          ELSE MakeInt(Remainder(IntOf(a[1]), IntOf(a[2])))

Holds(op, sign) ==
    CASE op = "=" -> sign = 0 [] op = "!=" -> sign # 0
      [] op = "<" -> sign < 0 [] op = "<=" -> sign <= 0
      [] op = ">" -> sign > 0 [] op = ">=" -> sign >= 0

Compare(op, a, b) ==
    LET signs == CompareValues(a, b)
    IN  IF signs = {} THEN Null ELSE MakeBool(\A sign \in signs : Holds(op, sign))

\* n / d and m / e: the result as a fraction.
Exact(op, n, d, m, e) ==
    CASE op = "+" -> <<n * e + m * d, d * e>>
      [] op = "-" -> <<n * e - m * d, d * e>>
      [] op = "*" -> <<n * m, d * e>>
      [] op = "/" -> <<n * e, d * m>>
Typed(double, f) == IF double THEN MakeDouble(f[1], f[2]) ELSE MakeInt(Truncated(f[1], f[2]))
Calculate(op, a, b) ==
    IF ~IsNumeric(a) \/ ~IsNumeric(b) \/ (op = "/" /\ Num(b) = 0) THEN Null
    ELSE Typed("Double" \in {a.t, b.t}, Exact(op, Num(a), Den(a), Num(b), Den(b)))

Connect(op, a, b) ==
    LET decides == MakeBool(op = "OR")
    IN  CASE a = decides \/ b = decides -> decides
          [] a.t = "Bool" /\ b.t = "Bool" -> MakeBool(op = "AND")
          [] OTHER -> Null

\* The matcher of LIKE: on a mismatch it goes back to the last % (at star),
\* which then swallows one character more (mark).  37 is %, 95 is _.
RECURSIVE Match(_, _, _, _, _, _)
Match(s, p, si, pi, star, mark) ==
    IF si > Len(s) THEN \A i \in pi .. Len(p) : p[i] = 37
    ELSE IF pi <= Len(p) /\ p[pi] \in {95, s[si]}
         THEN Match(s, p, si + 1, pi + 1, star, mark)
    ELSE IF pi <= Len(p) /\ p[pi] = 37 THEN Match(s, p, si, pi + 1, pi, si)
    ELSE star # 0 /\ Match(s, p, mark + 1, star + 1, star, mark + 1)

MutantUnanchored(s, p) == \E n \in 0 .. Len(s) : Match(SubSeq(s, 1, n), p, 1, 1, 0, 0)

LikeMatch(s, p) == Match(s, p, 1, 1, 0, 0)

Negated(e, a) == IF a.t = "Bool" /\ e.neg THEN MakeBool(~IsTrue(a)) ELSE a

\* IN: found, or not known as soon as a NULL was passed.
Member(a, items) ==
    CASE IsNull(a) -> Null
      [] \E i \in DOMAIN items : CompareValues(a, items[i]) = {0} -> MakeBool(TRUE)
      [] \E i \in DOMAIN items : IsNull(items[i]) -> Null
      [] OTHER -> MakeBool(FALSE)

Within(a, lo, hi) ==
    IF CompareValues(a, lo) = {} \/ CompareValues(a, hi) = {} THEN Null
    ELSE MakeBool(IsTrue(Compare(">=", a, lo)) /\ IsTrue(Compare("<=", a, hi)))

Like(a, p) ==
    IF a.t # "Text" \/ p.t # "Text" THEN Null ELSE MakeBool(LikeMatch(a.v, p.v))

RECURSIVE Eval(_, _)
Eval(e, row) ==
    LET arg(i) == Eval(e.args[i], row)
        args == [i \in DOMAIN e.args |-> arg(i)]
        whens == {i \in 1 .. Len(e.args) \div 2 : IsTrue(arg(2 * i - 1))}
    IN CASE e.op = "lit" -> e.v
         [] e.op = "col" -> IF ColumnOf(e) \in DOMAIN row THEN row[ColumnOf(e)] ELSE Null
         [] e.op \in Comparisons -> Compare(e.op, arg(1), arg(2))
         [] e.op \in Arithmetic -> Calculate(e.op, arg(1), arg(2))
         [] e.op \in Connectives -> Connect(e.op, arg(1), arg(2))
         [] e.op = "NOT" -> IF arg(1).t = "Bool" THEN MakeBool(~IsTrue(arg(1))) ELSE Null
         [] e.op = "IS" -> MakeBool(IsNull(arg(1)) # e.neg)
         [] e.op = "IN" -> Negated(e, Member(arg(1), Tail(args)))
         [] e.op = "BETWEEN" -> Negated(e, Within(arg(1), arg(2), arg(3)))
         [] e.op = "LIKE" -> Negated(e, Like(arg(1), arg(2)))
         [] e.op = "CAST" -> CastValue(arg(1), e.as)
         [] e.op = "CASE" ->
              IF whens # {} THEN arg(2 * CHOOSE i \in whens : \A j \in whens : i <= j)
              ELSE IF Len(e.args) % 2 = 1 THEN arg(Len(e.args)) ELSE Null
         [] OTHER -> EvalCall(e.op, args)

PredicateTrue(e, row) == IsTrue(Eval(e, row))

----------------------------------------------------------------------------
(************************* The semantic analyzer ***************************)

StringTypes == {"Text"}
NumericTypes == {"Int", "Float"}
Comparable(x, y) == x = y \/ {x, y} \subseteq NumericTypes

\* The type the analyzer resolves: "Unknown" is no type, "Error" a refusal.
LiteralType == [Int |-> "Int", Double |-> "Float", Text |-> "Text", Bool |-> "Bool",
                Null |-> "Unknown"]

MutantAbsIsInt(fn, types) ==
    LET known == {i \in DOMAIN types : types[i] # "Unknown"}
    IN CASE fn \in {"UPPER", "LOWER", "TRIM", "SUBSTR"} -> "Text"
         [] fn \in {"LENGTH", "CEIL", "FLOOR", "MOD", "ABS"} -> "Int"
         [] fn = "ROUND" -> "Float"
         [] known = {} -> "Unknown"
         [] OTHER -> types[CHOOSE i \in known : \A j \in known : i <= j]

CallType(fn, types) ==
    LET known == {i \in DOMAIN types : types[i] # "Unknown"}
    IN CASE fn \in {"UPPER", "LOWER", "TRIM", "SUBSTR"} -> "Text"
         [] fn \in {"LENGTH", "CEIL", "FLOOR", "MOD"} -> "Int"
         [] fn = "ABS" -> IF types[1] = "Float" THEN "Float" ELSE "Int"
         [] fn = "ROUND" -> "Float"
         [] fn = "COALESCE" -> IF known = {} THEN "Unknown"
                               ELSE types[CHOOSE i \in known : \A j \in known : i <= j]
         [] fn = "NULLIF" -> types[1]

RECURSIVE TypeOf(_)
TypeOf(e) ==
    LET types == [i \in DOMAIN e.args |-> TypeOf(e.args[i])]
        bothBool == types = <<"Bool", "Bool">>
        compare(i, j) == "Unknown" \in {types[i], types[j]} \/ Comparable(types[i], types[j])
        results == {i \in DOMAIN types : i % 2 = 0 \/ i = Len(types)}
        known == {i \in results : types[i] # "Unknown"}
        Expect(ok, type) == IF ok THEN type ELSE "Error"
    IN CASE \E i \in DOMAIN types : types[i] = "Error" -> "Error"
         [] e.op = "lit" -> LiteralType[e.v.t]
         [] e.op = "col" -> ColumnTypes[ColumnOf(e)]
         [] e.op \in Comparisons -> Expect(compare(1, 2), "Bool")
         [] e.op \in Arithmetic ->
              Expect({types[1], types[2]} \subseteq NumericTypes \cup {"Unknown"},
                     IF "Float" \in {types[1], types[2]} THEN "Float" ELSE "Int")
         [] e.op \in Connectives -> Expect(bothBool, "Bool")
         [] e.op = "NOT" -> Expect(types[1] = "Bool", "Bool")
         [] e.op = "IN" -> Expect(\A i \in DOMAIN types : compare(1, i), "Bool")
         [] e.op = "LIKE" -> Expect(types[1] \in StringTypes \cup {"Unknown"}, "Bool")
         [] e.op \in {"IS", "BETWEEN"} -> "Bool"
         [] e.op = "CAST" -> e.as
         [] e.op = "CASE" ->
              Expect(\A i \in 1 .. Len(types) \div 2 :
                         types[2 * i - 1] \in {"Bool", "Unknown"},
                     IF known = {} THEN "Unknown"
                     ELSE types[CHOOSE i \in known : \A j \in known : i <= j])
         [] OTHER -> CallType(e.op, types)

----------------------------------------------------------------------------
(****************************** The rewrite ********************************)

RECURSIVE IsFoldable(_)
IsFoldable(e) ==
    \/ e.op = "lit"
    \/ /\ e.op \in Comparisons \cup Arithmetic \cup Connectives \cup {"NOT"}
       /\ \A i \in DOMAIN e.args : IsFoldable(e.args[i])

IsNumber(e, i) == e.op = "lit" /\ IsNumeric(e.v) /\ e.v.v = <<i, 1>>
IsBool(e, b) == e = Lit(MakeBool(b))

MutantMirrorsMinus(e) ==
    LET neutral == IF e.op \in {"+", "-"} THEN 0 ELSE 1
    IN  CASE IsNumber(e.args[2], neutral) -> e.args[1]
          [] e.op # "/" /\ IsNumber(e.args[1], neutral) -> e.args[2]
          [] OTHER -> e

\* x + 0, x - 0, x * 1, x / 1 and their mirror images; the operand that is left.
Identity(e) ==
    LET neutral == IF e.op \in {"+", "-"} THEN 0 ELSE 1
    IN  CASE IsNumber(e.args[2], neutral) -> e.args[1]
          [] e.op \in {"+", "*"} /\ IsNumber(e.args[1], neutral) -> e.args[2]
          [] OTHER -> e

Simplified(e) ==
    LET decides == e.op = "OR"
    IN  CASE \E i \in 1 .. 2 : IsBool(e.args[i], decides) -> Lit(MakeBool(decides))
          [] IsBool(e.args[1], ~decides) -> e.args[2]
          [] IsBool(e.args[2], ~decides) -> e.args[1]
          [] OTHER -> e

RECURSIVE Rewritten(_)
Rewritten(e) ==
    LET deep == [e EXCEPT !.args = [i \in DOMAIN e.args |-> Rewritten(e.args[i])]]
    IN CASE IsFoldable(e) -> Lit(Eval(e, << >>))
         [] e.op \in Arithmetic -> Identity(deep)
         [] e.op \in Connectives -> Simplified(deep)
         [] e.op \in Comparisons \cup {"NOT"} -> deep
         [] OTHER -> e

----------------------------------------------------------------------------
(************************ The rows an index offers *************************)

MutantUnflipped(op) == op

Flipped(op) == CASE op = "<" -> ">" [] op = "<=" -> ">=" [] op = ">" -> "<"
                 [] op = ">=" -> "<=" [] OTHER -> op

\* column op literal, whichever way round it was written.
ColumnTest(e) ==
    CASE e.op \notin Comparisons -> {}
      [] e.args[1].op = "col" /\ e.args[2].op = "lit" ->
            {[col |-> ColumnOf(e.args[1]), op |-> e.op, key |-> e.args[2].v]}
      [] e.args[2].op = "col" /\ e.args[1].op = "lit" ->
            {[col |-> ColumnOf(e.args[2]), op |-> Flipped(e.op), key |-> e.args[1].v]}
      [] OTHER -> {}

RECURSIVE Conjuncts(_)
Conjuncts(e) ==
    IF e.op = "AND" THEN Conjuncts(e.args[1]) \o Conjuncts(e.args[2]) ELSE <<e>>

\* The columns that must equal a literal; of two literals the last is used.
EqualKeys(e) ==
    LET c == Conjuncts(e)
        tests(i) == {t \in ColumnTest(c[i]) : t.op = "=" /\ ~IsNull(t.key)}
        at(col) == {i \in DOMAIN c : \E t \in tests(i) : t.col = col}
        cols == {col \in DOMAIN ColumnTypes : at(col) # {}}
        last(col) == CHOOSE i \in at(col) : \A j \in at(col) : j <= i
    IN  [col \in cols |-> (CHOOSE t \in tests(last(col)) : TRUE).key]

\* Index::lookup finds equal keys of the same type: the Bloom filter in front
\* of the tree hashes the bytes of the type.
SameKey(a, b) == a.t = b.t /\ CompareValues(a, b) = {0}
Lookup(rows, col, key) == {r \in rows : SameKey(r[col], key)}
CompositeLookup(rows, cols, keys) ==
    {r \in rows : \A i \in DOMAIN cols :
        r[cols[i]].t = keys[cols[i]].t /\ ToString(r[cols[i]]) = ToString(keys[cols[i]])}
\* DiskBPlusTree::rangeScan: both ends included, an end that is {} is open.
RangeScan(rows, col, lo, hi) ==
    {r \in rows : (\A k \in lo : ~ValueLess(r[col], k)) /\ (\A k \in hi : ~ValueLess(k, r[col]))}

\* {}: no index fits; otherwise the rows it offers.
SingleCandidates(e, rows) ==
    LET between == e.op = "BETWEEN" /\ ~e.neg /\ e.args[1].op = "col"
                   /\ e.args[2].op = "lit" /\ e.args[3].op = "lit"
                   /\ ~IsNull(e.args[2].v) /\ ~IsNull(e.args[3].v)
        usable == {t \in ColumnTest(e) : <<t.col>> \in Indexes /\ ~IsNull(t.key)}
    IN  {Lookup(rows, t.col, t.key) : t \in {u \in usable : u.op = "="}}
        \cup {RangeScan(rows, t.col, {}, {t.key}) : t \in {u \in usable : u.op \in {"<", "<="}}}
        \cup {RangeScan(rows, t.col, {t.key}, {}) : t \in {u \in usable : u.op \in {">", ">="}}}
        \cup (IF between /\ <<ColumnOf(e.args[1])>> \in Indexes
              THEN {RangeScan(rows, ColumnOf(e.args[1]), {e.args[2].v}, {e.args[3].v})}
              ELSE {})

RECURSIVE IndexCandidates(_, _)
IndexCandidates(e, rows) ==
    LET keys == EqualKeys(e)
        covered == {i \in Indexes : Len(i) > 1 /\ \A n \in DOMAIN i : i[n] \in DOMAIN keys}
        left == IndexCandidates(e.args[1], rows)
    IN CASE covered # {} ->
              {CompositeLookup(rows, CHOOSE i \in covered : TRUE, keys)}
         [] e.op = "AND" ->
              IF left # {} THEN left ELSE IndexCandidates(e.args[2], rows)
         [] OTHER -> SingleCandidates(e, rows)

\* ExecutorEngine::gatherRows, with the index if one fits and without.
GatherRows(e, rows) ==
    LET offered == IF IndexCandidates(e, rows) = {} THEN rows
                   ELSE CHOOSE c \in IndexCandidates(e, rows) : TRUE
    IN  {r \in offered : PredicateTrue(e, r)}
=============================================================================
