------------------------- MODULE MCExpressionTrees -------------------------
(***************************************************************************)
(* A table (a INT, f FLOAT, t TEXT, b BOOL) with an index on t, one on b    *)
(* and one on both.                                                        *)
(***************************************************************************)
EXTENDS ExpressionTrees

MCColumnTypes == <<"Int", "Float", "Text", "Bool">>
MCIndexes == {<<3>>, <<4>>, <<3, 4>>}

Half == MakeDouble(1, 2)
One == MakeDouble(1, 1)
A == MakeText(<<97>>)
B == MakeText(<<66, 32>>)
Digit == MakeText(<<50>>)

Numeric == {<<Null, Half>>, <<MakeInt(-1), Null>>, <<MakeInt(2), MakeDouble(-3, 1)>>}
Textual == {<<Null, MakeBool(TRUE)>>, <<A, MakeBool(TRUE)>>, <<A, Null>>,
            <<B, MakeBool(TRUE)>>, <<B, MakeBool(FALSE)>>, <<Digit, MakeBool(FALSE)>>}
MCRows == {n \o t : n \in Numeric, t \in Textual}

Tests == {Node("=", <<Col(3), Lit(A)>>), Node("=", <<Lit(MakeBool(TRUE)), Col(4)>>),
          Lit(MakeBool(FALSE))}
Lists == {<<Lit(A), Lit(Null)>>, <<Lit(MakeInt(-1)), Lit(MakeInt(2))>>}
Calls == {[fn |-> fn, rest |-> << >>] :
            fn \in {"UPPER", "LOWER", "TRIM", "LENGTH", "ABS", "CEIL", "FLOOR", "ROUND"}}
         \cup {[fn |-> "SUBSTR", rest |-> <<Lit(MakeInt(2)), Col(1)>>],
               [fn |-> "NULLIF", rest |-> <<Col(1)>>], [fn |-> "MOD", rest |-> <<Col(1)>>],
               [fn |-> "COALESCE", rest |-> <<Lit(MakeInt(1))>>]}

Nothing == [literals |-> {}, columns |-> {}, comparisons |-> {}, arithmetic |-> {},
            tests |-> {}, lists |-> {}, ranges |-> {}, patterns |-> {}, calls |-> {}, casts |-> {},
            depth |-> 0]

\* Numbers; texts and truth values; functions; patterns.
Numbers == [Nothing EXCEPT !.literals = {MakeInt(0), MakeInt(1), Null},
                           !.columns = {1, 2}, !.comparisons = {"!="}, !.arithmetic = Arithmetic, !.depth = 2,
                           !.ranges = {<<Lit(MakeInt(0)), Col(2)>>}]
Conditions == [Nothing EXCEPT !.literals = {A, MakeBool(TRUE)}, !.columns = {3, 4},
                              !.comparisons = {"=", ">", ">="}, !.tests = Tests, !.lists = Lists,
                              !.ranges = {<<Lit(B), Lit(A)>>, <<Lit(A), Col(3)>>},
                              !.depth = 2]
Calling == [Nothing EXCEPT !.literals = {MakeInt(-1), Half, Digit}, !.columns = {1, 2, 3, 4},
                           !.comparisons = {"="}, !.tests = {Col(4)}, !.calls = Calls,
                           !.casts = {"Int", "Float", "Bool", "Text"}, !.depth = 2]

Letters == {97, 98}
Words == UNION {[1 .. n -> Letters] : n \in 0 .. 4}
Liking == [Nothing EXCEPT !.literals = {MakeText(s) : s \in Words}, !.depth = 1,
                          !.patterns = UNION {[1 .. n -> {97, 37, 95}] : n \in 0 .. 4}]

MCScenarios == [numbers |-> Numbers, conditions |-> Conditions, calling |-> Calling,
                liking |-> Liking]

\* A float literal that is 0 or 1 as an operand.
Floats == [floats |-> [Numbers EXCEPT !.literals = {One, MakeInt(2)}]]
=============================================================================
