--------------------------- MODULE MCColumnStore ---------------------------
(***************************************************************************)
(* A table (a INT, b FLOAT) of up to five rows in blocks of two: with four *)
(* rows and more two workers share up to three blocks.                     *)
(***************************************************************************)
EXTENDS ColumnStore

MCColumnTypes == <<"Int", "Float">>
MCIndexes == {}

Half == MakeDouble(1, 2)
Rows == {<<MakeInt(1), Half>>, <<MakeInt(3), Null>>, <<Null, MakeDouble(2, 1)>>}
MCLoaded == {<< >>} \cup {<<x, y, z, <<MakeInt(2), Half>>, <<MakeInt(1), Null>> >> : x, y, z \in Rows}
Empty == {<< >>}
MCRowValues == {<<MakeInt(3), Half>>}

\* engine is "sql" for FETCH and otherwise the function of vectorized.cpp; for
\* a join group holds its two columns.
Query(engine, where, group, aggs) ==
    [engine |-> engine, where |-> where, group |-> group, aggs |-> aggs]

Test(op, i) == Node(op, <<Col(1), Lit(MakeInt(i))>>)
Mirrored == Node("<", <<Lit(Half), Col(2)>>)
Totals == <<Agg("COUNT", 0, FALSE), Agg("SUM", 1, FALSE), Agg("SUM", 2, FALSE), Agg("MIN", 2, FALSE)>>
Others == <<Agg("COUNT", 2, FALSE), Agg("AVG", 1, FALSE), Agg("MAX", 1, FALSE)>>
Filters == {<<Test(op, 1)>> : op \in Comparisons} \cup {<<Test(op, 3)>> : op \in {"=", "<", ">", ">="}}
           \cup {<< >>, <<Node("AND", <<Test("!=", 3), Mirrored>>)>>}

MCQueries ==
    {Query("sql", where, << >>, Totals) : where \in Filters}
    \cup {Query("sql", << >>, << >>, Others),
          Query("aggregate", <<Test("<=", 2)>>, << >>, Totals),
          Query("group", <<Mirrored>>, <<1>>, Others), Query("group", << >>, <<2>>, Totals),
          Query("join", << >>, <<1, 1>>, << >>)}

\* PUT INTO t FETCH COUNT(UNIQUEONLY a) FROM t
MCCopied == {Query("sql", << >>, << >>, <<Agg("COUNT", 1, TRUE)>>)}

\* PUT INTO t FETCH COUNT(*) FROM t
CopiedCount == {Query("sql", << >>, << >>, <<Agg("COUNT", 0, FALSE)>>)}
=============================================================================
