----------------------------- MODULE MCQueries -----------------------------
(***************************************************************************)
(* Two tables of two INT columns.  The hash budget is one row and a sorted *)
(* run holds two, so a merge join happens from two rows on either side and *)
(* spills from three.                                                      *)
(***************************************************************************)
EXTENDS Queries

Int1 == Lit(MakeInt(1))
Row2(a, b) == <<a, b>>
One == MakeInt(1)
Two == MakeInt(2)

MCColumnTypes == <<"Int", "Int">>
MCIndexes == {}
MCPut == [t |-> {Row2(One, One), Row2(One, Two), Row2(Two, Null)},
          u |-> {Row2(One, Two), Row2(Null, One)}]
MCMaxRows == [t |-> 3, u |-> 3]

Op(op, a, b) == Node(op, <<a, b>>)
Outer(c) == [Node("outer", << >>) EXCEPT !.v = MakeInt(c)]
Not(e) == [e EXCEPT !.neg = TRUE]
Scalar == Node("SCALAR", << >>)
Exists == Node("EXISTS", << >>)
InSub(e) == Node("INSUB", <<e>>)

\* A plain SELECT * and what a statement adds to it.
From(table) ==
    [from |-> table, joins |-> << >>, where |-> {}, sub |-> {}, group |-> << >>, aggs |-> << >>,
     having |-> {}, windows |-> << >>, order |-> << >>, columns |-> << >>, distinct |-> FALSE,
     offset |-> 0, limit |-> {}]
Join(kind, table, on) == [kind |-> kind, table |-> table, on |-> on]
Joins(joins, where) == [From("t") EXCEPT !.joins = joins, !.where = where]
Sub(where, columns, aggs) ==
    [from |-> "u", where |-> where, columns |-> columns, aggs |-> aggs, sub |-> {}]
WithSub(where, sub) == [From("t") EXCEPT !.where = {where}, !.sub = {sub}]
Key(col, asc) == [col |-> col, asc |-> asc]
Over(fn, col, part, order) == [fn |-> fn, col |-> col, part |-> part, order |-> order]

Single(select) == [selects |-> <<select>>, op |-> "UNION", all |-> TRUE]
SetOf(op, all) ==
    [selects |-> <<[From("t") EXCEPT !.columns = <<Col(2)>>], [From("u") EXCEPT !.columns = <<Col(1)>>]>>,
     op |-> op, all |-> all]

Equal(a, b) == {Op("=", Col(a), Col(b))}
OfOuter == {Op("=", Col(1), Outer(1))}

MCStatements ==
    [inner |-> Single(Joins(<<Join("Inner", "u", Equal(1, 3))>>, {Op("!=", Col(2), Int1)})),
     mirrored |-> Single(Joins(<<Join("Inner", "u", Equal(4, 2))>>, {})),
     left |-> Single(Joins(<<Join("Left", "u", Equal(1, 3))>>, {Op("=", Col(2), Int1)})),
     right |-> Single(Joins(<<Join("Right", "u", {Op("AND", Op("=", Col(1), Col(3)), Op(">", Col(2), Int1))})>>, {})),
     full |-> Single(Joins(<<Join("Full", "u", Equal(2, 4))>>, {Not(Node("IS", <<Col(4)>>))})),
     cross |-> Single(Joins(<<Join("Cross", "u", {})>>, {Op("<=", Col(2), Col(4))})),
     chain |-> Single(Joins(<<Join("Inner", "u", Equal(2, 4)), Join("Full", "t", Equal(3, 5))>>, {})),
     onSub |-> Single([Joins(<<Join("Left", "u", {InSub(Col(2))})>>, {})
                        EXCEPT !.sub = {Sub({}, <<Col(2)>>, << >>)}]),
     notIn |-> Single(WithSub(Not(InSub(Col(2))), Sub({}, <<Col(1)>>, << >>))),
     scalar |-> Single(WithSub(Op("<", Col(2), Scalar), Sub({}, << >>, <<Agg("MAX", 2, FALSE)>>))),
     exists |-> Single(WithSub(Exists, Sub(OfOuter, <<Col(2)>>, << >>))),
     notExists |-> Single(WithSub(Node("NOT", <<Exists>>), Sub(OfOuter, <<Col(2)>>, << >>))),
     latest |-> Single(WithSub(Op("=", Col(2), Scalar), Sub(OfOuter, << >>, <<Agg("MAX", 2, FALSE)>>))),
     listed |-> Single([From("t") EXCEPT !.sub = {Sub(OfOuter, << >>, <<Agg("COUNT", 0, FALSE)>>)},
                                         !.columns = <<Col(1), Op("+", Scalar, Int1)>>]),
     view |-> Single([From("view") EXCEPT !.where = {Op(">", Col(1), Int1)}]),
     groups |-> Single([From("t") EXCEPT !.group = <<1>>, !.columns = <<Col(1)>>,
                          !.aggs = <<Agg("COUNT", 0, FALSE), Agg("SUM", 2, FALSE), Agg("COUNT", 2, TRUE)>>,
                          !.having = {Op(">", Agg("COUNT", 2, FALSE), Lit(MakeInt(0)))}]),
     whole |-> Single([From("t") EXCEPT !.aggs = <<Agg("MIN", 2, FALSE), Agg("MAX", 1, FALSE),
                          Agg("AVG", 2, FALSE), Agg("SUM", 2, TRUE)>>]),
     windows |-> Single([From("t") EXCEPT
                          !.windows = <<Over("ROW_NUMBER", 0, <<1>>, <<Key(2, TRUE)>>),
                                        Over("RANK", 0, << >>, <<Key(2, FALSE)>>),
                                        Over("DENSE_RANK", 0, << >>, <<Key(1, TRUE), Key(2, TRUE)>>),
                                        Over("COUNT", 2, <<1>>, << >>), Over("MAX", 2, <<1>>, << >>)>>,
                          !.columns = <<Col(1), Col(3), Col(4)>>, !.order = <<Key(1, FALSE)>>]),
     ordered |-> Single([From("t") EXCEPT !.order = <<Key(1, TRUE), Key(2, FALSE)>>, !.offset = 1, !.limit = {1}]),
     unique |-> Single([From("t") EXCEPT !.order = <<Key(2, TRUE)>>, !.distinct = TRUE, !.offset = 1]),
     named |-> Single([From("t") EXCEPT !.columns = <<Col(1)>>, !.distinct = TRUE, !.limit = {1}]),
     union |-> SetOf("UNION", FALSE), unionAll |-> SetOf("UNION", TRUE),
     intersect |-> SetOf("INTERSECT", FALSE), except |-> SetOf("EXCEPT", FALSE)]

\* BUILD VIEW view AS FETCH b, a FROM t WHEN a > 0
MCView == {[from |-> "t", where |-> {Op(">", Col(1), Lit(MakeInt(0)))}, columns |-> <<Col(2), Col(1)>>,
            sub |-> {}]}

\* The same with AND a IN (FETCH a FROM u), asked again after every PUT.
StaleView == {[from |-> "t", where |-> {InSub(Col(1))}, columns |-> <<Col(2), Col(1)>>,
               sub |-> {Sub({}, <<Col(1)>>, << >>)}]}
StaleStatements == [view |-> Single(From("view"))]

\* FETCH a, (FETCH MAX(b) FROM u) FROM t
ListedStatements ==
    [listed |-> Single([From("t") EXCEPT !.sub = {Sub({}, << >>, <<Agg("MAX", 2, FALSE)>>)},
                                         !.columns = <<Col(1), Scalar>>])]
=============================================================================
