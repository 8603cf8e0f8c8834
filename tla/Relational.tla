----------------------------- MODULE Relational -----------------------------
(***************************************************************************)
(* The operations a FETCH is built from, on sequences of rows: subqueries, *)
(* aggregates and HAVING, joins, ORDER BY, windows, duplicate removal      *)
(* (vm/executor_engine.cpp).                                               *)
(*                                                                         *)
(* Expressions have more nodes here: "SCALAR", "EXISTS" and "INSUB" hold   *)
(* the place of the statement's subquery, "outer" is a column of the       *)
(* enclosing row, "AGG" an aggregate (its function in .as, its column in   *)
(* .v, UNIQUEONLY in .neg).                                                *)
(***************************************************************************)
EXTENDS Expressions, FiniteSets
S == INSTANCE SequencesExt

SubqueryNodes == {"SCALAR", "EXISTS", "INSUB"}
Agg(fn, col, distinct) ==
    [Node("AGG", << >>) EXCEPT !.as = fn, !.v = MakeInt(col), !.neg = distinct]

RECURSIVE Has(_, _)
Has(e, ops) == e.op \in ops \/ \E i \in DOMAIN e.args : Has(e.args[i], ops)

\* A value as a key of a hash table: its type and its text.
KeyOf(a) == <<a.t, ToString(a)>>
RowKey(row) == [i \in DOMAIN row |-> KeyOf(row[i])]

\* The rows whose key is not that of an earlier row.
Firsts(rows, Key(_)) ==
    LET first == {i \in DOMAIN rows : \A j \in 1 .. (i - 1) : Key(rows[j]) # Key(rows[i])}
        position(n) == CHOOSE i \in first : Cardinality({j \in first : j <= i}) = n
    IN  [n \in 1 .. Cardinality(first) |-> rows[position(n)]]

DedupeRows(rows) == Firsts(rows, RowKey)

\* std::stable_sort.
StableSort(rows, Less(_, _)) ==
    LET before(i, j) == Less(rows[i], rows[j]) \/ (~Less(rows[j], rows[i]) /\ i < j)
        rank(i) == Cardinality({j \in DOMAIN rows : before(j, i)}) + 1
    IN  [n \in DOMAIN rows |-> rows[CHOOSE i \in DOMAIN rows : rank(i) = n]]

\* Sort keys are records of a column and a direction, the first decides.
RowLess(order, a, b) ==
    LET lessAt(k) == IF k.asc THEN ValueLess(a[k.col], b[k.col])
                     ELSE ValueLess(b[k.col], a[k.col])
        sameAt(k) == ~ValueLess(a[k.col], b[k.col]) /\ ~ValueLess(b[k.col], a[k.col])
    IN  \E n \in DOMAIN order :
            lessAt(order[n]) /\ \A m \in 1 .. (n - 1) : sameAt(order[m])

Sorted(rows, order) ==
    LET Less(a, b) == RowLess(order, a, b) IN StableSort(rows, Less)

----------------------------------------------------------------------------
(******************************* Subqueries ********************************)

\* bindSubquery: the columns of the outer row, as literals.
RECURSIVE Bound(_, _)
Bound(e, row) ==
    IF e.op = "outer" THEN Lit(row[ColumnOf(e)])
    ELSE [e EXCEPT !.args = [i \in DOMAIN e.args |-> Bound(e.args[i], row)]]

\* A subquery node evaluates to what the results say.
RECURSIVE Settled(_, _)
Settled(e, results) ==
    LET deep == [i \in DOMAIN e.args |-> Settled(e.args[i], results)]
        list == [i \in DOMAIN results |-> Lit(results[i])]
    IN CASE e.op = "SCALAR" -> Lit(IF results = << >> THEN Null ELSE results[1])
         [] e.op = "EXISTS" -> Lit(MakeBool(results # << >>))
         [] e.op = "INSUB" -> [Node("IN", deep \o list) EXCEPT !.neg = e.neg]
         [] OTHER -> [e EXCEPT !.args = deep]

\* materializeSubqueries goes down these nodes only.
RECURSIVE Reached(_)
Reached(e) ==
    \/ e.op \in SubqueryNodes
    \/ /\ e.op \in Comparisons \cup Connectives \cup {"NOT", "IS", "IN", "BETWEEN", "LIKE"}
       /\ \E i \in DOMAIN e.args : Reached(e.args[i])

----------------------------------------------------------------------------
(************************* Aggregates and HAVING ***************************)

\* The values an aggregate looks at; column 0 is COUNT(*), of the rows.  With
\* UNIQUEONLY a star names no column and no value is looked at.
Aggregated(a, group) ==
    LET column == [i \in DOMAIN group |-> IF Num(a.v) = 0 THEN MakeInt(1) ELSE group[i][Num(a.v)]]
        given == SelectSeq(column, LAMBDA v : ~IsNull(v))
    IN CASE ~a.neg -> given
         [] a.neg /\ Num(a.v) # 0 -> Firsts(given, KeyOf)
         [] a.neg /\ Num(a.v) = 0 -> << >>

\* The first of the least or greatest values.
Best(op, vals) ==
    vals[CHOOSE i \in DOMAIN vals :
            /\ \A j \in DOMAIN vals : ~IsTrue(Compare(op, vals[j], vals[i]))
            /\ \A j \in 1 .. (i - 1) : IsTrue(Compare(op, vals[i], vals[j]))]

AggregateValue(fn, vals) ==
    LET sum[n \in 0 .. Len(vals)] ==
            IF n = 0 THEN MakeInt(0) ELSE Calculate("+", sum[n - 1], vals[n])
    IN CASE fn = "COUNT" -> MakeInt(Len(vals))
         [] fn # "COUNT" /\ vals = << >> -> Null
         [] fn = "SUM" /\ vals # << >> -> sum[Len(vals)]
         [] fn = "AVG" /\ vals # << >> -> MakeDouble(Num(sum[Len(vals)]), Den(sum[Len(vals)]) * Len(vals))
         [] fn = "MIN" /\ vals # << >> -> Best("<", vals)
         [] fn = "MAX" /\ vals # << >> -> Best(">", vals)

ComputeAggregate(a, group) == AggregateValue(a.as, Aggregated(a, group))

RECURSIVE HavingValue(_, _, _)
HavingValue(e, group, rep) ==
    CASE e.op = "AGG" -> ComputeAggregate(e, group)
      [] e.op \in Arithmetic ->
            Calculate(e.op, HavingValue(e.args[1], group, rep), HavingValue(e.args[2], group, rep))
      [] OTHER -> Eval(e, rep)

\* Two-valued: a comparison that is not known is false, and NOT makes it true.
RECURSIVE HavingTrue(_, _, _)
HavingTrue(e, group, rep) ==
    LET value(i) == HavingValue(e.args[i], group, rep)
    IN CASE e.op = "AND" -> \A i \in 1 .. 2 : HavingTrue(e.args[i], group, rep)
         [] e.op = "OR" -> \E i \in 1 .. 2 : HavingTrue(e.args[i], group, rep)
         [] e.op = "NOT" -> ~HavingTrue(e.args[1], group, rep)
         [] e.op \in Comparisons -> IsTrue(Compare(e.op, value(1), value(2)))
         [] OTHER -> IsTrue(HavingValue(e, group, rep))

GroupKey(cols, row) == [n \in DOMAIN cols |-> KeyOf(row[cols[n]])]

MutantNoRowsNoGroup(rows, cols) ==
    LET Key(row) == GroupKey(cols, row)
        reps == Firsts(rows, Key)
    IN  [n \in DOMAIN reps |-> SelectSeq(rows, LAMBDA r : Key(r) = Key(reps[n]))]

\* The groups, in the order of their first rows; without GROUP BY one group,
\* which may be empty.
Groups(rows, cols) ==
    LET Key(row) == GroupKey(cols, row)
        reps == Firsts(rows, Key)
    IN  IF cols = << >> THEN <<rows>>
        ELSE [n \in DOMAIN reps |-> SelectSeq(rows, LAMBDA r : Key(r) = Key(reps[n]))]

----------------------------------------------------------------------------
(********************************* Joins ***********************************)

Nulls(width) == [i \in 1 .. width |-> Null]
Prefixed(l, right) == [i \in DOMAIN right |-> l \o right[i]]
AllTrue(conditions, row) == \A c \in conditions : PredicateTrue(c, row)
Filtered(rows, conditions) == SelectSeq(rows, LAMBDA r : AllTrue(conditions, r))

\* ON left column = right column, whichever way round: {} or the two columns.
EquiKeys(on, lw, rw) ==
    {k \in (1 .. lw) \X (1 .. rw) :
        \E e \in on : /\ e.op = "="
                      /\ \/ e.args = <<Col(k[1]), Col(lw + k[2])>>
                         \/ e.args = <<Col(lw + k[2]), Col(k[1])>>}

HashJoin(left, right, keys) ==
    LET bucket(l) == SelectSeq(right, LAMBDA r : /\ ~IsNull(r[keys[2]]) /\ ~IsNull(l[keys[1]])
                                                 /\ KeyOf(r[keys[2]]) = KeyOf(l[keys[1]]))
    IN  S!FlattenSeq([i \in DOMAIN left |-> Prefixed(left[i], bucket(left[i]))])

\* A row of one side that matched nothing is kept by the outer joins, and it is
\* ON alone that decides whether it matched.
NestedLoop(kind, left, right, lw, rw, on, where) ==
    LET kept(l, met) == IF met = << >> /\ kind \in {"Left", "Full"} THEN <<l \o Nulls(rw)>> ELSE met
        lonely == SelectSeq(right, LAMBDA r :
                    /\ kind \in {"Right", "Full"}
                    /\ \A i \in DOMAIN left : ~AllTrue(on, left[i] \o r))
        joined == [i \in DOMAIN left |-> kept(left[i], Filtered(Prefixed(left[i], right), on))]
    IN  Filtered(S!FlattenSeq(joined) \o Prefixed(Nulls(lw), lonely), where)

MutantMatchedAfterWhere(kind, left, right, lw, rw, on, where) ==
    NestedLoop(kind, left, right, lw, rw, on \cup where, {})

Joined(kind, left, right, lw, rw, on, where) ==
    IF kind = "Inner" /\ EquiKeys(on, lw, rw) # {}
    THEN Filtered(HashJoin(left, right, CHOOSE k \in EquiKeys(on, lw, rw) : TRUE), where)
    ELSE NestedLoop(kind, left, right, lw, rw, on, where)

\* externalSort cuts the rows into runs, sorts each and merges them by a heap,
\* which takes any of several least rows: the lists it can return.
RECURSIVE Merges(_, _)
Merges(runs, col) ==
    LET live == {n \in DOMAIN runs : runs[n] # << >>}
        least == {n \in live : \A m \in live :
                    ~ValueLess(Head(runs[m])[col], Head(runs[n])[col])}
    IN  IF live = {} THEN {<< >>}
        ELSE UNION {{<<Head(runs[n])>> \o rest :
                        rest \in Merges([runs EXCEPT ![n] = Tail(runs[n])], col)} : n \in least}

ExternalSorts(rows, col, memory) ==
    LET run(n) == SubSeq(rows, (n - 1) * memory + 1,
                         IF n * memory < Len(rows) THEN n * memory ELSE Len(rows))
        order == <<[col |-> col, asc |-> TRUE]>>
    IN  Merges([n \in 1 .. (Len(rows) + memory - 1) \div memory |-> Sorted(run(n), order)], col)

----------------------------------------------------------------------------
(****************************** Windows, sets ******************************)

\* No sort key tells the rows apart.
SameOrder(order, a, b) == ~RowLess(order, a, b) /\ ~RowLess(order, b, a)

\* The value of the row at that place of the ordered partition.
WindowValue(w, list, place) ==
    LET begins == {n \in 1 .. place : n = 1 \/ ~SameOrder(w.order, list[n - 1], list[n])}
        vals == Aggregated(Agg(w.fn, w.col, FALSE), list)
    IN CASE w.fn = "ROW_NUMBER" -> MakeInt(place)
         [] w.fn = "RANK" -> MakeInt(CHOOSE n \in begins : \A m \in begins : m <= n)
         [] w.fn = "DENSE_RANK" -> MakeInt(Cardinality(begins))
         \* unlike the aggregate, a sum of nothing is 0
         [] w.fn = "SUM" /\ vals = << >> -> MakeInt(0)
         [] OTHER -> AggregateValue(w.fn, vals)

\* The value of one window function in every row.
WindowValues(w, rows) ==
    LET Less(i, j) == RowLess(w.order, rows[i], rows[j])
        part(i) == SelectSeq([n \in DOMAIN rows |-> n],
                             LAMBDA j : GroupKey(w.part, rows[j]) = GroupKey(w.part, rows[i]))
        value(i, sorted) == WindowValue(w, [n \in DOMAIN sorted |-> rows[sorted[n]]],
                                        CHOOSE n \in DOMAIN sorted : sorted[n] = i)
    IN  [i \in DOMAIN rows |-> value(i, StableSort(part(i), Less))]

Combined(op, all, left, right) ==
    LET keys == {RowKey(right[i]) : i \in DOMAIN right}
        wanted == SelectSeq(left, LAMBDA r : (RowKey(r) \in keys) = (op = "INTERSECT"))
    IN CASE op = "UNION" /\ all -> left \o right
         [] op = "UNION" -> DedupeRows(left \o right)
         [] OTHER -> DedupeRows(wanted)

MutantTakesFirst(rows, offset, limit) ==
    LET taken == IF \E n \in limit : n < Len(rows)
                 THEN SubSeq(rows, 1, CHOOSE n \in limit : TRUE) ELSE rows
    IN  SubSeq(taken, offset + 1, Len(taken))

\* SKIP, then TAKE (limit is {} or the number).
Page(rows, offset, limit) ==
    LET rest == SubSeq(rows, offset + 1, Len(rows))
    IN  IF \E n \in limit : n < Len(rest)
        THEN SubSeq(rest, 1, CHOOSE n \in limit : TRUE) ELSE rest

=============================================================================
