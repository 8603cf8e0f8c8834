------------------------------ MODULE Queries ------------------------------
(***************************************************************************)
(* ExecutorEngine::visit(SelectStatement) and visit(SetOpStatement) of     *)
(* vm/executor_engine.cpp, phase by phase: subqueries, scan or joins,      *)
(* groups or windows, ORDER BY, projection, UNIQUEONLY, SKIP and TAKE, and *)
(* the set operation.  PUT changes the tables between statements.          *)
(*                                                                         *)
(* A statement is a sequence of one or two SELECTs and how they combine.   *)
(* A SELECT is a record; optional parts are sets of at most one element.   *)
(* "view" in place of a table is the one stored view.                      *)
(***************************************************************************)
EXTENDS Relational
F == INSTANCE FiniteSetsExt

CONSTANTS
    Put,            \* for each table, the rows it may receive
    MaxRows,        \* for each table, how many
    Statements,     \* the statements, by name
    View,           \* the SELECT behind the view, {} if there is none
    HashBudget,     \* CostModel::hashBuildBudget
    SortMemory      \* memLimitRows of externalSort

VARIABLES
    db,             \* the rows of each table
    kept,           \* the subquery results in the AST of the view: {} or one list
    stmt,           \* the statement that runs, in a list; empty if none does
    parts,          \* the answers of the SELECTs of it that are done
    pc,             \* the phase of the running SELECT
    cache,          \* SubqueryExpr::results, {} while not evaluated
    input,          \* scan: the rows to come; merge join: both sorted sides
    rows            \* the rows so far

vars == <<db, kept, stmt, parts, pc, cache, input, rows>>

Width == Len(ColumnTypes)
statement == stmt[1]
q == statement.selects[Len(parts) + 1]

Results(c) == IF c = {} THEN << >> ELSE CHOOSE r \in c : TRUE
WithResults(exprs, c) == {Settled(e, Results(c)) : e \in exprs}
HasSubquery(exprs) == \E e \in exprs : Has(e, SubqueryNodes)

----------------------------------------------------------------------------
(******************************* Subqueries ********************************)

\* The inner engine: a SELECT of one table, of one column or one aggregate.
FirstColumn(sub, selected) ==
    IF sub.aggs # << >> THEN <<ComputeAggregate(sub.aggs[1], selected)>>
    ELSE [i \in DOMAIN selected |-> Eval(sub.columns[1], selected[i])]
RunInner(sub, outer) ==
    FirstColumn(sub, Filtered(db[sub.from], {Bound(e, outer) : e \in sub.where}))

Correlated(sub) == \E e \in sub.where : Has(e, {"outer"})
CorrelatedQuery == \E s \in q.sub : Correlated(s)
SubqueryResults(sub, outer) == {RunInner(s, outer) : s \in sub}

MutantStaysEvaluated(exprs, row) ==
    IF CorrelatedQuery /\ HasSubquery(exprs) /\ cache = {}
    THEN SubqueryResults(q.sub, row) ELSE cache

\* Bound to an outer row, the subquery runs again.
BindCorrelated(exprs, row) ==
    IF CorrelatedQuery /\ HasSubquery(exprs) THEN SubqueryResults(q.sub, row) ELSE cache

\* The columns of each row of a list.
Projection(columns, list) ==
    [i \in DOMAIN list |-> [n \in DOMAIN columns |-> Eval(columns[n], list[i])]]

\* gatherBaseRows of the view runs its SELECT, whose AST stays in the catalog:
\* a subquery in it that was evaluated before is not evaluated again.
ViewSubquery ==
    IF kept # {} THEN kept
    ELSE UNION {SubqueryResults(v.sub, << >>) : v \in View}
ViewRows ==
    LET v == CHOOSE v \in View : TRUE
    IN  Projection(v.columns, Filtered(db[v.from], WithResults(v.where, ViewSubquery)))

Source(table) == IF table = "view" THEN ViewRows ELSE db[table]

----------------------------------------------------------------------------
(***************************** The statement *******************************)

Init ==
    /\ db = [t \in DOMAIN Put |-> << >>]
    /\ kept = {}
    /\ stmt = << >> /\ parts = << >>
    /\ pc = "idle"
    /\ cache = {} /\ input = << >> /\ rows = << >>

PutRow(t, row) ==
    /\ pc = "idle"
    /\ Len(db[t]) < MaxRows[t]
    /\ db' = [db EXCEPT ![t] = Append(@, row)]
    /\ UNCHANGED <<kept, stmt, parts, pc, cache, input, rows>>

Fetch ==
    /\ pc = "idle"
    /\ \E s \in DOMAIN Statements : stmt' = <<Statements[s]>>
    /\ pc' = "subqueries"
    /\ UNCHANGED <<db, kept, parts, cache, input, rows>>

\* materializeSubqueries on WHERE, HAVING and ON; the rewrite before it leaves
\* subqueries alone.
MaterializeSubqueries ==
    LET reached == \E e \in q.where \cup q.having \cup UNION {j.on : j \in S!ToSet(q.joins)} :
                        Reached(e)
    IN /\ pc = "subqueries"
       /\ cache' = IF reached /\ ~CorrelatedQuery THEN SubqueryResults(q.sub, << >>) ELSE {}
       /\ input' = Source(q.from)
       /\ kept' = IF q.from = "view" THEN ViewSubquery ELSE kept
       /\ pc' = CASE q.windows # << >> -> "window" [] q.joins # << >> -> "join" [] OTHER -> "scan"
       /\ UNCHANGED <<db, stmt, parts, rows>>

\* One table, row by row.
ScanRow ==
    LET row == Head(input)
        results == BindCorrelated(q.where, row)
    IN /\ pc = "scan" /\ input # << >>
       /\ cache' = results
       /\ rows' = IF AllTrue(WithResults(q.where, results), row) THEN Append(rows, row) ELSE rows
       /\ input' = Tail(input)
       /\ UNCHANGED <<db, kept, stmt, parts, pc>>

ScanEnds ==
    /\ pc = "scan" /\ input = << >>
    /\ pc' = IF q.aggs # << >> \/ q.group # << >> \/ q.having # {} THEN "group" ELSE "sort"
    /\ UNCHANGED <<db, kept, stmt, parts, cache, input, rows>>

----------------------------------------------------------------------------
(********************************* Joins ***********************************)

Where == WithResults(q.where, cache)
On(j) == WithResults(j.on, cache)
First == q.joins[1]
MergeKeys == EquiKeys(On(First), Width, Width)
UsesMerge ==
    /\ First.kind = "Inner" /\ MergeKeys # {}
    /\ Len(input) > HashBudget /\ Len(db[First.table]) > HashBudget

\* Two tables: hash join, or the nested loop with WHERE inside.
JoinPair ==
    /\ pc = "join" /\ Len(q.joins) = 1 /\ ~UsesMerge
    /\ rows' = Joined(First.kind, input, db[First.table], Width, Width, On(First), Where)
    /\ input' = << >> /\ pc' = "sort"
    /\ UNCHANGED <<db, kept, stmt, parts, cache>>

SortSides ==
    LET k == CHOOSE k \in MergeKeys : TRUE
    IN /\ pc = "join" /\ Len(q.joins) = 1 /\ UsesMerge
       /\ \E left \in ExternalSorts(input, k[1], SortMemory),
             right \in ExternalSorts(db[First.table], k[2], SortMemory) : input' = <<left, right>>
       /\ pc' = "merge"
       /\ UNCHANGED <<db, kept, stmt, parts, cache, rows>>

\* mergeJoinInner; the fronts are the rows at i and j.
LeftKey == Head(input[1])[(CHOOSE k \in MergeKeys : TRUE)[1]]
RightKey == Head(input[2])[(CHOOSE k \in MergeKeys : TRUE)[2]]
Merging == pc = "merge" /\ input[1] # << >> /\ input[2] # << >>

LeftBehind ==
    /\ Merging
    /\ IsNull(LeftKey) \/ (~IsNull(RightKey) /\ ValueLess(LeftKey, RightKey))
    /\ input' = [input EXCEPT ![1] = Tail(@)]
    /\ UNCHANGED <<db, kept, stmt, parts, pc, cache, rows>>

RightBehind ==
    /\ Merging
    /\ ~IsNull(LeftKey)
    /\ IsNull(RightKey) \/ ValueLess(RightKey, LeftKey)
    /\ input' = [input EXCEPT ![2] = Tail(@)]
    /\ UNCHANGED <<db, kept, stmt, parts, pc, cache, rows>>

\* The block of equal keys at the front of a side.
Block(side, col) ==
    LET same(i) == ~ValueLess(side[1][col], side[i][col]) /\ ~ValueLess(side[i][col], side[1][col])
        ends == {n \in 1 .. Len(side) : \A i \in 1 .. n : same(i)}
    IN  CHOOSE n \in ends : \A m \in ends : m <= n

BlocksMeet ==
    LET k == CHOOSE k \in MergeKeys : TRUE
        left == SubSeq(input[1], 1, Block(input[1], k[1]))
        right == SubSeq(input[2], 1, Block(input[2], k[2]))
    IN /\ Merging
       /\ ~IsNull(LeftKey) /\ ~IsNull(RightKey)
       /\ ~ValueLess(LeftKey, RightKey) /\ ~ValueLess(RightKey, LeftKey)
       /\ rows' = rows \o S!FlattenSeq([i \in DOMAIN left |-> Prefixed(left[i], right)])
       /\ input' = <<SubSeq(input[1], Len(left) + 1, Len(input[1])),
                     SubSeq(input[2], Len(right) + 1, Len(input[2]))>>
       /\ UNCHANGED <<db, kept, stmt, parts, pc, cache>>

MergeEnds ==
    /\ pc = "merge" /\ ~Merging
    /\ rows' = Filtered(rows, Where)
    /\ input' = << >> /\ pc' = "sort"
    /\ UNCHANGED <<db, kept, stmt, parts, cache>>

\* More tables: joinTwo from left to right, then WHERE.
JoinChain ==
    LET chain[n \in 0 .. Len(q.joins)] ==
            IF n = 0 THEN input
            ELSE LET j == q.joins[n]
                 IN  Joined(j.kind, chain[n - 1], db[j.table], n * Width, Width, On(j), {})
    IN /\ pc = "join" /\ Len(q.joins) > 1
       /\ rows' = Filtered(chain[Len(q.joins)], Where)
       /\ input' = << >> /\ pc' = "sort"
       /\ UNCHANGED <<db, kept, stmt, parts, cache>>

----------------------------------------------------------------------------
(********************* Groups, windows, order, page ************************)

\* The columns come from the first row of the group; ORDER BY and UNIQUEONLY
\* are not looked at.
Representative(group) == IF group = << >> THEN Nulls(Width) ELSE group[1]
GroupRows(groups) ==
    [i \in DOMAIN groups |->
        [n \in DOMAIN q.columns |->
            Eval(Settled(q.columns[n], Results(cache)), Representative(groups[i]))]
        \o [n \in DOMAIN q.aggs |-> ComputeAggregate(q.aggs[n], groups[i])]]

Group ==
    LET groups == SelectSeq(Groups(rows, q.group), LAMBDA g :
                    \A h \in WithResults(q.having, cache) : HavingTrue(h, g, Representative(g)))
    IN /\ pc = "group"
       /\ rows' = GroupRows(groups)
       /\ pc' = "page"
       /\ UNCHANGED <<db, kept, stmt, parts, cache, input>>

\* runWindowQuery; the values of the windows follow the columns of the row.
Widened(list, values) ==
    [i \in DOMAIN list |-> list[i] \o [n \in DOMAIN q.windows |-> values[n][i]]]
WithWindows(list) ==
    Widened(list, [n \in DOMAIN q.windows |-> WindowValues(q.windows[n], list)])

Window ==
    /\ pc = "window"
    /\ rows' = WithWindows(Filtered(input, Where))
    /\ input' = << >> /\ pc' = "sort"
    /\ UNCHANGED <<db, kept, stmt, parts, cache>>

Sort ==
    /\ pc = "sort"
    /\ rows' = Sorted(rows, q.order)
    /\ pc' = "project"
    /\ UNCHANGED <<db, kept, stmt, parts, cache, input>>

Project ==
    LET value(e, row) == Eval(Settled(e, Results(BindCorrelated({e}, row))), row)
        project(row) == IF q.columns = << >> THEN row
                        ELSE [n \in DOMAIN q.columns |-> value(q.columns[n], row)]
    IN /\ pc = "project"
       /\ rows' = [i \in DOMAIN rows |-> project(rows[i])]
       /\ pc' = "distinct"
       /\ UNCHANGED <<db, kept, stmt, parts, cache, input>>

Distinct ==
    /\ pc = "distinct"
    /\ rows' = IF q.distinct THEN DedupeRows(rows) ELSE rows
    /\ pc' = "page"
    /\ UNCHANGED <<db, kept, stmt, parts, cache, input>>

SkipAndTake ==
    /\ pc = "page"
    /\ rows' = Page(rows, q.offset, q.limit)
    /\ pc' = "selected"
    /\ UNCHANGED <<db, kept, stmt, parts, cache, input>>

NextSelect ==
    /\ pc = "selected"
    /\ parts' = Append(parts, rows)
    /\ rows' = << >> /\ cache' = {}
    /\ pc' = IF Len(parts') < Len(statement.selects) THEN "subqueries" ELSE "combine"
    /\ UNCHANGED <<db, kept, stmt, input>>

SetOperation ==
    /\ pc = "combine"
    /\ rows' = IF Len(parts) = 1 THEN parts[1]
               ELSE Combined(statement.op, statement.all, parts[1], parts[2])
    /\ pc' = "answered"
    /\ UNCHANGED <<db, kept, stmt, parts, cache, input>>

Reply ==
    /\ pc = "answered"
    /\ stmt' = << >> /\ parts' = << >> /\ pc' = "idle" /\ rows' = << >>
    /\ UNCHANGED <<db, kept, cache, input>>

MergeStep == LeftBehind \/ RightBehind \/ BlocksMeet \/ MergeEnds

Next ==
    \/ \E t \in DOMAIN Put : \E row \in Put[t] : PutRow(t, row)
    \/ Fetch
    \/ MaterializeSubqueries
    \/ ScanRow \/ ScanEnds
    \/ JoinPair \/ SortSides \/ MergeStep \/ JoinChain
    \/ Group \/ Window
    \/ Sort \/ Project \/ Distinct \/ SkipAndTake
    \/ NextSelect \/ SetOperation \/ Reply

Spec == Init /\ [][Next]_vars

----------------------------------------------------------------------------
(****************************** Properties *********************************)

\* What the rows should be, with no regard to how they are found: each stands
\* for the numbers of the rows it is made of, 0 where an outer join has none.

\* A subquery asked on its own for every row.
Value(e, row) ==
    Eval(Settled(e, IF Has(e, SubqueryNodes) THEN Results(SubqueryResults(q.sub, row)) ELSE << >>), row)
Truth(exprs, row) == \A e \in exprs : IsTrue(Value(e, row))

\* The view's SELECT when its subquery yields these results.
ViewOf(v, results) ==
    LET truth(row) == \A e \in v.where : PredicateTrue(Settled(e, results), row)
    IN  Projection(v.columns, SelectSeq(db[v.from], truth))
TrueView ==
    LET v == CHOOSE v \in View : TRUE
    IN  ViewOf(v, Results(UNION {{RunInner(s, << >>)} : s \in v.sub}))

\* The tables the SELECT reads, that of FETCH first.
Sources ==
    [n \in 1 .. Len(q.joins) + 1 |->
        IF n > 1 THEN db[q.joins[n - 1].table]
        ELSE IF q.from = "view" THEN TrueView ELSE db[q.from]]
RowOf(tables, tag) ==
    S!FlattenSeq([n \in DOMAIN tag |-> IF tag[n] = 0 THEN Nulls(Width) ELSE tables[n][tag[n]]])

\* The pairs that met, and the rows of either side that met none.
Extended(kind, left, right, none, met) ==
    {Append(p[1], p[2]) : p \in met}
    \cup {Append(l, 0) : l \in {l \in left : /\ kind \in {"Left", "Full"}
                                             /\ \A r \in right : <<l, r>> \notin met}}
    \cup {Append(none, r) : r \in {r \in right : /\ kind \in {"Right", "Full"}
                                                 /\ \A l \in left : <<l, r>> \notin met}}

RECURSIVE Tags(_, _)
Tags(tables, n) ==
    IF n = 1 THEN {<<i>> : i \in DOMAIN tables[1]}
    ELSE LET left == Tags(tables, n - 1)
             right == DOMAIN tables[n]
             j == q.joins[n - 1]
         IN  Extended(j.kind, left, right, [m \in 1 .. (n - 1) |-> 0],
                      {p \in left \X right : Truth(j.on, RowOf(tables, Append(p[1], p[2])))})

\* The rows that joins and WHERE leave, each with its tag.
SelectedOf(tables) ==
    {p \in {<<tag, RowOf(tables, tag)>> : tag \in Tags(tables, Len(tables))} : Truth(q.where, p[2])}
Selected == SelectedOf(Sources)

Projected(given) ==
    IF q.columns = << >> THEN given
    ELSE {<<p[1], [n \in DOMAIN q.columns |-> Value(q.columns[n], p[2])]>> : p \in given}

\* How often a row is in a list.
Times(list, row) == Cardinality({i \in DOMAIN list : list[i] = row})

\* The list holds every row as often as it is given under some tag.
Lists(list, given) ==
    /\ Len(list) = Cardinality(given)
    /\ \A i \in DOMAIN list : Times(list, list[i]) = Cardinality({p \in given : p[2] = list[i]})

\* Whichever of hash, merge and nested loop is used, and in a chain of joins,
\* each pair that ON and WHERE accept comes once, and a row that met none comes
\* once with NULLs if the kind of join keeps it: ON alone decides whether a row
\* met one, WHERE looks at the result (visit(SelectStatement), joinTwo,
\* mergeJoinInner).
JoinExact == pc = "sort" /\ q.joins # << >> => Lists(rows, Selected)

\* A subquery that is evaluated once, or once for every outer row, in WHERE or
\* in a column, gives each row what it gives when asked for that row alone; the
\* cached results of one row or of one statement never reach another
\* (materializeSubqueries, bindCorrelated, gatherBaseRows).
SubqueryExact ==
    pc = "distinct" /\ q.joins = << >> /\ q.windows = << >> => Lists(rows, Projected(Selected))

\* An aggregate of the rows given.
AggregateOf(a, given) ==
    LET col == Num(a.v)
        known == {p \in given : ~IsNull(p[2][col])}
        values == {p[2][col] : p \in known}
        sum == IF a.neg THEN F!MapThenSumSet(Num, values)
               ELSE F!MapThenSumSet(LAMBDA p : Num(p[2][col]), known)
        count == Cardinality(IF a.neg THEN values ELSE known)
    IN CASE a.as = "COUNT" -> MakeInt(IF col = 0 THEN Cardinality(given) ELSE count)
         [] count = 0 -> Null
         [] a.as = "SUM" -> MakeInt(sum)
         [] a.as = "AVG" -> MakeDouble(sum, count)
         [] a.as = "MIN" -> CHOOSE v \in values : \A w \in values : ~ValueLess(w, v)
         [] a.as = "MAX" -> CHOOSE v \in values : \A w \in values : ~ValueLess(v, w)

RECURSIVE WithAggregates(_, _)
WithAggregates(e, given) ==
    IF e.op = "AGG" THEN Lit(AggregateOf(e, given))
    ELSE [e EXCEPT !.args = [i \in DOMAIN e.args |-> WithAggregates(e.args[i], given)]]

At(row, cols) == [n \in DOMAIN cols |-> row[cols[n]]]

\* GROUP BY gives one row for each combination of values, NULL being one of
\* them, that HAVING accepts, with the aggregates of exactly its rows; without
\* GROUP BY there is one row, even of no rows at all.
GroupsOf(given) ==
    LET keys == IF q.group = << >> THEN {<< >>} ELSE {At(p[2], q.group) : p \in given}
        members(key) == {p \in given : At(p[2], q.group) = key}
        accepted == {key \in keys : \A h \in q.having :
                        Truth({WithAggregates(h, members(key))}, Nulls(Width))}
    IN  {<<key, key \o [n \in DOMAIN q.aggs |-> AggregateOf(q.aggs[n], members(key))]>> :
            key \in accepted}
GroupsExact == pc = "page" /\ q.aggs # << >> => Lists(rows, GroupsOf(Selected))

\* A window function counts, numbers or sums the rows of the partition of its
\* row and no other; rows of equal order share a RANK (runWindowQuery).
WindowsOf(given) ==
    LET peers(w, p) == {o \in given : At(o[2], w.part) = At(p[2], w.part)}
        earlier(w, p) == {o \in peers(w, p) : RowLess(w.order, o[2], p[2])}
        before(w, p) == {o \in peers(w, p) : ~RowLess(w.order, p[2], o[2]) /\ o[1][1] < p[1][1]}
        cols(w) == [n \in DOMAIN w.order |-> w.order[n].col]
        value(w, p) ==
            CASE w.fn = "ROW_NUMBER" -> MakeInt(1 + Cardinality(earlier(w, p) \cup before(w, p)))
              [] w.fn = "RANK" -> MakeInt(1 + Cardinality(earlier(w, p)))
              [] w.fn = "DENSE_RANK" -> MakeInt(1 + Cardinality({At(o[2], cols(w)) : o \in earlier(w, p)}))
              [] OTHER -> AggregateOf(Agg(w.fn, w.col, FALSE), peers(w, p))
    IN  {<<p[1], p[2] \o [n \in DOMAIN q.windows |-> value(q.windows[n], p)]>> : p \in given}
WindowsExact == pc = "project" /\ q.windows # << >> => Lists(rows, WindowsOf(Selected))

\* Groups and windows: each value is computed over exactly the rows of its part,
\* wherever NULLs, ties, empty parts and the sort put them (visit(SelectStatement),
\* runWindowQuery).
PartitionsExact == GroupsExact /\ WindowsExact

\* The list is a page of the rows in order, without duplicates if it says
\* UNIQUEONLY: each is at a place it may have in that order.
IsPage(list, given) ==
    LET values == {p[2] : p \in given}
        Count(P(_)) == Cardinality(IF q.distinct THEN {v \in values : P(v)} ELSE {p \in given : P(p[2])})
        total == Count(LAMBDA v : TRUE)
        left == IF total > q.offset THEN total - q.offset ELSE 0
    IN /\ Len(list) = IF \E n \in q.limit : n < left THEN CHOOSE n \in q.limit : TRUE ELSE left
       /\ \A i \in DOMAIN list :
             /\ Times(list, list[i]) <= Count(LAMBDA v : v = list[i])
             /\ Count(LAMBDA v : RowLess(q.order, v, list[i])) < q.offset + i
             /\ q.offset + i <= Count(LAMBDA v : ~RowLess(q.order, list[i], v))

\* What leaves the SELECT is the page asked for of an ordered listing, without
\* duplicates if it says UNIQUEONLY: as many rows as SKIP and TAKE leave, each
\* at a place it may have in that order.  A set operation has each row as often
\* as both sides make it.
AnswerExact ==
    /\ pc = "selected" /\ q.aggs = << >> /\ q.windows = << >> => IsPage(rows, Projected(Selected))
    /\ pc = "answered" /\ Len(parts) = 2 =>
          \A row \in S!ToSet(rows) \cup S!ToSet(parts[1]) \cup S!ToSet(parts[2]) :
              LET l == Times(parts[1], row)
                  r == Times(parts[2], row)
              IN  Times(rows, row) =
                    CASE statement.op = "UNION" /\ statement.all -> l + r
                      [] statement.op = "UNION" -> 1
                      [] statement.op = "INTERSECT" -> IF l > 0 /\ r > 0 THEN 1 ELSE 0
                      [] statement.op = "EXCEPT" -> IF l > 0 /\ r = 0 THEN 1 ELSE 0
=============================================================================
