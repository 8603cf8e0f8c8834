---------------------------- MODULE Aggregation ----------------------------
(***************************************************************************)
(* The operators of the columnar and of the batch-at-a-time aggregates:    *)
(* predicates of the form column op literal, zone maps, accumulators and   *)
(* how they merge (vm/column_store.cpp, vm/vectorized.cpp).                *)
(*                                                                         *)
(* Both files have their own copy of the accumulator; they do the same.    *)
(***************************************************************************)
EXTENDS Relational

\* buildVecPredicate: conjunctions of column op literal; {} if it is not one.
VecPredicate(where) ==
    LET conjuncts == S!FlattenSeq([i \in DOMAIN where |-> Conjuncts(where[i])])
        tests(i) == ColumnTest(conjuncts[i])
    IN  IF \E i \in DOMAIN conjuncts : tests(i) = {} THEN {}
        ELSE {UNION {tests(i) : i \in DOMAIN conjuncts}}

TermPasses(t, v) == IsTrue(Compare(t.op, v, t.key))

RowPasses(terms, row) == \A t \in terms : TermPasses(t, row[t.col])

----------------------------------------------------------------------------
(******************************* Zone maps *********************************)

\* The least and greatest value of a block; {} when every value is NULL.
Zone(values) ==
    LET given == {v \in values : ~IsNull(v)}
    IN  IF given = {} THEN {}
        ELSE {[min |-> CHOOSE v \in given : \A w \in given : CompareValues(w, v) # {-1},
               max |-> CHOOSE v \in given : \A w \in given : CompareValues(w, v) # {1}]}

BlockCount(rows, size) == (Len(rows) + size - 1) \div size
BlockRows(rows, size, b) ==
    SubSeq(rows, (b - 1) * size + 1, IF b * size < Len(rows) THEN b * size ELSE Len(rows))

BuildZones(rows, size) ==
    [b \in 1 .. BlockCount(rows, size) |->
        [c \in DOMAIN ColumnTypes |->
            Zone({row[c] : row \in S!ToSet(BlockRows(rows, size, b))})]]

\* No row of the block can pass.
BlockExcludesTerm(t, zone) ==
    \/ zone = {}
    \/ \E z \in zone : \E lo \in CompareValues(t.key, z.min), hi \in CompareValues(t.key, z.max) :
          CASE t.op = "=" -> lo < 0 \/ hi > 0
            [] t.op = "<" -> lo <= 0
            [] t.op = "<=" -> lo < 0
            [] t.op = ">" -> hi >= 0
            [] t.op = ">=" -> hi > 0
            [] t.op = "!=" -> CompareValues(z.min, z.max) = {0} /\ lo = 0

BlockSkippable(terms, zones) == \E t \in terms : BlockExcludesTerm(t, zones[t.col])

----------------------------------------------------------------------------
(****************************** Accumulators *******************************)

\* sum stands for isum, dsum and isFloat; best is {} or the value.
EmptyAcc == [count |-> 0, sum |-> MakeInt(0), best |-> {}]

Better(fn, v, best) ==
    \/ best = {}
    \/ \E w \in best : CompareValues(v, w) = (IF fn = "MIN" THEN {-1} ELSE {1})

AccumulateRow(acc, a, row) ==
    LET col == Num(a.v)
        v == row[col]
    IN CASE col = 0 -> [acc EXCEPT !.count = @ + 1]
         [] IsNull(v) -> acc
         [] a.as = "COUNT" -> [acc EXCEPT !.count = @ + 1]
         [] a.as \in {"SUM", "AVG"} ->
              [acc EXCEPT !.count = @ + 1, !.sum = Calculate("+", @, v)]
         [] OTHER -> [acc EXCEPT !.best = IF Better(a.as, v, @) THEN {v} ELSE @]

AccumulateRows(acc, a, rows) == S!FoldLeft(LAMBDA x, row : AccumulateRow(x, a, row), acc, rows)

MutantKeepsFirstBest(x, y, a) ==
    [count |-> x.count + y.count, sum |-> Calculate("+", x.sum, y.sum), best |-> x.best]

MergePartial(x, y, a) ==
    [count |-> x.count + y.count,
     sum |-> Calculate("+", x.sum, y.sum),
     best |-> IF \E v \in y.best : Better(a.as, v, x.best) THEN y.best ELSE x.best]

FinalizePartial(a, acc) ==
    CASE a.as = "COUNT" -> MakeInt(acc.count)
      [] a.as = "SUM" -> IF acc.count = 0 THEN Null ELSE acc.sum
      [] a.as = "AVG" -> IF acc.count = 0 THEN Null
                         ELSE MakeDouble(Num(acc.sum), Den(acc.sum) * acc.count)
      [] OTHER -> IF acc.best = {} THEN Null ELSE CHOOSE v \in acc.best : TRUE
=============================================================================
