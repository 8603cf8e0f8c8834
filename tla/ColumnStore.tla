---------------------------- MODULE ColumnStore ----------------------------
(***************************************************************************)
(* Aggregates over the cached columns of a table (vm/column_store.cpp and  *)
(* tryVectorizedAggregate of vm/executor_engine.cpp) and the batch-wise    *)
(* operators of vm/vectorized.cpp, beside the statements that change the   *)
(* rows.                                                                   *)
(*                                                                         *)
(* Sessions share the storage engine and take turns: a statement runs to   *)
(* its end.  Within one statement the workers of a parallel aggregate run  *)
(* in any order, a block at a time; a worker writes only its own partial.  *)
(***************************************************************************)
EXTENDS Aggregation

CONSTANTS
    Sessions,       \* the sessions
    Loaded,         \* the heaps to begin with, as a PUT of many rows leaves them
    RowValues,      \* the rows PUT and MODIFY write later
    Queries,        \* aggregates over the table, see MCColumnStore
    Copied,         \* those whose result PUT INTO t FETCH ... adds as a row
    MaxChanges,     \* bound on the statements that change rows
    BlockSize,      \* TableColumns::kBlockRows, and the batch size
    ParallelRows,   \* kParallelRowThreshold
    Threads         \* std::thread::hardware_concurrency

ASSUME ColumnStoreAssumption == BlockSize \in Nat \ {0} /\ Threads \in Nat \ {0}

VARIABLES
    heap,           \* the row of each record id, or Gone
    cache,          \* ColumnStore::cache_ of the table: {} or one copy
    changes,        \* how many statements changed rows
    undo,           \* undo list of each session's transaction, {} if none is open
    pc,             \* "idle", "fold", "batches" or "answered"
    query,          \* the query that runs
    next,           \* the next block of each worker; the next batch
    partials,       \* the accumulators of each worker
    found,          \* batches: the groups with their accumulators, or joined rows
    answer          \* the rows of the answer

statement == <<pc, query, next, partials, found, answer>>
vars == <<heap, cache, changes, undo, statement>>

Gone == << >>
LiveRows(h) == SelectSeq(h, LAMBDA row : row # Gone)
Accs(q) == [n \in DOMAIN q.aggs |-> EmptyAcc]

Init ==
    /\ heap \in Loaded
    /\ changes = 0
    /\ cache = {}
    /\ undo = [s \in Sessions |-> {}]
    /\ pc = "idle" /\ query = << >> /\ next = << >>
    /\ partials = << >> /\ found = << >> /\ answer = << >>

----------------------------------------------------------------------------
(************************ Statements on the rows ***************************)

InTransaction(s) == undo[s] # {}
Logged(s, entry) ==
    undo' = [undo EXCEPT ![s] = {Append(list, entry) : list \in @}]
\* lockOrThrow: a record another transaction changed is locked.
Locked(s, rid) ==
    InTransaction(s) /\ \E r \in Sessions \ {s} : \E list \in undo[r] :
        \E i \in DOMAIN list : list[i].rid = rid

MutantKeepsCache == cache' = cache

Invalidated == cache' = {}

Counted == changes < MaxChanges /\ changes' = changes + 1

PutRow(s, row) ==
    /\ pc = "idle"
    /\ Counted /\ Invalidated
    /\ heap' = Append(heap, row)
    /\ Logged(s, [rid |-> Len(heap) + 1, old |-> Gone])
    /\ UNCHANGED statement

Remove(s, rid) ==
    /\ pc = "idle" /\ heap[rid] # Gone /\ ~Locked(s, rid)
    /\ Counted /\ Invalidated
    /\ heap' = [heap EXCEPT ![rid] = Gone]
    /\ Logged(s, [rid |-> rid, old |-> heap[rid]])
    /\ UNCHANGED statement

Modify(s, rid, row) ==
    /\ pc = "idle" /\ heap[rid] # Gone /\ ~Locked(s, rid)
    /\ Counted /\ Invalidated
    /\ heap' = [heap EXCEPT ![rid] = row]
    /\ Logged(s, [rid |-> rid, old |-> heap[rid]])
    /\ UNCHANGED statement

Start(s) ==
    /\ pc = "idle" /\ ~InTransaction(s)
    /\ undo' = [undo EXCEPT ![s] = {<< >>}]
    /\ UNCHANGED <<heap, cache, changes, statement>>

Save(s) ==
    /\ pc = "idle" /\ InTransaction(s)
    /\ undo' = [undo EXCEPT ![s] = {}]
    /\ UNCHANGED <<heap, cache, changes, statement>>

\* The last change first.  A removed row comes back at a new record id.
Undone(h, entry) ==
    CASE entry.old = Gone -> [h EXCEPT ![entry.rid] = Gone]
      [] h[entry.rid] = Gone -> Append(h, entry.old)
      [] OTHER -> [h EXCEPT ![entry.rid] = entry.old]

\* The cached columns are left alone.
Undo(s) ==
    /\ pc = "idle" /\ InTransaction(s)
    /\ heap' = S!FoldRight(LAMBDA entry, h : Undone(h, entry),
                           CHOOSE list \in undo[s] : TRUE, heap)
    /\ undo' = [undo EXCEPT ![s] = {}]
    /\ UNCHANGED <<cache, changes, statement>>

----------------------------------------------------------------------------
(************************* The columnar aggregate **************************)

\* getOrBuild
Built(h) == {[rows |-> LiveRows(h), zones |-> BuildZones(LiveRows(h), BlockSize)]}
GetOrBuild == IF cache # {} THEN cache ELSE Built(heap)

IsVectorizable(s, q) ==
    /\ ~InTransaction(s)
    /\ q.engine = "sql" /\ q.group = << >>
    /\ \A n \in DOMAIN q.aggs : ~q.aggs[n].neg
    /\ VecPredicate(q.where) # {}

Terms == CHOOSE t \in VecPredicate(query.where) : TRUE
Columns == CHOOSE c \in cache : TRUE
Blocks == BlockCount(Columns.rows, BlockSize)

\* Below the threshold one thread folds every block.
Workers(rows) ==
    LET blocks == BlockCount(rows, BlockSize)
    IN  IF Len(rows) < ParallelRows THEN 1 ELSE IF Threads < blocks THEN Threads ELSE blocks

StartAggregate(s, q) ==
    /\ pc = "idle" /\ IsVectorizable(s, q)
    /\ cache' = GetOrBuild
    /\ \E c \in cache' :
          /\ next' = [w \in 1 .. Workers(c.rows) |-> w]
          /\ partials' = [w \in 1 .. Workers(c.rows) |-> Accs(q)]
    /\ query' = q /\ pc' = "fold"
    /\ UNCHANGED <<heap, changes, undo, found, answer>>

FoldBlock(w) ==
    LET b == next[w]
        passing == SelectSeq(BlockRows(Columns.rows, BlockSize, b), LAMBDA row : RowPasses(Terms, row))
    IN /\ pc = "fold" /\ b <= Blocks
       /\ partials' = IF BlockSkippable(Terms, Columns.zones[b]) THEN partials
                      ELSE [partials EXCEPT ![w] =
                              [n \in DOMAIN query.aggs |-> AccumulateRows(@[n], query.aggs[n], passing)]]
       /\ next' = [next EXCEPT ![w] = @ + Len(next)]
       /\ UNCHANGED <<heap, cache, changes, undo, pc, query, found, answer>>

\* Joined, the partials are merged in the order of the workers.
MergeWorkers ==
    LET merged(n) == S!FoldLeft(LAMBDA acc, p : MergePartial(acc, p[n], query.aggs[n]),
                                partials[1][n], Tail(partials))
    IN /\ pc = "fold" /\ \A w \in DOMAIN next : next[w] > Blocks
       /\ answer' = <<[n \in DOMAIN query.aggs |-> FinalizePartial(query.aggs[n], merged(n))]>>
       /\ pc' = "answered" /\ next' = << >> /\ partials' = << >>
       /\ UNCHANGED <<heap, cache, changes, undo, query, found>>

\* The row engine, for every other aggregate (GROUP BY columns come first).
RowEngine(q, h) ==
    LET groups == Groups(Filtered(LiveRows(h), S!ToSet(q.where)), q.group)
    IN  [i \in DOMAIN groups |->
            [n \in DOMAIN q.group |-> groups[i][1][q.group[n]]]
            \o [n \in DOMAIN q.aggs |-> ComputeAggregate(q.aggs[n], groups[i])]]

\* PUT INTO t FETCH ...: the aggregate runs inside the statement, after the
\* cache was cleared, and fills it if it is vectorizable.
PutSelected(s, q) ==
    LET given == RowEngine(q, heap)[1]
    IN /\ pc = "idle" /\ Counted
       /\ cache' = IF IsVectorizable(s, q) THEN Built(heap) ELSE {}
       /\ heap' = Append(heap, [c \in DOMAIN ColumnTypes |-> IF c \in DOMAIN given THEN given[c] ELSE Null])
       /\ Logged(s, [rid |-> Len(heap) + 1, old |-> Gone])
       /\ UNCHANGED statement

----------------------------------------------------------------------------
(************************** Batch by batch *********************************)

\* The three entry points: without groups there is one accumulator from the
\* start, with groups one for each key when its first row comes, and a join
\* builds its table from the whole other side.
StartBatches(q) ==
    /\ pc = "idle" /\ q.engine \in {"aggregate", "group", "join"}
    /\ found' = IF q.engine = "aggregate" THEN <<[key |-> << >>, accs |-> Accs(q)]>> ELSE << >>
    /\ query' = q /\ pc' = "batches" /\ next' = <<1>>
    /\ UNCHANGED <<heap, cache, changes, undo, partials, answer>>

Fold(groups, row) ==
    LET key == [n \in DOMAIN query.group |-> row[query.group[n]]]
        known == {i \in DOMAIN groups : RowKey(groups[i].key) = RowKey(key)}
        folded(accs) == [n \in DOMAIN query.aggs |-> AccumulateRow(accs[n], query.aggs[n], row)]
    IN  IF known = {} THEN Append(groups, [key |-> key, accs |-> folded(Accs(query))])
        ELSE [i \in DOMAIN groups |-> IF i \in known THEN [groups[i] EXCEPT !.accs = folded(@)] ELSE groups[i]]

FoldBatch ==
    LET rows == LiveRows(heap)
        batch == BlockRows(rows, BlockSize, next[1])
        selected == SelectSeq(batch, LAMBDA row : RowPasses(Terms, row))
    IN /\ pc = "batches" /\ next[1] <= BlockCount(rows, BlockSize)
       /\ found' = IF query.engine = "join" THEN found \o HashJoin(batch, rows, query.group)
                   ELSE S!FoldLeft(Fold, found, selected)
       /\ next' = <<next[1] + 1>>
       /\ UNCHANGED <<heap, cache, changes, undo, pc, query, partials, answer>>

EndBatches ==
    /\ pc = "batches" /\ next[1] > BlockCount(LiveRows(heap), BlockSize)
    /\ answer' = IF query.engine = "join" THEN found
                 ELSE [i \in DOMAIN found |-> found[i].key \o
                        [n \in DOMAIN query.aggs |-> FinalizePartial(query.aggs[n], found[i].accs[n])]]
    /\ pc' = "answered" /\ next' = << >> /\ found' = << >>
    /\ UNCHANGED <<heap, cache, changes, undo, query, partials>>

Reply ==
    /\ pc = "answered"
    /\ pc' = "idle" /\ query' = << >> /\ answer' = << >>
    /\ UNCHANGED <<heap, cache, changes, undo, next, partials, found>>

Change(s) ==
    \/ \E row \in RowValues : PutRow(s, row)
    \/ \E rid \in DOMAIN heap : Remove(s, rid)
    \/ \E rid \in DOMAIN heap, row \in RowValues : Modify(s, rid, row)
    \/ \E q \in Copied : PutSelected(s, q)

Next ==
    \/ \E s \in Sessions : Change(s) \/ Start(s) \/ Save(s) \/ Undo(s)
    \/ \E s \in Sessions, q \in Queries : StartAggregate(s, q)
    \/ \E w \in DOMAIN next : FoldBlock(w)
    \/ MergeWorkers
    \/ \E q \in Queries : StartBatches(q)
    \/ FoldBatch \/ EndBatches
    \/ Reply

Spec == Init /\ [][Next]_vars

----------------------------------------------------------------------------
(****************************** Properties *********************************)

\* The cached columns and zone maps, if there are any, are those of the rows
\* as they are now: PUT, MODIFY and REMOVE clear the cache when they begin,
\* however often it was built before (ColumnStore::getOrBuild and the calls of
\* clear).  What rebuilds it between that moment and the last change of a row,
\* the source query of the same PUT or another session before an UNDO, which
\* clears nothing, is not covered: MCColumnStore gives one session and a source
\* query that the columns do not answer.
ColumnsFresh == cache # {} => cache = Built(heap)

\* The columnar aggregate, however many workers fold its blocks in whichever
\* order and whichever blocks the zone maps skip, and the batch-wise
\* aggregates, groups and joins, answer what the row engine answers.
SameAsRowEngine ==
    pc = "answered" =>
        answer = IF query.engine = "join" THEN HashJoin(LiveRows(heap), LiveRows(heap), query.group)
                 ELSE RowEngine(query, heap)
=============================================================================
