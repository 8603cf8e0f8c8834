--------------------------- MODULE IndexedColumn ---------------------------
(***************************************************************************)
(* A column of one table with an index on it: the tree, the Bloom filter   *)
(* in front of it (index/index_manager.cpp, bloom_filter.cpp), the rows    *)
(* that PUT, MODIFY and REMOVE write (vm/executor_engine.cpp), and the     *)
(* rebuilding of the index by BUILD INDEX and at every start               *)
(* (frontend/db.cpp).  Statements run one after the other, as in the       *)
(* program, and are not rolled back here.                                  *)
(*                                                                         *)
(* The heap is module RowStore's map from record ids to rows, of which     *)
(* only this column is of interest.  A FLOAT column accepts an integer     *)
(* literal, keeps it as a Double in the row (Tuple::serialize), and gives  *)
(* the literal itself to the index.                                        *)
(***************************************************************************)
EXTENDS DiskBPlusTree

CONSTANTS
    Scenarios,      \* the column and what is done with it
    NoRow           \* "no row under this record id"

\* A scenario names the literals that statements use, whether the column is
\* UNIQUE and of type FLOAT, and the bounds: row statements, and rebuilds.
Scenario ==
    [literals : SUBSET Values, unique : BOOLEAN, float : BOOLEAN,
     stmts : Nat, rebuilds : Nat]

Null == [type |-> "Null", rank |-> 0, size |-> 1]

ASSUME IndexAssumption ==
    /\ Scenarios \subseteq Scenario
    /\ NoRow \notin Values
    /\ Null \in Values /\ \A v \in Values \ {Null} : v.rank > Null.rank
    /\ \A v \in Values : v.type = "Int" => [v EXCEPT !.type = "Double"] \in Values

VARIABLES
    scenario,       \* the scenario, fixed in the initial state
    heap,           \* the column in each row, or NoRow
    used,           \* record ids that have been given out
    bloom,          \* byte strings the Bloom filter was given
    todo,           \* entries a MODIFY or a rebuild has still to add
    stmts, rebuilds \* statements, rebuilds so far

vars == <<treeVars, scenario, heap, used, bloom, todo, stmts, rebuilds>>

Init ==
    /\ TreeInit
    /\ scenario \in Scenarios
    /\ heap = [r \in Rids |-> NoRow] /\ used = {}
    /\ bloom = {} /\ todo = {}
    /\ stmts = 0 /\ rebuilds = 0

Quiet == TreeIdle /\ todo = {}

----------------------------------------------------------------------------
(* Index.                                                                  *)

Rows == {r \in Rids : heap[r] # NoRow}

\* Tuple::serialize and deserialize.
Stored(v) ==
    IF scenario.float /\ v.type = "Int" THEN [v EXCEPT !.type = "Double"] ELSE v

\* keyBytes: there is no case for Double.
KeyBytes(v) ==
    IF v.type \in {"Int", "Text"} THEN <<v.type, v.rank>> ELSE << >>

\* BloomFilter::mightContain: no doubt about a string that was added, and any
\* answer about others.
MightContain(v) == IF KeyBytes(v) \in bloom THEN {TRUE} ELSE BOOLEAN

\* Index::lookup: the record ids, for each answer the filter may give.
Lookups(v) ==
    {IF maybe THEN {e.rid : e \in ToSet(TreeLookup(v))} ELSE {} : maybe \in MightContain(v)}

\* Index::add.
Add(v, r) ==
    /\ TreeInsert([key |-> v, rid |-> r])
    /\ bloom' = bloom \cup {KeyBytes(v)}

\* Mutant of Forget: the filter forgets the value, which other rows may have.
MutantFilterForgets(v, r) ==
    /\ TreeErase([key |-> v, rid |-> r])
    /\ bloom' = bloom \ {KeyBytes(v)}

\* Index::remove: the filter keeps the value.
Forget(v, r) ==
    /\ TreeErase([key |-> v, rid |-> r])
    /\ UNCHANGED bloom

\* The filter can tell the literals of a scenario apart as the tree does: equal ones
\* have the same bytes, and the row keeps a literal as it is.  No FLOAT column with
\* an integer literal is like that.
Keyed(sc) ==
    \A v \in sc.literals :
        /\ ~(sc.float /\ v.type = "Int")
        /\ \A w \in sc.literals : KeyEqual(v, w) => KeyBytes(v) = KeyBytes(w)

----------------------------------------------------------------------------
(* Statements.                                                             *)

\* valueExists for a row that is, or is to be, under except: the index finds the
\* candidates, the heap decides.
Exists(v, found, except) ==
    \E r \in found \ {except} : heap[r] # NoRow /\ KeyEqual(heap[r], v)

\* enforceConstraints: a NULL is never a duplicate.
Allowed(v, except) ==
    \/ ~scenario.unique \/ v = Null
    \/ \E found \in Lookups(v) : ~Exists(v, found, except)

Statement ==
    /\ Quiet
    /\ stmts < scenario.stmts
    /\ stmts' = stmts + 1
    /\ UNCHANGED <<scenario, rebuilds>>

\* insertTuple may use any page with room: a new record id can be before or
\* behind those there are.  The lowest and the highest unused one stand for them.
Fresh == {r \in Rids \ used : \/ \A q \in Rids \ used : r <= q
                              \/ \A q \in Rids \ used : q <= r}

\* PUT of one row; a refused one changes nothing.
Put(v, r) ==
    /\ Statement
    /\ Allowed(v, -1)
    /\ heap' = [heap EXCEPT ![r] = Stored(v)]
    /\ used' = used \cup {r}
    /\ Add(v, r)
    /\ UNCHANGED todo

\* REMOVE of one row.
RemoveRow(r) ==
    /\ Statement
    /\ Forget(heap[r], r)
    /\ heap' = [heap EXCEPT ![r] = NoRow]
    /\ UNCHANGED <<used, todo>>

\* MODIFY of one row: the old value leaves the index, the row stays under its
\* record id or moves to a new one, the new value is next for the index.
Modify(v, r, to) ==
    /\ Statement
    /\ Allowed(v, r)
    /\ Forget(heap[r], r)
    /\ heap' = [[heap EXCEPT ![r] = NoRow] EXCEPT ![to] = Stored(v)]
    /\ used' = used \cup {to}
    /\ todo' = {[key |-> v, rid |-> to]}

\* BUILD INDEX, and DB::rebuildIndexes at a start: a new tree and a new filter,
\* for the rows as they are stored.
Rebuild ==
    /\ Quiet
    /\ rebuilds < scenario.rebuilds
    /\ rebuilds' = rebuilds + 1
    /\ node' = << >> /\ root' = NoNode
    /\ bloom' = {}
    /\ todo' = {[key |-> heap[r], rid |-> r] : r \in Rows}
    /\ UNCHANGED <<path, up, scenario, heap, used, stmts>>

\* Mutant of AddNext: the tree is filled directly, the filter is not.
MutantAddsToTreeOnly ==
    \E e \in todo :
        /\ \A f \in todo : e.rid <= f.rid
        /\ TreeInsert(e)
        /\ todo' = todo \ {e}
        /\ UNCHANGED <<scenario, heap, used, bloom, stmts, rebuilds>>

\* The next row a MODIFY or a rebuild adds, in the order of the scan.
AddNext ==
    \E e \in todo :
        /\ \A f \in todo : e.rid <= f.rid
        /\ Add(e.key, e.rid)
        /\ todo' = todo \ {e}
        /\ UNCHANGED <<scenario, heap, used, stmts, rebuilds>>

\* An insertion that has split a leaf goes on until it is done.
Climb ==
    /\ Ascend
    /\ UNCHANGED <<scenario, heap, used, bloom, todo, stmts, rebuilds>>

Next ==
    \/ \E v \in scenario.literals :
        \/ \E r \in Fresh : Put(v, r)
        \/ \E r \in Rows : \E to \in Fresh \cup {r} : Modify(v, r, to)
    \/ \E r \in Rows : RemoveRow(r)
    \/ Rebuild
    \/ AddNext
    \/ Climb

Spec == Init /\ [][Next]_vars

----------------------------------------------------------------------------
\* The leaves, in the order of their links.
Chain ==
    LET from[id \in {NoNode} \cup DOMAIN node] ==
            IF id = NoNode THEN << >> ELSE <<id>> \o from[node[id].next]
    IN  IF root = NoNode THEN << >> ELSE from[FirstLeaf]

InOrder(s) == \A i \in 1 .. Len(s) - 1 : EntryLess(s[i], s[i + 1])

\* Between calls the tree is a search tree, whatever was split and however many
\* entries are gone from its leaves (disk_bplus_tree.hpp:13-18): the leaf links
\* meet every leaf once, entries strictly ascend along them, and the descent for
\* an entry ends in the leaf that has it.  An erase or an insert that came down
\* elsewhere would leave an entry behind or store one twice.  At every step a
\* node has the children its entries call for, and fits its page (:14, "each
\* node is one buffer-pool page"): after a split both halves and the parent do.
TreeSound ==
    /\ TreeTypeOK
    /\ \A id \in DOMAIN node : Fits(node[id])
    /\ TreeIdle =>
        /\ \A i \in DOMAIN Chain : InOrder(node[Chain[i]].entries)
        /\ \A i, j \in DOMAIN Chain : i < j =>
              \A e \in ToSet(node[Chain[i]].entries), f \in ToSet(node[Chain[j]].entries) :
                 EntryLess(e, f)
        /\ ToSet(Chain) = {id \in DOMAIN node : node[id].leaf}
        /\ \A id \in ToSet(Chain) :
              \A i \in DOMAIN node[id].entries : LeafFor(node[id].entries[i]) = id

\* Between statements an index scan finds what a scan of the heap finds
\* (ExecutorEngine::indexCandidates): for every range the rows with a value in it,
\* each once, in order,
RangesAgree ==
    \A lo, hi \in (scenario.literals \ {Null}) \cup {Unbounded} :
        /\ {e.rid : e \in ToSet(RangeScan(lo, hi))} =
              {r \in Rows : ~TooLow(lo, heap[r]) /\ ~TooHigh(hi, heap[r])}
        /\ InOrder(RangeScan(lo, hi))

\* and behind the Bloom filter every row that has the value asked for.
LookupsAgree ==
    \A v \in scenario.literals \ {Null} : \A found \in Lookups(v) :
        \A r \in Rows : KeyEqual(heap[r], v) => r \in found

IndexAgrees == Quiet => RangesAgree /\ LookupsAgree

\* No two rows of a UNIQUE column are equal (README.md:22, docs/grammar.txt:185),
\* with the index asked in place of the heap.
UniqueHolds ==
    scenario.unique =>
        \A q, r \in Rows : heap[q] # Null /\ KeyEqual(heap[q], heap[r]) => q = r

============================================================================
