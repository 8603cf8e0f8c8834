# Relite: a formal model

Relite is an embedded relational database in C++20 (`src/`): a lexer and parser
for its own query language, an executor, heap tables on slotted pages behind a
buffer pool, B+ tree indexes, a write-ahead log with recovery, record locks, a
multiversion store and a column cache. This directory holds TLA+ modules that
model its storage, transaction and recovery core, its statements, queries,
expressions and catalog, TLC configurations that check them on small instances,
and proofs that TLAPS checks.

All paths below are relative to the repository (`src/src/...`,
`src/include/...` in PROJECT.json). PROJECT.json lists components, runs,
mutants, the map from definitions to source lines, findings, hazards and
theorems.

## 1. The system

| Component | State | Operations | Talks to |
|---|---|---|---|
| Lexer, parser, AST, semantic analyzer (`frontend/`) | none between statements | text to tree, name and type resolution | catalog |
| Session: `DB` (`frontend/db.cpp`) | current transaction of the session, path | start (load catalog, recover, rebuild indexes, load versions), `connect` (one statement, then flush and perhaps checkpoint), shutdown | everything |
| Catalog (`frontend/catalog.cpp`) | table, view, index definitions | create, drop, reshape, save, load | DB, executor |
| Executor (`vm/executor_engine.cpp`) | `currentTxn_`, shared `StorageEngine` | PUT, REMOVE, MODIFY, FETCH, MERGE, RESHAPE, START / SAVE / UNDO | heap, log, locks, indexes, versions, column cache |
| Optimizer, rewrite, expressions, values (`vm/`) | none | pure functions | executor |
| Column store, vectorized aggregates (`vm/column_store.cpp`, `vm/vectorized.cpp`) | cached columns, zone maps, valid flags | build, invalidate, filter, parallel aggregate | executor, threads |
| Version store (`vm/version_store.cpp`) | `baseline_`, `log_`, `pending_`, `version_` | stage, commit, discard, snapshot, AS OF, gc, save, load | executor, DB |
| Heap tables (`vm/table_manager.cpp`) | page list and free-space hints of each table | insert, erase, update, iterate, redo, undo | buffer pool, recovery |
| Slotted page (`backend/page.cpp`) | the bytes of one page | insert, erase, update, compact, redoSet, redoClear | heap tables |
| Buffer pool and page guards (`backend/buffer_pool.cpp`) | frames, page table, LRU list, pins, dirty bits | fetch, new page, mark dirty, unpin, flush, flush all | disk manager, pre-evict hook of the log |
| Disk manager (`backend/disk_manager.cpp`, `durability.cpp`) | the file, `numPages_` | allocate, read, write, sync | operating system |
| Write-ahead log (`txn/wal.cpp`) | the log file, `nextLsn_` | append, flush, read all, reset | transaction manager, recovery |
| Transaction manager (`txn/transaction_manager.cpp`) | active transactions, their undo closures | begin, log, commit, abort | log, locks |
| Lock manager (`txn/lock_manager.cpp`) | holders and queue of each record, held set of each transaction | lock (with a deadline), unlock all | transactions in threads |
| Recovery (`txn/recovery.cpp`) | none | redo committed, undo the rest | log, heap tables |
| Indexes (`index/`) | B+ tree pages, Bloom filters | insert, erase, search, range scan, rebuild | executor, buffer pool |
| Command line, benchmark | none | terminal | DB |

How a logged PUT travels: the executor inserts the row in the heap
(`TableManager::insertTuple` → `BufferPool::fetch` → `Page::insert`), maintains
the indexes, appends an Insert record to the log, pushes an undo closure, and
stages a version. SAVE appends a Commit record, syncs the log, releases locks
and publishes the staged versions. After the statement `DB::connect` flushes
dirty pages and the catalog, and when enough records have gathered it syncs
everything and resets the log. At the next start recovery replays the log.

### What is hard about it

* **Crashes at any step**, with three places where a page can be: the pool, the
  file cache, the platter; and two kinds of stop, a process that dies and a
  machine that loses power. Recovery itself can be stopped.
* **Interleavings**: `LockManager::lock` blocks on one condition variable
  shared by all records; several threads use the buffer pool.
* **Order of records and undo closures** when one transaction changes a row
  more than once, and when rows move.
* **Shared state across sessions** in the version store.
* **Limits**: a pool with all frames pinned, a page full to the last byte, a
  lock request that reaches its deadline.
* **Statements of several rows** that check, write and cascade row by row and may
  fail at any of them, over tables whose keys, references and indexes are
  changed by other statements.
* **What is kept between statements**: cached columns, results of subqueries in
  the tree of a view, positions and names in the catalog file.
* **Several ways to one answer**: three joins, an index or a scan, columns, batches or
  rows, a rewritten expression or the one that was typed.

The full list, each with its line and its properties, is "hazards" in
PROJECT.json.

### What makes each part correct

* *Lock manager*: an exclusive lock is exclusive; no thread sleeps on a request
  that could be granted; an upgrade never becomes a downgrade; everyone who
  waits comes back.
* *Buffer pool*: nobody can tell that it is there; a page someone points into
  stays; no frame and no change is lost.
* *Durability*: after any stop the heap holds the rows of the acknowledged
  statements, each once; the log precedes the pages; the log is not given up
  before the pages are safe.
* *Version store*: AS OF and snapshots show exactly what was committed then.
* *Heap and pages*: an operation changes the row it names and no other; a record
  id means one row for as long as the row lives; bytes are never used twice.
* *Indexes*: an index finds exactly the rows a scan finds, through every split
  and behind every Bloom filter; a UNIQUE column, which asks its index, holds no
  value twice.
* *Statements*: the declared constraints hold of all rows after every statement,
  one that failed half way included; indexes hold what the rows hold; UNDO gives
  back the rows of START; a restart forgets no definition.
* *Expressions*: the analyzer's types, the rewrite, the text in the catalog file and
  the choice of an index never change what an expression yields.
* *Queries*: each phase yields what its declarative meaning says, whichever
  algorithm runs.
* *Column cache*: no statement leaves a stale one behind; the answer is that of the row engine.

## 2. Modules

| Module | Models | Extends or refines |
|---|---|---|
| `LockManager` | `txn/lock_manager.cpp`, `.hpp` | |
| `LockManagerProofs` | theorems about it | `LockManager`, TLAPS |
| `PageStore` | what a user of pages may rely on (abstract) | |
| `BufferPool` | `backend/buffer_pool.cpp`, `page_guard.hpp`, allocation of `disk_manager.cpp` | refines `PageStore` |
| `BufferPoolProofs` | theorems about it | `BufferPool`, TLAPS |
| `Durability` | `wal.cpp`, `transaction_manager.cpp`, `recovery.cpp`, `db.cpp` (connect, checkpoint, start, shutdown), the row statements of `executor_engine.cpp` | |
| `DurabilityProofs` | theorems about it | `Durability`, `LeastNumbers` |
| `CommittedProofs` | the theorem of its main promise | `DurabilityProofs` |
| `VersionStore` | `version_store.cpp` and the statements that feed it | |
| `VersionStoreProofs` | theorems about it | `VersionStore`, `LeastNumbers` |
| `SlottedPage` | `page.cpp`, to the byte, as operators | |
| `RowStore` | what the heap promises (abstract) | |
| `HeapTable` | `table_manager.cpp`, `recovery.cpp` on pages that fill up | extends `SlottedPage`, refines `RowStore` |
| `HeapTableProofs` | theorems about it and the page | `HeapTable`, `LeastNumbers` |
| `LeastNumbers` | least and greatest numbers of a set, for the proofs | TLAPS |
| `DiskBPlusTree` | `disk_bplus_tree.cpp` | |
| `IndexedColumn` | `index_manager.cpp`, `bloom_filter.cpp`, the UNIQUE check and index maintenance of `executor_engine.cpp`, rebuilding in `db.cpp` | extends `DiskBPlusTree` |
| `IndexedColumnProofs` | theorems about both | `IndexedColumn`, `LeastNumbers` |
| `Values` | `value.cpp`: comparison, hashing order, arithmetic helpers | |
| `Expressions` | `expression_eval.cpp`, `rewrite.cpp`, types in `semantic_analyzer.cpp`, `indexCandidates` | extends `Values` |
| `Grammar` | `ast.cpp` (`expressionToString`), the expressions of `parser.cpp` | extends `Expressions` |
| `ExpressionTrees` | what the parser can build, reduction by reduction | extends `Grammar` |
| `Relational` | joins, groups, windows, order, `optimizer.cpp` (external sort), as operators | extends `Expressions` |
| `Queries` | `visit(SelectStatement)`, `visit(SetOpStatement)`, `mergeJoinInner`, views | extends `Relational` |
| `Aggregation` | zone maps, partial aggregates | extends `Relational` |
| `ColumnStore` | `column_store.cpp`, `vectorized.cpp`, `tryVectorizedAggregate`, the statements that clear the cache | extends `Aggregation` |
| `Catalog` | `catalog.cpp`, `saveCatalog` and `loadCatalog` of `db.cpp`, as operators | |
| `Statements` | the changing and defining statements of `executor_engine.cpp`, BUILD in the analyzer, UNDO, restart | extends `Catalog` |
| `MC*` | instances for TLC | |

### LockManager

State: `table[rid][txn]` (`table_`, the mode each holder has), `heldByTxn`, and
for each transaction what its thread is doing: `request` (the arguments of
`lock()` while it is inside), and whether it is in `asleep`.
`lock()` is one action when it is granted or is already held, and otherwise is
split where the code gives the mutex up: entering the wait, waking after a
notification, the deadline of `wait_for` (five seconds) with its final test of
the predicate. `unlockAll` removes every entry and notifies all.

`EveryWaitEnds` is the liveness property: each call returns. Fairness is weak
fairness of the timeout action of each transaction, and nothing else: the
standard library's `wait_for` returns once its deadline has passed, whatever the
other threads do. No fairness is asked of the holders, who may keep locks
for ever, nor of the wakeups.

### BufferPool and PageStore

A frame has its page, its bytes, its pin count and its dirty bit; `table`, `lru`
and `freeList` are the code's page table and lists. Page bytes are opaque values. A guard is a
user's pointer into a frame; `WriteBytes` through a guard and `MarkDirty` are
separate steps, and another thread's flush may come between them. A guard is
dropped only after its change was marked dirty: every user in the repository
does so, except `TableManager::redoInsert` on a record that `Page::redoSet`
refuses, whose extended slot array may then stay in memory only
(`HeapTable` models that one by both outcomes).

`PageStore` is an array of pages and its holders: a guard opens a page, writes
the page it holds, lets go, or creates one; nothing else changes a page, and
opening and closing change none. `Transparent` says that the pool, seen through
its guards, is such an array, so a fetch that loses or changes a page is no step of
it, not even of another one. Its second part, `WritersOnly`, says of
every step that contents change in a guard's `WriteBytes`, of its own page, or by
`newPage`, of the new one. A `newPage` that finds all frames pinned has already
allocated its page: it maps to `Lose`, a page nobody holds. `fetchPage` takes any
page id; here a fetched page exists. Only recovery, after a power loss that cut
the file short, asks for others.

### Durability

Pages have unlimited size here, and each has three versions: `mem`, `os` and the
set `platter` of those a power loss may leave. The log is a sequence of
records in the file cache and a set of prefixes on the platter, where the last
record may be torn. Each statement is split at every point where the code
writes to a page, the log or the disk. A session runs statements one after
another (the executor is not entered by two threads). `CommittedExactly` compares
the heap, scanned as `TableIterator` does (`Scanned`), with a history variable that records
the rows of acknowledged statements (`stable`). A stop may complete what it interrupts, and
`InDoubt` says what that can be: a statement outside a transaction, or a SAVE whose record is
not yet synced. Of any other open transaction nothing may be left, as a whole or in part.

A row that moves is erased in one page and inserted in another. `insertTuple` fetches pages in
between, which in a pool of very few frames (`smallPool`) may evict the page just erased, with its
change and before the record of it: `WrittenBetween`, for MODIFY and for the closures of UNDO.

A *scenario* is a workload: the kinds of statement, the kinds of stop, and
bounds. It is chosen in the initial state and never changes. This is how the runs
separate what the code does right from what it does wrong: the passing
run has six workloads, each violating run one, and every action is the same. `Kept` says of a
scenario which of the code's failures it keeps away: it is the hypothesis of the theorem about
`CommittedExactly`. TLC checks (`KeptCovers` in `MCDurability`) that the six workloads satisfy
it and that every scenario with a known failure does not, and each of its parts is
needed: for each there is a scenario that violates that part only and loses or revives a row. `logs` counts the
logs transactions are begun in, `tornFirst` lets a power loss tear the only record of a log.

### VersionStore

One table; a statement is a step. History variables hold the committed rows at
each version and, for each session, the rows at START and what it wrote.
Scenarios again select the workload.

The table may refer to another one whose REMOVE cascades to it or sets its column to NULL
(`TxnCascade`, `AutoCascade`). This changes rows here, in the heap and with undo, and stages nothing
for them (item 38): from the first such statement on (`parted`), and from a crash on, heap
and store differ. `AsOfExact`, `SnapshotExact` and `NewestIsHeap` speak of the time
before; `SavedVersionsSurvive` of all times, and of the versions before (`exactTo`).

### SlottedPage, HeapTable, RowStore

`SlottedPage` has a page's slots (offset, length, row), `freeEnd` and LSN, and
each method of `page.cpp` as an operator on them, compaction and the exact
byte arithmetic included. `HeapTable` puts a page list, free-space hints, a
log, one session's transactions, a process crash and recovery around it.
`RowStore` is a map from record ids to rows, with what the last commit left.
`KeepsRows` says that the heap implements it, operation by operation: `OwnRowOnly` names for each
operation the one step of `RowStore` it must be, with its record id and its row
(PUT is the insertion of that row under the id `NewRid` gives, a MODIFY that moves is that move, a stop
is `Stop`), and page writes and recovery show as no change of any row. So a row that a compaction, a
hint or redo loses, changes or revives is no step of another operation.
`RecoveredRows` says that the undo pass ends with the rows of the last commit. A scenario in which the program may be killed has the workload
`Careful`, or every statement (`reuse`), for which recovery loses rows (items 6, 15).

### DiskBPlusTree, IndexedColumn

A tree is its pages (`node`, in the order of allocation), `root` (`rootId_`),
and, while `insert()` runs, the ancestors it has still to go back to (`path`)
and what it has to put into the next one (`up`: `upKey`, `upRid`, `childId`).
A value has a type, a rank in `vm::valueLess` and the length of its encoding;
`Measure` counts bytes as `measure()` does. An insertion is a step for the leaf
and a step for each ancestor. The code holds the tree's mutex all along, so
no other action happens in between (`TreeIdle`), and the properties speak of idle
trees. Pages are read and written through the buffer pool, which `BufferPool`
shows to be transparent. Index pages are not logged: all indexes are rebuilt
at every start (`Rebuild`).

`IndexedColumn` puts a heap column and a Bloom filter around the tree. The filter is the
set of byte strings it was given; asked about any other it gives either
answer (`MightContain`). PUT and MODIFY check UNIQUE as `enforceConstraints`
does, with the index finding candidates and the heap deciding. MODIFY is a
step for the removal of the old key and the heap, and one for the new key.
`IndexAgrees` compares range scans and lookups with the heap for all bounds
among the values, and all answers of the filter.

### Values, Expressions, Grammar, ExpressionTrees

A value is a type and its data; doubles are exact fractions. An expression is a tree of
nodes with an operator, operands and, for a leaf, a value or a column. `Eval` is
`evalExpression`, `TypeOf` the analyzer's type or "Error", `Rewritten` is
`rewriteExpression`, `IndexCandidates` the record ids an index offers.
`Written` turns a tree into tokens as `expressionToString` does, `Parse` and the operators
beside it are the parser's recursive descent.

`ExpressionTrees` has two variables that matter: the tree so far and how often it grew. Each
action is one reduction of the parser (`ParseArithmetic`, `ParseIn`, ...), with the operands its
grammar rule takes; a tree the analyzer refuses is dropped. So the reachable states are
the expressions up to a size, and each property compares two ways through the program
on every one of them. `LikeMatch` is a greedy matcher with one place to go back to; `LikeExact`
compares it with the recursive meaning of a pattern.

### Relational, Queries

A statement is one or two SELECTs and how they combine. `Fetch` chooses one, then each
phase of `visit(SelectStatement)` is an action: subqueries (`MaterializeSubqueries`), a scan row
by row (`ScanRow`) or joins (`JoinPair`, `JoinChain`, or the merge join with its two
cursors: `LeftBehind`, `RightBehind`, `BlocksMeet`), groups, windows, sort, projection,
UNIQUEONLY, the page, and the set operation. `PutRow` changes the tables in between. `cache`
is what a subquery node holds (`SubqueryExpr::results`), `kept` the same in the tree of a
view, which lives on.

The properties say what each phase means, by sets and counts of row positions, without
the algorithm: `JoinExact` by pairs that ON and WHERE accept, `PartitionsExact` (its parts
are `GroupsExact` and `WindowsExact`) by the rows of each part, `AnswerExact` by the places
a row may have in the order, `SubqueryExact` by asking the subquery again for each row.

### Aggregation, ColumnStore

`cache` is the copy of the columns with its zone maps, or none. Statements of
sessions that share it (`PutRow`, `PutSelected`, `Remove`, `Modify`, `Start`, `Save`, `Undo`)
clear it where the code clears it. An aggregate takes the columns (`GetOrBuild`), and then each
worker folds its blocks into its own partial, one block a step and in any order beside the
other workers (`FoldBlock`), and `MergeWorkers` merges them; below the threshold one
worker does it all. `FoldBatch` is the operators of `vectorized.cpp`, a batch a step.
`SameAsRowEngine` compares both with the row-by-row aggregates of `Relational`.
`ColumnsFresh` says that PUT, MODIFY and REMOVE clear the cache, no more: in the run nothing can build it again
before the statement's last change or before UNDO, and where something can, the code fails (items 36, 37).

### Catalog, Statements

`Catalog` has one operator for each method, and `Written` and `Read` for the catalog file, which
keeps names where memory keeps positions, in any order of tables. A check has its text and
its expression, which may be missing, never bound (after a BUILD that failed: it reads NULL and
accepts no row) or bound to a position.

`Statements` runs whole statements, one a step: one session, and what a statement did
before it failed stays. A statement is an operator on a *store* (rows, index entries, the changes
made, whether it failed), so that the order of the code is the order of
composition: constraints, ON CONFLICT, foreign keys, children before or after the
parent, heap and indexes. Cascades are recursive as in the code (`Referential`). A table's
children are visited in every order the hash map of the catalog may have. `Restart` writes and
reads the catalog, rolls back an open transaction and rebuilds the indexes.

A scenario is a list of statements that set a database up, the statements
that may follow in any order, and how many. `ConstraintsHold` says of all rows at once what
the code checks of one row at a time: each reference meets a row, each key is unique,
each NOT NULL and CHECK holds.

## 3. Runs

| Run | Instance | Shows |
|---|---|---|
| `lock_manager` | 3 transactions, 2 records; 19 thousand states | mutual exclusion, agreement of the two tables, no lost wakeup, no downgrade, each wait ends |
| `buffer_pool` | 2 frames, 3 pages, 3 guards, symmetric; 56 thousand states | the pool is transparent; no frame or change is lost |
| `durability` | 2 pages, 6 workloads; 757 thousand states | the acknowledged rows, exactly, after stops everywhere, and nothing of a transaction that was not being saved; the write-ahead rule; checkpoints keep what is needed |
| `durability_lsn_reuse` | two transactions, two process crashes | finding 1 |
| `version_store` | 5 workloads; 134 thousand states | AS OF, snapshots and the newest version are exact until a crash or a cascaded REMOVE, the versions before it for ever |
| `heap_table` | 2 pages of 34 bytes, rows of 3 and 7 bytes; 241 thousand states | no byte used twice, no page listed twice; an operation changes its own row only; recovery ends with the rows of the last commit |
| `indexed_column` | pages of 60 bytes, 6 statements on a plain column, 4 and a rebuild on a UNIQUE one; 681 thousand states | the tree stays a search tree within its pages; the index agrees with the heap; UNIQUE holds |
| `expressions` | 4 workloads of up to two reductions over 4 columns and 18 rows; 27 thousand expressions | types, rewrite, text and back, index choice and LIKE change nothing |
| `queries` | 25 statements over two tables of up to 3 rows each; 183 thousand states | joins, subqueries, groups, windows, order, pages and set operations mean what they say |
| `column_store` | tables of up to 5 rows in blocks of 2, 2 workers, 2 changes; 818 thousand states | changes leave no stale cache, in one session; every engine answers alike |
| `statements` | 4 databases, 6 statements each; 54 thousand states | constraints, indexes, UNDO, the catalog file |
| `statements_single_key` | one table | finding 2 |

### Bounds, and why they are enough

* *Locks*: the shortest bad patterns are an upgrade deadlock (two sharers of one
  record) and a waiter behind it; three transactions and a second record to be held meanwhile cover both.
* *Pool*: with two frames and three pages every miss evicts; with three guards
  both frames can be pinned and one of them twice, so `newPage` and `fetch`
  also meet a full pool.
* *Durability*: two pages let a stop fall between two page writes; two
  statements in two transactions give a winner and a loser in one log, in
  either order; two stops let the second hit recovery. One workload has three
  statements and one stop. Rows get unique numbers, so a lost row, a revived
  row and a doubled row are all seen. Bounds are in the scenario: `stmts`,
  `txns`, `perTxn`, `stops`, `logs`. `checkpoint` stands for
  `kCheckpointRecords`, lowered so that it is reached.
* *Versions*: four statements against retention of one and two versions make
  the horizon move; two restarts load a file that was itself loaded, before or after a
  crash or a cascade.
* *Heap*: 22 bytes for slots and records are one long row and one short row
  with their slots, with a remainder; five statements fill both pages, free
  bytes, compact, and move a row that has grown. Rows of different length are needed for in-place
  updates and for gaps that only compaction can use.

* *Index*: a page of 60 bytes holds two INT entries as a leaf, and two separators
  with three children as an inner node, so that the third insertion splits the
  root, and five rows make three levels with a split of an inner node. Two
  values and NULL for up to six rows spread equal values over several leaves. A new
  row's record id is the lowest or the highest unused one, so entries arrive before
  and behind those of equal value.
* *Expressions*: two reductions are enough for every pair of neighbours in
  the grammar's precedence, for a rewrite inside another, for a sign before each kind of operand. Operands
  are NULL, 0, 1, a negative and a fraction; patterns of up to four symbols against words
  of up to four letters let the matcher go back twice.
* *Queries*: two rows of equal keys on one side and two on the other meet as blocks; three
  rows spill a sort of two (`SortMemory`) and leave SKIP 1 TAKE 1 something on either side. Both tables
  may hold NULL, be empty or hold the same row twice.
* *Columns*: five rows are three blocks, the last one short, for two workers; one
  worker gets two blocks and merges with one whose partial may be empty. Two changes
  let a cache be built between them.
* *Statements*: six statements after the set-up let an index be built, a row be
  changed, a transaction be rolled back and a restart happen, in any order, around a
  cascade of depth two. `MaxRows` bounds the record ids of a table.

Symmetry: frames are not symmetric (the free list is ordered), guards and page
contents are; the two pages of `Durability` are. `LockManager` checks a liveness
property and uses none.

Deadlock is checked for locks and the pool, which never stop. The scenarios of
the other modules end when their bounds are reached, so their
configurations say CHECK_DEADLOCK FALSE.

### Where the passing workloads stop

The passing workloads leave out the combinations below. Two of them are runs with a
finding. Where a line says that a property fails under another value of a constant, that
value is defined in the MC module: put it into the passing run's configuration, leave only
that property in it, and TLC shows the counterexample.

*Log, pages, versions, heap, index*

1. *Page LSNs outlive the log* (`wal.cpp:144`): `reset` restarts LSNs at 1, redo
   has given pages LSNs of the old log, and after a second crash redo skips a
   committed change (`logs = 1` in the passing workloads with stops after
   transactions, or a single stop). `MCDurabilityLsnReuse.cfg`, finding 1.
2. *A torn first record* (`wal.cpp:78`): a log in which no record is readable is neither cut nor
   reset at the start, and new records go behind the torn bytes, where the start after the
   next power loss does not find them. What is behind a torn record is modelled as unreadable;
   the code takes the new records' first bytes for the rest of the torn one.
   `CommittedExactly` fails under `Scenarios <- TornFirst`.
3. *UNDO of two changes of one row* (`executor_engine.cpp:2368`): the closure of
   the later update reinserts the old row at a new record id; the closure of
   the earlier one erases the old id. `CommittedExactly` fails under `Scenarios <- UndoTwice`.
4. *Autocommit REMOVE is not logged* (`executor_engine.cpp:2217`): redo of the
   logged insert revives the row, even after a clean shutdown.
   `CommittedExactly` fails under `Scenarios <- AutocommitRemove`.
5. *`pending_` is shared by all sessions* (`executor_engine.cpp:1211`): a
   statement outside a transaction discards what an open transaction staged.
   Related: two writing transactions see each other's pending rows.
   `SnapshotExact` fails under `Scenarios <- PendingDiscarded`.
6. *`Page::redoSet` extends the slot array before it makes room* (`page.cpp:175`).
   In a page that other rows have filled since (item 15) it lands on a record.
   `RecoveredRows` fails under `Scenarios <- Reused`. The passing workload with a stop is
   `Careful`: rows are put first; once they are committed they are removed, or changed to
   no longer ones. For it recovery is proved right (section 4).
7. UNDO of a REMOVE, then a stop, a clean one even: the restored row has a new record id and no
   log record, and undo at restart puts the old row back too.
   `CommittedExactly` fails under `Scenarios <- UndoneRemove`.
8. An autocommitted MODIFY that moves its row changes two pages without a log.
   `CommittedExactly` fails under `Scenarios <- AutocommitModify`.
9. PUT ... RETURNING is reported as a query and `DB::connect` flushes only after
   non-queries; `CommittedExactly` fails under `Scenarios <- Returning`.
10. A pool so small that index maintenance, or the search for room when a row moves, evicts the
    heap page before its log record is appended (`smallPool`); `CommittedExactly` fails under `Scenarios <- EvictedEarly`.
11. *Recovery flushes pages from a log that is only in the file cache* (`db.cpp:489`); then the
    power fails, and half a transaction is left: a process dies before the commit record is synced,
    recovery finds the record in the file cache and writes its pages.
    `CommittedExactly` fails under `Scenarios <- TwoCrashes`.
12. Garbage collection moves the horizon beyond a version an open transaction reads.
13. UNDO of a REMOVE moves the row, and the version store is not told.
14. After a crash the version file is older than the heap. The passing run
    checks what still holds then (`SavedVersionsSurvive`).
15. A row that is put after an uncommitted REMOVE, in its bytes or beside them, takes the room
    that undo needs, and the removed row is dropped.
16. Rows longer than a page: PUT reports success and stores nothing, MODIFY has
    erased the old row. The constants exclude such rows.
17. An update in place that shrinks a row leaves the hint low: wasted space only.
18. *The Bloom filter and DOUBLE values* (`index_manager.cpp:7`): `keyBytes` hashes a
    DOUBLE as the empty string, and an integer literal put into a FLOAT column by its
    own bytes, so one of two equal values is not found behind the other's entry.
    `UniqueHolds` fails under `Scenarios <- FloatColumn`. `Keyed` names the columns this
    cannot happen to; the theorems about lookups are about those.
19. *Values of different lengths*: a node is split by the number of its entries, and
    the half with the long ones may still be longer than a page. All values of the index
    runs have nearly the same length; the part `Fits` of `TreeSound` fails when they have not.
    `Roomy` says how far lengths may differ.

*Statements*

20. *A primary key of one column stated after the columns* (`executor_engine.cpp:1092`)
    is not enforced. `MCStatementsSingleKey.cfg`, finding 2.
21. *ON CONFLICT DO MODIFY of a referenced key* (`executor_engine.cpp:1336`) changes it
    without asking the referring tables. `ConstraintsHold` fails under `Scenarios <- ConflictOnKeyOnly`.
22. *TRUNCATE, DISCARD and RESHAPE ... DISCARD COLUMN of what others refer to* do not ask either.
    `ConstraintsHold` fails under `Scenarios <- TruncatedParentOnly`.
23. *DISCARD COLUMN before a checked column or one of a composite key* (`catalog.cpp:133`): the
    check stays bound to its old position, the key keeps its old positions.
    `ConstraintsHold` fails under `Scenarios <- MovedCheckOnly`.
24. *A child that cascades next to one that restricts* (`executor_engine.cpp:918`): whether the first
    has been changed when the second refuses depends on the order of a hash map; outside a
    transaction the change stays. `ConstraintsHold` fails under `Scenarios <- CascadeAndRestrictOnly`.
25. Changing one row twice in a transaction that is undone: item 3, on rows (guard in `Done`).
26. An index definition that names a column no longer there is dropped at the next start;
    `RestartKeepsCatalog` asks for the others only. A view follows the columns of its table
    at a restart only.
27. Views over views or over a discarded table, rows that refer to their own table,
    definition statements inside transactions, a BUILD that fails after its checks.

*Expressions*

28. *A float literal 0 or 1 as a neutral operand* (`rewrite.cpp:118`): `id / 1.0` becomes `id`, an
    integer, so `id / 1.0 / 2` truncates; the comment at `rewrite.hpp:15` says
    "null-safe and type-preserving". `RewriteSafe` fails under `Scenarios <- Floats`.
29. Doubles of more than six decimals in a CHECK are rounded when it is written
    (`std::to_string`), here by `Scale`, which the literals of the passing workloads do not exceed.
30. CASE or COALESCE over operands of different types: the analyzer takes the type of the first
    one (`Uniform` in the properties). Overflow and rounding of numbers, and
    the literal for the least integer, are outside the values.

*Queries*

31. *A view with a subquery that needs no outer row* keeps the result in its tree for ever
    (`executor_engine.cpp:588`). `SubqueryExact` fails under `Statements <- StaleStatements`,
    `View <- StaleView`.
32. *Such a subquery in the list of a FETCH* is never evaluated and yields NULL
    (`executor_engine.cpp:1825`). `SubqueryExact` fails under `Statements <- ListedStatements`.
33. A hash join compares keys by type and text, so an integer finds no equal FLOAT; all
    columns of the run are INT.
34. A correlated subquery beside joins is not bound again after them, and with an index on
    the compared column the candidates are taken for the first row only: correlated
    subqueries are asked on single tables without index.
35. Grouped statements ignore ORDER BY and UNIQUEONLY, those with windows AS OF and correlated
    subqueries; ties of a spilled sort come in any order; a window SUM over NULLs only
    is 0; HAVING is two-valued. `PartitionsExact` and `AnswerExact` are asked of
    statements without these.

*Column cache*

36. *PUT INTO t FETCH COUNT(\*) FROM t* clears the cache and then builds it again with
    its own query before the row is inserted (`executor_engine.cpp:1210`).
    `ColumnsFresh` fails under `Copied <- CopiedCount`; the passing run copies an aggregate
    that the columns do not answer.
37. *UNDO clears nothing* (`executor_engine.cpp:2525`), so a count by another session between a
    change and its UNDO keeps what was undone. `ColumnsFresh` fails with two
    sessions and `Loaded <- Empty`; the passing run has one session.

*Versions beside cascades*

38. *A cascaded REMOVE stages nothing* (`executor_engine.cpp:848-912`), neither where it removes child
    rows nor where it sets their column to NULL; the cascade of MODIFY does (`:992`). Every later version of
    the child table lacks the change, AS OF, snapshots and the version file included, although
    `version_store.hpp:24` says that a version at or after the horizon is exact. The
    passing run has such cascades; after the first one it asks for the versions before it only.
    `ExactThroughCascades` of `MCVersionStore`, which asks for all, fails as an invariant: the
    workload `Cascades` violates it without any stop.

The two findings are in PROJECT.json with the text of the documentation they disagree with.

## 4. Proofs

TLAPS proves the following for every value of the constants.

**LockManagerProofs.** Assumption: `NoRequest` is not a request
(`NoRequestAssumption`). The invariant `IInv` is the conjunction of `TypeOK`,
`ExclusiveIsSole`, `HeldConsistent` and `NoLostWakeup`, inductive as it stands
but only together: `NoLostWakeup` needs `HeldConsistent`'s types and the fact
that grants take nothing away; that `unlock` and `unlockAll`, the only steps that
can make a request grantable, wake all sleepers keeps it. Lemmas treat a grant
once, which happens in four actions.
Theorems: `LockInvariant`, `LockTypeCorrect`, `MutualExclusion`,
`HeldSetsExact`, `WakeupsReachWaiters`, `UpgradesLast`.

**BufferPoolProofs.** Assumptions: `PoolAssumption` (finitely many guards,
distinct markers, a free list that holds each frame once). `IInv` is the
conjunction of `TypeOK` and the four checked invariants, each of which needs the others: that
an eviction leaves guards alone (`GuardsPin`) needs that the LRU list holds
unpinned frames only (`FramesAccounted`), that it loses no change (`DirtyKnown`)
needs that a frame without guards has no one to mark it later, and both need
that a page has one frame (`TableExact`). Pin counts are cardinalities of sets of
guards, hence the lemmas `HoldAddsHolder` and `DropRemovesHolder`. There is one
lemma per action.
Theorems: `PoolInvariant`, `PoolTypeCorrect`, `OneCopyPerPage`,
`PinnedFramesStay`, `NoFrameLost`, `NoChangeForgotten`, `PoolIsTransparent`, the
refinement `Spec => Transparent`, where each fetch, write, drop and `newPage` is the
step of `PageStore` of the same guard and the rest none, and contents change by writers only.
Its main lemma is that eviction is invisible.

**DurabilityProofs.** No assumption beyond those of the module; every scenario, every number
of pages, power losses and stops inside recovery included. `WriteAhead` is not inductive: a
page version on the platter may have been written long before the change it is compared
with. It speaks of the two halves of a change apart: a version that shows the new row
(`ShowsNew`) needs the Insert record of that row at that place (`HasInsert`), one that shows the old row
gone or overwritten (`ShowsGone`) the Delete record with its before image (`HasDelete`), both pages of a
row that moves included. `IInv` adds five things. `Logged`: the log has both records of every
change in the undo list. `Prepared`: of a change halfway through its logging it has the Delete record.
`Unwritten`: while a statement is between its change of the heap and its records, no
page version shows either half (this is where `smallPool`, item 10 above, breaks the rule).
`Chained`: the pool, the file cache and the versions on the platter are versions of each page
in that order, and what is dead in one is dead in the later ones, so an old version cannot
show a removal before it happens; recovery brings rows back and breaks this, but it ends
with one version of each page everywhere, from `FlushComplete` and `PagesSafe`.
Each phase of the session has a clause in `SessionOK` (what the record under way names). There
is one lemma per kind of step. Theorems: `Invariance`, `WriteAheadHolds`, and the action
property `LogOutlives`, whose proof shows for each step which of `PagesSafe` and emptiness
makes giving up the log harmless.

**CommittedProofs.** `CommittedKept` is `Spec => [](Kept(scenario) => CommittedExactly)`: any
number of pages, rows and transactions, checkpoints at any time, stops at every step and in
recovery. After a stop the rows are those of the acknowledged statements, or those with the
autocommitted statement or the SAVE that was under way (`InDoubt`); a loser that comes back, even
with all its changes, contradicts it. The invariant `CInv` adds to `IInv` a clause for each phase of the session. It is about
*layouts*, functions from places (page and slot) to rows. What recovery will make of a place
is determined by one page version and one log: the row before the first change that is
undone, else the row of the last change that is redone, unless the page's LSN says that the
version has it, else the row of the version (`Leads`). The heart of the invariant is that whatever versions and whatever
log a stop can find, for each page on its own, all lead to *one* layout: outside a transaction to what
the program sees (`IdleInv`), in a transaction to the layout of its START (`Opened`) until the
commit record is appended, when the whole log leads to what the program sees and each shorter one to
the START. During recovery every version still leads to the outcome, and the pages in
memory get there record by record (`Recovering`); during the flush after a statement outside
transactions a page leads to the layout before or after it (`Halfway`); before a
checkpoint truncates the log every version leads to its rows without the log (`ResetInv`).
The clause `ZeroInv` says when page LSNs may be other than zero, which is where items 1 and 2
would break it; `Undoable` says that the undo list leads back to the acknowledged rows.
There is a lemma for each action (`BeginKeeps`, ..., `UndoRecordKeeps`, `RecoverSyncKeeps`), and a few
carry the weight: `RecordApplied` (what redo and undo of one record make of what a page leads to),
`PassFrame` (the frame of both passes), `SetAtPlace` (no row gets two places).
That a scan finds each row once is a statement about cardinalities, proved from the layouts at the end.

**HeapTableProofs.** Assumption: `PageAssumption` (sizes are positive, a row fits an empty page),
and the constants' own assumption of `HeapTable`. The invariant of a page, `Sound`, says
that live records lie between the free end and the end of the page, pairwise apart; it is
`NoOverlap` for one page with the types and the slot array added. Each method has a lemma that says
it keeps `Sound` and that the rows of the other slots stay (`SameBut`); the one for
`compact` rests on sums over the slots (`BytesOrder`): the record of slot s ends where the
sum of the earlier lengths begins, so records stay apart. `HInv` puts a sound page at each
listed position of the file. From it follow `BytesUsedOnce` and `RowsKeepTheirIds`, the
refinement `Spec => KeepsRows`, in which each operation of the heap is the step of `RowStore` for its
own record id and row (`OwnRowOnly`, one lemma for all operations), whatever is compacted beside it, and
no record id is given out twice.

These hold through a stop, the recovery after it and all that follows, for scenarios in which
the program is not killed or is `Careful` until then (`scenario.crash => ~scenario.reuse`, for any
number of rows, pages and transactions); without that, redo does lose rows (item 6).
`CommittedRowsAreBack` (`RecoveredRows`) says that recovery ends with the rows of the last commit,
whichever pages had been written. The invariant `Safe` is `HInv` and, while a stop may come, `Running(Q)`; in
recovery it is `InRecovery(Q)`. Q has each page as it was when the last row had been put
into it: its records lie on top of each other without a gap (`Stacked`), and no later row of a slot is
longer than the first (`Room`). Every page in memory or in the file is a prefix of Q's, from the
time when rows were put, or has all its slots (`Former`). From this follow the two facts recovery needs:
a slot array that redo extends lands on free bytes (`PrefixGrows`), and a row that is put back
finds room, perhaps after compaction (`RoomFor`, by sums over the slots as for `compact`).
What each slot has to hold during the two passes is read off the log: `Redoing` says the row of the last
record that was replayed, unless a later record will put it again; `Undoing` says the
same of committed rows, and that rows of lost records beyond the pass are as they were before the
first of them. TLC checked these invariants on 86 thousand states of this workload before they were
proved. `PagesListedOnce` has no hypothesis: it follows from `ListInv`, by which the log
names no page that the file does not have.

**VersionStoreProofs.** For any number of sessions, rows, transactions, and any `maxChanges_` and
`retainVersions_`, the theorems hold of the workloads named by `Sane`: a session
that writes inside transactions is alone, since `pending_` is shared (item 5), and
transactions that may be undone only insert, since a row put back by UNDO gets a record id the store
is not told of (item 13). Both are failures of the code that TLC shows, so no weaker
hypothesis would do; every passing workload satisfies `Sane`. `SnapshotReads` adds `Isolated`: one
session, or readers beside autocommitted statements with history long enough that
garbage collection passes nobody (item 12). They end where a crash or the first cascaded
REMOVE makes heap and store differ (`parted`, item 38), except `FileSurvives`: the versions that the file
held at a crash, and those before the first cascade, stay exact through any number of stops of both
kinds, statements and compactions that follow.
The invariant relates four copies of the table: the heap is the log replayed over the
baseline with the staged changes on top (`HeapInv`); replaying up to any kept version shows
what was committed then (`HistoryInv`); what a transaction wrote is the difference to the
committed rows (`TxnInv`); what UNDO takes back is what is staged (`UndoInv`). The main lemma is that
replaying a list in two parts is replaying it (`OverlaySplit`), which makes commit,
compaction and reload one argument; that `gc` keeps exactly the changes after the horizon
is proved about its loop, a recursive function, by the least position at which it would not.
Theorems: `StoreInvariant`, `TimeTravel`, `StoreFollowsHeap`, `SnapshotReads`, `FileSurvives`. Once heap and
store differ `StoreInvariant` says nothing; `FileSurvives` has an invariant of its own (`Past`, of the
store, and `Filed`, of the file), with the last version n that is known to be exact as its parameter.

**IndexedColumnProofs.** For any page size, values, record ids, literals and number of statements.
*The tree.* `TreeIsSound` is `Spec => []TreeSound`, trees of any height. The pages know nothing of what
makes a descent right, so the invariant supplies it: `TreeInv` says there *is* an assignment of an interval
of the order and a level to every page (`Whole`) such that entries lie inside the interval of
their page, pages of one level do not overlap, the children of a page share out its interval
at its separators, and the link of a leaf leads to the leaf that begins where it ends. `TreeSound`
alone is not inductive: it says nothing about an empty leaf or about separators whose
entry is long gone. While `insert()` goes back from a split (`Torn`) the parent still takes two pages
for one, which is the field `span`: the interval a page has in the eyes of its parent.
A split cuts an interval (`LeafSplit`, `InnerSplit`), the parent heals it (`ParentTold`), a new root covers both
(`RootGrown`). That `findLeaf` ends in the one leaf whose interval has the entry (`LeafFound`),
and that the loop of `rangeScan` yields the entries in range and no others, in order (`RangeFound`), are
shown for the recursive functions that model them by the levels of pages and by the ranks of
leaves along the links.
That every page fits needs a hypothesis, `PagesSuffice`, since the code cuts by number of entries
(item 19): there are `few`, `short` and `long` such that an entry takes between `short` and `long` bytes, `long` is at most
`few` times `short`, and a node of `few` of the longest entries fits (`Roomy`). On pages of 4096 bytes this holds for
numbers (`few` = 2, entries of 11 to 19 bytes, NULL included) and for texts of up to 198 characters (`few` = 19,
11 to 209 bytes); `MCIndexedColumn` has TLC check it of the run's constants.
*The column.* `ColumnInv` says the tree holds exactly the rows of the heap but for those that
a MODIFY or a rebuild has still to add, and the filter was given the bytes of each. From it and `RangeFound`
follow `RangesAreExact` (range scans, every column, the FLOAT ones of item 18 included),
`IndexFindsRows` (`IndexAgrees`, with lookups behind the filter) and `UniqueColumns` (`UniqueHolds`). The
last two speak of scenarios that are `Keyed`: equal literals have the same bytes for the filter. Without
that `UniqueHolds` is false, as item 18 says; `MCIndexedColumn` has TLC check that INT columns are
`Keyed` and FLOAT columns with integer literals are not.

**LeastNumbers** has the facts that stand for induction in these proofs: a nonempty set
of numbers has a least one, a bounded one a greatest one, and a loop along falling ranks is
a function (`Recursion`). A statement about what a recursive function yields is proved by taking
the least argument at which it fails.

Every invariant was given to TLC on the runs' instances before it was proved.

**Only model-checked**: `EveryWaitEnds` (liveness), and everything in `ExpressionTrees`, `Queries`, `ColumnStore` and
`Statements`. These rest on RECURSIVE operators, which the provers cannot use: evaluation and
rewriting of a tree, the parser, the matcher of LIKE, joins and groups, a cascade over tables.

## 5. Not modelled

The characters of the lexer, the parsing of statements (expressions are modelled), names and
scopes in the analyzer, cost arithmetic and join order (where a choice
hangs on them both ways are taken), the layout of results, the terminal and
the benchmark: sequential, without state that outlives a statement, or
formatting. Within the modelled parts: RETURNING (only its missing flush), MODIFY FROM and
subqueries in the WHEN of MODIFY and REMOVE, a `newPage` that fails in the tree (`allocNode` does not look), EXPLAIN, text functions beyond those in
`EvalCall`, indexes on several columns at the level of pages (as sets of entries they are in
`Statements` and `Expressions`), the tree's count of distinct keys (read by a test
only), the in-memory tree `bplus_tree.cpp` (used by tests only), dropping and
truncating tables at the level of pages, byte encoding of log records and rows.

Two threads inside the executor: `DB` does not lock it, and the tests use threads on
the buffer pool and the lock manager only.

## 6. Plan

What is modelled is what the code has, up to section 5. What is left is proof and a few
compositions, in this order:

1. `ColumnStore`: `ColumnsFresh`, once what it is built from is free of RECURSIVE operators.
2. `HeapTable` with more than one stop: after recovery pages have gaps and LSNs, so that a
   second stop starts from pages that are no prefix of Q's.
3. Long and short values in one index (item 19) as a workload of its own.
4. Definition statements in transactions, with the versions and undo closures that
   still name the old columns.
