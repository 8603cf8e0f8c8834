----------------------------- MODULE HeapTable -----------------------------
(***************************************************************************)
(* One table's heap (vm/table_manager.cpp) on slotted pages, to the byte:  *)
(* where a row goes, when a page is compacted, what the free-space hints   *)
(* say, and what recovery (txn/recovery.cpp) puts back after the program   *)
(* was killed.  Module Durability has the log, the disk and the stops in   *)
(* detail, with pages of unlimited size; here pages fill up, and a stop    *)
(* leaves the file cache, where every log record is (append flushes its    *)
(* stream), as it is.                                                      *)
(*                                                                         *)
(* Statements run one after the other in transactions of one session;      *)
(* UNDO and unlogged statements are in Durability.                         *)
(***************************************************************************)
EXTENDS SlottedPage, Functions

CONSTANTS
    MaxPages,   \* bound on the pages of the file
    MaxStmts,   \* bound on the row statements of any scenario
    NoHint,     \* "page not in pageFree_"
    Scenarios   \* what may happen

PageIds == 0 .. MaxPages - 1
Scenario == [crash : BOOLEAN,   \* the program may be killed, once
             reuse : BOOLEAN,   \* after statements that use bytes of removed rows
             stmts : 0 .. MaxStmts]   \* bound on its row statements

ASSUME HeapAssumption ==
    /\ MaxPages \in Nat /\ MaxStmts \in Nat
    /\ NoHint \notin Nat
    /\ Scenarios \subseteq Scenario

VARIABLES
    scenario,
    page,       \* pages as the program sees them
    disk,       \* pages in the file
    numPages,   \* DiskManager::numPages_
    list,       \* pages_ of the table
    catalog,    \* the page list in the catalog file
    hint,       \* pageFree_
    log,        \* the write-ahead log
    txn,        \* number of the current or the last transaction
    phase,      \* "open", "flushing" after a commit, "redo" or "undo"
    at,         \* position of the recovery pass in the log
    stmts,      \* row statements so far
    saved       \* history: rows of the last commit, by record id

heapVars == <<page, numPages, list, hint>>
fileVars == <<disk, catalog>>
flowVars == <<scenario, phase, at>>
vars == <<heapVars, fileVars, flowVars, log, txn, stmts, saved>>

----------------------------------------------------------------------------
Rid == PageIds \X (1 .. MaxStmts)

\* TableIterator: the live slots of the listed pages.
LiveRids == {r \in Rid : r[1] \in Range(list) /\ IsLive(page[r[1]], r[2])}
RowAt(r) == page[r[1]].slots[r[2]].row
Heap == [r \in LiveRids |-> RowAt(r)]

Init ==
    /\ scenario \in Scenarios
    /\ page = [p \in PageIds |-> ZeroPage] /\ disk = page
    /\ numPages = 0 /\ list = << >> /\ catalog = << >>
    /\ hint = [p \in PageIds |-> NoHint]
    /\ log = << >> /\ txn = 1 /\ phase = "open" /\ at = 0
    /\ stmts = 0 /\ saved = Heap

----------------------------------------------------------------------------
(* TableManager.  pages and hints are page and hint, or what erasing the   *)
(* old row has made of them in updateTuple.                                *)

FreeBytes(pg) == UsableSpace(pg)
Needed(row) == RowLen[row] + SlotSize

\* Positions of the list where insertTuple looks, unless it stops before.
Tried(hints, row) ==
    {i \in 1 .. Len(list) :
        hints[list[i]] = NoHint \/ hints[list[i]] >= Needed(row)}

\* Positions where the row fits; the last one is taken.
Hosts(pages, hints, row) == {i \in Tried(hints, row) : CanInsert(pages[list[i]], row)}
HostAt(pages, hints, row) ==
    CHOOSE i \in Hosts(pages, hints, row) : \A j \in Hosts(pages, hints, row) : j <= i

\* The page insertTuple uses: one of the list, or a new one.
Target(pages, hints, row) ==
    IF Hosts(pages, hints, row) # {} THEN list[HostAt(pages, hints, row)] ELSE numPages

NewRid(pages, hints, row) ==
    LET p == Target(pages, hints, row) IN <<p, InsertSlot(pages[p], row)>>

\* insertTuple: pages that were tried in vain get a new hint on the way.
InsertTuple(pages, hints, row) ==
    LET old == Hosts(pages, hints, row) # {}
        from == IF old THEN HostAt(pages, hints, row) ELSE 0
        p == Target(pages, hints, row)
        pg == Insert(IF old THEN pages[p] ELSE EmptyPage, row)
        vain == {list[i] : i \in {j \in Tried(hints, row) : j > from}}
    IN  /\ old \/ numPages < MaxPages
        /\ page' = [pages EXCEPT ![p] = pg]
        /\ hint' = [q \in PageIds |-> IF q = p THEN FreeBytes(pg)
                                      ELSE IF q \in vain THEN FreeBytes(pages[q])
                                      ELSE hints[q]]
        /\ list' = IF old THEN list ELSE Append(list, p)
        /\ numPages' = IF old THEN numPages ELSE numPages + 1

\* eraseTuple, and the first half of updateTuple when the row must move.
ErasedAt(r) == [page EXCEPT ![r[1]] = Erase(@, r[2])]
HintErased(r) == [hint EXCEPT ![r[1]] = FreeBytes(ErasedAt(r)[r[1]])]

\* Where updateTuple puts a row that must move.
MovedRid(r, row) == NewRid(ErasedAt(r), HintErased(r), row)

----------------------------------------------------------------------------
(* Statements.                                                             *)

Record(type, r, row) ==
    [lsn |-> Len(log) + 1, txn |-> txn, type |-> type, rid |-> r, row |-> row]

Statement ==
    /\ phase = "open"
    /\ stmts < scenario.stmts
    /\ stmts' = stmts + 1
    /\ UNCHANGED <<flowVars, fileVars, txn, saved>>

\* A workload that may be killed and uses the bytes of no removed row again:
\* rows are put first; once they are committed they are removed, or changed to
\* no longer ones, in any number of transactions.
Careful == scenario.crash /\ ~scenario.reuse
Untouched == \A i \in 1 .. Len(log) : log[i].type # "Delete"
Settled == \A i \in 1 .. Len(log) : log[i].txn # txn
MayPut == Careful => Untouched
MayChange == Careful /\ Untouched => Settled

\* PUT.
Put(row) ==
    /\ Statement
    /\ MayPut
    /\ InsertTuple(page, hint, row)
    /\ log' = Append(log, Record("Insert", NewRid(page, hint, row), row))

\* REMOVE.
Remove(r) ==
    /\ Statement
    /\ MayChange
    /\ page' = ErasedAt(r)
    /\ hint' = HintErased(r)
    /\ log' = Append(log, Record("Delete", r, RowAt(r)))
    /\ UNCHANGED <<numPages, list>>

\* MODIFY, updateTuple leaves the row where it is and the hint alone.
ModifyInPlace(r, row) ==
    /\ Statement
    /\ MayChange
    /\ CanUpdate(page[r[1]], r[2], row)
    /\ page' = [page EXCEPT ![r[1]] = Update(@, r[2], row)]
    /\ log' = log \o <<Record("Delete", r, RowAt(r)),
                       [Record("Insert", r, row) EXCEPT !.lsn = Len(log) + 2]>>
    /\ UNCHANGED <<hint, numPages, list>>

\* MODIFY, the row moves.
ModifyMoves(r, row) ==
    /\ Statement
    /\ ~Careful
    /\ ~CanUpdate(page[r[1]], r[2], row)
    /\ InsertTuple(ErasedAt(r), HintErased(r), row)
    /\ log' = log \o <<Record("Delete", r, RowAt(r)),
                       [Record("Insert", MovedRid(r, row), row) EXCEPT !.lsn = Len(log) + 2]>>

\* SAVE.
Commit ==
    /\ phase = "open"
    /\ \E i \in 1 .. Len(log) : log[i].txn = txn
    /\ log' = Append(log, Record("Commit", <<>>, Dead))
    /\ txn' = txn + 1
    /\ phase' = "flushing"
    /\ saved' = Heap
    /\ UNCHANGED <<heapVars, fileVars, scenario, at, stmts>>

\* An eviction at any time, or flushAll after the commit, page by page.
WritePage(p) ==
    /\ scenario.crash
    /\ phase \in {"open", "flushing"}
    /\ disk[p] # page[p]
    /\ disk' = [disk EXCEPT ![p] = page[p]]
    /\ UNCHANGED <<heapVars, flowVars, catalog, log, txn, stmts, saved>>

\* DB::connect: all pages are written, then the catalog; the session goes on.
Flushed ==
    /\ phase = "flushing"
    /\ disk = page \/ ~scenario.crash
    /\ disk' = page
    /\ catalog' = list
    /\ phase' = "open"
    /\ UNCHANGED <<heapVars, scenario, at, log, txn, stmts, saved>>

----------------------------------------------------------------------------
(* A stop, and DB::recover.                                                *)

Crash ==
    /\ scenario.crash
    /\ phase \in {"open", "flushing"}
    /\ scenario' = [scenario EXCEPT !.crash = FALSE]
    /\ page' = disk
    /\ list' = catalog
    /\ hint' = [p \in PageIds |-> NoHint]
    /\ phase' = "redo" /\ at' = 1
    /\ UNCHANGED <<fileVars, numPages, log, txn, stmts, saved>>

\* Mutant of Committed: the type of a record is not looked at.
MutantAllCommitted == {log[i].txn : i \in 1 .. Len(log)}

Committed == {log[i].txn : i \in {j \in 1 .. Len(log) : log[j].type = "Commit"}}

\* Mutant of Listed: the list is appended to without a look.
MutantListedTwice(p) == Append(list, p)

\* redoInsert, undoDelete: the page of a row that is put back is listed.
Listed(p) == IF p \in Range(list) THEN list ELSE Append(list, p)

\* redoInsert, undoDelete.  When redoSet refuses, the slot array it may have
\* extended is not marked dirty: an eviction can take the extension back.
SetAt(r, row, lsn) ==
    LET pg == page[r[1]]
    IN  /\ \/ /\ CanRedoSet(pg, r[2], row, lsn)
              /\ page' = [page EXCEPT ![r[1]] = RedoSet(pg, r[2], row, lsn)]
           \/ /\ ~CanRedoSet(pg, r[2], row, lsn)
              /\ page' \in {page, [page EXCEPT ![r[1]] = Extended(Initialised(pg), r[2])]}
        /\ list' = Listed(r[1])
        /\ UNCHANGED hint

\* redoDelete, undoInsert: only the latter leaves a hint.
ClearAt(r, lsn) ==
    LET pg == RedoClear(page[r[1]], r[2], lsn)
    IN  /\ page' = [page EXCEPT ![r[1]] = pg]
        /\ hint' = IF lsn = 0 THEN [hint EXCEPT ![r[1]] = FreeBytes(pg)] ELSE hint
        /\ UNCHANGED list

Recovering == UNCHANGED <<fileVars, scenario, numPages, log, txn, stmts, saved>>

\* recover, first loop: committed changes in log order.
Redo ==
    /\ phase = "redo" /\ at <= Len(log)
    /\ LET r == log[at]
           replay == r.txn \in Committed
       IN  \/ replay /\ r.type = "Insert" /\ SetAt(r.rid, r.row, r.lsn)
           \/ replay /\ r.type = "Delete" /\ ClearAt(r.rid, r.lsn)
           \/ (~replay \/ r.type = "Commit") /\ UNCHANGED <<page, list, hint>>
    /\ at' = at + 1
    /\ UNCHANGED phase
    /\ Recovering

RedoDone ==
    /\ phase = "redo" /\ at > Len(log)
    /\ phase' = "undo" /\ at' = Len(log)
    /\ UNCHANGED <<page, list, hint>>
    /\ Recovering

\* recover, second loop: the rest, backwards.
UndoLoser ==
    /\ phase = "undo" /\ at > 0
    /\ LET r == log[at]
           loser == r.txn \notin Committed
       IN  \/ loser /\ r.type = "Insert" /\ ClearAt(r.rid, 0)
           \/ loser /\ r.type = "Delete" /\ SetAt(r.rid, r.row, 0)
           \/ ~loser /\ UNCHANGED <<page, list, hint>>
    /\ at' = at - 1
    /\ UNCHANGED phase
    /\ Recovering

\* DB::recover: pages and catalog are written and the log is emptied.
Recovered ==
    /\ phase = "undo" /\ at = 0
    /\ disk' = page /\ catalog' = list /\ log' = << >>
    /\ phase' = "open"
    /\ UNCHANGED <<heapVars, scenario, at, txn, stmts, saved>>

Next ==
    \/ \E row \in Rows : Put(row)
    \/ \E r \in LiveRids :
        \/ Remove(r)
        \/ \E row \in Rows : ModifyInPlace(r, row) \/ ModifyMoves(r, row)
    \/ Commit
    \/ \E p \in PageIds : WritePage(p)
    \/ Flushed
    \/ Crash
    \/ Redo
    \/ RedoDone
    \/ UndoLoser
    \/ Recovered

Spec == Init /\ [][Next]_vars

----------------------------------------------------------------------------
\* No byte of a page is used twice, through any series of insert, update in
\* place, compact and redoSet: the slot array ends before the lowest record, a
\* slot is as long as its record, and no two records overlap (page.cpp:70-91,
\* 105-123).
NoOverlap ==
    \A p \in PageIds :
        LET pg == page[p]
            live == {s \in 1 .. Len(pg.slots) : IsLive(pg, s)}
        IN  pg # ZeroPage =>
            /\ SlotEnd(pg) <= pg.freeEnd
            /\ \A s \in live : /\ pg.slots[s].row \in Rows => pg.slots[s].len = RowLen[pg.slots[s].row]
                               /\ pg.freeEnd <= pg.slots[s].off
                               /\ pg.slots[s].off + pg.slots[s].len <= PageSize
            /\ \A s, t \in live : s < t =>
                  \/ pg.slots[s].off + pg.slots[s].len <= pg.slots[t].off
                  \/ pg.slots[t].off + pg.slots[t].len <= pg.slots[s].off

\* A scan meets no page twice (table_manager.cpp:176): a page a crash has left
\* out of the catalog's list is added to it once, by whichever record comes
\* first.
ScannedOnce == \A i, j \in 1 .. Len(list) : list[i] = list[j] => i = j

Open == phase \in {"open", "flushing"}
Slots == {r \in Rid : r[1] < numPages /\ r[2] <= Len(page[r[1]].slots)}

Store == INSTANCE RowStore WITH
            Rids <- Rid,
            rows <- IF Open THEN Heap ELSE saved,
            used <- IF Open THEN Slots ELSE DOMAIN saved,
            saved <- saved

Internal ==
    \/ \E p \in PageIds : WritePage(p)
    \/ Flushed
    \/ Redo
    \/ RedoDone
    \/ UndoLoser
    \/ Recovered

\* An operation changes the row it is about, as it was asked to, and no other;
\* what the engine has not asked for, recovery included, changes no row.
OwnRowOnly ==
    /\ \A row \in Rows : Put(row) => Store!Insert(NewRid(page, hint, row), row)
    /\ \A r \in LiveRids :
        /\ Remove(r) => Store!Erase(r)
        /\ \A row \in Rows :
            /\ ModifyInPlace(r, row) => Store!Change(r, row)
            /\ ModifyMoves(r, row) => Store!Move(r, MovedRid(r, row), row)
    /\ Commit => Store!Commit
    /\ Crash => Store!Stop
    /\ Internal => Store!Waste

\* The heap keeps its promise to the engine, RowStore, operation by operation:
\* compaction, moves, page choice, flushes and recovery never lose or change
\* another row, show one under another id, bring one back, or give the id of a
\* removed row to a new one (table_manager.cpp, page.cpp, recovery.cpp).
KeepsRows == Store!Spec /\ [][OwnRowOnly]_vars

\* Committed work survives a stop (README.md:90, page.hpp:45): once recovery
\* is over, the rows are those of the last commit.
RecoveredRows == [][phase = "undo" /\ phase' = "open" => Heap = saved]_vars

============================================================================
