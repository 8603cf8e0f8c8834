----------------------------- MODULE Durability -----------------------------
(***************************************************************************)
(* Durability of one session's work: heap pages, the write-ahead log, the  *)
(* transaction manager, DB::connect's flush and checkpoint, crashes, and   *)
(* the recovery DB::DB runs at the next start.                             *)
(*                                                                         *)
(* A heap page has three versions: in the pool (mem), in the operating     *)
(* system's file cache (os), and on the platter.  DiskManager::writePage   *)
(* and WriteAheadLog::append reach the file cache, only sync and flush     *)
(* reach the platter, and before that the platter may hold any version     *)
(* written since; platter[p] and walPlatter are the sets of versions a     *)
(* power loss may leave.  Page writes and log records are atomic, except   *)
(* that a log may end in a torn record; nothing after it can be read.      *)
(*                                                                         *)
(* Rows are numbered and never repeated, so that a row that is lost or     *)
(* comes back is seen.  By module BufferPool, mem is what readers see; a   *)
(* frame is dirty when mem and os differ.  The table's page list (Pages)   *)
(* is fixed and in the saved catalog.                                      *)
(***************************************************************************)
EXTENDS Naturals, Sequences, FiniteSets

CONSTANTS
    Pages,          \* the heap pages of the table
    Scenarios       \* what the session does and what may happen to it

Statements == {"txnPut", "txnRemove", "txnModify", "undo",
               "put", "putReturning", "remove", "modify"}

\* A scenario names the kinds of statement the session issues, the ways the
\* program may stop, whether the fetches of index maintenance and of insertTuple can
\* evict the heap page that was just changed (smallPool), kCheckpointRecords, and the
\* bounds: row statements (stmts), transactions per run of the program (txns), row
\* statements of one transaction (perTxn), stops, and logs in which transactions are
\* begun.  tornFirst says whether a power loss may tear the only record of a log.
Scenario ==
    [work : SUBSET Statements, faults : SUBSET {"process", "power", "shutdown"},
     smallPool : BOOLEAN, tornFirst : BOOLEAN, checkpoint : Nat,
     stmts : Nat, txns : Nat, perTxn : Nat, stops : Nat, logs : Nat]

ASSUME DurabilityAssumption == Scenarios \subseteq Scenario

VARIABLES
    scenario,       \* the scenario, fixed in the initial state
    mem,            \* pages as the program sees them
    os,             \* pages in the file cache
    platter,        \* for each page, what a power loss may leave
    wal,            \* the log file in the file cache
    walPlatter,     \* what a power loss may leave of it
    nextLsn,        \* nextLsn_
    appends,        \* appendsSinceReset_
    txn,            \* currentTxn_, 0 outside a transaction
    nextTxn,        \* nextTxnId_
    undo,           \* active_[txn].undo
    pc,             \* what the session is in the middle of
    cur,            \* the row change it is in the middle of
    left,           \* pages flushAll has still to write
    at,             \* position of the recovery pass in the log
    stable,         \* history: rows of the last acknowledged state
    pending,        \* history: rows if what is in progress takes effect
    stmts, stops, logs  \* row statements, stops, logs begun so far

pageVars == <<mem, os, platter>>
walVars == <<wal, walPlatter, nextLsn, appends>>
txnVars == <<txn, nextTxn, undo>>
history == <<stable, pending>>
flow == <<pc, cur, left, at>>
bounds == <<stmts, stops, logs, scenario>>
vars == <<pageVars, walVars, txnVars, flow, history, bounds>>

----------------------------------------------------------------------------
Rows == 1 .. scenario.stmts
Dead == 0
NoRid == <<>>
NoCur == [rid |-> NoRid, to |-> NoRid, old |-> Dead, new |-> Dead]

\* The record ids a scan visits: every slot of every page.
Scanned(pages) == UNION {{p} \X (1 .. Len(pages[p].slots)) : p \in Pages}
RowAt(r) == mem[r[1]].slots[r[2]]
LiveRids == {r \in Scanned(mem) : RowAt(r) # Dead}

\* The rows found by scanning the heap are exactly S, each found once.
Exactly(pages, S) ==
    \A r \in Rows :
        Cardinality({q \in Scanned(pages) : pages[q[1]].slots[q[2]] = r})
            = IF r \in S THEN 1 ELSE 0

Init ==
    /\ scenario \in Scenarios
    /\ mem = [p \in Pages |-> [lsn |-> 0, slots |-> << >>]]
    /\ os = mem
    /\ platter = [p \in Pages |-> {os[p]}]
    /\ wal = << >> /\ walPlatter = {<< >>}
    /\ nextLsn = 1 /\ appends = 0
    /\ txn = 0 /\ nextTxn = 1 /\ undo = << >>
    /\ pc = "ready" /\ cur = NoCur /\ left = {} /\ at = 0
    /\ stable = {} /\ pending = {}
    /\ stmts = 0 /\ stops = 0 /\ logs = 1

----------------------------------------------------------------------------
(* Slotted page and table manager.                                         *)

\* Page::insert: a new slot at the end, never an old one again.
InsertAt(p) == <<p, Len(mem[p].slots) + 1>>
Inserted(pages, p, row) ==
    [pages EXCEPT ![p].slots = Append(@, row)]

\* Page::erase.
Erased(pages, r) == [pages EXCEPT ![r[1]].slots = [@ EXCEPT ![r[2]] = Dead]]

\* Page::update, when the new bytes fit where the old ones are.
Overwritten(pages, r, row) ==
    [pages EXCEPT ![r[1]].slots = [@ EXCEPT ![r[2]] = row]]

\* Page::redoSet: guarded by the page LSN; dead slots are added up to s.
RedoSet(pg, s, row, lsn) ==
    IF lsn # 0 /\ pg.lsn >= lsn THEN pg
    ELSE [lsn |-> IF lsn # 0 THEN lsn ELSE pg.lsn,
          slots |-> [i \in 1 .. IF s > Len(pg.slots) THEN s ELSE Len(pg.slots) |->
                        IF i = s THEN row
                        ELSE IF i <= Len(pg.slots) THEN pg.slots[i] ELSE Dead]]

\* Page::redoClear: the LSN moves on even when the slot does not exist.
RedoClear(pg, s, lsn) ==
    IF lsn # 0 /\ pg.lsn >= lsn THEN pg
    ELSE [lsn |-> IF lsn # 0 THEN lsn ELSE pg.lsn,
          slots |-> [i \in 1 .. Len(pg.slots) |->
                        IF i = s THEN Dead ELSE pg.slots[i]]]

----------------------------------------------------------------------------
(* The write-ahead log.                                                    *)

Record(id, type, r, before, after) ==
    [lsn |-> nextLsn, txn |-> id, type |-> type, rid |-> r,
     before |-> before, after |-> after]

\* WriteAheadLog::append: into the file cache.
AppendLog(rec) ==
    /\ wal' = Append(wal, rec)
    /\ walPlatter' = walPlatter \cup {wal'}
    /\ nextLsn' = nextLsn + 1
    /\ appends' = appends + 1

\* WriteAheadLog::flush.
SyncLog ==
    /\ walPlatter' = {wal}
    /\ UNCHANGED <<wal, nextLsn, appends>>

\* readAll: everything before a torn record.
Readable(log) ==
    LET torn == {i \in 1 .. Len(log) : log[i].type = "Torn"}
    IN  IF torn = {} THEN log
        ELSE SubSeq(log, 1, (CHOOSE i \in torn : \A j \in torn : i <= j) - 1)

\* committedTxns and recover's analysis pass.
Committed(log) ==
    {log[i].txn : i \in {j \in 1 .. Len(log) : log[j].type = "Commit"}}

----------------------------------------------------------------------------
(* Statements inside a transaction.                                        *)

Ready == pc = "ready"
InTxn == txn # 0
CanIssue(kind) == Ready /\ kind \in scenario.work /\ stmts < scenario.stmts
CanIssueInTxn(kind) == InTxn /\ CanIssue(kind) /\ Len(undo) < scenario.perTxn
NewRow == stmts + 1

\* START: begin.
Begin ==
    /\ Ready /\ ~InTxn
    /\ nextTxn <= scenario.txns /\ logs <= scenario.logs /\ stmts < scenario.stmts
    /\ {"txnPut", "txnRemove", "txnModify"} \cap scenario.work # {}
    /\ txn' = nextTxn /\ nextTxn' = nextTxn + 1 /\ undo' = << >>
    /\ AppendLog(Record(nextTxn, "Begin", NoRid, Dead, Dead))
    /\ UNCHANGED <<pageVars, flow, history, bounds>>

\* PUT, first half: the row is in the heap.
TxnPut(p) ==
    /\ CanIssueInTxn("txnPut")
    /\ mem' = Inserted(mem, p, NewRow)
    /\ cur' = [rid |-> NoRid, to |-> InsertAt(p), old |-> Dead, new |-> NewRow]
    /\ pending' = pending \cup {NewRow}
    /\ stmts' = stmts + 1
    /\ pc' = "logInsert"
    /\ UNCHANGED <<os, platter, walVars, txnVars, left, at, stable>>
    /\ UNCHANGED <<stops, logs, scenario>>

\* PUT, second half: indexes are maintained in between, then logInsert and
\* registerUndo.
LogInsert ==
    /\ pc = "logInsert"
    /\ AppendLog(Record(txn, "Insert", cur.to, Dead, cur.new))
    /\ undo' = Append(undo, cur)
    /\ cur' = NoCur
    /\ pc' = "ready"
    /\ UNCHANGED <<pageVars, txn, nextTxn, left, at, history, bounds>>

\* REMOVE, first half: logDelete and registerUndo.
TxnRemove(r) ==
    /\ CanIssueInTxn("txnRemove")
    /\ r \in LiveRids
    /\ AppendLog(Record(txn, "Delete", r, RowAt(r), Dead))
    /\ cur' = [rid |-> r, to |-> NoRid, old |-> RowAt(r), new |-> Dead]
    /\ undo' = Append(undo, cur')
    /\ pending' = pending \ {RowAt(r)}
    /\ stmts' = stmts + 1
    /\ pc' = "erase"
    /\ UNCHANGED <<pageVars, txn, nextTxn, left, at, stable, stops, logs, scenario>>

\* REMOVE, second half: eraseTuple.
Erase ==
    /\ pc = "erase"
    /\ mem' = Erased(mem, cur.rid)
    /\ cur' = NoCur
    /\ pc' = "ready"
    /\ UNCHANGED <<os, platter, walVars, txnVars, left, at, history, bounds>>

\* updateTuple: in place when the bytes fit, else erase and insert anywhere.
UpdateTuple(r, to, row) ==
    IF to = r THEN Overwritten(mem, r, row)
              ELSE Inserted(Erased(mem, r), to[1], row)
UpdateTargets(r) == {r} \cup {InsertAt(p) : p \in Pages}

\* insertTuple fetches pages in search of room, after the page of the erased row was
\* let go: in a small pool that page may be evicted (hook, then write) without the
\* new row and without a record of the change.  A stop before the insert finds what
\* a stop after it does, so erase and insert are one step.
WrittenBetween(r, erased) ==
    \/ UNCHANGED <<os, platter, walVars>>
    \/ /\ scenario.smallPool
       /\ SyncLog
       /\ os' = [os EXCEPT ![r[1]] = erased[r[1]]]
       /\ platter' = [platter EXCEPT ![r[1]] = @ \cup {erased[r[1]]}]

\* updateTuple: only a row that moves is erased first.
UpdateWrites(r, to) ==
    IF to = r THEN UNCHANGED <<os, platter, walVars>> ELSE WrittenBetween(r, Erased(mem, r))

\* MODIFY, first part: updateTuple.
TxnModify(r, to) ==
    /\ CanIssueInTxn("txnModify")
    /\ r \in LiveRids /\ to \in UpdateTargets(r)
    /\ mem' = UpdateTuple(r, to, NewRow)
    /\ UpdateWrites(r, to)
    /\ cur' = [rid |-> r, to |-> to, old |-> RowAt(r), new |-> NewRow]
    /\ pending' = (pending \ {RowAt(r)}) \cup {NewRow}
    /\ stmts' = stmts + 1
    /\ pc' = "logModifyDelete"
    /\ UNCHANGED <<txnVars, left, at, stable>>
    /\ UNCHANGED <<stops, logs, scenario>>

\* MODIFY, second part: logDelete of the old row.
LogModifyDelete ==
    /\ pc = "logModifyDelete"
    /\ AppendLog(Record(txn, "Delete", cur.rid, cur.old, Dead))
    /\ pc' = "logModifyInsert"
    /\ UNCHANGED <<pageVars, txnVars, cur, left, at, history, bounds>>

\* MODIFY, third part: logInsert of the new one, registerUndo.
LogModifyInsert ==
    /\ pc = "logModifyInsert"
    /\ AppendLog(Record(txn, "Insert", cur.to, Dead, cur.new))
    /\ undo' = Append(undo, cur)
    /\ cur' = NoCur
    /\ pc' = "ready"
    /\ UNCHANGED <<pageVars, txn, nextTxn, left, at, history, bounds>>

\* SAVE, first half: the commit record.
Commit ==
    /\ Ready /\ InTxn
    /\ AppendLog(Record(txn, "Commit", NoRid, Dead, Dead))
    /\ pc' = "commitSync"
    /\ UNCHANGED <<pageVars, txnVars, cur, left, at, history, bounds>>

Dirty == {p \in Pages : mem[p] # os[p]}

\* SAVE, second half: the log is synced, which is the point of commit; then
\* DB::connect starts to flush the pool.
CommitSync ==
    /\ pc = "commitSync"
    /\ SyncLog
    /\ txn' = 0 /\ undo' = << >>
    /\ stable' = pending
    /\ pc' = "flush" /\ left' = Dirty
    /\ UNCHANGED <<pageVars, nextTxn, cur, at, pending, bounds>>

\* UNDO: the undo list is taken over.
Rollback ==
    /\ Ready /\ InTxn /\ "undo" \in scenario.work
    /\ pc' = "undo"
    /\ UNCHANGED <<pageVars, walVars, txnVars, cur, left, at, history, bounds>>

\* What one undo closure does to the heap: the new row is erased, the old one
\* is put back, not where it was but wherever insertTuple finds room.
Undone(u, p) ==
    LET gone == IF u.to # NoRid THEN Erased(mem, u.to) ELSE mem
    IN  IF u.old # Dead THEN Inserted(gone, p, u.old) ELSE gone

UndoneWrites(u) ==
    IF u.to # NoRid /\ u.old # Dead THEN WrittenBetween(u.to, Erased(mem, u.to))
                                  ELSE UNCHANGED <<os, platter, walVars>>

\* TransactionManager::rollback: the closures, last one first.
UndoStep(p) ==
    /\ pc = "undo" /\ undo # << >>
    /\ mem' = Undone(undo[Len(undo)], p)
    /\ UndoneWrites(undo[Len(undo)])
    /\ undo' = SubSeq(undo, 1, Len(undo) - 1)
    /\ UNCHANGED <<txn, nextTxn, flow, history, bounds>>

Abort ==
    /\ pc = "undo" /\ undo = << >>
    /\ AppendLog(Record(txn, "Abort", NoRid, Dead, Dead))
    /\ pc' = "abortSync"
    /\ UNCHANGED <<pageVars, txnVars, cur, left, at, history, bounds>>

\* rollback ends with a synced log, and DB::connect flushes.
AbortSync ==
    /\ pc = "abortSync"
    /\ SyncLog
    /\ txn' = 0
    /\ pending' = stable
    /\ pc' = "flush" /\ left' = Dirty
    /\ UNCHANGED <<pageVars, nextTxn, undo, cur, at, stable, bounds>>

----------------------------------------------------------------------------
(* Statements outside a transaction are not logged.                        *)

\* The heap is changed and DB::connect flushes the pool.
AutoCommit(kind, pages, rows) ==
    /\ ~InTxn /\ CanIssue(kind)
    /\ mem' = pages
    /\ pending' = rows
    /\ stmts' = stmts + 1
    /\ pc' = "flush" /\ left' = {p \in Pages : pages[p] # os'[p]}
    /\ UNCHANGED <<txnVars, cur, at, stable>>
    /\ UNCHANGED <<stops, logs, scenario>>

Put(p) ==
    /\ UNCHANGED <<os, platter, walVars>>
    /\ AutoCommit("put", Inserted(mem, p, NewRow), stable \cup {NewRow})

Remove(r) ==
    /\ r \in LiveRids
    /\ UNCHANGED <<os, platter, walVars>>
    /\ AutoCommit("remove", Erased(mem, r), stable \ {RowAt(r)})

Modify(r, to) ==
    /\ r \in LiveRids /\ to \in UpdateTargets(r)
    /\ UpdateWrites(r, to)
    /\ AutoCommit("modify", UpdateTuple(r, to, NewRow),
                  (stable \ {RowAt(r)}) \cup {NewRow})

\* PUT ... RETURNING makes the result a query, and DB::connect returns it
\* without flushing.
PutReturning(p) ==
    /\ ~InTxn /\ CanIssue("putReturning")
    /\ mem' = Inserted(mem, p, NewRow)
    /\ stable' = stable \cup {NewRow} /\ pending' = stable'
    /\ stmts' = stmts + 1
    /\ UNCHANGED <<os, platter, walVars, txnVars, flow, stops, logs, scenario>>

----------------------------------------------------------------------------
(* Flush, checkpoint, eviction.                                            *)

\* flushAll, one page: no log sync here.
FlushPage(p) ==
    /\ pc \in {"flush", "recoverFlush", "closeFlush"}
    /\ p \in left
    /\ os' = [os EXCEPT ![p] = mem[p]]
    /\ platter' = [platter EXCEPT ![p] = @ \cup {mem[p]}]
    /\ left' = left \ {p}
    /\ UNCHANGED <<mem, walVars, txnVars, pc, cur, at, history, bounds>>

\* DiskManager::sync, and what DB::connect does next: checkpoint if the log is
\* long enough.
SyncPages ==
    /\ pc = "flush" /\ left = {}
    /\ platter' = [p \in Pages |-> {os[p]}]
    /\ stable' = pending
    /\ pc' = IF appends >= scenario.checkpoint THEN "truncate" ELSE "ready"
    /\ UNCHANGED <<mem, os, walVars, txnVars, cur, left, at, pending, bounds>>

\* WriteAheadLog::reset, first half: the file is truncated.
Truncate ==
    /\ pc = "truncate"
    /\ wal' = << >>
    /\ walPlatter' = walPlatter \cup {<< >>}
    /\ logs' = logs + 1
    /\ pc' = "resetSync"
    /\ UNCHANGED <<pageVars, nextLsn, appends, txnVars, cur, left, at, history>>
    /\ UNCHANGED <<stmts, stops, scenario>>

\* The outcome of a statement that a stop interrupted is known from here on.
Settle ==
    /\ stable' = IF Exactly(mem, pending) THEN pending ELSE stable
    /\ pending' = stable'

\* WriteAheadLog::reset, second half: synced, and LSNs start again from 1.
ResetSync ==
    /\ pc = "resetSync"
    /\ walPlatter' = {<< >>}
    /\ nextLsn' = 1 /\ appends' = 0
    /\ pc' = "ready"
    /\ Settle
    /\ UNCHANGED <<pageVars, wal, txnVars, cur, left, at, bounds>>

\* Mutant of Evict: the pre-evict hook is not installed.
MutantNoHook(p) ==
    /\ pc \in {"ready", "erase", "undo", "redo", "undoLosers"}
    /\ p \in Dirty
    /\ os' = [os EXCEPT ![p] = mem[p]]
    /\ platter' = [platter EXCEPT ![p] = @ \cup {mem[p]}]
    /\ UNCHANGED <<mem, walVars, txnVars, flow, history, bounds>>

\* acquireFrame takes a dirty page's frame: the hook syncs the log, then the
\* page is written.  Between a heap change and its log record pages are fetched by
\* index maintenance, and by insertTuple when a row moves (WrittenBetween).
Evict(p) ==
    /\ \/ pc \in {"ready", "erase", "undo", "redo", "undoLosers"}
       \/ scenario.smallPool /\ pc \in {"logInsert", "logModifyDelete"}
    /\ p \in Dirty
    /\ SyncLog
    /\ os' = [os EXCEPT ![p] = mem[p]]
    /\ platter' = [platter EXCEPT ![p] = @ \cup {mem[p]}]
    /\ UNCHANGED <<mem, txnVars, flow, history, bounds>>

----------------------------------------------------------------------------
(* Stops, and recovery at the next start.                                  *)

\* The rows if what a stop interrupts takes effect.  That may be a SAVE whose record
\* is not yet synced, or a statement outside a transaction; a transaction that was
\* not being saved has no right to any of its changes.
InDoubt == IF InTxn /\ pc # "commitSync" THEN stable ELSE pending

\* DB::DB over the files found: recover returns at once if there is no record.
Restart(pages, log) ==
    /\ mem' = pages /\ os' = pages
    /\ wal' = log
    /\ nextLsn' = IF Readable(log) = << >> THEN 1
                  ELSE Readable(log)[Len(Readable(log))].lsn + 1
    /\ appends' = 0
    /\ txn' = 0 /\ nextTxn' = 1 /\ undo' = << >>
    /\ cur' = NoCur /\ left' = {}
    /\ IF Readable(log) = << >>
       THEN /\ pc' = "ready" /\ at' = 0
            /\ stable' = IF Exactly(pages, InDoubt) THEN InDoubt ELSE stable
            /\ pending' = stable'
       ELSE /\ pc' = "redo" /\ at' = 1
            /\ stable' = stable /\ pending' = InDoubt
    /\ stops' = stops + 1
    /\ UNCHANGED <<stmts, logs, scenario>>

CanStop(kind) == kind \in scenario.faults /\ stops < scenario.stops

\* The process dies; the file cache survives.
ProcessCrash ==
    /\ CanStop("process")
    /\ Restart(os, wal)
    /\ UNCHANGED <<platter, walPlatter>>

Torn == [lsn |-> 0, txn |-> 0, type |-> "Torn", rid |-> NoRid,
         before |-> Dead, after |-> Dead]

\* What a log found after a power loss may look like: only one that was being
\* appended to can be torn.
Found(log) ==
    {log} \cup (IF log # wal /\ (log # << >> \/ scenario.tornFirst)
                THEN {Append(log, Torn)} ELSE {})

\* The machine dies: every page and the log are what the platter holds, and
\* the log may end inside a record that was being written.
PowerLoss ==
    /\ CanStop("power")
    /\ \E pages \in [Pages -> UNION {platter[p] : p \in Pages}],
          log \in walPlatter :
        /\ \A p \in Pages : pages[p] \in platter[p]
        /\ \E found \in Found(log) :
            /\ Restart(pages, found)
            /\ platter' = [p \in Pages |-> {pages[p]}]
            /\ walPlatter' = {found}

\* DB::~DB outside a transaction: the pool is flushed; the log is left as it is.
Close ==
    /\ CanStop("shutdown")
    /\ Ready /\ ~InTxn
    /\ pc' = "closeFlush" /\ left' = Dirty
    /\ UNCHANGED <<pageVars, walVars, txnVars, cur, at, history, bounds>>

Closed ==
    /\ pc = "closeFlush" /\ left = {}
    /\ platter' = [p \in Pages |-> {os[p]}]
    /\ stops < scenario.stops
    /\ Restart(os, wal)
    /\ UNCHANGED walPlatter

\* recover, redo pass: one record, in log order.
RedoRecord ==
    LET rec == wal[at]
        wins == rec.txn \in Committed(Readable(wal))
    IN  /\ pc = "redo" /\ at <= Len(Readable(wal))
        /\ mem' = CASE wins /\ rec.type = "Insert" ->
                          [mem EXCEPT ![rec.rid[1]] =
                              RedoSet(@, rec.rid[2], rec.after, rec.lsn)]
                    [] wins /\ rec.type = "Delete" ->
                          [mem EXCEPT ![rec.rid[1]] =
                              RedoClear(@, rec.rid[2], rec.lsn)]
                    [] OTHER -> mem
        /\ at' = at + 1
        /\ UNCHANGED <<os, platter, walVars, txnVars, pc, cur, left, history, bounds>>

RedoDone ==
    /\ pc = "redo" /\ at > Len(Readable(wal))
    /\ pc' = "undoLosers" /\ at' = Len(Readable(wal))
    /\ UNCHANGED <<pageVars, walVars, txnVars, cur, left, history, bounds>>

\* Mutant of UndoRecord: the undo pass takes a transaction back only if its log has an
\* Abort record; one that was open at the stop is left in the pages.
MutantUndoAborted ==
    LET rec == wal[at]
        aborted == \E k \in 1 .. Len(Readable(wal)) :
                      wal[k].txn = rec.txn /\ wal[k].type = "Abort"
    IN  /\ pc = "undoLosers" /\ at > 0
        /\ mem' = CASE aborted /\ rec.type = "Insert" ->
                          [mem EXCEPT ![rec.rid[1]] = RedoClear(@, rec.rid[2], 0)]
                    [] aborted /\ rec.type = "Delete" ->
                          [mem EXCEPT ![rec.rid[1]] =
                              RedoSet(@, rec.rid[2], rec.before, 0)]
                    [] OTHER -> mem
        /\ at' = at - 1
        /\ UNCHANGED <<os, platter, walVars, txnVars, pc, cur, left, history, bounds>>

\* recover, undo pass: one record, in reverse order, without an LSN.
UndoRecord ==
    LET rec == wal[at]
        loses == rec.txn \notin Committed(Readable(wal))
    IN  /\ pc = "undoLosers" /\ at > 0
        /\ mem' = CASE loses /\ rec.type = "Insert" ->
                          [mem EXCEPT ![rec.rid[1]] = RedoClear(@, rec.rid[2], 0)]
                    [] loses /\ rec.type = "Delete" ->
                          [mem EXCEPT ![rec.rid[1]] =
                              RedoSet(@, rec.rid[2], rec.before, 0)]
                    [] OTHER -> mem
        /\ at' = at - 1
        /\ UNCHANGED <<os, platter, walVars, txnVars, pc, cur, left, history, bounds>>

\* Mutant of UndoDone: the log is reset before the recovered pages are flushed.
MutantResetFirst ==
    /\ pc = "undoLosers" /\ at = 0
    /\ pc' = "truncate"
    /\ UNCHANGED <<pageVars, walVars, txnVars, cur, left, at, history, bounds>>

\* DB::recover: the pool is flushed before the log is reset.
UndoDone ==
    /\ pc = "undoLosers" /\ at = 0
    /\ pc' = "recoverFlush" /\ left' = Dirty
    /\ UNCHANGED <<pageVars, walVars, txnVars, cur, at, history, bounds>>

RecoverSync ==
    /\ pc = "recoverFlush" /\ left = {}
    /\ platter' = [p \in Pages |-> {os[p]}]
    /\ pc' = "truncate"
    /\ UNCHANGED <<mem, os, walVars, txnVars, cur, left, at, history, bounds>>

Recovery == RedoRecord \/ RedoDone \/ UndoRecord \/ UndoDone \/ RecoverSync

Statement ==
    \/ Begin \/ LogInsert \/ Erase \/ LogModifyDelete \/ LogModifyInsert
    \/ Commit \/ CommitSync \/ Rollback \/ Abort \/ AbortSync
    \/ \E p \in Pages : TxnPut(p) \/ UndoStep(p) \/ Put(p) \/ PutReturning(p)
    \/ \E r \in LiveRids :
        \/ TxnRemove(r) \/ Remove(r)
        \/ \E to \in UpdateTargets(r) : TxnModify(r, to) \/ Modify(r, to)

Flush == SyncPages \/ Truncate \/ ResetSync \/ \E p \in Pages : FlushPage(p)

Next ==
    \/ Statement
    \/ Flush
    \/ \E p \in Pages : Evict(p)
    \/ ProcessCrash \/ PowerLoss \/ Close \/ Closed
    \/ Recovery

Spec == Init /\ [][Next]_vars

----------------------------------------------------------------------------
\* The promise of SAVE and of UNDO: whenever the session is between statements
\* and outside a transaction, a scan of the heap finds exactly the rows of the
\* acknowledged statements, each once, whatever stops came before.  After a stop
\* the statement it interrupted took effect wholly or not at all.
CommittedExactly == Ready /\ ~InTxn => Exactly(mem, stable)

\* The scenarios in which the code keeps that promise.  UNDO is exact when no
\* transaction changes a row twice.  If the program may stop, the changes outside
\* transactions are inserts, transactions that are rolled back have only inserted,
\* and no page is evicted before the record of its change is written.  If it may stop
\* again, transactions are begun in one log only, its first record is not torn, and
\* one kind of crash is in play.
Kept(sc) ==
    /\ "undo" \in sc.work => sc.perTxn <= 1 \/ sc.work \cap {"txnRemove", "txnModify"} = {}
    /\ sc.stops > 0 =>
          /\ sc.work \cap {"putReturning", "remove", "modify"} = {} /\ ~sc.smallPool
          /\ "undo" \in sc.work => sc.work \cap {"txnRemove", "txnModify"} = {}
    /\ sc.stops > 1 => sc.logs <= 1 /\ ~sc.tornFirst /\ ~({"process", "power"} \subseteq sc.faults)

\* What page version v of p shows of a change: the new row where it was put, or
\* the old row's slot dead or overwritten.
ShowsNew(p, v, u) ==
    u.to # NoRid /\ u.to[1] = p /\ u.to[2] <= Len(v.slots) /\ v.slots[u.to[2]] = u.new
ShowsGone(p, v, u) ==
    /\ u.rid # NoRid /\ u.rid[1] = p /\ u.rid[2] <= Len(v.slots)
    /\ v.slots[u.rid[2]] \in {Dead, u.new}

\* The records of transaction id that recovery needs to take such a change back.
HasInsert(log, id, u) ==
    \E k \in 1 .. Len(log) : /\ log[k].txn = id /\ log[k].type = "Insert"
                             /\ log[k].rid = u.to /\ log[k].after = u.new
HasDelete(log, id, u) ==
    \E k \in 1 .. Len(log) : /\ log[k].txn = id /\ log[k].type = "Delete"
                             /\ log[k].rid = u.rid /\ log[k].before = u.old

\* The write-ahead rule: a page version with an uncommitted change can be on the
\* platter only when the record of that very change is there as well, the Insert
\* record for a new row and the Delete record for one that is gone.  A pool that
\* evicts a page before its log record is appended breaks the rule; it holds
\* whenever no fetch between a change and its record evicts the heap page.
WriteAhead ==
    InTxn /\ ~scenario.smallPool =>
      \A p \in Pages : \A v \in platter[p], log \in walPlatter :
        \A i \in 1 .. Len(undo) :
           /\ ShowsNew(p, v, undo[i]) => HasInsert(log, txn, undo[i])
           /\ ShowsGone(p, v, undo[i]) => HasDelete(log, txn, undo[i])

\* The log is given up only when every page is safe: a checkpoint, or the end of
\* recovery, never truncates a log that some page on the platter still needs.
LogOutlivesPages ==
    [][wal # << >> /\ wal' = << >> /\ stops' = stops
         => \A p \in Pages : platter[p] = {mem[p]}]_vars

=============================================================================
