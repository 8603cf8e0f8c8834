---------------------------- MODULE VersionStore ----------------------------
(***************************************************************************)
(* The multiversion store (vm/version_store.cpp) and the statements that   *)
(* feed it (vm/executor_engine.cpp).  Sessions share one storage engine    *)
(* and each has its own currentTxn_, as in the snapshot test of            *)
(* tests/features_test.cpp; a statement is one step, since neither the     *)
(* executor nor the store is meant to be entered by two threads.           *)
(*                                                                         *)
(* One table is modelled: every loop of the store filters on the table id  *)
(* and treats all known tables alike.  It may refer to another table,      *)
(* whose REMOVE cascades.  Rows are numbered and never repeated; record    *)
(* ids are never reused by an insert (Page::insert).                       *)
(***************************************************************************)
EXTENDS Naturals, Sequences, FiniteSets

CONSTANTS
    Sessions,       \* the sessions
    Scenarios       \* what they do and what may happen to them

Kinds == {"put", "remove", "modify"}

\* A scenario names the sessions at work, the row statements they issue inside
\* (inTxn) and outside (auto) a transaction, whether transactions end in UNDO as
\* well as in SAVE, how the program may stop, maxChanges_ and retainVersions_,
\* and the bounds: row statements, transactions and restarts.  "cascade" is a
\* REMOVE from the other table whose foreign key action changes a row here.
Statements == Kinds \cup {"cascade"}

Scenario ==
    [sessions : SUBSET Sessions, inTxn : SUBSET Statements, auto : SUBSET Statements,
     undo : BOOLEAN, restarts : SUBSET {"clean", "crash"},
     maxChanges : Nat, retain : Nat, stmts : Nat, txns : Nat, stops : Nat]

ASSUME VersionStoreAssumption == Scenarios \subseteq Scenario

VARIABLES
    scenario,           \* the scenario, fixed in the initial state
    heap,               \* the row in each record id, or None
    nextRid,            \* the next record id insertTuple will give out
    log,                \* log_
    pending,            \* pending_
    baseline,           \* baseline_[table]
    baselineVersion,    \* baselineVersion_
    version,            \* version_
    snapshot,           \* txnSnapshots_ of each session's transaction
    undo,               \* undo list of each session's transaction
    file,               \* the version file saveVersions wrote last
    committed,          \* history: the rows committed so far
    history,            \* history: the rows at each version, from version 0
    base, own,          \* history: rows at START, and what the session wrote
    parted,             \* history: heap and store differ, since a crash or a cascade
    exactTo,            \* history: the last version the store is to be exact at
    stmts, txns, stops  \* write statements, transactions, restarts so far

store == <<log, pending, baseline, baselineVersion, version>>
ghosts == <<committed, history, base, own>>
life == <<scenario, stops>>
parting == <<parted, exactTo>>
vars == <<heap, nextRid, store, snapshot, undo, file, ghosts, parting, life, stmts, txns>>

----------------------------------------------------------------------------
None == 0
Row == 1 .. scenario.stmts
Rids == 1 .. 2 * scenario.stmts
Elsewhere == 0                  \* a record id of another table
NoSnapshot == scenario.stmts + 1
NoRows == [r \in Rids |-> None]
NoOwn == [added |-> {}, removed |-> {}]
NoFile == [version |-> 0, baselineVersion |-> 0, baseline |-> NoRows, log |-> << >>,
           known |-> FALSE]

Init ==
    /\ scenario \in Scenarios
    /\ heap = NoRows /\ nextRid = 1
    /\ log = << >> /\ pending = << >>
    /\ baseline = NoRows /\ baselineVersion = 0 /\ version = 0
    /\ snapshot = [s \in Sessions |-> NoSnapshot]
    /\ undo = [s \in Sessions |-> << >>]
    /\ file = NoFile
    /\ committed = {} /\ history = <<{}>>
    /\ base = [s \in Sessions |-> {}]
    /\ own = [s \in Sessions |-> NoOwn]
    /\ parted = FALSE /\ exactTo = 0
    /\ stmts = 0 /\ txns = 0 /\ stops = 0

----------------------------------------------------------------------------
(* The store.                                                              *)

StageInsert(r, row) == [version |-> 0, isDelete |-> FALSE, rid |-> r, row |-> row]
StageDelete(r) == [version |-> 0, isDelete |-> TRUE, rid |-> r, row |-> None]

\* The rows after some of a list of changes: the last one of a record id decides.
Overlay(rows, changes, which) ==
    [r \in Rids |->
        LET mine == {i \in which : changes[i].rid = r}
        IN  IF mine = {} THEN rows[r]
            ELSE changes[CHOOSE i \in mine : \A j \in mine : j <= i].row]

\* Mutant of Reconstruct: the version bound is exclusive.
MutantExclusiveBound(v) ==
    Overlay(baseline, log,
            {i \in 1 .. Len(log) : log[i].version > baselineVersion /\ log[i].version < v})

\* reconstruct's loop over log l, up to the first change after version v.
UpTo(l, v) ==
    {i \in 1 .. Len(l) :
        /\ l[i].version > baselineVersion
        /\ \A j \in 1 .. i : l[j].version > baselineVersion => l[j].version <= v}

\* reconstruct: the log is replayed over the baseline.
Reconstruct(v) == Overlay(baseline, log, UpTo(log, v))

Clamp(v) == IF v < baselineVersion THEN baselineVersion ELSE v

SnapshotAsOf(v) == Reconstruct(Clamp(v))

\* Mutant of SnapshotForTxn: the newest version is read, not the captured one.
MutantReadsNewest(v) ==
    Overlay(Reconstruct(version), pending, 1 .. Len(pending))

\* snapshotForTxn: the rows of a version, overlaid with all of pending_.
SnapshotForTxn(v) ==
    Overlay(Reconstruct(Clamp(v)), pending, 1 .. Len(pending))

Stamped(changes, v) ==
    [i \in 1 .. Len(changes) |-> [changes[i] EXCEPT !.version = v]]

\* maybeGc: the version up to which history is compacted after a commit.
Horizon(v, l) ==
    IF Len(l) > scenario.maxChanges /\ v > scenario.retain THEN v - scenario.retain
                                                 ELSE baselineVersion

\* gc's loop over log l.
Later(l, h) ==
    LET kept[i \in 0 .. Len(l)] ==
            IF i = 0 THEN << >>
            ELSE IF l[i].version > h THEN Append(kept[i - 1], l[i]) ELSE kept[i - 1]
    IN  kept[Len(l)]

\* gc over log l: the baseline becomes the rows at the horizon, the log keeps
\* what is later.  A table with a change in the log is in knownTables_.
Compact(l, h) ==
    IF h <= baselineVersion
    THEN log' = l /\ UNCHANGED <<baseline, baselineVersion>>
    ELSE /\ log' = Later(l, h)
         /\ baseline' = Overlay(baseline, l, UpTo(l, h))
         /\ baselineVersion' = h

\* commitPending of the staged changes, with the garbage collection it may run.
CommitPending(rows) ==
    IF pending = << >>
    THEN UNCHANGED <<store, history>>
    ELSE /\ version' = version + 1
         /\ LET new == Stamped(pending, version + 1)
            IN  Compact(log \o new, Horizon(version + 1, log \o new))
         /\ pending' = << >>
         /\ history' = Append(history, rows)

----------------------------------------------------------------------------
(* Statements.                                                             *)

InTxn(s) == snapshot[s] # NoSnapshot

\* lockOrThrow: the rows another session's transaction changed are locked.
Locked(s, r) ==
    \E t \in Sessions \ {s} : \E i \in 1 .. Len(undo[t]) :
        r \in {undo[t][i].rid, undo[t][i].to}

\* A row change: its effect on the heap, the changes it stages, its undo entry
\* and the rows it adds and removes.
Changes(kind) ==
    LET new == stmts + 1
        live == {r \in Rids : heap[r] # None}
        put(r) == [rid |-> None, old |-> None, to |-> r, new |-> new]
    IN  CASE kind = "put" -> {put(nextRid)}
          [] kind = "remove" ->
                {[rid |-> r, old |-> heap[r], to |-> None, new |-> None] : r \in live}
          [] kind = "modify" ->
                {[rid |-> r, old |-> heap[r], to |-> t, new |-> new] :
                    r \in live, t \in live \cup {nextRid}}

\* An update stays in its slot or moves to a new one.
Possible(c) == c.rid # None /\ c.to # None => c.to \in {c.rid, nextRid}

ApplyToHeap(c) ==
    /\ heap' = [r \in Rids |-> IF r = c.to THEN c.new
                               ELSE IF r = c.rid THEN None ELSE heap[r]]
    /\ nextRid' = IF c.to = nextRid THEN nextRid + 1 ELSE nextRid

\* Mutant of Staged: an update that moves the row stages only the insert.
MutantNoStageDelete(c) ==
    IF c.to = None THEN <<StageDelete(c.rid)>> ELSE <<StageInsert(c.to, c.new)>>

Staged(c) ==
    (IF c.rid # None THEN <<StageDelete(c.rid)>> ELSE << >>)
    \o (IF c.to # None THEN <<StageInsert(c.to, c.new)>> ELSE << >>)

Added(c) == {c.new} \ {None}
Removed(c) == {c.old} \ {None}

\* START.
Start(s) ==
    /\ ~InTxn(s) /\ txns < scenario.txns
    /\ snapshot' = [snapshot EXCEPT ![s] = version]
    /\ undo' = [undo EXCEPT ![s] = << >>]
    /\ base' = [base EXCEPT ![s] = committed]
    /\ own' = [own EXCEPT ![s] = NoOwn]
    /\ txns' = txns + 1
    /\ UNCHANGED <<heap, nextRid, store, file, committed, history, parting, life, stmts>>

\* A row change inside a transaction: the changes are staged, not committed.
TxnChange(s, c, changes) ==
    /\ InTxn(s) /\ stmts < scenario.stmts
    /\ Possible(c)
    /\ ~Locked(s, c.rid)
    /\ ApplyToHeap(c)
    /\ pending' = pending \o changes
    /\ undo' = [undo EXCEPT ![s] = Append(@, c)]
    /\ own' = [own EXCEPT ![s] = [added |-> (@.added \ Removed(c)) \cup Added(c),
                                  removed |-> @.removed \cup Removed(c)]]
    /\ stmts' = stmts + 1
    /\ UNCHANGED <<log, baseline, baselineVersion, version, snapshot, file,
                   committed, history, base, life, txns>>

\* A row change outside a transaction: pending changes are discarded first, its
\* own are staged and committed.
AutoChange(s, c, changes) ==
    /\ ~InTxn(s) /\ stmts < scenario.stmts
    /\ Possible(c)
    /\ ApplyToHeap(c)
    /\ version' = version + 1
    /\ LET new == Stamped(changes, version + 1)
       IN  Compact(log \o new, Horizon(version + 1, log \o new))
    /\ pending' = << >>
    /\ committed' = (committed \ Removed(c)) \cup Added(c)
    /\ history' = Append(history, committed')
    /\ stmts' = stmts + 1
    /\ UNCHANGED <<snapshot, undo, file, base, own, life, txns>>

\* PUT, REMOVE and MODIFY stage what they do.
TxnWrite(s, kind, c) ==
    /\ kind \in scenario.inTxn /\ c \in Changes(kind)
    /\ TxnChange(s, c, Staged(c))
    /\ UNCHANGED parting

AutoWrite(s, kind, c) ==
    /\ kind \in scenario.auto /\ c \in Changes(kind)
    /\ AutoChange(s, c, Staged(c))
    /\ UNCHANGED parting

\* A REMOVE from the table this one refers to stages the row it removes there,
\* Elsewhere.  The rows of this table that refer to it are erased (CASCADE) or
\* updated (SET NULL), and nothing is staged for them.
CascadeStaged == <<StageDelete(Elsewhere)>>

Diverge ==
    /\ parted' = TRUE
    /\ exactTo' = IF parted THEN exactTo ELSE version

TxnCascade(s, kind, c) ==
    /\ "cascade" \in scenario.inTxn
    /\ kind \in {"remove", "modify"} /\ c \in Changes(kind)
    /\ TxnChange(s, c, CascadeStaged)
    /\ Diverge

AutoCascade(s, kind, c) ==
    /\ "cascade" \in scenario.auto
    /\ kind \in {"remove", "modify"} /\ c \in Changes(kind)
    /\ AutoChange(s, c, CascadeStaged)
    /\ Diverge

EndTxn(s) ==
    /\ snapshot' = [snapshot EXCEPT ![s] = NoSnapshot]
    /\ undo' = [undo EXCEPT ![s] = << >>]
    /\ base' = [base EXCEPT ![s] = {}]
    /\ own' = [own EXCEPT ![s] = NoOwn]

\* SAVE: commitPending, endSnapshot.
Save(s) ==
    /\ InTxn(s)
    /\ committed' = (committed \ own[s].removed) \cup own[s].added
    /\ CommitPending(committed')
    /\ EndTxn(s)
    /\ UNCHANGED <<heap, nextRid, file, parting, life, stmts, txns>>

\* insertTuple calls of UNDO.
Reinserted(s) ==
    Cardinality({i \in 1 .. Len(undo[s]) : undo[s][i].old # None})

\* What UNDO leaves in the heap: new rows erased, old rows inserted again at
\* new record ids, last change first.
Restored(s) ==
    LET u == undo[s]
        olds == {i \in 1 .. Len(u) : u[i].old # None}
        place(i) == nextRid + Cardinality({j \in olds : j > i})
    IN  [r \in Rids |->
            IF \E i \in olds : r = place(i)
            THEN u[CHOOSE i \in olds : r = place(i)].old
            ELSE IF \E i \in 1 .. Len(u) : u[i].to = r THEN None
            ELSE heap[r]]

\* UNDO: the closures, then discardPending and endSnapshot.
Rollback(s) ==
    /\ InTxn(s) /\ scenario.undo
    /\ heap' = Restored(s)
    /\ nextRid' = nextRid + Reinserted(s)
    /\ pending' = << >>
    /\ EndTxn(s)
    /\ UNCHANGED <<log, baseline, baselineVersion, version, file,
                   committed, history, parting, life, stmts, txns>>

----------------------------------------------------------------------------
(* Persistence.                                                            *)

\* deserialize: the table is in knownTables_ if the file has a baseline or a
\* change of it; else loadVersions seeds its baseline from the heap.
Load(f) ==
    /\ version' = f.version /\ baselineVersion' = f.baselineVersion
    /\ log' = f.log /\ pending' = << >>
    /\ baseline' = IF f.known THEN f.baseline ELSE heap

\* serialize writes the baselines of the tables that have one: all known ones
\* after a gc or a load, none before.
Saved == [version |-> version, baselineVersion |-> baselineVersion,
          baseline |-> baseline, log |-> log,
          known |-> log # << >> \/ baselineVersion > 0 \/ baseline # NoRows]

Quiet == \A s \in Sessions : ~InTxn(s)

\* DB::connect after a statement: a checkpoint saves the versions as well.
Checkpoint ==
    /\ scenario.restarts # {} /\ Quiet
    /\ file' = Saved
    /\ UNCHANGED <<heap, nextRid, store, snapshot, undo, ghosts, parting, life, stmts, txns>>

\* DB::~DB and DB::DB.
CleanRestart ==
    /\ "clean" \in scenario.restarts /\ stops < scenario.stops /\ Quiet
    /\ file' = Saved
    /\ Load(Saved)
    /\ exactTo' = IF parted THEN exactTo ELSE version
    /\ stops' = stops + 1
    /\ UNCHANGED <<heap, nextRid, snapshot, undo, ghosts>>
    /\ UNCHANGED <<scenario, parted, stmts, txns>>

\* The program dies between statements: the heap has been flushed
\* (DB::connect), the version file is the last one saved.
CrashRestart ==
    /\ "crash" \in scenario.restarts /\ stops < scenario.stops /\ Quiet
    /\ Load(file)
    /\ history' = SubSeq(history, 1, file.version + 1)
    /\ parted' = TRUE
    /\ exactTo' = IF parted /\ exactTo < file.version THEN exactTo ELSE file.version
    /\ stops' = stops + 1
    /\ UNCHANGED <<heap, nextRid, snapshot, undo, file, committed, base, own>>
    /\ UNCHANGED <<scenario, stmts, txns>>

Next ==
    \/ \E s \in scenario.sessions :
        \/ Start(s)
        \/ Save(s)
        \/ Rollback(s)
        \/ \E kind \in Kinds : \E c \in Changes(kind) :
            \/ TxnWrite(s, kind, c)
            \/ AutoWrite(s, kind, c)
            \/ TxnCascade(s, kind, c)
            \/ AutoCascade(s, kind, c)
    \/ Checkpoint
    \/ CleanRestart
    \/ CrashRestart

Spec == Init /\ [][Next]_vars

----------------------------------------------------------------------------
\* The rows shown are exactly those of S, each at one record id.
Shows(rows, S) ==
    /\ {rows[r] : r \in Rids} \ {None} = S
    /\ \A q, r \in Rids : rows[q] = rows[r] /\ rows[q] # None => q = r

\* Time travel: AS OF any version from the garbage-collection horizon on shows
\* the table as it was committed at that version, however history has since been
\* compacted, saved and loaded (version_store.hpp: "AS OF a version at or after
\* the horizon is exact"), until the program dies or a REMOVE cascades here.
AsOfExact ==
    ~parted =>
        \A v \in baselineVersion .. version : Shows(SnapshotAsOf(v), history[v + 1])

\* Saved history survives a crash, and older history a cascade: the versions that
\* were in the file, and those before the first cascade, stay exact, although the
\* rows changed since are unknown to the store.
SavedVersionsSurvive ==
    \A v \in baselineVersion .. exactTo :
        v > 0 => Shows(SnapshotAsOf(v), history[v + 1])

\* Snapshot isolation: a transaction reads the rows committed when it started
\* and its own writes, whatever other sessions do meanwhile, until the program
\* dies or a REMOVE cascades here.
SnapshotExact ==
    \A s \in Sessions : InTxn(s) /\ ~parted =>
        Shows(SnapshotForTxn(snapshot[s]),
              (base[s] \ own[s].removed) \cup own[s].added)

\* The store agrees with the heap: between transactions the newest version shows
\* the rows a scan of the heap finds, until the program dies or a REMOVE cascades
\* here.
NewestIsHeap ==
    Quiet /\ ~parted =>
        Shows(SnapshotAsOf(version), {heap[r] : r \in Rids} \ {None})

=============================================================================
