--------------------------- MODULE MCVersionStore ---------------------------
(***************************************************************************)
(* The version store with one or two sessions.  One scenario is one        *)
(* workload: PassWork are those for which the store keeps its promises,    *)
(* PendingDiscarded one for which it does not.                             *)
(***************************************************************************)
EXTENDS VersionStore

CONSTANTS s1, s2

MCSessions == {s1, s2}

Base == [sessions |-> {s1}, inTxn |-> {}, auto |-> {}, undo |-> FALSE,
         restarts |-> {}, maxChanges |-> 2, retain |-> 1,
         stmts |-> 4, txns |-> 2, stops |-> 2]

\* One session: every statement, compaction, clean restarts.
Alone == [Base EXCEPT !.inTxn = Kinds, !.auto = Kinds, !.restarts = {"clean"}]

\* One session that also rolls inserts back.
Undoing == [Base EXCEPT !.inTxn = {"put"}, !.auto = Kinds, !.undo = TRUE]

\* Two sessions: readers in transactions while others write, no compaction.
Readers == [Base EXCEPT !.sessions = MCSessions, !.auto = Kinds,
                        !.maxChanges = 9, !.retain = 9]

\* A crash after the version file was saved.
Crash == [Base EXCEPT !.inTxn = {"put"}, !.auto = Kinds, !.restarts = {"crash"},
                      !.txns = 1, !.stops = 1]

\* One session beside a table whose REMOVE cascades, and stops of both kinds.
Cascades == [Base EXCEPT !.inTxn = {"put", "cascade"},
                         !.auto = {"put", "remove", "cascade"},
                         !.restarts = {"clean", "crash"}, !.txns = 1]

PassWork == {Alone, Undoing, Readers, Crash, Cascades}

\* Two sessions, one of them writes in a transaction, the other outside one.
PendingDiscarded ==
    {[Readers EXCEPT !.inTxn = {"put"}, !.auto = {"put"}]}

\* The doc's claim without the exception for cascades: false of the code, since a
\* cascaded REMOVE stages nothing for the rows it changes.
ExactThroughCascades ==
    stops = 0 => \A v \in baselineVersion .. version : Shows(SnapshotAsOf(v), history[v + 1])
=============================================================================
