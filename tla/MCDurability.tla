---------------------------- MODULE MCDurability ----------------------------
(***************************************************************************)
(* Durability on two heap pages.  One scenario is one workload: PassWork   *)
(* are those for which the code keeps its promise, and each of the others  *)
(* is one for which it does not.                                           *)
(***************************************************************************)
EXTENDS Durability, TLC

CONSTANTS p1, p2

MCPages == {p1, p2}

\* Nothing tells the two pages apart.
Symmetry == Permutations(MCPages)

Base == [work |-> {}, faults |-> {}, smallPool |-> FALSE, tornFirst |-> FALSE,
         checkpoint |-> 100, stmts |-> 2, txns |-> 2, perTxn |-> 3, stops |-> 2, logs |-> 1]

TxnWork == {"txnPut", "txnRemove", "txnModify"}

\* Logged transactions over one log, and a power loss that may hit recovery too.
Power == [Base EXCEPT !.work = TxnWork, !.faults = {"power"}]

\* Three changes in two transactions, one stop of any kind.
LongerPower == [Power EXCEPT !.stmts = 3, !.stops = 1, !.tornFirst = TRUE]
Process == [Base EXCEPT !.work = TxnWork, !.faults = {"process", "shutdown"}]

\* Autocommit inserts between transactions, checkpoints between logs.
Checkpointed == [Base EXCEPT !.work = TxnWork \cup {"put"}, !.logs = 3,
                             !.checkpoint = 3, !.stops = 1,
                             !.faults = {"process", "power", "shutdown"},
                             !.tornFirst = TRUE]

\* UNDO of inserts, and a power loss in the middle of it.
Undoing == [Base EXCEPT !.work = {"txnPut", "put", "undo"}, !.faults = {"power"}]

\* Every kind of statement, a pool that evicts at any time, no stop.
NoStop == [Base EXCEPT !.work = Statements, !.smallPool = TRUE, !.stmts = 3,
                       !.perTxn = 1, !.stops = 0, !.logs = 9, !.checkpoint = 4]

PassWork == {Power, LongerPower, Process, Checkpointed, Undoing, NoStop}

\* Two transactions, a process that dies twice.
LsnReuse == {[Base EXCEPT !.work = {"txnPut"}, !.faults = {"process"}, !.logs = 2]}

\* Two transactions, two power losses, the first of which tears the first record.
TornFirst == {[Base EXCEPT !.work = {"txnPut"}, !.faults = {"power"}, !.tornFirst = TRUE]}

\* A process that dies before the commit record is synced, and a power loss during the
\* recovery from the record in the file cache.
TwoCrashes ==
    {[Base EXCEPT !.work = {"txnPut", "txnModify"}, !.faults = {"process", "power"},
                  !.txns = 1, !.perTxn = 2]}

\* UNDO of a transaction that changed one row twice, no stop.
UndoTwice ==
    {[NoStop EXCEPT !.work = {"put", "txnModify", "undo"}, !.smallPool = FALSE,
                    !.perTxn = 2, !.txns = 1]}

\* One clean shutdown: after the removal outside a transaction of a row that a
\* transaction inserted, and after the UNDO of a removal.
Ended == [Base EXCEPT !.faults = {"shutdown"}, !.stops = 1]
AutocommitRemove == {[Ended EXCEPT !.work = {"txnPut", "remove"}]}
UndoneRemove == {[Ended EXCEPT !.work = {"put", "txnRemove", "undo"}, !.perTxn = 1]}

\* A process that dies once: after PUT ... RETURNING, between the two page writes of a
\* MODIFY outside a transaction, in a pool that evicts before the record is written.
Dies == [Base EXCEPT !.faults = {"process"}, !.stops = 1]
Returning == {[Dies EXCEPT !.work = {"putReturning"}]}
AutocommitModify == {[Dies EXCEPT !.work = {"put", "modify"}]}
EvictedEarly == {[Dies EXCEPT !.work = {"txnPut"}, !.smallPool = TRUE]}

\* CommittedKept of CommittedProofs covers the passing workloads, and the others tell
\* that no part of Kept can be left out.
ASSUME KeptCovers ==
    /\ \A sc \in PassWork : Kept(sc)
    /\ \A sc \in LsnReuse \cup TornFirst \cup TwoCrashes \cup UndoTwice \cup AutocommitRemove
                  \cup UndoneRemove \cup Returning \cup AutocommitModify \cup EvictedEarly : ~Kept(sc)
=============================================================================
