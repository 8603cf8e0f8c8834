---------------------------- MODULE LockManager ----------------------------
(***************************************************************************)
(* The row-level lock manager (txn/lock_manager.cpp): shared and exclusive *)
(* locks on record ids, one mutex, one condition variable.  Every method   *)
(* runs under the mutex, so a step is one critical section; lock() gives   *)
(* the mutex up while it waits, so a blocking call is several steps:       *)
(*                                                                         *)
(*   LockAtOnce / LockBlocks     the first evaluation of the predicate     *)
(*   WakeGranted / WakeWaitsOn   the predicate after a wakeup              *)
(*   TimeoutGranted/TimeoutFails the predicate when the 5 seconds are over *)
(*                                                                         *)
(* A transaction is driven by one thread, so a transaction that waits      *)
(* inside lock() makes no other call.                                      *)
(***************************************************************************)

CONSTANTS
    Txns,       \* transaction ids
    Rids,       \* record ids
    NoRequest   \* "this transaction is not inside lock()"

VARIABLES
    table,      \* table_[rid].holders: mode held per transaction, or None
    heldByTxn,  \* heldByTxn_[txn]: the record ids it holds
    request,    \* the arguments of a lock() call that has not returned
    asleep      \* the transactions blocked in cv_.wait_for

vars == <<table, heldByTxn, request, asleep>>

Modes == {"Shared", "Exclusive"}
None == "None"
Requests == [rid : Rids, mode : Modes]

ASSUME NoRequestAssumption == NoRequest \notin Requests

Init ==
    /\ table = [r \in Rids |-> [t \in Txns |-> None]]
    /\ heldByTxn = [t \in Txns |-> {}]
    /\ request = [t \in Txns |-> NoRequest]
    /\ asleep = {}

----------------------------------------------------------------------------
\* Definitions named Mutant... are wrong on purpose.  Each changes the definition
\* below it the way a slip in the code would, to show that a property notices.

\* Mutant of CanGrant: only the holders' mode is looked at.
MutantIgnoresRequestedMode(t, r, m) ==
    \A h \in Txns \ {t} : table[r][h] # "Exclusive"

\* canGrant: the other holders, if any, are all sharers and so is the request.
CanGrant(t, r, m) ==
    \A h \in Txns \ {t} :
        table[r][h] # None => m = "Shared" /\ table[r][h] = "Shared"

\* Mutant of Grant: the mode is overwritten, as holders[txnId] = mode would.
MutantOverwritesMode(t, r, m) ==
    /\ table' = [table EXCEPT ![r][t] = m]
    /\ heldByTxn' = [heldByTxn EXCEPT ![t] = @ \cup {r}]

\* Mutant of Grant: heldByTxn_ is filled on the exclusive path only.
MutantForgetsSharedHold(t, r, m) ==
    /\ table' = [table EXCEPT ![r][t] =
                    IF @ = None \/ m = "Exclusive" THEN m ELSE @]
    /\ heldByTxn' = [heldByTxn EXCEPT ![t] =
                        IF m = "Exclusive" THEN @ \cup {r} ELSE @]

\* grant: a new holder is recorded on both sides, an upgrade only in the entry.
Grant(t, r, m) ==
    /\ table' = [table EXCEPT ![r][t] =
                    IF @ = None \/ m = "Exclusive" THEN m ELSE @]
    /\ heldByTxn' = [heldByTxn EXCEPT ![t] =
                        IF table[r][t] = None THEN @ \cup {r} ELSE @]

Running(t) == request[t] = NoRequest

\* tryLock: grant or return false without a trace.
TryLock(t, r, m) ==
    /\ Running(t)
    /\ CanGrant(t, r, m)
    /\ Grant(t, r, m)
    /\ UNCHANGED <<request, asleep>>

\* lock: the predicate already holds when wait_for first evaluates it.
LockAtOnce(t, r, m) ==
    /\ Running(t)
    /\ CanGrant(t, r, m)
    /\ Grant(t, r, m)
    /\ UNCHANGED <<request, asleep>>

\* lock: the predicate does not hold, the thread releases the mutex and sleeps.
LockBlocks(t, r, m) ==
    /\ Running(t)
    /\ ~CanGrant(t, r, m)
    /\ request' = [request EXCEPT ![t] = [rid |-> r, mode |-> m]]
    /\ asleep' = asleep \cup {t}
    /\ UNCHANGED <<table, heldByTxn>>

Grantable(t) == CanGrant(t, request[t].rid, request[t].mode)

GrantRequest(t) ==
    /\ Grantable(t)
    /\ Grant(t, request[t].rid, request[t].mode)
    /\ request' = [request EXCEPT ![t] = NoRequest]
    /\ asleep' = asleep \ {t}

\* lock: a woken thread has the mutex again and finds the predicate true.
WakeGranted(t) ==
    /\ ~Running(t)
    /\ t \notin asleep
    /\ GrantRequest(t)

\* lock: a woken thread finds the predicate false and goes back to sleep.
WakeWaitsOn(t) ==
    /\ ~Running(t)
    /\ t \notin asleep
    /\ ~Grantable(t)
    /\ asleep' = asleep \cup {t}
    /\ UNCHANGED <<table, heldByTxn, request>>

\* std::condition_variable may wake a thread that nobody notified.
SpuriousWakeup(t) ==
    /\ t \in asleep
    /\ asleep' = asleep \ {t}
    /\ UNCHANGED <<table, heldByTxn, request>>

\* lock: wait_for returns the predicate's value when the deadline has passed.
TimeoutGranted(t) ==
    /\ ~Running(t)
    /\ GrantRequest(t)

\* Mutant of TimeoutFails: the wait is started over, as a retry loop would.
MutantWaitsAgain(t) ==
    /\ ~Running(t)
    /\ ~Grantable(t)
    /\ asleep' = asleep \cup {t}
    /\ UNCHANGED <<table, heldByTxn, request>>

\* Mutant of TimeoutFails: the call returns and its waiter is left queued.
MutantLeavesWaiter(t) ==
    /\ ~Running(t)
    /\ ~Grantable(t)
    /\ request' = [request EXCEPT ![t] = NoRequest]
    /\ UNCHANGED <<table, heldByTxn, asleep>>

TimeoutFails(t) ==
    /\ ~Running(t)
    /\ ~Grantable(t)
    /\ request' = [request EXCEPT ![t] = NoRequest]
    /\ asleep' = asleep \ {t}
    /\ UNCHANGED <<table, heldByTxn>>

\* Mutant of NotifyAll: notify_one.
MutantNotifyOne ==
    IF asleep = {} THEN UNCHANGED asleep
                   ELSE \E t \in asleep : asleep' = asleep \ {t}

\* cv_.notify_all: every sleeping thread will evaluate its predicate again.
NotifyAll == asleep' = {}

\* unlock: one record, whether or not the transaction holds it.
Unlock(t, r) ==
    /\ Running(t)
    /\ table' = [table EXCEPT ![r][t] = None]
    /\ heldByTxn' = [heldByTxn EXCEPT ![t] = @ \ {r}]
    /\ NotifyAll
    /\ UNCHANGED request

\* unlockAll: the records listed in heldByTxn_, and only those.
UnlockAll(t) ==
    /\ Running(t)
    /\ table' = [r \in Rids |->
                    IF r \in heldByTxn[t] THEN [table[r] EXCEPT ![t] = None]
                                          ELSE table[r]]
    /\ heldByTxn' = [heldByTxn EXCEPT ![t] = {}]
    /\ NotifyAll
    /\ UNCHANGED request

Timeout(t) == TimeoutGranted(t) \/ TimeoutFails(t)

Next ==
    \E t \in Txns :
        \/ \E r \in Rids, m \in Modes :
            \/ TryLock(t, r, m)
            \/ LockAtOnce(t, r, m)
            \/ LockBlocks(t, r, m)
        \/ WakeGranted(t)
        \/ WakeWaitsOn(t)
        \/ SpuriousWakeup(t)
        \/ Timeout(t)
        \/ \E r \in Rids : Unlock(t, r)
        \/ UnlockAll(t)

Spec == Init /\ [][Next]_vars

\* The five-second deadline of a wait_for call does pass.
FairSpec == Spec /\ \A t \in Txns : WF_vars(Timeout(t))

----------------------------------------------------------------------------
\* The state of the lock manager is well formed: holders by mode, held sets of
\* record ids, and only transactions inside lock() (lock_manager.cpp:41) sleep.
TypeOK ==
    /\ table \in [Rids -> [Txns -> Modes \cup {None}]]
    /\ heldByTxn \in [Txns -> SUBSET Rids]
    /\ request \in [Txns -> Requests \cup {NoRequest}]
    /\ asleep \subseteq {t \in Txns : request[t] # NoRequest}

\* A transaction that holds a record exclusively is its only holder, whatever
\* mix of grants, upgrades of a shared lock and late grants led there.
ExclusiveIsSole ==
    \A r \in Rids : \A t, h \in Txns :
        table[r][t] = "Exclusive" /\ h # t => table[r][h] = None

\* heldByTxn_ lists exactly the entries the transaction is a holder of: if it
\* missed one, unlockAll at commit would leave the row locked for ever.
HeldConsistent ==
    \A t \in Txns : heldByTxn[t] = {r \in Rids : table[r][t] # None}

\* No wakeup is lost: while a thread sleeps un-notified in lock(), its request
\* cannot be granted.  unlock and unlockAll are the only steps that can make it
\* grantable, and both notify before they give the mutex up.
NoLostWakeup ==
    \A t \in asleep : ~Grantable(t)

\* A step never weakens an exclusive lock to a shared one: locking a record in
\* shared mode again after an upgrade keeps the exclusive mode (grant's else).
NoSilentDowngrade ==
    [][\A r \in Rids, t \in Txns :
          table[r][t] = "Exclusive" => table'[r][t] # "Shared"]_vars

\* Nobody waits for ever: two sharers that both upgrade block one another, and
\* only the deadline of lock() gets them out.
EveryWaitEnds ==
    \A t \in Txns : ~Running(t) ~> Running(t)

\* The inductive invariant of LockManagerProofs.
IInv == TypeOK /\ ExclusiveIsSole /\ HeldConsistent /\ NoLostWakeup

============================================================================
