------------------------- MODULE LockManagerProofs -------------------------
(***************************************************************************)
(* Proofs about the lock manager, for any set of transactions and records. *)
(* IInv is inductive: ExclusiveIsSole needs only CanGrant; HeldConsistent  *)
(* is what makes UnlockAll remove every hold; NoLostWakeup needs that a    *)
(* Grant never makes another request grantable, which holds because a hold *)
(* is only ever added or strengthened.                                     *)
(***************************************************************************)
EXTENDS LockManager, TLAPS

\* A granted lock leaves at most one exclusive holder per record, whatever the
\* requester held before (canGrant, grant).
LEMMA GrantKeepsTables ==
    ASSUME TypeOK, ExclusiveIsSole, HeldConsistent,
           NEW t \in Txns, NEW r \in Rids, NEW m \in Modes,
           CanGrant(t, r, m), Grant(t, r, m)
    PROVE  /\ table' \in [Rids -> [Txns -> Modes \cup {None}]]
           /\ heldByTxn' \in [Txns -> SUBSET Rids]
           /\ ExclusiveIsSole'
           /\ HeldConsistent'
  <1>1. table' \in [Rids -> [Txns -> Modes \cup {None}]]
    BY DEF TypeOK, Grant, Modes, None
  <1>2. heldByTxn' \in [Txns -> SUBSET Rids]
    BY DEF TypeOK, Grant
  <1>3. ExclusiveIsSole'
    BY DEF TypeOK, ExclusiveIsSole, Grant, CanGrant, Modes, None
  <1>4. HeldConsistent'
    <2>1. \A q \in Rids, u \in Txns :
             (table'[q][u] # None) <=> (table[q][u] # None \/ (q = r /\ u = t))
      BY DEF TypeOK, Grant, Modes, None
    <2>2. \A u \in Txns : heldByTxn'[u] = IF u = t THEN heldByTxn[u] \cup {r}
                                                   ELSE heldByTxn[u]
      BY DEF TypeOK, Grant, HeldConsistent
    <2>3. ASSUME NEW u \in Txns
          PROVE  heldByTxn'[u] = {q \in Rids : table'[q][u] # None}
      <3>1. heldByTxn[u] = {q \in Rids : table[q][u] # None}
        BY DEF HeldConsistent
      <3>2. CASE u = t
        <4>1. heldByTxn'[u] = {q \in Rids : table[q][u] # None} \cup {r}
          BY <2>2, <3>1, <3>2
        <4>2. \A q \in Rids : (table'[q][u] # None) <=> (table[q][u] # None \/ q = r)
          BY <2>1, <3>2
        <4> QED BY <4>1, <4>2
      <3>3. CASE u # t
        <4>1. \A q \in Rids : (table'[q][u] # None) <=> (table[q][u] # None)
          BY <2>1, <3>3
        <4> QED BY <2>2, <3>1, <3>3, <4>1
      <3> QED BY <3>2, <3>3
    <2> QED BY <2>3 DEF HeldConsistent
  <1> QED BY <1>1, <1>2, <1>3, <1>4

\* A grant blocks others at least as much as before: what a sleeping thread
\* could not get before the grant it cannot get after it.
LEMMA GrantKeepsBlocked ==
    ASSUME TypeOK, NEW t \in Txns, NEW r \in Rids, NEW m \in Modes,
           Grant(t, r, m), NEW u \in Txns, NEW q \in Rids, NEW n \in Modes,
           u # t, ~CanGrant(u, q, n)
    PROVE  ~CanGrant(u, q, n)'
  <1>1. PICK h \in Txns \ {u} :
           table[q][h] # None /\ ~(n = "Shared" /\ table[q][h] = "Shared")
    BY DEF CanGrant
  <1>2. /\ table'[q][h] # None
        /\ ~(n = "Shared" /\ table'[q][h] = "Shared")
    BY <1>1 DEF TypeOK, Grant, Modes, None
  <1> QED BY <1>1, <1>2 DEF CanGrant

\* The same for the whole invariant, when the grant ends t's request.
LEMMA GrantKeepsIInv ==
    ASSUME IInv, NEW t \in Txns, NEW r \in Rids, NEW m \in Modes,
           CanGrant(t, r, m), Grant(t, r, m),
           request' \in [Txns -> Requests \cup {NoRequest}],
           asleep' \subseteq asleep \ {t},
           \A u \in Txns \ {t} : request'[u] = request[u]
    PROVE  IInv'
  <1> USE DEF IInv
  <1>1. /\ table' \in [Rids -> [Txns -> Modes \cup {None}]]
        /\ heldByTxn' \in [Txns -> SUBSET Rids]
        /\ ExclusiveIsSole'
        /\ HeldConsistent'
    BY GrantKeepsTables
  <1>2. TypeOK'
    BY <1>1 DEF TypeOK
  <1>3. ASSUME NEW u \in asleep' PROVE ~Grantable(u)'
    <2>1. u \in Txns /\ u # t /\ request'[u] = request[u] /\ request[u] \in Requests
      BY <1>3 DEF TypeOK
    <2>2. ~CanGrant(u, request[u].rid, request[u].mode)
      BY <1>3, <2>1 DEF NoLostWakeup, Grantable
    <2>3. request[u].rid \in Rids /\ request[u].mode \in Modes
      BY <2>1 DEF Requests
    <2>4. ~CanGrant(u, request[u].rid, request[u].mode)'
      <3>1. \A q \in Rids, n \in Modes :
               ~CanGrant(u, q, n) => ~CanGrant(u, q, n)'
        BY <2>1, GrantKeepsBlocked
      <3>2. ~\A h \in Txns \ {u} :
                table'[request[u].rid][h] # None =>
                   /\ request[u].mode = "Shared"
                   /\ table'[request[u].rid][h] = "Shared"
        BY <3>1, <2>2, <2>3 DEF CanGrant
      <3> QED BY <3>2, <2>1 DEF CanGrant
    <2> QED BY <2>1, <2>4 DEF Grantable, CanGrant
  <1>4. NoLostWakeup'
    BY <1>3 DEF NoLostWakeup
  <1> QED BY <1>1, <1>2, <1>4

\* The invariant holds of the empty lock table.
LEMMA InitIInv == Init => IInv
  BY DEF Init, IInv, TypeOK, ExclusiveIsSole, HeldConsistent, NoLostWakeup,
         Modes, None

\* Every step of the lock manager keeps the invariant: one case per action.
LEMMA NextIInv == IInv /\ [Next]_vars => IInv'
  <1> SUFFICES ASSUME IInv, [Next]_vars PROVE IInv'
    OBVIOUS
  <1>1. CASE UNCHANGED vars
    BY <1>1 DEF IInv, TypeOK, ExclusiveIsSole, HeldConsistent, NoLostWakeup,
                Grantable, CanGrant, vars
  <1>2. ASSUME NEW t \in Txns, NEW r \in Rids, NEW m \in Modes,
               TryLock(t, r, m) \/ LockAtOnce(t, r, m)
        PROVE  IInv'
    <2>1. CanGrant(t, r, m) /\ Grant(t, r, m) /\ Running(t) /\ UNCHANGED <<request, asleep>>
      BY <1>2 DEF TryLock, LockAtOnce
    <2>2. t \notin asleep
      BY <2>1 DEF IInv, TypeOK, Running
    <2> QED BY <2>1, <2>2, GrantKeepsIInv DEF IInv, TypeOK
  <1>3. ASSUME NEW t \in Txns, NEW r \in Rids, NEW m \in Modes, LockBlocks(t, r, m)
        PROVE  IInv'
    <2>1. TypeOK'
      BY <1>3, NoRequestAssumption DEF IInv, TypeOK, LockBlocks, Requests, Running
    <2>2. ExclusiveIsSole' /\ HeldConsistent'
      BY <1>3 DEF IInv, ExclusiveIsSole, HeldConsistent, LockBlocks
    <2>3. NoLostWakeup'
      BY <1>3 DEF IInv, TypeOK, NoLostWakeup, LockBlocks, Grantable, CanGrant, Running
    <2> QED BY <2>1, <2>2, <2>3 DEF IInv
  <1>4. ASSUME NEW t \in Txns, ~Running(t), GrantRequest(t) PROVE IInv'
    <2>1. request[t] \in Requests
      BY <1>4 DEF IInv, TypeOK, Running
    <2>2. request[t].rid \in Rids /\ request[t].mode \in Modes
      BY <2>1 DEF Requests
    <2>3. /\ CanGrant(t, request[t].rid, request[t].mode)
          /\ Grant(t, request[t].rid, request[t].mode)
          /\ request' \in [Txns -> Requests \cup {NoRequest}]
          /\ asleep' \subseteq asleep \ {t}
          /\ \A u \in Txns \ {t} : request'[u] = request[u]
      BY <1>4 DEF IInv, TypeOK, GrantRequest, Grantable
    <2> QED BY <2>2, <2>3, GrantKeepsIInv
  <1>5. ASSUME NEW t \in Txns, WakeWaitsOn(t) PROVE IInv'
    BY <1>5 DEF IInv, TypeOK, ExclusiveIsSole, HeldConsistent, NoLostWakeup,
                WakeWaitsOn, Grantable, CanGrant, Running
  <1>6. ASSUME NEW t \in Txns, SpuriousWakeup(t) PROVE IInv'
    BY <1>6 DEF IInv, TypeOK, ExclusiveIsSole, HeldConsistent, NoLostWakeup,
                SpuriousWakeup, Grantable, CanGrant
  <1>7. ASSUME NEW t \in Txns, TimeoutFails(t) PROVE IInv'
    BY <1>7 DEF IInv, TypeOK, ExclusiveIsSole, HeldConsistent, NoLostWakeup,
                TimeoutFails, Grantable, CanGrant
  <1>8. ASSUME NEW t \in Txns, NEW r \in Rids, Unlock(t, r) PROVE IInv'
    <2>1. TypeOK' /\ ExclusiveIsSole' /\ NoLostWakeup'
      BY <1>8 DEF IInv, TypeOK, ExclusiveIsSole, NoLostWakeup, Unlock, NotifyAll,
                  Modes, None
    <2>2. \A q \in Rids, u \in Txns :
             (table'[q][u] # None) <=> (table[q][u] # None /\ ~(q = r /\ u = t))
      BY <1>8 DEF IInv, TypeOK, Unlock, Modes, None
    <2>3. \A u \in Txns : heldByTxn'[u] = IF u = t THEN heldByTxn[u] \ {r}
                                                   ELSE heldByTxn[u]
      BY <1>8 DEF IInv, TypeOK, Unlock
    <2>4. ASSUME NEW u \in Txns
          PROVE  heldByTxn'[u] = {q \in Rids : table'[q][u] # None}
      <3>1. heldByTxn[u] = {q \in Rids : table[q][u] # None}
        BY DEF IInv, HeldConsistent
      <3>2. CASE u = t
        <4>1. heldByTxn'[u] = {q \in Rids : table[q][u] # None} \ {r}
          BY <2>3, <3>1, <3>2
        <4>2. \A q \in Rids : (table'[q][u] # None) <=> (table[q][u] # None /\ q # r)
          BY <2>2, <3>2
        <4> QED BY <4>1, <4>2
      <3>3. CASE u # t
        <4>1. \A q \in Rids : (table'[q][u] # None) <=> (table[q][u] # None)
          BY <2>2, <3>3
        <4> QED BY <2>3, <3>1, <3>3, <4>1
      <3> QED BY <3>2, <3>3
    <2> QED BY <2>1, <2>4 DEF IInv, HeldConsistent
  <1>9. ASSUME NEW t \in Txns, UnlockAll(t) PROVE IInv'
    <2>1. \A q \in Rids, u \in Txns :
             table'[q][u] = IF u = t THEN None ELSE table[q][u]
      BY <1>9 DEF IInv, TypeOK, HeldConsistent, UnlockAll
    <2>2. table' \in [Rids -> [Txns -> Modes \cup {None}]]
      BY <1>9 DEF IInv, TypeOK, UnlockAll, Modes, None
    <2>3. TypeOK' /\ NoLostWakeup'
      BY <1>9, <2>2 DEF IInv, TypeOK, NoLostWakeup, UnlockAll, NotifyAll
    <2>4. ExclusiveIsSole'
      BY <2>1 DEF IInv, ExclusiveIsSole, None
    <2>5. \A u \in Txns : heldByTxn'[u] = IF u = t THEN {} ELSE heldByTxn[u]
      BY <1>9 DEF IInv, TypeOK, UnlockAll
    <2>6. ASSUME NEW u \in Txns
          PROVE  heldByTxn'[u] = {q \in Rids : table'[q][u] # None}
      <3>1. heldByTxn[u] = {q \in Rids : table[q][u] # None}
        BY DEF IInv, HeldConsistent
      <3>2. CASE u = t
        BY <2>1, <2>5, <3>2
      <3>3. CASE u # t
        <4>1. \A q \in Rids : (table'[q][u] # None) <=> (table[q][u] # None)
          BY <2>1, <3>3
        <4> QED BY <2>5, <3>1, <3>3, <4>1
      <3> QED BY <3>2, <3>3
    <2> QED BY <2>3, <2>4, <2>6 DEF IInv, HeldConsistent
  <1> QED
    BY <1>1, <1>2, <1>3, <1>4, <1>5, <1>6, <1>7, <1>8, <1>9
    DEF Next, Timeout, WakeGranted, TimeoutGranted

\* The invariant holds in every reachable state of the lock manager.
THEOREM LockInvariant == Spec => []IInv
  BY InitIInv, NextIInv, PTL DEF Spec

\* Mutual exclusion: an exclusive holder is the record's only holder, for any
\* number of threads calling lock, tryLock, unlock and unlockAll.
THEOREM MutualExclusion == Spec => []ExclusiveIsSole
  <1>1. IInv => ExclusiveIsSole
    BY DEF IInv
  <1> QED BY <1>1, LockInvariant, PTL

\* unlockAll at the end of a transaction releases every record it holds.
THEOREM HeldSetsExact == Spec => []HeldConsistent
  <1>1. IInv => HeldConsistent
    BY DEF IInv
  <1> QED BY <1>1, LockInvariant, PTL

\* The state keeps its types: only a thread inside lock() is ever asleep.
THEOREM LockTypeCorrect == Spec => []TypeOK
  <1>1. IInv => TypeOK
    BY DEF IInv
  <1> QED BY <1>1, LockInvariant, PTL

\* No thread sleeps in lock() on a request that could be granted.
THEOREM WakeupsReachWaiters == Spec => []NoLostWakeup
  <1>1. IInv => NoLostWakeup
    BY DEF IInv
  <1> QED BY <1>1, LockInvariant, PTL

\* An upgrade is never taken back by a later shared request.
THEOREM UpgradesLast == Spec => NoSilentDowngrade
  <1>1. IInv /\ [Next]_vars =>
          [\A r \in Rids, t \in Txns :
              table[r][t] = "Exclusive" => table'[r][t] # "Shared"]_vars
    <2> SUFFICES ASSUME IInv, Next, NEW r \in Rids, NEW t \in Txns,
                        table[r][t] = "Exclusive"
                 PROVE  table'[r][t] # "Shared"
      BY DEF vars
    <2>1. ASSUME NEW u \in Txns, NEW q \in Rids, NEW m \in Modes, Grant(u, q, m)
          PROVE  table'[r][t] # "Shared"
      BY <2>1 DEF IInv, TypeOK, Grant, Modes, None
    <2>2. ASSUME NEW u \in Txns, ~Running(u), GrantRequest(u)
          PROVE  table'[r][t] # "Shared"
      <3>1. request[u].rid \in Rids /\ request[u].mode \in Modes
        BY <2>2 DEF IInv, TypeOK, Running, Requests
      <3> QED BY <3>1, <2>1, <2>2 DEF GrantRequest
    <2>3. ASSUME UNCHANGED table PROVE table'[r][t] # "Shared"
      BY <2>3
    <2>4. ASSUME NEW u \in Txns, NEW q \in Rids, Unlock(u, q)
          PROVE  table'[r][t] # "Shared"
      BY <2>4 DEF IInv, TypeOK, Unlock, None
    <2>5. ASSUME NEW u \in Txns, UnlockAll(u) PROVE table'[r][t] # "Shared"
      BY <2>5 DEF IInv, TypeOK, UnlockAll, None
    <2> QED
      BY <2>1, <2>2, <2>3, <2>4, <2>5
      DEF Next, TryLock, LockAtOnce, LockBlocks, WakeGranted, WakeWaitsOn,
          SpuriousWakeup, Timeout, TimeoutGranted, TimeoutFails
  <1> QED BY <1>1, LockInvariant, PTL DEF Spec, NoSilentDowngrade

============================================================================
