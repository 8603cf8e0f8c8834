------------------------------ MODULE RowStore ------------------------------
(***************************************************************************)
(* What the heap promises to the engine, the indexes, the lock table and   *)
(* the undo lists: a row is found under the record id it was given, under  *)
(* no other, for as long as it is there; the id of a row that is gone is   *)
(* never given to another row; and a stop takes the rows back to those of  *)
(* the last commit.  Which of these actions a step of the heap must be,    *)
(* for which record id and row, is said operation by operation in          *)
(* HeapTable (OwnRowOnly).                                                 *)
(***************************************************************************)
CONSTANTS
    Rids,       \* record ids
    Rows        \* what a row can be

VARIABLES
    rows,       \* the rows there are, by record id
    used,       \* record ids that are not to be given out again
    saved       \* the rows of the last commit

rsVars == <<rows, used, saved>>

None == [r \in {} |-> r]

Init == rows = None /\ used = {} /\ saved = None

With(f, r, row) == [q \in DOMAIN f \cup {r} |-> IF q = r THEN row ELSE f[q]]
Without(r) == [q \in DOMAIN rows \ {r} |-> rows[q]]

Insert(r, row) ==
    /\ r \notin used
    /\ rows' = With(rows, r, row)
    /\ used' = used \cup {r}
    /\ UNCHANGED saved

Erase(r) ==
    /\ rows' = Without(r)
    /\ UNCHANGED <<used, saved>>

Change(r, row) ==
    /\ rows' = [rows EXCEPT ![r] = row]
    /\ UNCHANGED <<used, saved>>

\* A row that has become too long for its place gets a new id.
Move(r, q, row) ==
    /\ q \notin used
    /\ rows' = With(Without(r), q, row)
    /\ used' = used \cup {q}
    /\ UNCHANGED saved

Commit ==
    /\ saved' = rows
    /\ UNCHANGED <<rows, used>>

\* After a stop only the ids of saved rows are known to anybody.
Stop ==
    /\ rows' = saved
    /\ used' = DOMAIN saved
    /\ UNCHANGED saved

\* Recovery may leave ids that are used by no row.
Waste ==
    /\ used \subseteq used'
    /\ UNCHANGED <<rows, saved>>

Next ==
    \/ \E r \in Rids, row \in Rows : Insert(r, row)
    \/ \E r \in DOMAIN rows : Erase(r)
    \/ \E r \in DOMAIN rows, row \in Rows : Change(r, row)
    \/ \E r \in DOMAIN rows, q \in Rids, row \in Rows : Move(r, q, row)
    \/ Commit
    \/ Stop
    \/ Waste

Spec == Init /\ [][Next]_rsVars

=============================================================================
