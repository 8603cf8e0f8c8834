--------------------------- MODULE MCLockManager ---------------------------
(***************************************************************************)
(* Three transactions and two records: enough for a shared pair, both of   *)
(* them upgrading, a third transaction waiting behind them, and a second   *)
(* record to be held meanwhile.                                            *)
(***************************************************************************)
EXTENDS LockManager

CONSTANTS t1, t2, t3, r1, r2

MCTxns == {t1, t2, t3}
MCRids == {r1, r2}
============================================================================
