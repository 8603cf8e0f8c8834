---------------------------- MODULE MCHeapTable ----------------------------
(***************************************************************************)
(* Two pages of 22 bytes for slots and records, rows of two lengths.       *)
(***************************************************************************)
EXTENDS HeapTable, TLC

CONSTANTS short, long

MCRows == {short, long}
MCRowLen == (short :> 3) @@ (long :> 7)

\* Pages are reused as the code does, or the program is killed; both at once
\* is Reused.
Kept == {[crash |-> FALSE, reuse |-> TRUE, stmts |-> 5],
         [crash |-> TRUE, reuse |-> FALSE, stmts |-> 4]}
Reused == {[crash |-> TRUE, reuse |-> TRUE, stmts |-> 4]}
============================================================================
