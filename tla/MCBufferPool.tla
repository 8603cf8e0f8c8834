---------------------------- MODULE MCBufferPool ----------------------------
(***************************************************************************)
(* Two frames and three pages, so that pages are evicted and read again;   *)
(* three guards, so that both frames can be pinned while a third page is   *)
(* asked for, one page can be held twice, and a flush can come between a   *)
(* write and its markDirty.                                                *)
(***************************************************************************)
EXTENDS BufferPool, TLC

CONSTANTS f1, f2, g1, g2, g3, zero, empty

MCFrames == {f1, f2}
MCGuards == {g1, g2, g3}
MCData == {zero, empty}
MCFreeList == <<f2, f1>>

\* Nothing tells the guards apart.
Symmetry == Permutations(MCGuards)
=============================================================================
