----------------------------- MODULE BufferPool -----------------------------
(***************************************************************************)
(* The buffer pool (backend/buffer_pool.cpp) over the page file            *)
(* (backend/disk_manager.cpp), used through page guards                    *)
(* (backend/page_guard.hpp).  Every method of the pool runs under its      *)
(* mutex and is one step.  The bytes of a page are changed outside the     *)
(* mutex, through the pointer a guard holds, and a guard that has changed  *)
(* bytes it is not yet marked dirty for remembers it as "wrote": flushes   *)
(* and evictions of other threads come in between.                         *)
(*                                                                         *)
(* A frame is valid exactly when it has a page: acquireFrame hands a       *)
(* victim over invalid, and its caller fills it in the same critical       *)
(* section.  fetchPage on a pool without a frame returns nullptr and       *)
(* changes nothing, so it is no step here.  The pre-evict hook, which      *)
(* syncs the log, is part of module Durability.                            *)
(***************************************************************************)
EXTENDS Naturals, Sequences, FiniteSets

CONSTANTS
    Frames,     \* the frames of the pool
    Guards,     \* the PageGuard objects of all threads
    MaxPages,   \* bound on the pages ever allocated
    Data,       \* page contents
    Zero,       \* contents of a page that was only allocated in the file
    Empty,      \* contents after Page::init
    NoFrame,    \* "not in the page table"
    NoPage,     \* "frame not valid"
    NoGuard,    \* "guard does not hold a page"
    FreeList    \* the free list as the constructor fills it

Pages == 0 .. MaxPages - 1
Frame == [page : Pages \cup {NoPage}, pin : Nat, dirty : BOOLEAN, data : Data]
Guard == [page : Pages, frame : Frames, dirty : BOOLEAN, wrote : BOOLEAN]

Elements(s) == {s[i] : i \in 1 .. Len(s)}
NoRepeats(s) == \A i, j \in 1 .. Len(s) : s[i] = s[j] => i = j

ASSUME PoolAssumption ==
    /\ IsFiniteSet(Guards)
    /\ MaxPages \in Nat
    /\ Zero \in Data /\ Empty \in Data
    /\ NoFrame \notin Frames /\ NoPage \notin Pages /\ NoGuard \notin Guard
    /\ FreeList \in Seq(Frames)
    /\ Elements(FreeList) = Frames /\ NoRepeats(FreeList)

VARIABLES
    frames,     \* frames_
    table,      \* table_: frame of a cached page
    lru,        \* lru_: unpinned frames, least recently unpinned first
    freeList,   \* freeList_: frames never used, taken from the back
    disk,       \* the page file
    numPages,   \* DiskManager::numPages_
    guard       \* the page each guard holds

vars == <<frames, table, lru, freeList, disk, numPages, guard>>

Init ==
    /\ frames = [f \in Frames |->
                   [page |-> NoPage, pin |-> 0, dirty |-> FALSE, data |-> Zero]]
    /\ table = [p \in Pages |-> NoFrame]
    /\ lru = << >>
    /\ freeList = FreeList
    /\ disk = [p \in Pages |-> Zero]
    /\ numPages = 0
    /\ guard = [g \in Guards |-> NoGuard]

----------------------------------------------------------------------------
\* Definitions named Mutant... are wrong on purpose, to show that a property
\* notices the slip in the code they stand for.

\* removeFromLru: lruPos_ finds the frame's node in the list.
RemoveFromLru(f) ==
    LET at == CHOOSE i \in 1 .. Len(lru) : lru[i] = f
    IN  IF f \notin Elements(lru) THEN lru
        ELSE [i \in 1 .. Len(lru) - 1 |-> IF i < at THEN lru[i] ELSE lru[i + 1]]

\* acquireFrame: a free frame, or the front of the LRU list.
CanAcquire == freeList # << >> \/ lru # << >>
Acquired == IF freeList # << >> THEN freeList[Len(freeList)] ELSE Head(lru)

\* acquireFrame: the lists without the acquired frame.
TakeFromLists ==
    IF freeList # << >>
    THEN /\ freeList' = SubSeq(freeList, 1, Len(freeList) - 1)
         /\ lru' = lru
    ELSE /\ freeList' = freeList
         /\ lru' = Tail(lru)

\* Mutant of WrittenBack: the victim is dropped without looking at dirty.
MutantDropsDirty == disk

\* acquireFrame: the file once a dirty victim has been written to it.
WrittenBack ==
    LET v == frames[Acquired]
    IN  IF v.page # NoPage /\ v.dirty THEN [disk EXCEPT ![v.page] = v.data]
                                      ELSE disk

\* Mutant of Unmapped: the victim's page stays in the table.
MutantStaleTable == table

\* acquireFrame: the page table without the victim's page.
Unmapped ==
    LET v == frames[Acquired]
    IN  IF v.page # NoPage THEN [table EXCEPT ![v.page] = NoFrame] ELSE table

----------------------------------------------------------------------------
Hold(g, p, f) ==
    guard' = [guard EXCEPT ![g] =
                [page |-> p, frame |-> f, dirty |-> FALSE, wrote |-> FALSE]]

\* Mutant of FetchHit: an unpinned page stays in the LRU list when pinned.
MutantKeepsInLru(g, p) ==
    /\ guard[g] = NoGuard
    /\ table[p] # NoFrame
    /\ frames' = [frames EXCEPT ![table[p]].pin = @ + 1]
    /\ Hold(g, p, table[p])
    /\ UNCHANGED <<table, lru, freeList, disk, numPages>>

\* fetchPage, the page is cached.
FetchHit(g, p) ==
    /\ guard[g] = NoGuard
    /\ table[p] # NoFrame
    /\ lru' = IF frames[table[p]].pin = 0 THEN RemoveFromLru(table[p]) ELSE lru
    /\ frames' = [frames EXCEPT ![table[p]].pin = @ + 1]
    /\ Hold(g, p, table[p])
    /\ UNCHANGED <<table, freeList, disk, numPages>>

\* fetchPage, the page is read from the file into an acquired frame.  The
\* code takes any page id and reads zeros past the end of the file; this module
\* has the callers that ask for an existing page.  Only recovery, in a file that
\* a power loss cut short, asks for more.
FetchMiss(g, p) ==
    /\ guard[g] = NoGuard
    /\ p < numPages
    /\ table[p] = NoFrame
    /\ CanAcquire
    /\ TakeFromLists
    /\ disk' = WrittenBack
    /\ frames' = [frames EXCEPT ![Acquired] =
                    [page |-> p, pin |-> 1, dirty |-> FALSE,
                     data |-> WrittenBack[p]]]
    /\ table' = [Unmapped EXCEPT ![p] = Acquired]
    /\ Hold(g, p, Acquired)
    /\ UNCHANGED numPages

\* newPage: a page of zeros is added to the file, then a frame is acquired.
NewPage(g) ==
    /\ guard[g] = NoGuard
    /\ numPages < MaxPages
    /\ CanAcquire
    /\ TakeFromLists
    /\ disk' = [WrittenBack EXCEPT ![numPages] = Zero]
    /\ frames' = [frames EXCEPT ![Acquired] =
                    [page |-> numPages, pin |-> 1, dirty |-> TRUE, data |-> Empty]]
    /\ table' = [Unmapped EXCEPT ![numPages] = Acquired]
    /\ Hold(g, numPages, Acquired)
    /\ numPages' = numPages + 1

\* newPage without a frame: nullptr, and the page id just allocated is lost.
NewPageFails(g) ==
    /\ guard[g] = NoGuard
    /\ numPages < MaxPages
    /\ ~CanAcquire
    /\ disk' = [disk EXCEPT ![numPages] = Zero]
    /\ numPages' = numPages + 1
    /\ UNCHANGED <<frames, table, lru, freeList, guard>>

\* The holder of a guard changes the bytes of the page it points to.
WriteBytes(g, v) ==
    /\ guard[g] # NoGuard
    /\ frames' = [frames EXCEPT ![guard[g].frame].data = v]
    /\ guard' = [guard EXCEPT ![g].wrote = ~guard[g].dirty]
    /\ UNCHANGED <<table, lru, freeList, disk, numPages>>

\* PageGuard::markDirty: the heap calls it after its write (table_manager.cpp:53),
\* the index before (disk_bplus_tree.cpp:154), both before the guard is dropped.
MarkDirty(g) ==
    /\ guard[g] # NoGuard
    /\ ~guard[g].dirty
    /\ guard' = [guard EXCEPT ![g].wrote = FALSE, ![g].dirty = TRUE]
    /\ UNCHANGED <<frames, table, lru, freeList, disk, numPages>>

\* Mutant of Drop: the frame's dirty bit is overwritten by this guard's.
MutantOverwritesDirty(g) ==
    LET f == table[guard[g].page]
        left == IF frames[f].pin > 0 THEN frames[f].pin - 1 ELSE 0
    IN  /\ guard[g] # NoGuard
        /\ ~guard[g].wrote
        /\ frames' = [frames EXCEPT ![f].pin = left, ![f].dirty = guard[g].dirty]
        /\ lru' = IF left = 0 THEN Append(lru, f) ELSE lru
        /\ guard' = [guard EXCEPT ![g] = NoGuard]
        /\ UNCHANGED <<table, freeList, disk, numPages>>

\* Mutant of Drop: a frame whose guard was not dirty never returns to the LRU.
MutantLosesCleanFrame(g) ==
    LET f == table[guard[g].page]
        left == IF frames[f].pin > 0 THEN frames[f].pin - 1 ELSE 0
    IN  /\ guard[g] # NoGuard
        /\ ~guard[g].wrote
        /\ frames' = [frames EXCEPT ![f].pin = left,
                                    ![f].dirty = @ \/ guard[g].dirty]
        /\ lru' = IF left = 0 /\ guard[g].dirty THEN Append(lru, f) ELSE lru
        /\ guard' = [guard EXCEPT ![g] = NoGuard]
        /\ UNCHANGED <<table, freeList, disk, numPages>>

\* PageGuard::drop, and unpin with the guard's dirty bit.
Drop(g) ==
    LET f == table[guard[g].page]
        left == IF frames[f].pin > 0 THEN frames[f].pin - 1 ELSE 0
    IN  /\ guard[g] # NoGuard
        /\ ~guard[g].wrote
        /\ frames' = [frames EXCEPT ![f].pin = left,
                                    ![f].dirty = @ \/ guard[g].dirty]
        /\ lru' = IF left = 0 THEN Append(lru, f) ELSE lru
        /\ guard' = [guard EXCEPT ![g] = NoGuard]
        /\ UNCHANGED <<table, freeList, disk, numPages>>

\* flush: the page is written whether or not it is dirty, or pinned.
Flush(p) ==
    /\ table[p] # NoFrame
    /\ disk' = [disk EXCEPT ![frames[table[p]].page] = frames[table[p]].data]
    /\ frames' = [frames EXCEPT ![table[p]].dirty = FALSE]
    /\ UNCHANGED <<table, lru, freeList, numPages, guard>>

\* flushAll: every valid dirty frame.
FlushAll ==
    LET dirty == {f \in Frames : frames[f].page # NoPage /\ frames[f].dirty}
    IN  /\ disk' = [p \in Pages |->
                      IF \E f \in dirty : frames[f].page = p
                      THEN frames[CHOOSE f \in dirty : frames[f].page = p].data
                      ELSE disk[p]]
        /\ frames' = [f \in Frames |-> [frames[f] EXCEPT !.dirty = FALSE]]
        /\ UNCHANGED <<table, lru, freeList, numPages, guard>>

Next ==
    \/ \E g \in Guards :
        \/ \E p \in Pages : FetchHit(g, p) \/ FetchMiss(g, p)
        \/ NewPage(g)
        \/ NewPageFails(g)
        \/ \E v \in Data : WriteBytes(g, v)
        \/ MarkDirty(g)
        \/ Drop(g)
    \/ \E p \in Pages : Flush(p)
    \/ FlushAll

Spec == Init /\ [][Next]_vars

----------------------------------------------------------------------------
Holding(f) == {g \in Guards : guard[g] # NoGuard /\ guard[g].frame = f}

\* The state is well formed; a frame has no more pins than there are guards.
TypeOK ==
    /\ frames \in [Frames -> Frame]
    /\ \A f \in Frames : frames[f].pin <= Cardinality(Guards)
    /\ table \in [Pages -> Frames \cup {NoFrame}]
    /\ lru \in Seq(Frames)
    /\ freeList \in Seq(Frames)
    /\ disk \in [Pages -> Data]
    /\ numPages \in 0 .. MaxPages
    /\ guard \in [Guards -> Guard \cup {NoGuard}]

\* The page table is the inverse of the frames' page ids, over allocated pages
\* only.  A page in two frames would have two diverging copies.
TableExact ==
    /\ \A f \in Frames : frames[f].page # NoPage => table[frames[f].page] = f
    /\ \A p \in Pages : table[p] # NoFrame => frames[table[p]].page = p
    /\ \A p \in Pages : table[p] # NoFrame => p < numPages

\* A guard's pointer stays good: as long as it is held, the frame holds the
\* page it was given for and is counted as pinned once per guard.
GuardsPin ==
    /\ \A g \in Guards : guard[g] # NoGuard =>
          frames[guard[g].frame].page = guard[g].page
    /\ \A f \in Frames : frames[f].pin = Cardinality(Holding(f))

\* No frame is lost and none is in two places: a frame is free, in the LRU list
\* or pinned.  So fetchPage gives nullptr only when every frame is pinned.
FramesAccounted ==
    /\ NoRepeats(lru) /\ NoRepeats(freeList)
    /\ Elements(lru) = {f \in Frames : frames[f].page # NoPage /\ frames[f].pin = 0}
    /\ Elements(freeList) = {f \in Frames : frames[f].page = NoPage}

\* A page whose frame differs from the file is known to be dirty, by its frame
\* or by a guard that will say so when it is dropped; else the eviction of the
\* frame would throw the change away.
DirtyKnown ==
    \A f \in Frames :
        /\ frames[f].page # NoPage
        /\ frames[f].data # disk[frames[f].page]
        => \/ frames[f].dirty
           \/ \E g \in Holding(f) : guard[g].dirty \/ guard[g].wrote

\* The inductive invariant of BufferPoolProofs.
IInv ==
    /\ TypeOK
    /\ TableExact
    /\ GuardsPin
    /\ FramesAccounted
    /\ DirtyKnown

----------------------------------------------------------------------------
\* What a reader of page p sees: the cached copy if there is one.
Contents ==
    [p \in Pages |-> IF table[p] # NoFrame THEN frames[table[p]].data ELSE disk[p]]

\* The page a guard was given.
Held == [g \in Guards |-> IF guard[g] = NoGuard THEN NoPage ELSE guard[g].page]

Store == INSTANCE PageStore WITH contents <- Contents, held <- Held

\* The bytes of the pages change in two ways only: a guard writes the page it
\* holds, or a page is added.
WritersOnly ==
    \/ Contents' = Contents
    \/ \E g \in Guards, v \in Data :
          /\ WriteBytes(g, v)
          /\ Contents' = [Contents EXCEPT ![guard[g].page] = v]
    \/ /\ \E g \in Guards : NewPage(g) \/ NewPageFails(g)
       /\ \A p \in Pages : p # numPages => Contents'[p] = Contents[p]

\* The pool is transparent: whatever is evicted, re-read, flushed or pinned by
\* several holders, a guard gets the page it asked for and pages are as a plain
\* array of pages would have them, where nothing but the write of a guard changes
\* what a reader of any page sees: no fetch, eviction, markDirty, unpin or flush.
Transparent == Store!Spec /\ [][WritersOnly]_vars

============================================================================
