----------------------------- MODULE PageStore -----------------------------
(***************************************************************************)
(* What the buffer pool promises to the heap and to the index: a page is   *)
(* created once, changes only when a guard that holds it writes it, and    *)
(* reading it gives the last contents written.  Taking a page, letting it  *)
(* go, and everything the pool does on its own account change no page.     *)
(* Frames, eviction, the LRU list and the difference between memory and    *)
(* file are all invisible.                                                 *)
(***************************************************************************)
EXTENDS Naturals

CONSTANTS
    Guards,     \* the users of pages
    MaxPages,   \* bound on the pages ever allocated
    Data,       \* page contents
    Zero,       \* a page as DiskManager::allocatePage writes it
    Empty,      \* a page as Page::init leaves it
    NoPage      \* "holds no page"

Pages == 0 .. MaxPages - 1

VARIABLES
    contents,   \* contents[p]: what a reader of page p sees
    numPages,   \* pages 0 .. numPages - 1 exist
    held        \* held[g]: the page guard g holds

psVars == <<contents, numPages, held>>

Init ==
    /\ contents = [p \in Pages |-> Zero]
    /\ numPages = 0
    /\ held = [g \in Guards |-> NoPage]

\* fetchPage: the guard holds the page, whose bytes are as they were left.
Open(g, p) ==
    /\ held[g] = NoPage
    /\ p < numPages
    /\ held' = [held EXCEPT ![g] = p]
    /\ UNCHANGED <<contents, numPages>>

\* newPage: an initialised page, held by the guard.
Create(g) ==
    /\ held[g] = NoPage
    /\ numPages < MaxPages
    /\ contents' = [contents EXCEPT ![numPages] = Empty]
    /\ held' = [held EXCEPT ![g] = numPages]
    /\ numPages' = numPages + 1

\* newPage when the pool has no frame to give: a page of zeros nobody holds.
Lose ==
    /\ numPages < MaxPages
    /\ contents' = [contents EXCEPT ![numPages] = Zero]
    /\ numPages' = numPages + 1
    /\ UNCHANGED held

\* A guard changes the bytes of the page it holds, and of no other.
Write(g, v) ==
    /\ held[g] # NoPage
    /\ contents' = [contents EXCEPT ![held[g]] = v]
    /\ UNCHANGED <<numPages, held>>

\* The guard lets go.
Close(g) ==
    /\ held[g] # NoPage
    /\ held' = [held EXCEPT ![g] = NoPage]
    /\ UNCHANGED <<contents, numPages>>

Next ==
    \/ \E g \in Guards :
        \/ \E p \in Pages : Open(g, p)
        \/ Create(g)
        \/ \E v \in Data : Write(g, v)
        \/ Close(g)
    \/ Lose

Spec == Init /\ [][Next]_psVars

============================================================================
