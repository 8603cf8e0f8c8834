---------------------------- MODULE SlottedPage ----------------------------
(***************************************************************************)
(* The slotted page (backend/page.cpp), to the byte: a header, a slot      *)
(* array that grows upwards, records that grow downwards from the end of   *)
(* the page, and free bytes in between and in the holes of erased records. *)
(*                                                                         *)
(* A page is a value and its methods are operators on it.  The bytes of a  *)
(* record are its row; a record that slot entries were written over reads  *)
(* as Torn.  Records are never empty (a tuple has a header) and fit into   *)
(* 16 bits, so the tests on "need" that refuse others are left out.        *)
(***************************************************************************)
EXTENDS Integers, Sequences

CONSTANTS
    PageSize,       \* PAGE_SIZE
    HeaderSize,     \* HEADER_SIZE: slot count, free end, page LSN
    SlotSize,       \* SLOT_SIZE: offset and length
    Rows,           \* what a record can hold
    RowLen,         \* its length in bytes
    Dead,           \* the row of a slot of length 0
    Torn            \* what is left of a record that was written over

ASSUME PageAssumption ==
    /\ SlotSize \in Nat \ {0} /\ HeaderSize \in Nat \ {0}
    /\ PageSize \in Nat /\ PageSize > HeaderSize + SlotSize
    /\ RowLen \in [Rows -> Nat \ {0}]
    /\ \A r \in Rows : RowLen[r] <= PageSize - HeaderSize - SlotSize
    /\ Dead \notin Rows /\ Torn \notin Rows /\ Dead # Torn

DeadSlot == [off |-> 0, len |-> 0, row |-> Dead]

\* Page::init, and a page that was only allocated in the file.
EmptyPage == [slots |-> << >>, freeEnd |-> PageSize, lsn |-> 0]
ZeroPage == [slots |-> << >>, freeEnd |-> 0, lsn |-> 0]

IsLive(pg, s) == s \in 1 .. Len(pg.slots) /\ pg.slots[s].len # 0

SlotEnd(pg) == HeaderSize + SlotSize * Len(pg.slots)
FreeSpace(pg) == pg.freeEnd - SlotEnd(pg)

\* The bytes of the records in the first s slots.
BytesUpTo(pg, s) ==
    LET bytes[i \in 0 .. Len(pg.slots)] ==
            IF i = 0 THEN 0 ELSE bytes[i - 1] + pg.slots[i].len
    IN  bytes[s]

UsableSpace(pg) == PageSize - SlotEnd(pg) - BytesUpTo(pg, Len(pg.slots))

Moved(slot, off) == [off |-> off, len |-> slot.len, row |-> slot.row]

\* The same page with other slots and another free end.
WithSlots(pg, slots, freeEnd) == [pg EXCEPT !.slots = slots, !.freeEnd = freeEnd]

\* Mutant of Compact: slots of erased records at the end are given up as well.
MutantDropsDeadSlots(pg) ==
    LET live == {s \in 1 .. Len(pg.slots) : IsLive(pg, s)}
        last == IF live = {} THEN 0 ELSE CHOOSE s \in live : \A i \in live : i <= s
    IN  WithSlots(pg,
          [s \in 1 .. last |->
              IF IsLive(pg, s) THEN Moved(pg.slots[s], PageSize - BytesUpTo(pg, s))
                               ELSE pg.slots[s]],
          PageSize - BytesUpTo(pg, Len(pg.slots)))

\* compact: live records are moved to the end of the page in slot order; every
\* slot keeps its number.
Compact(pg) ==
    WithSlots(pg,
      [s \in 1 .. Len(pg.slots) |->
          IF IsLive(pg, s) THEN Moved(pg.slots[s], PageSize - BytesUpTo(pg, s))
                           ELSE pg.slots[s]],
      PageSize - BytesUpTo(pg, Len(pg.slots)))

\* insert and redoSet: need bytes between the slots and the records, by
\* compaction if it takes one.
Fits(pg, need) == FreeSpace(pg) >= need \/ UsableSpace(pg) >= need
MadeRoom(pg, need) == IF FreeSpace(pg) < need THEN Compact(pg) ELSE pg

SlotOf(row, off) == [off |-> off, len |-> RowLen[row], row |-> row]

\* The record goes right below the lowest one, in slot s of the array.
Place(pg, s, row) ==
    LET off == pg.freeEnd - RowLen[row]
    IN  WithSlots(pg,
          [i \in 1 .. IF s > Len(pg.slots) THEN s ELSE Len(pg.slots) |->
              IF i = s THEN SlotOf(row, off) ELSE pg.slots[i]],
          off)

\* insert refuses a record that does not fit with its slot entry.
CanInsert(pg, row) == Fits(pg, RowLen[row] + SlotSize)

InsertSlot(pg, row) == Len(MadeRoom(pg, RowLen[row] + SlotSize).slots) + 1

Insert(pg, row) ==
    Place(MadeRoom(pg, RowLen[row] + SlotSize), InsertSlot(pg, row), row)

Erase(pg, s) ==
    WithSlots(pg, [pg.slots EXCEPT ![s] = [off |-> @.off, len |-> 0, row |-> Dead]],
              pg.freeEnd)

\* Mutant of CanUpdate: a longer record is written over its neighbour.
MutantUpdateGrows(pg, s, row) == IsLive(pg, s)

\* update refuses a record that is longer than the one it replaces.
CanUpdate(pg, s, row) == IsLive(pg, s) /\ RowLen[row] <= pg.slots[s].len

Update(pg, s, row) ==
    WithSlots(pg, [pg.slots EXCEPT ![s] = SlotOf(row, @.off)], pg.freeEnd)

----------------------------------------------------------------------------
\* redoSet and redoClear: a page of zeros is initialised first.
Initialised(pg) == IF pg.freeEnd < HeaderSize THEN EmptyPage ELSE pg

\* redoSet, redoClear: lsn 0 is "always" and leaves the page LSN alone.
Redone(pg, lsn) == lsn # 0 /\ pg.lsn >= lsn
Stamped(pg, lsn) == IF lsn = 0 THEN pg ELSE [pg EXCEPT !.lsn = lsn]

\* redoSet: the slot array is extended to slot s with dead entries, over
\* whatever record lies there.
Extended(pg, s) ==
    LET last == IF s > Len(pg.slots) THEN s ELSE Len(pg.slots)
        end == HeaderSize + SlotSize * last
        over(i) == last > Len(pg.slots) /\ IsLive(pg, i) /\ pg.slots[i].off < end
    IN  WithSlots(pg,
          [i \in 1 .. last |->
              IF i > Len(pg.slots) THEN DeadSlot
              ELSE IF over(i) THEN [pg.slots[i] EXCEPT !.row = Torn]
              ELSE pg.slots[i]],
          pg.freeEnd)

HoldsRow(pg, s, row) == IsLive(pg, s) /\ pg.slots[s].row = row

\* redoSet succeeds: it was done before, or there is room once the slot exists.
CanRedoSet(pg, s, row, lsn) ==
    LET init == Initialised(pg)
    IN  \/ Redone(init, lsn)
        \/ HoldsRow(init, s, row)
        \/ Fits(Extended(init, s), RowLen[row])

\* redoSet: what it leaves when it succeeds.
RedoSet(pg, s, row, lsn) ==
    LET init == Initialised(pg)
        room == MadeRoom(Extended(init, s), RowLen[row])
    IN  IF Redone(init, lsn) THEN init
        ELSE IF HoldsRow(init, s, row) THEN Stamped(init, lsn)
        ELSE Stamped(Place(room, s, row), lsn)

RedoClear(pg, s, lsn) ==
    LET init == Initialised(pg)
    IN  IF Redone(init, lsn) THEN init
        ELSE Stamped(IF s <= Len(init.slots) THEN Erase(init, s) ELSE init, lsn)

============================================================================
