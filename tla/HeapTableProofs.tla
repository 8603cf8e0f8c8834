-------------------------- MODULE HeapTableProofs --------------------------
(***************************************************************************)
(* Proofs about the slotted page and the heap of a table, for every page   *)
(* size, row length, number of pages and number of transactions.           *)
(*                                                                         *)
(* No byte of a page is used twice, and the heap implements RowStore:      *)
(* through every series of statements while nothing stops the program,     *)
(* and also through a stop at any moment and the recovery after it, for    *)
(* the workload HeapTable calls Careful.  No page is listed twice,         *)
(* whatever the workload.                                                  *)
(*                                                                         *)
(* The proof that recovery is right compares each page, in memory and in   *)
(* the file, with the page as it was when the last row had been put into   *)
(* it (Q): its slots hold rows no longer than those, so that every row     *)
(* that recovery puts back finds room.  What a slot has to hold at each    *)
(* point of the two passes is read off the log (Redoing, Undoing).         *)
(***************************************************************************)
EXTENDS HeapTable, LeastNumbers, SequenceTheorems

----------------------------------------------------------------------------
(* Pages.                                                                  *)

Slot == [off : Int, len : Nat, row : Rows \cup {Dead, Torn}]
PageRecord == [slots : Seq(Slot), freeEnd : Int, lsn : Nat]

\* A sum over a sequence exists.
LEMMA SumExists ==
    ASSUME NEW n \in Nat, NEW len \in [1 .. n -> Nat]
    PROVE  \E f : f = [i \in 0 .. n |-> IF i = 0 THEN 0 ELSE f[i - 1] + len[i]]
  <1> DEFINE Sums(m, f) == f = [i \in 0 .. m |-> IF i = 0 THEN 0 ELSE f[i - 1] + len[i]]
             S == {m \in 0 .. n : ~\E f : Sums(m, f)}
  <1>1. SUFFICES ASSUME S # {} PROVE FALSE
    <2>1. n \in 0 .. n
      OBVIOUS
    <2> QED BY <1>1, <2>1
  <1>2. PICK m \in S : \A k \in S : m <= k
    <2>1. S \in SUBSET Nat
      OBVIOUS
    <2> HIDE DEF S
    <2> QED BY <1>1, <2>1, LeastNumber
  <1>3. CASE m = 0
    <2>1. Sums(0, [i \in 0 .. 0 |-> 0])
      OBVIOUS
    <2> QED BY <1>2, <1>3, <2>1
  <1>4. CASE m # 0
    <2>1. m - 1 \in 0 .. n /\ m \in 1 .. n /\ m - 1 \notin S
      <3>1. m \in 0 .. n
        BY <1>2
      <3>2. m - 1 \in 0 .. n /\ m \in 1 .. n /\ ~(m <= m - 1)
        BY <1>4, <3>1
      <3> HIDE DEF S
      <3> QED BY <1>2, <3>2
    <2>2. PICK f : Sums(m - 1, f)
      BY <2>1
    <2> DEFINE g == [i \in 0 .. m |-> IF i = m THEN f[m - 1] + len[m] ELSE f[i]]
    <2>3. \A i \in 0 .. m : g[i] = IF i = 0 THEN 0 ELSE g[i - 1] + len[i]
      <3>1. \A i \in 0 .. m - 1 : f[i] = IF i = 0 THEN 0 ELSE f[i - 1] + len[i]
        BY <2>2
      <3>2. ASSUME NEW i \in 0 .. m PROVE g[i] = IF i = 0 THEN 0 ELSE g[i - 1] + len[i]
        <4>1. CASE i = 0
          BY <1>4, <3>1, <4>1, <2>1
        <4>2. CASE i # 0 /\ i # m
          <5>1. i \in 0 .. m - 1 /\ i - 1 \in 0 .. m /\ i - 1 # m
            BY <2>1, <4>2
          <5> QED BY <3>1, <4>2, <5>1
        <4>3. CASE i = m
          <5>1. m - 1 \in 0 .. m /\ m - 1 # m /\ m \in 0 .. m
            BY <2>1
          <5> QED BY <1>4, <4>3, <5>1
        <4> QED BY <4>1, <4>2, <4>3
      <3> QED BY <3>2
    <2>4. Sums(m, g)
      BY <2>3
    <2> QED BY <1>2, <2>4
  <1> QED BY <1>3, <1>4

\* What usableSpace's and compact's loops add up.
LEMMA Bytes ==
    ASSUME NEW pg \in PageRecord
    PROVE  /\ BytesUpTo(pg, 0) = 0
           /\ \A s \in 1 .. Len(pg.slots) :
                 BytesUpTo(pg, s) = BytesUpTo(pg, s - 1) + pg.slots[s].len
  <1> DEFINE n == Len(pg.slots)
             len == [i \in 1 .. n |-> pg.slots[i].len]
             bytes[i \in 0 .. n] == IF i = 0 THEN 0 ELSE bytes[i - 1] + pg.slots[i].len
  <1>1. n \in Nat /\ len \in [1 .. n -> Nat]
    <2>1. pg.slots \in Seq(Slot)
      BY DEF PageRecord
    <2>2. \A i \in 1 .. n : pg.slots[i] \in Slot
      BY <2>1
    <2>3. \A i \in 1 .. n : pg.slots[i].len \in Nat
      BY <2>2 DEF Slot
    <2> QED BY <2>1, <2>3
  <1>2. PICK f : f = [i \in 0 .. n |-> IF i = 0 THEN 0 ELSE f[i - 1] + len[i]]
    BY <1>1, SumExists
  <1>3. f = [i \in 0 .. n |-> IF i = 0 THEN 0 ELSE f[i - 1] + pg.slots[i].len]
    <2>1. \A i \in 0 .. n : i # 0 => len[i] = pg.slots[i].len
      BY <1>1
    <2> HIDE DEF len, n
    <2> QED BY <1>2, <2>1
  <1>4. bytes = [i \in 0 .. n |-> IF i = 0 THEN 0 ELSE bytes[i - 1] + pg.slots[i].len]
    <2> HIDE DEF n
    <2> QED BY <1>3
  <1>5. \A s \in 0 .. n : BytesUpTo(pg, s) = bytes[s]
    BY DEF BytesUpTo
  <1> HIDE DEF bytes
  <1>6. \A i \in 0 .. n : bytes[i] = IF i = 0 THEN 0 ELSE bytes[i - 1] + pg.slots[i].len
    BY <1>4
  <1>7. \A s \in 1 .. n : s \in 0 .. n /\ s - 1 \in 0 .. n /\ s # 0
    BY <1>1
  <1> QED BY <1>1, <1>5, <1>6, <1>7

\* The sums are ordered as the slots are.
LEMMA BytesOrder ==
    ASSUME NEW pg \in PageRecord
    PROVE  /\ \A s \in 0 .. Len(pg.slots) : BytesUpTo(pg, s) \in Nat
           /\ \A s, t \in 0 .. Len(pg.slots) : s <= t => BytesUpTo(pg, s) <= BytesUpTo(pg, t)
  <1> DEFINE n == Len(pg.slots)
             B(s) == BytesUpTo(pg, s)
             bad == {t \in 0 .. n : \/ B(t) \notin Nat
                                    \/ \E s \in 0 .. t : ~(B(s) <= B(t))}
  <1>1. n \in Nat /\ \A s \in 1 .. n : pg.slots[s].len \in Nat
    <2>1. pg.slots \in Seq(Slot)
      BY DEF PageRecord
    <2>2. \A s \in 1 .. n : pg.slots[s] \in Slot
      BY <2>1
    <2> QED BY <2>1, <2>2 DEF Slot
  <1>2. B(0) = 0 /\ \A s \in 1 .. n : B(s) = B(s - 1) + pg.slots[s].len
    BY Bytes
  <1> HIDE DEF B, n
  <1>3. ASSUME bad # {} PROVE FALSE
    <2>1. bad \in SUBSET Nat
      BY <1>1
    <2>2. PICK t \in bad : \A k \in bad : t <= k
      <3> HIDE DEF bad
      <3> QED BY <1>3, <2>1, LeastNumber
    <2>3. t \in 0 .. n
      BY <2>2
    <2>4. CASE t = 0
      BY <1>2, <2>2, <2>4
    <2>5. CASE t # 0
      <3>1. t \in 1 .. n /\ t - 1 \in 0 .. n /\ ~(t <= t - 1)
        BY <1>1, <2>3, <2>5
      <3>2. t - 1 \notin bad
        <4> HIDE DEF bad
        <4> QED BY <2>2, <3>1
      <3>3. B(t - 1) \in Nat /\ \A s \in 0 .. t - 1 : B(s) <= B(t - 1)
        BY <3>1, <3>2
      <3>4. B(t) = B(t - 1) + pg.slots[t].len /\ pg.slots[t].len \in Nat
        BY <1>1, <1>2, <3>1
      <3>5. ASSUME NEW s \in 0 .. t PROVE B(s) <= B(t)
        <4>1. CASE s = t
          BY <3>3, <3>4, <4>1
        <4>2. CASE s # t
          <5>1. s \in 0 .. t - 1
            BY <3>1, <4>2
          <5>2. s \in 0 .. n /\ ~(t <= s)
            BY <1>1, <3>1, <5>1
          <5>3. s \notin bad
            <6> HIDE DEF bad
            <6> QED BY <2>2, <5>2
          <5>4. B(s) \in Nat
            BY <5>2, <5>3
          <5> QED BY <3>3, <3>4, <5>1, <5>4
        <4> QED BY <4>1, <4>2
      <3> QED BY <2>2, <3>3, <3>4, <3>5
    <2> QED BY <2>4, <2>5
  <1>4. \A t \in 0 .. n : B(t) \in Nat /\ \A s \in 0 .. t : B(s) <= B(t)
    BY <1>3
  <1> QED BY <1>1, <1>4 DEF B, n

\* The part of NoOverlap that is about one page, and what a page holds.
Live(pg) == {s \in 1 .. Len(pg.slots) : IsLive(pg, s)}
End(slot) == slot.off + slot.len
Sound(pg) ==
    /\ pg \in PageRecord
    /\ SlotEnd(pg) <= pg.freeEnd /\ pg.freeEnd <= PageSize
    /\ \A s \in Live(pg) : /\ pg.slots[s].row \in Rows
                           /\ pg.slots[s].len = RowLen[pg.slots[s].row]
                           /\ pg.freeEnd <= pg.slots[s].off
                           /\ End(pg.slots[s]) <= PageSize
    /\ \A s, t \in Live(pg) :
          s < t => \/ End(pg.slots[s]) <= pg.slots[t].off
                   \/ End(pg.slots[t]) <= pg.slots[s].off

\* What the engine sees of two pages is the same, but for slot s.
SameBut(pg, new, s) ==
    /\ Len(pg.slots) <= Len(new.slots)
    /\ \A i \in 1 .. Len(new.slots) : i # s =>
          /\ IsLive(new, i) <=> i <= Len(pg.slots) /\ IsLive(pg, i)
          /\ IsLive(new, i) => new.slots[i].row = pg.slots[i].row

LEMMA SlotTypes ==
    ASSUME NEW pg \in PageRecord
    PROVE  /\ pg.slots \in Seq(Slot) /\ Len(pg.slots) \in Nat /\ pg.freeEnd \in Int
           /\ \A s \in 1 .. Len(pg.slots) :
                 /\ pg.slots[s] \in Slot
                 /\ pg.slots[s].off \in Int /\ pg.slots[s].len \in Nat
                 /\ pg.slots[s].row \in Rows \cup {Dead, Torn}
           /\ SlotEnd(pg) \in Int
  <1>1. pg.slots \in Seq(Slot) /\ Len(pg.slots) \in Nat /\ pg.freeEnd \in Int
    BY DEF PageRecord
  <1>2. \A s \in 1 .. Len(pg.slots) : pg.slots[s] \in Slot
    BY <1>1
  <1>3. SlotSize * Len(pg.slots) \in Int
    BY <1>1, PageAssumption
  <1> QED BY <1>1, <1>2, <1>3, PageAssumption DEF Slot, SlotEnd

\* A page with other slots and another free end.
LEMMA PageChanged ==
    ASSUME NEW pg \in PageRecord, NEW slots \in Seq(Slot), NEW free \in Int
    PROVE  /\ WithSlots(pg, slots, free) \in PageRecord
           /\ WithSlots(pg, slots, free).slots = slots
           /\ WithSlots(pg, slots, free).freeEnd = free
  <1>1. pg \in [slots : Seq(Slot), freeEnd : Int, lsn : Nat]
    BY DEF PageRecord
  <1>2. WithSlots(pg, slots, free) \in [slots : Seq(Slot), freeEnd : Int, lsn : Nat]
    BY <1>1 DEF WithSlots
  <1>3. WithSlots(pg, slots, free).slots = slots /\ WithSlots(pg, slots, free).freeEnd = free
    BY <1>1 DEF WithSlots
  <1> QED BY <1>2, <1>3 DEF PageRecord

\* A function on the slot numbers is an array of slots.
LEMMA SlotArray ==
    ASSUME NEW n \in Nat, NEW f \in [1 .. n -> Slot]
    PROVE  f \in Seq(Slot) /\ Len(f) = n
  OBVIOUS

\* A page that was used is no page of zeros.
LEMMA SoundPage ==
    ASSUME NEW pg, Sound(pg)
    PROVE  pg # ZeroPage /\ ~(pg.freeEnd < HeaderSize) /\ Initialised(pg) = pg
  <1>1. pg \in PageRecord /\ Len(pg.slots) \in Nat /\ pg.freeEnd \in Int
    BY SlotTypes DEF Sound
  <1>2. SlotSize * Len(pg.slots) \in Nat
    BY <1>1, PageAssumption
  <1>3. pg.freeEnd >= HeaderSize
    BY <1>1, <1>2, PageAssumption DEF Sound, SlotEnd
  <1>4. ZeroPage.freeEnd = 0 /\ HeaderSize \in Nat \ {0}
    BY PageAssumption DEF ZeroPage
  <1> QED BY <1>1, <1>3, <1>4 DEF Initialised

\* Page::init.
LEMMA EmptyPageSound == Sound(EmptyPage) /\ Len(EmptyPage.slots) = 0
  <1>1. << >> \in Seq(Slot) /\ Len(<< >>) = 0
    OBVIOUS
  <1>2. EmptyPage \in PageRecord /\ EmptyPage.slots = << >> /\ EmptyPage.freeEnd = PageSize
    BY <1>1, PageAssumption DEF EmptyPage, PageRecord
  <1>3. SlotEnd(EmptyPage) = HeaderSize
    BY <1>1, <1>2, PageAssumption DEF SlotEnd
  <1> QED BY <1>1, <1>2, <1>3, PageAssumption DEF Sound, Live

\* Page::compact, when there is room for the slots and the records.
LEMMA CompactSound ==
    ASSUME NEW pg, Sound(pg), UsableSpace(pg) >= 0
    PROVE  /\ Sound(Compact(pg)) /\ SameBut(pg, Compact(pg), 0)
           /\ Len(Compact(pg).slots) = Len(pg.slots)
           /\ FreeSpace(Compact(pg)) = UsableSpace(pg)
  <1> DEFINE n == Len(pg.slots)
             B(s) == BytesUpTo(pg, s)
             slot(s) == IF IsLive(pg, s) THEN Moved(pg.slots[s], PageSize - B(s)) ELSE pg.slots[s]
             slots == [s \in 1 .. n |-> slot(s)]
             free == PageSize - B(n)
             new == Compact(pg)
  <1>1. /\ pg \in PageRecord /\ n \in Nat /\ pg.slots \in Seq(Slot) /\ SlotEnd(pg) \in Int
        /\ \A s \in 1 .. n : /\ pg.slots[s] \in Slot
                             /\ pg.slots[s].off \in Int /\ pg.slots[s].len \in Nat
                             /\ pg.slots[s].row \in Rows \cup {Dead, Torn}
    BY SlotTypes DEF Sound
  <1>2. /\ \A s \in 0 .. n : B(s) \in Nat
        /\ \A s, t \in 0 .. n : s <= t => B(s) <= B(t)
        /\ \A s \in 1 .. n : B(s) = B(s - 1) + pg.slots[s].len
    BY <1>1, Bytes, BytesOrder
  <1>3. new = WithSlots(pg, slots, free)
    BY DEF Compact
  <1> HIDE DEF new, B
  <1>4. \A s \in 1 .. n : slot(s) \in Slot
    BY <1>1, <1>2, PageAssumption, SMTT(30) DEF Slot, Moved
  <1>5. slots \in [1 .. n -> Slot] /\ \A s \in 1 .. n : slots[s] = slot(s)
    <2> HIDE DEF slot
    <2> QED BY <1>4
  <1> HIDE DEF slots
  <1>6. slots \in Seq(Slot) /\ Len(slots) = n
    <2> HIDE DEF n
    <2> QED BY <1>1, <1>5, SlotArray
  <1>7. free = PageSize - B(n) /\ free \in Int /\ n \in 0 .. n /\ B(n) \in Nat
    BY <1>1, <1>2, PageAssumption
  <1> HIDE DEF free
  <1>8. new \in PageRecord /\ new.slots = slots /\ new.freeEnd = free
    <2>1. /\ WithSlots(pg, slots, free) \in PageRecord
          /\ WithSlots(pg, slots, free).slots = slots
          /\ WithSlots(pg, slots, free).freeEnd = free
      <3>1. pg \in PageRecord /\ slots \in Seq(Slot) /\ free \in Int
        BY <1>1, <1>6, <1>7
      <3> QED BY <3>1, PageChanged
    <2> QED BY <1>3, <2>1
  <1>9. /\ Len(new.slots) = n /\ SlotEnd(new) = SlotEnd(pg)
        /\ UsableSpace(pg) = new.freeEnd - SlotEnd(pg)
    <2>1. Len(new.slots) = n /\ SlotEnd(new) = SlotEnd(pg)
      BY <1>6, <1>8 DEF SlotEnd
    <2>2. UsableSpace(pg) = PageSize - SlotEnd(pg) - B(n)
      BY DEF UsableSpace, B
    <2> QED BY <1>1, <1>7, <1>8, <2>1, <2>2, PageAssumption
  <1>10. ASSUME NEW s \in 1 .. n
         PROVE  /\ IsLive(new, s) <=> IsLive(pg, s)
                /\ new.slots[s].len = pg.slots[s].len
                /\ new.slots[s].row = pg.slots[s].row
                /\ IsLive(pg, s) => new.slots[s].off = PageSize - B(s)
    <2>1. new.slots[s] = slot(s)
      BY <1>5, <1>8
    <2>2. new.slots[s].len = pg.slots[s].len /\ new.slots[s].row = pg.slots[s].row
      <3>1. CASE IsLive(pg, s)
        BY <2>1, <3>1 DEF Moved
      <3>2. CASE ~IsLive(pg, s)
        BY <2>1, <3>2
      <3> QED BY <3>1, <3>2
    <2>3. IsLive(pg, s) => new.slots[s].off = PageSize - B(s)
      BY <2>1 DEF Moved
    <2> QED BY <1>9, <2>2, <2>3 DEF IsLive
  <1>11. ASSUME NEW s \in Live(new)
         PROVE  /\ s \in 1 .. n /\ s \in Live(pg)
                /\ new.slots[s].off = PageSize - B(s)
                /\ End(new.slots[s]) = PageSize - B(s - 1)
                /\ B(s) \in Nat /\ B(s - 1) \in Nat /\ B(s) <= B(n)
    <2>1. s \in 1 .. n /\ IsLive(pg, s) /\ s - 1 \in 0 .. n /\ s \in 0 .. n /\ s <= n
      BY <1>1, <1>9, <1>10 DEF Live
    <2>2. B(s) \in Nat /\ B(s - 1) \in Nat /\ B(s) <= B(n) /\ B(s) = B(s - 1) + pg.slots[s].len
      BY <1>2, <1>7, <2>1
    <2>3. pg.slots[s].len \in Nat
      BY <1>1, <2>1
    <2> QED BY <1>10, <2>1, <2>2, <2>3, PageAssumption, SMTT(30) DEF End, Live
  <1>12. \A s \in Live(new) : /\ new.slots[s].row \in Rows
                              /\ new.slots[s].len = RowLen[new.slots[s].row]
                              /\ new.freeEnd <= new.slots[s].off
                              /\ End(new.slots[s]) <= PageSize
    <2>1. ASSUME NEW s \in Live(new)
          PROVE  /\ new.slots[s].row \in Rows
                 /\ new.slots[s].len = RowLen[new.slots[s].row]
      BY <1>10, <1>11 DEF Sound
    <2>2. ASSUME NEW s \in Live(new)
          PROVE  new.freeEnd <= new.slots[s].off /\ End(new.slots[s]) <= PageSize
      BY <1>7, <1>8, <1>11, PageAssumption
    <2> QED BY <2>1, <2>2
  <1>13. ASSUME NEW s \in Live(new), NEW t \in Live(new), s < t
         PROVE  End(new.slots[t]) <= new.slots[s].off
    <2>1. s \in 0 .. n /\ t - 1 \in 0 .. n /\ s <= t - 1
      BY <1>11, <1>13
    <2>2. B(s) <= B(t - 1) /\ B(s) \in Nat /\ B(t - 1) \in Nat
      BY <1>2, <2>1
    <2> QED BY <1>11, <2>2, PageAssumption
  <1>14. Sound(new)
    <2>1. SlotEnd(new) <= new.freeEnd /\ new.freeEnd <= PageSize
      BY <1>1, <1>2, <1>7, <1>8, <1>9, PageAssumption
    <2> QED BY <1>8, <1>12, <1>13, <2>1 DEF Sound
  <1>15. SameBut(pg, new, 0)
    BY <1>1, <1>9, <1>10 DEF SameBut
  <1>16. FreeSpace(new) = UsableSpace(pg)
    BY <1>9 DEF FreeSpace
  <1> QED BY <1>9, <1>14, <1>15, <1>16 DEF new

\* Room is made in the page, by compaction if it takes one.
LEMMA MadeRoomSound ==
    ASSUME NEW pg, Sound(pg), NEW need \in Nat, Fits(pg, need)
    PROVE  /\ Sound(MadeRoom(pg, need)) /\ SameBut(pg, MadeRoom(pg, need), 0)
           /\ Len(MadeRoom(pg, need).slots) = Len(pg.slots)
           /\ FreeSpace(MadeRoom(pg, need)) >= need
  <1>1. pg \in PageRecord /\ Len(pg.slots) \in Nat /\ FreeSpace(pg) \in Int
    BY SlotTypes DEF Sound, FreeSpace
  <1>2. UsableSpace(pg) \in Int
    <2>1. Len(pg.slots) \in 0 .. Len(pg.slots)
      BY <1>1
    <2>2. BytesUpTo(pg, Len(pg.slots)) \in Nat
      BY <1>1, <2>1, BytesOrder
    <2> QED BY <1>1, <2>2, SlotTypes, PageAssumption DEF UsableSpace
  <1>3. CASE FreeSpace(pg) < need
    <2>1. UsableSpace(pg) >= need /\ UsableSpace(pg) >= 0
      BY <1>1, <1>2, <1>3 DEF Fits
    <2> QED BY <1>3, <2>1, CompactSound DEF MadeRoom
  <1>4. CASE ~(FreeSpace(pg) < need)
    <2>1. SameBut(pg, pg, 0)
      BY <1>1 DEF SameBut
    <2> QED BY <1>1, <1>4, <2>1 DEF MadeRoom
  <1> QED BY <1>3, <1>4

\* Page::insert: the record goes below all others, its slot behind all others.
LEMMA InsertSound ==
    ASSUME NEW pg, Sound(pg), NEW row \in Rows, CanInsert(pg, row)
    PROVE  /\ Sound(Insert(pg, row)) /\ InsertSlot(pg, row) = Len(pg.slots) + 1
           /\ Len(Insert(pg, row).slots) = Len(pg.slots) + 1
           /\ IsLive(Insert(pg, row), Len(pg.slots) + 1)
           /\ Insert(pg, row).slots[Len(pg.slots) + 1].row = row
           /\ SameBut(pg, Insert(pg, row), Len(pg.slots) + 1)
  <1> DEFINE need == RowLen[row] + SlotSize
             room == MadeRoom(pg, need)
             n == Len(pg.slots)
             off == room.freeEnd - RowLen[row]
             slots == [i \in 1 .. n + 1 |-> IF i = n + 1 THEN SlotOf(row, off) ELSE room.slots[i]]
             new == Insert(pg, row)
  <1>1. need \in Nat /\ RowLen[row] \in Nat \ {0}
    BY PageAssumption
  <1>2. /\ Sound(room) /\ SameBut(pg, room, 0) /\ Len(room.slots) = n
        /\ FreeSpace(room) >= need
    <2> HIDE DEF need
    <2> QED BY <1>1, MadeRoomSound DEF CanInsert, need
  <1>3. InsertSlot(pg, row) = n + 1
    BY <1>2 DEF InsertSlot
  <1>4. new = Place(room, n + 1, row)
    BY <1>3 DEF Insert
  <1> HIDE DEF room, new, need
  <1>5. /\ room \in PageRecord /\ n \in Nat /\ room.freeEnd \in Int /\ SlotEnd(room) \in Int
        /\ \A i \in 1 .. n : /\ room.slots[i] \in Slot
                             /\ room.slots[i].off \in Int /\ room.slots[i].len \in Nat
    BY <1>2, SlotTypes DEF Sound
  <1> HIDE DEF n
  <1>6. new = WithSlots(room, slots, off)
    BY <1>2, <1>4, <1>5 DEF Place
  <1>7. off \in Int /\ off = room.freeEnd - RowLen[row] /\ SlotOf(row, off) \in Slot
    BY <1>1, <1>5 DEF SlotOf, Slot
  <1> HIDE DEF off
  <1>8. slots \in [1 .. n + 1 -> Slot] /\ slots[n + 1] = SlotOf(row, off)
        /\ \A i \in 1 .. n : slots[i] = room.slots[i]
    BY <1>5, <1>7
  <1> HIDE DEF slots
  <1>9. slots \in Seq(Slot) /\ Len(slots) = n + 1
    <2>1. n + 1 \in Nat
      BY <1>5
    <2> QED BY <1>8, <2>1, SlotArray
  <1>10. new \in PageRecord /\ new.slots = slots /\ new.freeEnd = off
    <2>1. /\ WithSlots(room, slots, off) \in PageRecord
          /\ WithSlots(room, slots, off).slots = slots
          /\ WithSlots(room, slots, off).freeEnd = off
      BY <1>5, <1>7, <1>9, PageChanged
    <2> QED BY <1>6, <2>1
  <1>11. /\ SlotEnd(room) + SlotSize = SlotEnd(new)
         /\ SlotEnd(new) <= new.freeEnd /\ new.freeEnd <= PageSize
         /\ new.freeEnd <= room.freeEnd
    <2>1. SlotEnd(new) = HeaderSize + SlotSize * (n + 1) /\ SlotEnd(room) = HeaderSize + SlotSize * n
      BY <1>2, <1>9, <1>10 DEF SlotEnd
    <2>2. SlotSize * (n + 1) = SlotSize * n + SlotSize /\ SlotSize * n \in Int
      BY <1>5, PageAssumption
    <2>3. room.freeEnd - SlotEnd(room) >= RowLen[row] + SlotSize /\ room.freeEnd <= PageSize
      BY <1>2 DEF FreeSpace, need, Sound
    <2> QED BY <1>1, <1>5, <1>7, <1>10, <2>1, <2>2, <2>3, PageAssumption
  <1>12. /\ IsLive(new, n + 1) /\ new.slots[n + 1].row = row /\ new.slots[n + 1].off = off
         /\ new.slots[n + 1].len = RowLen[row] /\ End(new.slots[n + 1]) = room.freeEnd
    BY <1>1, <1>5, <1>7, <1>8, <1>9, <1>10 DEF IsLive, SlotOf, End
  <1>13. \A i \in 1 .. n : new.slots[i] = room.slots[i] /\ (IsLive(new, i) <=> IsLive(room, i))
    BY <1>2, <1>5, <1>8, <1>9, <1>10 DEF IsLive
  <1>14. Live(new) = Live(room) \cup {n + 1}
    BY <1>2, <1>5, <1>9, <1>10, <1>12, <1>13 DEF Live
  <1>15. \A i \in Live(room) : i \in 1 .. n /\ i # n + 1 /\ i < n + 1
    BY <1>2, <1>5 DEF Live
  <1>16. ASSUME NEW i \in Live(new)
         PROVE  /\ new.slots[i].row \in Rows /\ new.slots[i].len = RowLen[new.slots[i].row]
                /\ new.freeEnd <= new.slots[i].off /\ End(new.slots[i]) <= PageSize
    <2>1. CASE i = n + 1
      BY <1>2, <1>5, <1>7, <1>10, <1>12, <2>1, PageAssumption DEF Sound
    <2>2. CASE i \in Live(room)
      <3>1. /\ i \in 1 .. n /\ new.slots[i] = room.slots[i] /\ new.slots[i].off \in Int
            /\ room.freeEnd <= new.slots[i].off
            /\ new.slots[i].row \in Rows /\ new.slots[i].len = RowLen[new.slots[i].row]
            /\ End(new.slots[i]) <= PageSize
        BY <1>2, <1>5, <1>13, <1>15, <2>2 DEF Sound
      <3>2. new.freeEnd <= new.slots[i].off
        BY <1>5, <1>7, <1>10, <1>11, <3>1
      <3> QED BY <3>1, <3>2
    <2> QED BY <1>14, <2>1, <2>2
  <1>17. ASSUME NEW s \in Live(new), NEW t \in Live(new), s < t
         PROVE  End(new.slots[s]) <= new.slots[t].off \/ End(new.slots[t]) <= new.slots[s].off
    <2>1. s \in Live(room)
      BY <1>5, <1>14, <1>15, <1>17
    <2>2. CASE t = n + 1
      BY <1>2, <1>12, <1>13, <1>15, <2>1, <2>2 DEF Sound
    <2>3. CASE t \in Live(room)
      BY <1>2, <1>13, <1>15, <1>17, <2>1, <2>3 DEF Sound
    <2> QED BY <1>14, <2>2, <2>3
  <1>18. Sound(new)
    BY <1>10, <1>11, <1>16, <1>17 DEF Sound
  <1>19. SameBut(pg, new, n + 1)
    BY <1>2, <1>5, <1>9, <1>10, <1>13 DEF SameBut, n
  <1> QED BY <1>3, <1>9, <1>10, <1>12, <1>18, <1>19 DEF new, n

\* Page::erase.
LEMMA EraseSound ==
    ASSUME NEW pg, Sound(pg), NEW s \in 1 .. Len(pg.slots)
    PROVE  /\ Sound(Erase(pg, s)) /\ Len(Erase(pg, s).slots) = Len(pg.slots)
           /\ ~IsLive(Erase(pg, s), s) /\ SameBut(pg, Erase(pg, s), s)
  <1> DEFINE n == Len(pg.slots)
             slot == [off |-> pg.slots[s].off, len |-> 0, row |-> Dead]
             slots == [pg.slots EXCEPT ![s] = slot]
             new == Erase(pg, s)
  <1>1. /\ pg \in PageRecord /\ n \in Nat /\ pg.freeEnd \in Int /\ pg.slots \in Seq(Slot)
        /\ \A i \in 1 .. n : pg.slots[i] \in Slot /\ pg.slots[i].off \in Int
        /\ s \in 1 .. n
    BY SlotTypes DEF Sound
  <1>2. new = WithSlots(pg, slots, pg.freeEnd)
    BY DEF Erase
  <1> HIDE DEF new
  <1>3. slot \in Slot /\ slot.len = 0
    BY <1>1 DEF Slot
  <1> HIDE DEF slot
  <1>4. /\ slots \in Seq(Slot) /\ Len(slots) = n
        /\ \A i \in 1 .. n : slots[i] = IF i = s THEN slot ELSE pg.slots[i]
    <2>1. pg.slots \in [1 .. n -> Slot]
      BY <1>1
    <2>2. slots = [pg.slots EXCEPT ![s] = slot]
      OBVIOUS
    <2> HIDE DEF slots, n
    <2>3. slots \in [1 .. n -> Slot] /\ \A i \in 1 .. n : slots[i] = IF i = s THEN slot ELSE pg.slots[i]
      BY <1>1, <1>3, <2>1, <2>2
    <2> QED BY <1>1, <2>3, SlotArray
  <1> HIDE DEF slots
  <1>5. new \in PageRecord /\ new.slots = slots /\ new.freeEnd = pg.freeEnd
    <2>1. /\ WithSlots(pg, slots, pg.freeEnd) \in PageRecord
          /\ WithSlots(pg, slots, pg.freeEnd).slots = slots
          /\ WithSlots(pg, slots, pg.freeEnd).freeEnd = pg.freeEnd
      BY <1>1, <1>4, PageChanged, ZenonT(60)
    <2> QED BY <1>2, <2>1
  <1>6. SlotEnd(new) = SlotEnd(pg)
    BY <1>4, <1>5 DEF SlotEnd
  <1>7. /\ ~IsLive(new, s)
        /\ \A i \in 1 .. n : i # s => new.slots[i] = pg.slots[i] /\ (IsLive(new, i) <=> IsLive(pg, i))
    BY <1>3, <1>4, <1>5 DEF IsLive
  <1>8. Live(new) = Live(pg) \ {s}
    BY <1>4, <1>5, <1>7 DEF Live
  <1>9. \A i \in Live(new) : i \in Live(pg) /\ new.slots[i] = pg.slots[i]
    BY <1>7, <1>8 DEF Live
  <1>10. Sound(new)
    BY <1>5, <1>6, <1>9 DEF Sound
  <1>11. SameBut(pg, new, s)
    BY <1>1, <1>4, <1>5, <1>7 DEF SameBut
  <1> QED BY <1>4, <1>5, <1>7, <1>10, <1>11 DEF new

\* Page::update: the new record takes the place of one that is no shorter.
LEMMA UpdateSound ==
    ASSUME NEW pg, Sound(pg), NEW s, NEW row \in Rows, CanUpdate(pg, s, row)
    PROVE  /\ Sound(Update(pg, s, row)) /\ Len(Update(pg, s, row).slots) = Len(pg.slots)
           /\ s \in 1 .. Len(pg.slots) /\ IsLive(Update(pg, s, row), s)
           /\ Update(pg, s, row).slots[s].row = row /\ SameBut(pg, Update(pg, s, row), s)
  <1> DEFINE n == Len(pg.slots)
             slot == SlotOf(row, pg.slots[s].off)
             slots == [pg.slots EXCEPT ![s] = slot]
             new == Update(pg, s, row)
  <1>1. s \in 1 .. n /\ IsLive(pg, s) /\ RowLen[row] <= pg.slots[s].len /\ RowLen[row] \in Nat \ {0}
    BY PageAssumption DEF CanUpdate, IsLive
  <1>2. /\ pg \in PageRecord /\ n \in Nat /\ pg.freeEnd \in Int /\ pg.slots \in Seq(Slot)
        /\ \A i \in 1 .. n : pg.slots[i] \in Slot /\ pg.slots[i].off \in Int /\ pg.slots[i].len \in Nat
    BY SlotTypes DEF Sound
  <1>3. new = WithSlots(pg, slots, pg.freeEnd)
    BY DEF Update
  <1> HIDE DEF new
  <1>4. slot \in Slot /\ slot.len = RowLen[row] /\ slot.row = row /\ slot.off = pg.slots[s].off
    BY <1>1, <1>2 DEF SlotOf, Slot
  <1> HIDE DEF slot
  <1>5. /\ slots \in Seq(Slot) /\ Len(slots) = n
        /\ \A i \in 1 .. n : slots[i] = IF i = s THEN slot ELSE pg.slots[i]
    <2>1. pg.slots \in [1 .. n -> Slot]
      BY <1>2
    <2>2. slots = [pg.slots EXCEPT ![s] = slot]
      OBVIOUS
    <2> HIDE DEF slots, n
    <2>3. slots \in [1 .. n -> Slot] /\ \A i \in 1 .. n : slots[i] = IF i = s THEN slot ELSE pg.slots[i]
      BY <1>1, <1>4, <2>1, <2>2
    <2> QED BY <1>2, <2>3, SlotArray
  <1> HIDE DEF slots
  <1>6. new \in PageRecord /\ new.slots = slots /\ new.freeEnd = pg.freeEnd
    <2>1. /\ WithSlots(pg, slots, pg.freeEnd) \in PageRecord
          /\ WithSlots(pg, slots, pg.freeEnd).slots = slots
          /\ WithSlots(pg, slots, pg.freeEnd).freeEnd = pg.freeEnd
      BY <1>2, <1>5, PageChanged, ZenonT(60)
    <2> QED BY <1>3, <2>1
  <1>7. SlotEnd(new) = SlotEnd(pg)
    BY <1>5, <1>6 DEF SlotEnd
  <1>8. /\ new.slots[s] = slot /\ IsLive(new, s)
        /\ \A i \in 1 .. n : i # s => new.slots[i] = pg.slots[i] /\ (IsLive(new, i) <=> IsLive(pg, i))
    BY <1>1, <1>4, <1>5, <1>6 DEF IsLive
  <1>9. Live(new) = Live(pg) /\ s \in Live(pg)
    BY <1>1, <1>5, <1>6, <1>8 DEF Live
  <1>10. \A i \in Live(new) : /\ i \in 1 .. n /\ i \in Live(pg)
                              /\ new.slots[i].off = pg.slots[i].off
                              /\ new.slots[i].len \in Nat /\ new.slots[i].len <= pg.slots[i].len
    BY <1>1, <1>2, <1>4, <1>8, <1>9, SMTT(30) DEF Live
  <1>11. \A i \in Live(new) : End(new.slots[i]) <= End(pg.slots[i]) /\ End(pg.slots[i]) \in Int
                              /\ End(new.slots[i]) \in Int
    BY <1>2, <1>10, SMTT(30) DEF End
  <1>12. Sound(new)
    <2>1. ASSUME NEW i \in Live(new)
          PROVE  /\ new.slots[i].row \in Rows /\ new.slots[i].len = RowLen[new.slots[i].row]
                 /\ new.freeEnd <= new.slots[i].off /\ End(new.slots[i]) <= PageSize
      <3>1. new.slots[i].row \in Rows /\ new.slots[i].len = RowLen[new.slots[i].row]
        BY <1>4, <1>8, <1>10 DEF Sound
      <3>2. End(pg.slots[i]) <= PageSize /\ pg.freeEnd <= pg.slots[i].off
        BY <1>10 DEF Sound
      <3> QED BY <1>6, <1>10, <1>11, <3>1, <3>2, PageAssumption
    <2>2. ASSUME NEW i \in Live(new), NEW j \in Live(new), i < j
          PROVE  End(new.slots[i]) <= new.slots[j].off \/ End(new.slots[j]) <= new.slots[i].off
      <3>1. End(pg.slots[i]) <= pg.slots[j].off \/ End(pg.slots[j]) <= pg.slots[i].off
        BY <1>10, <2>2 DEF Sound
      <3> QED BY <1>2, <1>10, <1>11, <3>1, SMTT(30)
    <2>3. SlotEnd(new) <= new.freeEnd /\ new.freeEnd <= PageSize
      BY <1>6, <1>7 DEF Sound
    <2> QED BY <1>6, <2>1, <2>2, <2>3 DEF Sound
  <1>13. SameBut(pg, new, s)
    BY <1>2, <1>5, <1>6, <1>8 DEF SameBut
  <1> QED BY <1>1, <1>4, <1>5, <1>6, <1>8, <1>12, <1>13 DEF new

----------------------------------------------------------------------------
(* The heap while nothing stops the program.                               *)

\* What the engine finds in the pages P: rows, and record ids once given out.
LiveOf(P) == {r \in Rid : IsLive(P[r[1]], r[2])}
RowIn(P, r) == P[r[1]].slots[r[2]].row
HeapOf(P) == [r \in LiveOf(P) |-> RowIn(P, r)]
SlotsOf(P) == {r \in Rid : r[2] <= Len(P[r[1]].slots)}

\* The pages P of a file of n pages with the list l, after k row statements.  A
\* stop can leave pages in the file that are in no list; their rows are gone.
Whole(P, l, n, k) ==
    /\ P \in [PageIds -> PageRecord]
    /\ \A p \in PageIds :
          /\ P[p] = ZeroPage \/ (p < n /\ Sound(P[p]) /\ Len(P[p].slots) <= k)
          /\ IF p \in Range(l) THEN P[p] # ZeroPage ELSE Live(P[p]) = {}

\* Pages of the file are listed, each once.
Listing(l, n) ==
    /\ l \in Seq(PageIds) /\ Range(l) \subseteq 0 .. n - 1
    /\ \A i, j \in 1 .. Len(l) : l[i] = l[j] => i = j

HInv ==
    /\ scenario \in Scenario
    /\ Open
    /\ stmts \in 0 .. scenario.stmts
    /\ numPages \in 0 .. MaxPages
    /\ Listing(list, numPages)
    /\ Whole(page, list, numPages, stmts)

LEMMA ZeroPageIs ==
    /\ ZeroPage \in PageRecord /\ ZeroPage.slots = << >> /\ ZeroPage.slots = EmptyPage.slots
    /\ Len(ZeroPage.slots) = 0
  <1>1. << >> \in Seq(Slot) /\ Len(<< >>) = 0
    OBVIOUS
  <1> QED BY <1>1 DEF ZeroPage, EmptyPage, PageRecord

\* A change of slot s of page p, and what the engine sees of it.
SlotChange(P, Q, p, s, new) ==
    /\ Q \in [PageIds -> PageRecord] /\ Q[p] = new
    /\ \A q \in PageIds : q # p => Q[q] = P[q]
    /\ LiveOf(Q) \ {<<p, s>>} = LiveOf(P) \ {<<p, s>>}
    /\ \A r \in LiveOf(P) \ {<<p, s>>} : RowIn(Q, r) = RowIn(P, r)
    /\ <<p, s>> \in LiveOf(Q) <=> IsLive(new, s)
    /\ Len(new.slots) = Len(P[p].slots) => SlotsOf(Q) = SlotsOf(P)
    /\ s = Len(P[p].slots) + 1 /\ Len(new.slots) = s
         => <<p, s>> \notin SlotsOf(P) /\ SlotsOf(Q) = SlotsOf(P) \cup {<<p, s>>}

LEMMA OneSlot ==
    ASSUME NEW P \in [PageIds -> PageRecord], NEW p \in PageIds, NEW s \in 1 .. MaxStmts,
           NEW new \in PageRecord, SameBut(P[p], new, s),
           NEW Q, Q = [P EXCEPT ![p] = new]
    PROVE  SlotChange(P, Q, p, s, new)
  <1>1. Q \in [PageIds -> PageRecord] /\ Q[p] = new /\ \A q \in PageIds : q # p => Q[q] = P[q]
    OBVIOUS
  <1>2. \A r \in Rid : r[1] \in PageIds /\ r[2] \in 1 .. MaxStmts /\ r = <<r[1], r[2]>>
    BY DEF Rid
  <1>3. <<p, s>> \in Rid /\ <<p, s>>[1] = p /\ <<p, s>>[2] = s
    BY DEF Rid
  <1>4. Len(P[p].slots) \in Nat /\ Len(new.slots) \in Nat /\ Len(P[p].slots) <= Len(new.slots)
    BY SlotTypes DEF SameBut
  <1>5. ASSUME NEW i \in 1 .. MaxStmts, i # s
        PROVE  /\ IsLive(new, i) <=> IsLive(P[p], i)
               /\ IsLive(new, i) => new.slots[i].row = P[p].slots[i].row
    <2>1. CASE i \in 1 .. Len(new.slots)
      BY <1>4, <1>5, <2>1 DEF SameBut, IsLive
    <2>2. CASE i \notin 1 .. Len(new.slots)
      BY <1>4, <2>2 DEF IsLive
    <2> QED BY <2>1, <2>2
  <1>6. ASSUME NEW r \in Rid, r # <<p, s>>
        PROVE  /\ IsLive(Q[r[1]], r[2]) <=> IsLive(P[r[1]], r[2])
               /\ IsLive(Q[r[1]], r[2]) => RowIn(Q, r) = RowIn(P, r)
    <2>1. CASE r[1] = p
      <3>1. r[2] # s /\ Q[r[1]] = new
        BY <1>1, <1>2, <1>6, <2>1
      <3> QED BY <1>2, <1>5, <2>1, <3>1 DEF RowIn
    <2>2. CASE r[1] # p
      BY <1>1, <1>2, <2>2 DEF RowIn
    <2> QED BY <2>1, <2>2
  <1>7. LiveOf(Q) \ {<<p, s>>} = LiveOf(P) \ {<<p, s>>}
    BY <1>6 DEF LiveOf
  <1>8. \A r \in LiveOf(P) \ {<<p, s>>} : RowIn(Q, r) = RowIn(P, r)
    BY <1>6 DEF LiveOf
  <1>9. <<p, s>> \in LiveOf(Q) <=> IsLive(new, s)
    BY <1>1, <1>3 DEF LiveOf
  <1>10. \A r \in Rid : r[1] # p => Len(Q[r[1]].slots) = Len(P[r[1]].slots)
    BY <1>1, <1>2
  <1>11. ASSUME Len(new.slots) = Len(P[p].slots)
         PROVE  SlotsOf(Q) = SlotsOf(P)
    <2>1. \A r \in Rid : Len(Q[r[1]].slots) = Len(P[r[1]].slots)
      BY <1>1, <1>2, <1>10, <1>11
    <2> QED BY <2>1 DEF SlotsOf
  <1>12. ASSUME s = Len(P[p].slots) + 1, Len(new.slots) = s
         PROVE  <<p, s>> \notin SlotsOf(P) /\ SlotsOf(Q) = SlotsOf(P) \cup {<<p, s>>}
    <2>1. <<p, s>> \notin SlotsOf(P)
      BY <1>3, <1>4, <1>12 DEF SlotsOf
    <2>2. ASSUME NEW r \in Rid
          PROVE  r[2] <= Len(Q[r[1]].slots) <=> r[2] <= Len(P[r[1]].slots) \/ r = <<p, s>>
      <3>1. CASE r[1] = p
        <4>1. r[2] \in Nat /\ (r = <<p, s>> <=> r[2] = s) /\ Q[r[1]] = new
          BY <1>1, <1>2, <3>1
        <4> QED BY <1>4, <1>12, <3>1, <4>1
      <3>2. CASE r[1] # p
        BY <1>10, <3>2
      <3> QED BY <3>1, <3>2
    <2> QED BY <1>3, <2>1, <2>2 DEF SlotsOf
  <1> QED BY <1>1, <1>7, <1>8, <1>9, <1>11, <1>12 DEF SlotChange

\* insertTuple's first record in a page that it has just made.
LEMMA FirstSlot ==
    ASSUME NEW row \in Rows
    PROVE  CanInsert(EmptyPage, row) /\ InsertSlot(ZeroPage, row) = 1
  <1>1. RowLen[row] \in Nat \ {0} /\ RowLen[row] <= PageSize - HeaderSize - SlotSize
    BY PageAssumption
  <1>2. FreeSpace(EmptyPage) = PageSize - HeaderSize
    BY EmptyPageSound, PageAssumption DEF FreeSpace, SlotEnd, EmptyPage
  <1>3. CanInsert(EmptyPage, row)
    BY <1>1, <1>2, PageAssumption DEF CanInsert, Fits
  <1>4. Len(Compact(ZeroPage).slots) = 0
    <2> DEFINE f == [s \in 1 .. Len(ZeroPage.slots) |->
                        IF IsLive(ZeroPage, s)
                        THEN Moved(ZeroPage.slots[s], PageSize - BytesUpTo(ZeroPage, s))
                        ELSE ZeroPage.slots[s]]
               end == PageSize - BytesUpTo(ZeroPage, Len(ZeroPage.slots))
    <2>1. f = << >>
      BY ZeroPageIs
    <2>2. end \in Int
      <3>1. BytesUpTo(ZeroPage, Len(ZeroPage.slots)) = 0
        BY ZeroPageIs, Bytes
      <3> QED BY <3>1, PageAssumption
    <2>3. Compact(ZeroPage) = WithSlots(ZeroPage, f, end)
      BY DEF Compact
    <2> HIDE DEF f, end
    <2>4. f \in Seq(Slot) /\ Len(f) = 0
      BY <2>1
    <2>5. WithSlots(ZeroPage, f, end).slots = f
      BY <2>2, <2>4, ZeroPageIs, PageChanged, ZenonT(60)
    <2> QED BY <2>3, <2>4, <2>5
  <1>5. Len(MadeRoom(ZeroPage, RowLen[row] + SlotSize).slots) = 0
    BY <1>4, ZeroPageIs DEF MadeRoom
  <1> QED BY <1>3, <1>5 DEF InsertSlot

\* The page insertTuple finds by its loop over the list.
LEMMA HostIs ==
    ASSUME Listing(list, numPages), NEW P, NEW hints, NEW row, Hosts(P, hints, row) # {}
    PROVE  /\ Target(P, hints, row) \in PageIds /\ Target(P, hints, row) \in 0 .. numPages - 1
           /\ Target(P, hints, row) \in Range(list)
           /\ CanInsert(P[Target(P, hints, row)], row)
  <1> DEFINE H == Hosts(P, hints, row)
  <1>1. Len(list) \in Nat /\ H \in SUBSET (1 .. Len(list))
    BY DEF Listing, Hosts, Tried
  <1>2. H # {}
    OBVIOUS
  <1> HIDE DEF H
  <1>3. \E i \in H : \A j \in H : j <= i
    BY <1>1, <1>2, GreatestNumber
  <1>4. HostAt(P, hints, row) \in H
    BY <1>3 DEF HostAt, H
  <1>5. Target(P, hints, row) = list[HostAt(P, hints, row)]
    BY DEF Target
  <1>6. CanInsert(P[list[HostAt(P, hints, row)]], row)
    BY <1>4 DEF Hosts, H
  <1>7. HostAt(P, hints, row) \in 1 .. Len(list)
    BY <1>1, <1>4
  <1>8. list[HostAt(P, hints, row)] \in PageIds /\ list[HostAt(P, hints, row)] \in Range(list)
    BY <1>7 DEF Listing, Range
  <1> QED BY <1>5, <1>6, <1>8 DEF Listing

\* A new page is listed.
LEMMA ListedNew ==
    ASSUME NEW n \in 0 .. MaxPages, n < MaxPages, NEW l, Listing(l, n)
    PROVE  Listing(Append(l, n), n + 1) /\ Range(Append(l, n)) = Range(l) \cup {n}
  <1>1. l \in Seq(PageIds) /\ n \in PageIds /\ Len(l) \in Nat
    BY HeapAssumption DEF Listing, PageIds
  <1>2. /\ Append(l, n) \in Seq(PageIds) /\ Len(Append(l, n)) = Len(l) + 1
        /\ Append(l, n)[Len(l) + 1] = n
        /\ \A i \in 1 .. Len(l) : Append(l, n)[i] = l[i]
    BY <1>1
  <1>3. \A i \in 1 .. Len(l) : l[i] \in Range(l)
    BY <1>1 DEF Range
  <1>4. Range(Append(l, n)) = Range(l) \cup {n}
    BY <1>1, <1>2 DEF Range
  <1>5. Range(Append(l, n)) \subseteq 0 .. n
    <2>1. 0 .. n - 1 \subseteq 0 .. n /\ n \in 0 .. n
      OBVIOUS
    <2> QED BY <1>4, <2>1 DEF Listing
  <1>6. \A i \in 1 .. Len(l) : l[i] # n
    <2>1. n \notin 0 .. n - 1
      OBVIOUS
    <2> QED BY <1>3, <2>1 DEF Listing
  <1>7. ASSUME NEW i \in 1 .. Len(l) + 1, NEW j \in 1 .. Len(l) + 1,
               Append(l, n)[i] = Append(l, n)[j]
        PROVE  i = j
    BY <1>1, <1>2, <1>6, <1>7 DEF Listing
  <1> QED BY <1>1, <1>2, <1>4, <1>5, <1>7 DEF Listing

\* TableManager::insertTuple.
LEMMA Inserted ==
    ASSUME HInv, NEW P, Whole(P, list, numPages, stmts), NEW hints, NEW row \in Rows,
           stmts < scenario.stmts, InsertTuple(P, hints, row)
    PROVE  LET r == NewRid(P, hints, row)
           IN  /\ r \in Rid /\ r \notin SlotsOf(P) /\ r \notin LiveOf(P)
               /\ numPages' \in 0 .. MaxPages /\ Listing(list', numPages')
               /\ Whole(page', list', numPages', stmts + 1)
               /\ LiveOf(page') = LiveOf(P) \cup {r}
               /\ \A q \in LiveOf(P) : RowIn(page', q) = RowIn(P, q)
               /\ RowIn(page', r) = row
               /\ SlotsOf(page') = SlotsOf(P) \cup {r}
  <1> DEFINE old == Hosts(P, hints, row) # {}
             p == Target(P, hints, row)
             from == IF old THEN P[p] ELSE EmptyPage
             new == Insert(from, row)
             s == Len(P[p].slots) + 1
             r == NewRid(P, hints, row)
  <1>1. /\ page' = [P EXCEPT ![p] = new]
        /\ list' = IF old THEN list ELSE Append(list, p)
        /\ numPages' = IF old THEN numPages ELSE numPages + 1
        /\ old \/ numPages < MaxPages
    BY DEF InsertTuple
  <1>2. /\ P \in [PageIds -> PageRecord] /\ numPages \in 0 .. MaxPages
        /\ stmts \in Nat /\ stmts + 1 <= MaxStmts /\ MaxStmts \in Nat /\ MaxPages \in Nat
        /\ Listing(list, numPages)
    BY HeapAssumption DEF HInv, Whole, Scenario
  <1>3. /\ p \in PageIds /\ s \in 1 .. stmts + 1 /\ InsertSlot(P[p], row) = s
        /\ Sound(new) /\ Len(new.slots) = s /\ SameBut(P[p], new, s)
        /\ IsLive(new, s) /\ new.slots[s].row = row
        /\ p < numPages' /\ numPages' \in numPages .. MaxPages
        /\ Listing(list', numPages') /\ p \in Range(list')
        /\ \A q \in PageIds : q # p => (q \in Range(list') <=> q \in Range(list))
    <2>1. CASE old
      <3>1. p \in PageIds /\ p \in 0 .. numPages - 1 /\ p \in Range(list) /\ CanInsert(P[p], row)
        BY <1>2, <2>1, HostIs
      <3>2. Sound(P[p]) /\ Len(P[p].slots) <= stmts /\ from = P[p]
        BY <1>2, <2>1, <3>1 DEF Whole
      <3>3. Len(P[p].slots) \in Nat
        BY <3>2, SlotTypes DEF Sound
      <3> HIDE DEF p, old, from, s
      <3>4. /\ Sound(Insert(P[p], row)) /\ InsertSlot(P[p], row) = Len(P[p].slots) + 1
            /\ Len(Insert(P[p], row).slots) = Len(P[p].slots) + 1
            /\ IsLive(Insert(P[p], row), Len(P[p].slots) + 1)
            /\ Insert(P[p], row).slots[Len(P[p].slots) + 1].row = row
            /\ SameBut(P[p], Insert(P[p], row), Len(P[p].slots) + 1)
        BY <3>1, <3>2, InsertSound
      <3>5. numPages' = numPages /\ list' = list /\ s \in 1 .. stmts + 1
        BY <1>1, <1>2, <2>1, <3>2, <3>3 DEF s
      <3> QED BY <1>2, <3>1, <3>2, <3>4, <3>5 DEF s
    <2>2. CASE ~old
      <3>1. p = numPages /\ p \in PageIds /\ P[p] = ZeroPage /\ from = EmptyPage /\ numPages < MaxPages
        <4>1. p = numPages /\ from = EmptyPage /\ numPages < MaxPages
          BY <1>1, <2>2 DEF Target
        <4>2. p \in PageIds /\ ~(p < numPages)
          BY <1>2, <4>1 DEF PageIds
        <4> QED BY <1>2, <4>1, <4>2 DEF Whole
      <3>2. s = 1 /\ CanInsert(EmptyPage, row) /\ InsertSlot(P[p], row) = 1 /\ 1 \in 1 .. stmts + 1
        BY <1>2, <3>1, FirstSlot, ZeroPageIs
      <3>3. Sound(EmptyPage) /\ Len(EmptyPage.slots) = 0
        BY EmptyPageSound
      <3>4. /\ Sound(Insert(EmptyPage, row)) /\ Len(Insert(EmptyPage, row).slots) = 1
            /\ IsLive(Insert(EmptyPage, row), 1)
            /\ Insert(EmptyPage, row).slots[1].row = row
            /\ SameBut(EmptyPage, Insert(EmptyPage, row), 1)
        <4>1. Len(EmptyPage.slots) + 1 = 1
          BY <3>3
        <4> QED BY <3>2, <3>3, <4>1, InsertSound
      <3>5. SameBut(ZeroPage, Insert(EmptyPage, row), 1)
        BY <3>4, ZeroPageIs DEF SameBut, IsLive
      <3>6. numPages' = numPages + 1 /\ list' = Append(list, numPages)
        BY <1>1, <2>2, <3>1
      <3>7. Listing(list', numPages') /\ Range(list') = Range(list) \cup {p}
        BY <1>2, <3>1, <3>6, ListedNew
      <3>8. p < numPages' /\ numPages' \in numPages .. MaxPages
        BY <1>2, <3>1, <3>6 DEF PageIds
      <3> HIDE DEF p, old, from, s
      <3> QED BY <1>2, <3>1, <3>2, <3>4, <3>5, <3>7, <3>8
    <2> QED BY <2>1, <2>2
  <1>4. r = <<p, s>> /\ s \in 1 .. MaxStmts /\ r \in Rid
    BY <1>2, <1>3 DEF NewRid, Rid
  <1> HIDE DEF p, old, from, s, new, r
  <1>5. new \in PageRecord
    BY <1>3 DEF Sound
  <1>6. /\ page' \in [PageIds -> PageRecord] /\ page'[p] = new
        /\ \A q \in PageIds : q # p => page'[q] = P[q]
        /\ LiveOf(page') \ {r} = LiveOf(P) \ {r}
        /\ \A q \in LiveOf(P) \ {r} : RowIn(page', q) = RowIn(P, q)
        /\ r \in LiveOf(page')
        /\ r \notin SlotsOf(P) /\ SlotsOf(page') = SlotsOf(P) \cup {r}
    <2>1. s = Len(P[p].slots) + 1
      BY DEF s
    <2>2. page' = [P EXCEPT ![p] = new]
      BY <1>1
    <2>3. /\ P \in [PageIds -> PageRecord] /\ p \in PageIds /\ s \in 1 .. MaxStmts
          /\ new \in PageRecord /\ SameBut(P[p], new, s)
      BY <1>2, <1>3, <1>4, <1>5
    <2>4. SlotChange(P, page', p, s, new)
      BY <2>2, <2>3, OneSlot
    <2> QED BY <1>3, <1>4, <2>1, <2>4 DEF SlotChange
  <1>7. r \notin LiveOf(P)
    <2>1. IsLive(P[r[1]], r[2]) => r[2] <= Len(P[r[1]].slots)
      <3>1. Len(P[p].slots) \in Nat /\ r[1] = p /\ r[2] = s
        BY <1>2, <1>3, <1>4, SlotTypes
      <3> QED BY <1>3, <3>1 DEF IsLive
    <2> QED BY <1>6, <2>1 DEF LiveOf, SlotsOf
  <1>8. RowIn(page', r) = row
    BY <1>3, <1>4, <1>6 DEF RowIn
  <1>9. Whole(page', list', numPages', stmts + 1)
    <2>1. ASSUME NEW q \in PageIds
          PROVE  /\ page'[q] = ZeroPage \/ (q < numPages' /\ Sound(page'[q]) /\ Len(page'[q].slots) <= stmts + 1)
                 /\ IF q \in Range(list') THEN page'[q] # ZeroPage ELSE Live(page'[q]) = {}
      <3>1. CASE q = p
        <4>1. q < numPages' /\ page'[q] = new /\ s <= stmts + 1 /\ new # ZeroPage
          BY <1>2, <1>3, <1>6, <3>1, SoundPage
        <4> QED BY <1>3, <3>1, <4>1
      <3>2. CASE q # p
        <4>1. page'[q] = P[q] /\ (q \in Range(list') <=> q \in Range(list))
          BY <1>3, <1>6, <3>2
        <4>2. P[q] = ZeroPage \/ (q < numPages /\ Sound(P[q]) /\ Len(P[q].slots) <= stmts)
          BY DEF Whole
        <4>3. IF q \in Range(list) THEN P[q] # ZeroPage ELSE Live(P[q]) = {}
          BY DEF Whole
        <4>4. numPages <= numPages' /\ numPages' \in Int /\ numPages \in Int /\ q \in Int
          BY <1>2, <1>3 DEF PageIds
        <4>5. Len(P[q].slots) \in Nat
          BY <1>2, SlotTypes
        <4> QED BY <1>2, <4>1, <4>2, <4>3, <4>4, <4>5
      <3> QED BY <3>1, <3>2
    <2> QED BY <1>6, <2>1 DEF Whole
  <1>10. /\ LiveOf(page') = LiveOf(P) \cup {r}
         /\ \A q \in LiveOf(P) : RowIn(page', q) = RowIn(P, q)
    BY <1>6, <1>7
  <1>11. numPages' \in 0 .. MaxPages
    BY <1>2, <1>3
  <1> QED BY <1>3, <1>4, <1>6, <1>7, <1>8, <1>9, <1>10, <1>11 DEF r

\* What the engine sees is all that is live in the pages.
LEMMA HeapIs ==
    HInv => /\ LiveRids = LiveOf(page) /\ Heap = HeapOf(page) /\ Slots = SlotsOf(page)
            /\ LiveOf(page) \subseteq SlotsOf(page)
            /\ \A r \in LiveRids : /\ r \in Rid /\ r[1] \in PageIds /\ r[1] < numPages
                                   /\ IsLive(page[r[1]], r[2]) /\ r = <<r[1], r[2]>>
                                   /\ r[2] \in 1 .. MaxStmts /\ r[1] \in Range(list)
                                   /\ RowAt(r) = RowIn(page, r)
  <1> SUFFICES ASSUME HInv
               PROVE  /\ LiveRids = LiveOf(page) /\ Heap = HeapOf(page) /\ Slots = SlotsOf(page)
                      /\ LiveOf(page) \subseteq SlotsOf(page)
                      /\ \A r \in LiveRids : /\ r \in Rid /\ r[1] \in PageIds /\ r[1] < numPages
                                             /\ IsLive(page[r[1]], r[2]) /\ r = <<r[1], r[2]>>
                                             /\ r[2] \in 1 .. MaxStmts /\ r[1] \in Range(list)
                                             /\ RowAt(r) = RowIn(page, r)
    OBVIOUS
  <1>1. /\ Whole(page, list, numPages, stmts) /\ numPages \in Nat
        /\ page \in [PageIds -> PageRecord]
    BY HeapAssumption DEF HInv, Whole
  <1>2. \A r \in Rid : /\ r[1] \in PageIds /\ r[1] \in Nat
                       /\ r[2] \in 1 .. MaxStmts /\ r = <<r[1], r[2]>>
    BY DEF Rid, PageIds
  <1>3. \A r \in Rid : Len(page[r[1]].slots) \in Nat
    BY <1>1, <1>2, SlotTypes
  <1>4. \A r \in Rid : r[2] <= Len(page[r[1]].slots) => r[1] < numPages
    <2>1. ASSUME NEW r \in Rid, ~(r[1] < numPages) PROVE ~(r[2] <= Len(page[r[1]].slots))
      <3>1. Len(page[r[1]].slots) = 0
        BY <1>1, <1>2, <2>1, ZeroPageIs DEF Whole
      <3> QED BY <1>2, <3>1
    <2> QED BY <2>1
  <1>5. \A r \in Rid : IsLive(page[r[1]], r[2]) => r[2] <= Len(page[r[1]].slots)
    BY <1>2, <1>3 DEF IsLive
  <1>6. \A r \in Rid : IsLive(page[r[1]], r[2]) => r[1] \in Range(list)
    <2>1. ASSUME NEW r \in Rid, IsLive(page[r[1]], r[2]), r[1] \notin Range(list) PROVE FALSE
      <3>1. Live(page[r[1]]) = {}
        BY <1>1, <1>2, <2>1 DEF Whole
      <3> QED BY <2>1, <3>1 DEF Live, IsLive
    <2> QED BY <2>1
  <1>7. LiveRids = LiveOf(page)
    BY <1>6 DEF LiveRids, LiveOf
  <1>8. Slots = SlotsOf(page)
    BY <1>4 DEF Slots, SlotsOf
  <1>9. Heap = HeapOf(page)
    BY <1>7 DEF Heap, HeapOf, RowAt, RowIn
  <1>10. LiveOf(page) \subseteq SlotsOf(page)
    BY <1>5 DEF LiveOf, SlotsOf
  <1>11. \A r \in LiveRids : r \in Rid /\ r[1] < numPages /\ r[1] \in Range(list) /\ IsLive(page[r[1]], r[2])
    BY <1>4, <1>5 DEF LiveRids
  <1>12. \A r : RowAt(r) = RowIn(page, r)
    BY DEF RowAt, RowIn
  <1> QED BY <1>2, <1>7, <1>8, <1>9, <1>10, <1>11, <1>12

LEMMA HeapIsNext ==
    HInv' => LiveRids' = LiveOf(page') /\ Heap' = HeapOf(page') /\ Slots' = SlotsOf(page')
  <1>1. (HInv => LiveRids = LiveOf(page) /\ Heap = HeapOf(page) /\ Slots = SlotsOf(page))'
    BY HeapIs, PTL
  <1>2. /\ LiveOf(page)' = LiveOf(page') /\ HeapOf(page)' = HeapOf(page')
        /\ SlotsOf(page)' = SlotsOf(page')
    BY DEF LiveOf, HeapOf, SlotsOf, RowIn
  <1> QED BY <1>1, <1>2

\* A page of the file is exchanged for a sound one.
LEMMA WholeChanged ==
    ASSUME HInv, NEW p \in PageIds, p \in Range(list), NEW new, Sound(new),
           Len(new.slots) = Len(page[p].slots),
           NEW Q \in [PageIds -> PageRecord], Q[p] = new,
           \A q \in PageIds : q # p => Q[q] = page[q]
    PROVE  Whole(Q, list, numPages, stmts)
  <1>1. Whole(page, list, numPages, stmts)
    BY DEF HInv
  <1>2. p < numPages /\ Len(page[p].slots) <= stmts
    BY <1>1 DEF Whole
  <1>3. ASSUME NEW q \in PageIds
        PROVE  /\ Q[q] = ZeroPage \/ (q < numPages /\ Sound(Q[q]) /\ Len(Q[q].slots) <= stmts)
               /\ IF q \in Range(list) THEN Q[q] # ZeroPage ELSE Live(Q[q]) = {}
    <2>1. CASE q = p
      BY <1>2, <2>1, SoundPage
    <2>2. CASE q # p
      <3>1. Q[q] = page[q]
        BY <2>2
      <3> QED BY <1>1, <3>1 DEF Whole
    <2> QED BY <2>1, <2>2
  <1> QED BY <1>3 DEF Whole

\* TableManager::eraseTuple.
LEMMA Erased ==
    ASSUME HInv, NEW r \in LiveRids
    PROVE  /\ Whole(ErasedAt(r), list, numPages, stmts)
           /\ LiveOf(ErasedAt(r)) = LiveOf(page) \ {r}
           /\ \A q \in LiveOf(page) \ {r} : RowIn(ErasedAt(r), q) = RowIn(page, q)
           /\ SlotsOf(ErasedAt(r)) = SlotsOf(page)
  <1> DEFINE p == r[1]
             s == r[2]
             new == Erase(page[p], s)
             Q == ErasedAt(r)
  <1>1. /\ p \in PageIds /\ p \in Range(list) /\ s \in 1 .. MaxStmts /\ r = <<p, s>>
        /\ IsLive(page[p], s) /\ r \in Rid
    BY HeapIs
  <1>2. Sound(page[p]) /\ page \in [PageIds -> PageRecord]
    BY <1>1, ZeroPageIs DEF HInv, Whole
  <1>3. s \in 1 .. Len(page[p].slots)
    BY <1>1 DEF IsLive
  <1>4. Sound(new) /\ Len(new.slots) = Len(page[p].slots) /\ ~IsLive(new, s) /\ SameBut(page[p], new, s)
    BY <1>2, <1>3, EraseSound
  <1>5. Q = [page EXCEPT ![p] = new]
    BY DEF ErasedAt
  <1>6. new \in PageRecord
    BY <1>4 DEF Sound
  <1> HIDE DEF p, s, new, Q
  <1>7. SlotChange(page, Q, p, s, new)
    BY <1>1, <1>2, <1>4, <1>5, <1>6, OneSlot
  <1>8. Whole(Q, list, numPages, stmts)
    <2>1. /\ Q \in [PageIds -> PageRecord] /\ Q[p] = new
          /\ \A q \in PageIds : q # p => Q[q] = page[q]
      BY <1>7 DEF SlotChange
    <2> QED BY <1>1, <1>4, <2>1, WholeChanged
  <1>9. /\ r \notin LiveOf(Q) /\ LiveOf(Q) \ {r} = LiveOf(page) \ {r}
        /\ \A q \in LiveOf(page) \ {r} : RowIn(Q, q) = RowIn(page, q)
        /\ SlotsOf(Q) = SlotsOf(page)
    BY <1>1, <1>4, <1>7 DEF SlotChange
  <1> QED BY <1>8, <1>9 DEF Q

\* TableManager::updateTuple when the row stays.
UpdatedAt(r, row) == [page EXCEPT ![r[1]] = Update(@, r[2], row)]

LEMMA Updated ==
    ASSUME HInv, NEW r \in LiveRids, NEW row \in Rows, CanUpdate(page[r[1]], r[2], row)
    PROVE  /\ Whole(UpdatedAt(r, row), list, numPages, stmts)
           /\ LiveOf(UpdatedAt(r, row)) = LiveOf(page) /\ RowIn(UpdatedAt(r, row), r) = row
           /\ \A q \in LiveOf(page) \ {r} : RowIn(UpdatedAt(r, row), q) = RowIn(page, q)
           /\ SlotsOf(UpdatedAt(r, row)) = SlotsOf(page)
  <1> DEFINE Q == UpdatedAt(r, row)
             p == r[1]
             s == r[2]
             new == Update(page[p], s, row)
  <1>1. /\ p \in PageIds /\ p \in Range(list) /\ s \in 1 .. MaxStmts /\ r = <<p, s>>
        /\ IsLive(page[p], s) /\ r \in Rid /\ r \in LiveOf(page)
    BY HeapIs
  <1>2. Sound(page[p]) /\ page \in [PageIds -> PageRecord]
    BY <1>1, ZeroPageIs DEF HInv, Whole
  <1>3. CanUpdate(page[p], s, row)
    OBVIOUS
  <1>4. /\ Sound(new) /\ Len(new.slots) = Len(page[p].slots) /\ IsLive(new, s)
        /\ new.slots[s].row = row /\ SameBut(page[p], new, s)
    BY <1>2, <1>3, UpdateSound
  <1>5. Q = [page EXCEPT ![p] = new]
    BY DEF UpdatedAt
  <1>6. new \in PageRecord
    BY <1>4 DEF Sound
  <1> HIDE DEF p, s, new, Q
  <1>7. SlotChange(page, Q, p, s, new)
    BY <1>1, <1>2, <1>4, <1>5, <1>6, OneSlot
  <1>8. /\ Q \in [PageIds -> PageRecord] /\ Q[p] = new
        /\ \A q \in PageIds : q # p => Q[q] = page[q]
    BY <1>7 DEF SlotChange
  <1>9. Whole(Q, list, numPages, stmts)
    BY <1>1, <1>4, <1>8, WholeChanged
  <1>10. /\ r \in LiveOf(Q) /\ LiveOf(Q) \ {r} = LiveOf(page) \ {r}
         /\ \A q \in LiveOf(page) \ {r} : RowIn(Q, q) = RowIn(page, q)
         /\ SlotsOf(Q) = SlotsOf(page)
    BY <1>1, <1>4, <1>7 DEF SlotChange
  <1>11. RowIn(Q, r) = row
    BY <1>4, <1>8 DEF RowIn, p, s
  <1>12. LiveOf(Q) = LiveOf(page)
    <2>1. r \in LiveOf(page) /\ r \in LiveOf(Q) /\ LiveOf(Q) \ {r} = LiveOf(page) \ {r}
      BY <1>1, <1>10
    <2>2. ASSUME NEW x PROVE x \in LiveOf(Q) <=> x \in LiveOf(page)
      <3>1. x \in LiveOf(Q) \ {r} <=> x \in LiveOf(page) \ {r}
        BY <2>1
      <3> QED BY <2>1, <3>1
    <2> QED BY <2>2
  <1> QED BY <1>9, <1>10, <1>11, <1>12 DEF Q

----------------------------------------------------------------------------
(* Each step keeps the invariant and is a step of RowStore.                *)

\* RowStore's variables.
LEMMA Seen ==
    HInv => /\ (IF Open THEN Heap ELSE saved) = HeapOf(page)
            /\ (IF Open THEN Slots ELSE DOMAIN saved) = SlotsOf(page)
  <1>1. HInv => Open
    BY DEF HInv
  <1> QED BY <1>1, HeapIs

LEMMA SeenNext ==
    HInv' => /\ (IF Open THEN Heap ELSE saved)' = HeapOf(page')
             /\ (IF Open THEN Slots ELSE DOMAIN saved)' = SlotsOf(page')
  <1>1. HInv' => Open'
    BY DEF HInv
  <1> QED BY <1>1, HeapIsNext

\* A statement that changes no list.
LEMMA LaterStatement ==
    ASSUME HInv, Whole(page', list, numPages, stmts), stmts < scenario.stmts, stmts' = stmts + 1,
           UNCHANGED <<scenario, phase, numPages, list>>
    PROVE  HInv'
  <1>1. stmts \in Nat /\ scenario.stmts \in Nat
    BY HeapAssumption DEF HInv, Scenario
  <1>2. Whole(page', list', numPages', stmts')
    <2>1. \A p \in PageIds : Len(page'[p].slots) \in Nat
      BY SlotTypes DEF Whole
    <2>2. \A p \in PageIds : Len(page'[p].slots) <= stmts => Len(page'[p].slots) <= stmts + 1
      BY <1>1, <2>1
    <2> QED BY <2>2 DEF Whole
  <1>3. stmts' \in 0 .. scenario'.stmts /\ scenario' \in Scenario /\ Open'
    BY <1>1 DEF HInv, Open
  <1> QED BY <1>2, <1>3 DEF HInv

\* PUT.
LEMMA PutKeeps ==
    ASSUME HInv, NEW row \in Rows, Put(row)
    PROVE  HInv' /\ NewRid(page, hint, row) \in Rid /\ Store!Insert(NewRid(page, hint, row), row)
  <1> DEFINE r == NewRid(page, hint, row)
  <1>1. /\ Statement /\ InsertTuple(page, hint, row) /\ stmts < scenario.stmts
        /\ stmts' = stmts + 1 /\ UNCHANGED <<scenario, phase, saved>>
    BY DEF Put, Statement, flowVars
  <1>2. Whole(page, list, numPages, stmts)
    BY DEF HInv
  <1> HIDE DEF r
  <1>3. /\ r \in Rid /\ r \notin SlotsOf(page) /\ r \notin LiveOf(page)
        /\ numPages' \in 0 .. MaxPages /\ Listing(list', numPages')
        /\ Whole(page', list', numPages', stmts + 1)
        /\ LiveOf(page') = LiveOf(page) \cup {r}
        /\ \A q \in LiveOf(page) : RowIn(page', q) = RowIn(page, q)
        /\ RowIn(page', r) = row
        /\ SlotsOf(page') = SlotsOf(page) \cup {r}
    BY <1>1, <1>2, Inserted DEF r
  <1>4. stmts' \in 0 .. scenario'.stmts /\ scenario' \in Scenario /\ Open'
    BY <1>1 DEF HInv, Scenario, Open
  <1>5. HInv'
    BY <1>1, <1>3, <1>4 DEF HInv
  <1>6. HeapOf(page') = Store!With(HeapOf(page), r, row)
    <2>1. DOMAIN HeapOf(page) = LiveOf(page)
      BY DEF HeapOf
    <2>2. \A q \in LiveOf(page) : HeapOf(page)[q] = RowIn(page, q)
      BY DEF HeapOf
    <2>3. \A q \in LiveOf(page') :
             RowIn(page', q) = IF q = r THEN row ELSE HeapOf(page)[q]
      BY <1>3, <2>2
    <2>4. HeapOf(page') = [q \in LiveOf(page) \cup {r} |-> IF q = r THEN row ELSE HeapOf(page)[q]]
      BY <1>3, <2>3 DEF HeapOf
    <2> QED BY <2>1, <2>4 DEF Store!With
  <1>7. Store!Insert(r, row)
    BY <1>1, <1>3, <1>5, <1>6, Seen, SeenNext DEF Store!Insert
  <1> QED BY <1>3, <1>5, <1>7 DEF r

\* REMOVE.
LEMMA RemoveKeeps ==
    ASSUME HInv, NEW r \in LiveRids, Remove(r)
    PROVE  HInv' /\ r \in LiveOf(page) /\ Store!Erase(r)
  <1>1. /\ page' = ErasedAt(r) /\ stmts < scenario.stmts
        /\ stmts' = stmts + 1 /\ UNCHANGED <<scenario, phase, saved, numPages, list>>
    BY DEF Remove, Statement, flowVars
  <1>2. /\ Whole(page', list, numPages, stmts) /\ LiveOf(page') = LiveOf(page) \ {r}
        /\ \A q \in LiveOf(page) \ {r} : RowIn(page', q) = RowIn(page, q)
        /\ SlotsOf(page') = SlotsOf(page)
    BY <1>1, Erased
  <1>3. HInv'
    BY <1>1, <1>2, LaterStatement
  <1>4. HeapOf(page') = [q \in LiveOf(page) \ {r} |-> HeapOf(page)[q]]
    <2>1. \A q \in LiveOf(page) : HeapOf(page)[q] = RowIn(page, q)
      BY DEF HeapOf
    <2>2. \A q \in LiveOf(page') : RowIn(page', q) = HeapOf(page)[q]
      BY <1>2, <2>1
    <2> QED BY <1>2, <2>2 DEF HeapOf
  <1>5. DOMAIN HeapOf(page) = LiveOf(page) /\ r \in LiveOf(page)
    BY HeapIs DEF HeapOf
  <1>6. Store!Erase(r)
    BY <1>1, <1>2, <1>3, <1>4, <1>5, Seen, SeenNext DEF Store!Erase, Store!Without
  <1> QED BY <1>3, <1>5, <1>6

\* MODIFY of a row that stays.
LEMMA ModifyInPlaceKeeps ==
    ASSUME HInv, NEW r \in LiveRids, NEW row \in Rows, ModifyInPlace(r, row)
    PROVE  HInv' /\ r \in LiveOf(page) /\ Store!Change(r, row)
  <1>1. /\ CanUpdate(page[r[1]], r[2], row) /\ stmts < scenario.stmts
        /\ page' = UpdatedAt(r, row)
        /\ stmts' = stmts + 1 /\ UNCHANGED <<scenario, phase, saved, numPages, list>>
    BY DEF ModifyInPlace, Statement, flowVars, UpdatedAt
  <1>2. /\ Whole(page', list, numPages, stmts) /\ LiveOf(page') = LiveOf(page) /\ RowIn(page', r) = row
        /\ \A q \in LiveOf(page) \ {r} : RowIn(page', q) = RowIn(page, q)
        /\ SlotsOf(page') = SlotsOf(page)
    BY <1>1, Updated
  <1>3. HInv'
    BY <1>1, <1>2, LaterStatement
  <1>4. r \in LiveOf(page)
    BY HeapIs
  <1>5. HeapOf(page') = [HeapOf(page) EXCEPT ![r] = row]
    <2>1. \A q \in LiveOf(page) : HeapOf(page)[q] = RowIn(page, q)
      BY DEF HeapOf
    <2>2. \A q \in LiveOf(page) : RowIn(page', q) = IF q = r THEN row ELSE HeapOf(page)[q]
      BY <1>2, <2>1
    <2>3. HeapOf(page') = [q \in LiveOf(page) |-> IF q = r THEN row ELSE HeapOf(page)[q]]
      BY <1>2, <2>2 DEF HeapOf
    <2>4. DOMAIN HeapOf(page) = LiveOf(page) /\ HeapOf(page) = [q \in LiveOf(page) |-> HeapOf(page)[q]]
      BY DEF HeapOf
    <2> QED BY <1>4, <2>3, <2>4
  <1>6. Store!Change(r, row)
    BY <1>1, <1>2, <1>3, <1>5, Seen, SeenNext DEF Store!Change
  <1> QED BY <1>3, <1>4, <1>6

\* MODIFY of a row that moves.
LEMMA ModifyMovesKeeps ==
    ASSUME HInv, NEW r \in LiveRids, NEW row \in Rows, ModifyMoves(r, row)
    PROVE  /\ HInv' /\ r \in LiveOf(page)
           /\ MovedRid(r, row) \in Rid /\ Store!Move(r, MovedRid(r, row), row)
  <1> DEFINE P == ErasedAt(r)
             to == NewRid(P, HintErased(r), row)
  <1>1. /\ InsertTuple(P, HintErased(r), row) /\ stmts < scenario.stmts
        /\ stmts' = stmts + 1 /\ UNCHANGED <<scenario, phase, saved>>
    BY DEF ModifyMoves, Statement, flowVars
  <1>2. /\ Whole(P, list, numPages, stmts) /\ LiveOf(P) = LiveOf(page) \ {r}
        /\ \A q \in LiveOf(page) \ {r} : RowIn(P, q) = RowIn(page, q)
        /\ SlotsOf(P) = SlotsOf(page)
    BY Erased
  <1> HIDE DEF P, to
  <1>3. /\ to \in Rid /\ to \notin SlotsOf(P) /\ to \notin LiveOf(P)
        /\ numPages' \in 0 .. MaxPages /\ Listing(list', numPages')
        /\ Whole(page', list', numPages', stmts + 1)
        /\ LiveOf(page') = LiveOf(P) \cup {to}
        /\ \A q \in LiveOf(P) : RowIn(page', q) = RowIn(P, q)
        /\ RowIn(page', to) = row
        /\ SlotsOf(page') = SlotsOf(P) \cup {to}
    BY <1>1, <1>2, Inserted DEF to
  <1>4. stmts' \in 0 .. scenario'.stmts /\ scenario' \in Scenario /\ Open'
    BY <1>1 DEF HInv, Scenario, Open
  <1>5. HInv'
    BY <1>1, <1>3, <1>4 DEF HInv
  <1>6. DOMAIN HeapOf(page) = LiveOf(page) /\ r \in LiveOf(page)
    BY HeapIs DEF HeapOf
  <1> DEFINE without == [q \in LiveOf(page) \ {r} |-> HeapOf(page)[q]]
  <1>7. HeapOf(page') = Store!With(without, to, row)
    <2>1. \A q \in LiveOf(page) : HeapOf(page)[q] = RowIn(page, q)
      BY DEF HeapOf
    <2>2. DOMAIN without = LiveOf(P) /\ \A q \in LiveOf(P) : without[q] = RowIn(P, q)
      BY <1>2, <2>1
    <2> HIDE DEF without
    <2>3. \A q \in LiveOf(page') : RowIn(page', q) = IF q = to THEN row ELSE without[q]
      BY <1>3, <2>2
    <2>4. HeapOf(page') = [q \in LiveOf(P) \cup {to} |-> IF q = to THEN row ELSE without[q]]
      BY <1>3, <2>3 DEF HeapOf
    <2> QED BY <2>2, <2>4 DEF Store!With
  <1>8. Store!Without(r) = without
    BY <1>6, Seen DEF Store!Without
  <1>9. Store!Move(r, to, row)
    BY <1>1, <1>2, <1>3, <1>5, <1>7, <1>8, Seen, SeenNext DEF Store!Move
  <1> QED BY <1>3, <1>5, <1>6, <1>9 DEF to, P, MovedRid

\* SAVE.
LEMMA CommitKeeps ==
    ASSUME HInv, Commit
    PROVE  HInv' /\ Store!Commit
  <1>1. /\ UNCHANGED <<page, numPages, list, scenario, stmts>>
        /\ phase' = "flushing" /\ saved' = Heap
    BY DEF Commit, heapVars
  <1>2. HInv'
    BY <1>1 DEF HInv, Open
  <1>3. Store!Commit
    BY <1>1, <1>2, Seen, SeenNext, HeapIs DEF Store!Commit
  <1> QED BY <1>2, <1>3

\* A page is written, or all are.
LEMMA WritingKeeps ==
    ASSUME HInv, (\E p \in PageIds : WritePage(p)) \/ Flushed
    PROVE  HInv' /\ Store!Waste
  <1>1. UNCHANGED <<page, numPages, list, scenario, stmts, saved>> /\ phase' \in {phase, "open"}
    BY DEF WritePage, Flushed, heapVars, flowVars
  <1>2. HInv'
    BY <1>1 DEF HInv, Open
  <1> QED BY <1>1, <1>2, Seen, SeenNext DEF Store!Waste

LEMMA HInit == Init => HInv /\ Store!Init
  <1> SUFFICES ASSUME Init PROVE HInv /\ Store!Init
    OBVIOUS
  <1>1. /\ page = [p \in PageIds |-> ZeroPage] /\ list = << >> /\ numPages = 0 /\ stmts = 0
        /\ phase = "open" /\ scenario \in Scenario /\ saved = Heap
    BY HeapAssumption DEF Init
  <1>2. Whole(page, list, numPages, stmts)
    <2>1. Range(list) = {}
      BY <1>1 DEF Range
    <2>2. Live(ZeroPage) = {}
      BY ZeroPageIs DEF Live
    <2>3. page \in [PageIds -> PageRecord] /\ \A p \in PageIds : page[p] = ZeroPage
      BY <1>1, ZeroPageIs
    <2> QED BY <2>1, <2>2, <2>3 DEF Whole
  <1>3. Listing(list, numPages)
    <2>1. << >> \in Seq(PageIds) /\ Len(<< >>) = 0 /\ Range(<< >>) = {}
      BY DEF Range
    <2>2. 0 .. 0 - 1 = {}
      OBVIOUS
    <2> QED BY <1>1, <2>1, <2>2 DEF Listing
  <1>4. HInv
    BY <1>1, <1>2, <1>3, HeapAssumption DEF HInv, Open, Scenario
  <1>5. LiveOf(page) = {} /\ SlotsOf(page) = {}
    <2>1. \A r \in Rid : r[1] \in PageIds /\ r[2] \in 1 .. MaxStmts
      BY DEF Rid
    <2>2. \A r \in Rid : page[r[1]] = ZeroPage
      BY <1>1, <2>1
    <2>3. \A r \in Rid : ~(r[2] <= Len(page[r[1]].slots)) /\ ~IsLive(page[r[1]], r[2])
      BY <2>1, <2>2, ZeroPageIs DEF IsLive
    <2> QED BY <2>3 DEF LiveOf, SlotsOf
  <1>6. HeapOf(page) = Store!None
    BY <1>5 DEF HeapOf, Store!None
  <1>7. Store!Init
    BY <1>1, <1>4, <1>5, <1>6, Seen, HeapIs DEF Store!Init
  <1> QED BY <1>4, <1>7

LEMMA HNext == HInv /\ [Next]_vars /\ ~Crash => HInv' /\ [Store!Next]_Store!rsVars
  <1> SUFFICES ASSUME HInv, [Next]_vars, ~Crash
               PROVE  HInv' /\ [Store!Next]_Store!rsVars
    OBVIOUS
  <1>1. phase \in {"open", "flushing"}
    BY DEF HInv, Open
  <1>2. ASSUME NEW row \in Rows, Put(row)
        PROVE  HInv' /\ [Store!Next]_Store!rsVars
    BY <1>2, PutKeeps DEF Store!Next
  <1>3. ASSUME NEW r \in LiveRids, Remove(r)
        PROVE  HInv' /\ [Store!Next]_Store!rsVars
    <2>1. r \in DOMAIN HeapOf(page)
      BY <1>3, RemoveKeeps DEF HeapOf
    <2>2. r \in DOMAIN (IF Open THEN Heap ELSE saved)
      BY <2>1, Seen
    <2> QED BY <1>3, <2>2, RemoveKeeps DEF Store!Next
  <1>4. ASSUME NEW r \in LiveRids, NEW row \in Rows, ModifyInPlace(r, row)
        PROVE  HInv' /\ [Store!Next]_Store!rsVars
    <2>1. r \in DOMAIN HeapOf(page)
      BY <1>4, ModifyInPlaceKeeps DEF HeapOf
    <2>2. r \in DOMAIN (IF Open THEN Heap ELSE saved)
      BY <2>1, Seen
    <2> QED BY <1>4, <2>2, ModifyInPlaceKeeps DEF Store!Next
  <1>5. ASSUME NEW r \in LiveRids, NEW row \in Rows, ModifyMoves(r, row)
        PROVE  HInv' /\ [Store!Next]_Store!rsVars
    <2>1. r \in DOMAIN HeapOf(page)
      BY <1>5, ModifyMovesKeeps DEF HeapOf
    <2>2. r \in DOMAIN (IF Open THEN Heap ELSE saved)
      BY <2>1, Seen
    <2> QED BY <1>5, <2>2, ModifyMovesKeeps DEF Store!Next
  <1>6. CASE Commit
    BY <1>6, CommitKeeps DEF Store!Next
  <1>7. CASE Flushed
    BY <1>7, WritingKeeps DEF Store!Next
  <1>8. CASE UNCHANGED vars
    <2>1. UNCHANGED <<page, numPages, list, scenario, stmts, saved, phase>>
      BY <1>8 DEF vars, heapVars, flowVars
    <2>2. HInv'
      BY <2>1 DEF HInv, Open
    <2> QED BY <2>1, <2>2, Seen, SeenNext DEF Store!rsVars
  <1>9. ASSUME NEW p \in PageIds, WritePage(p)
        PROVE  HInv' /\ [Store!Next]_Store!rsVars
    BY <1>9, WritingKeeps DEF Store!Next
  <1>10. ~Redo /\ ~RedoDone /\ ~UndoLoser /\ ~Recovered
    BY <1>1 DEF Redo, RedoDone, UndoLoser, Recovered
  <1> QED BY <1>2, <1>3, <1>4, <1>5, <1>6, <1>7, <1>8, <1>9, <1>10 DEF Next

----------------------------------------------------------------------------
(* The list of pages, whatever stops the program.                          *)

\* Pages of a file of n pages, each once.
Distinct(l, n) ==
    /\ l \in Seq(Nat)
    /\ \A i \in 1 .. Len(l) : l[i] < n
    /\ \A i, j \in 1 .. Len(l) : l[i] = l[j] => i = j

\* The record names no page that the file does not have.
Known(r, n) == r.type \in {"Insert", "Delete"} => r.rid[1] \in Nat /\ r.rid[1] < n
LogKnown(l, n) ==
    /\ \E S : l \in Seq(S)
    /\ \A i \in 1 .. Len(l) : Known(l[i], n)

\* The list is put back from the catalog, and recovery adds the pages of log
\* records to it.
ListInv ==
    /\ numPages \in Nat
    /\ Distinct(list, numPages) /\ Distinct(catalog, numPages)
    /\ LogKnown(log, numPages)
    /\ phase \in {"open", "flushing", "redo", "undo"}
    /\ phase = "redo" => at \in Nat \ {0}
    /\ phase = "undo" => at \in 0 .. Len(log)

LEMMA DistinctGrows ==
    ASSUME NEW l, NEW n \in Nat, NEW m \in Nat, n <= m, Distinct(l, n)
    PROVE  Distinct(l, m)
  <1>1. \A i \in 1 .. Len(l) : l[i] \in Nat
    BY DEF Distinct
  <1> QED BY <1>1 DEF Distinct

LEMMA DistinctAppend ==
    ASSUME NEW l, NEW n \in Nat, Distinct(l, n), NEW p \in Nat, p < n, p \notin Range(l)
    PROVE  Distinct(Append(l, p), n)
  <1>1. l \in Seq(Nat) /\ Len(l) \in Nat
    BY DEF Distinct
  <1>2. /\ Append(l, p) \in Seq(Nat) /\ Len(Append(l, p)) = Len(l) + 1
        /\ Append(l, p)[Len(l) + 1] = p
        /\ \A i \in 1 .. Len(l) : Append(l, p)[i] = l[i]
    BY <1>1
  <1>3. \A i \in 1 .. Len(l) : l[i] # p
    BY <1>1 DEF Range
  <1>4. \A i \in 1 .. Len(l) + 1 : i \in 1 .. Len(l) \/ i = Len(l) + 1
    BY <1>1
  <1>5. ASSUME NEW i \in 1 .. Len(l) + 1, NEW j \in 1 .. Len(l) + 1,
               Append(l, p)[i] = Append(l, p)[j]
        PROVE  i = j
    BY <1>2, <1>3, <1>4, <1>5 DEF Distinct
  <1>6. \A i \in 1 .. Len(l) + 1 : Append(l, p)[i] < n
    BY <1>2, <1>4 DEF Distinct
  <1> QED BY <1>2, <1>5, <1>6 DEF Distinct

LEMMA LogAppend ==
    ASSUME NEW l, NEW n \in Nat, NEW m \in Nat, n <= m, LogKnown(l, n), NEW r, Known(r, m)
    PROVE  LogKnown(Append(l, r), m)
  <1>1. PICK S : l \in Seq(S)
    BY DEF LogKnown
  <1>2. l \in Seq(S \cup {r})
    <2>1. Len(l) \in Nat /\ \A i \in 1 .. Len(l) : l[i] \in S \cup {r}
      BY <1>1
    <2> QED BY <1>1, <2>1
  <1>3. /\ Append(l, r) \in Seq(S \cup {r}) /\ Len(Append(l, r)) = Len(l) + 1 /\ Len(l) \in Nat
        /\ Append(l, r)[Len(l) + 1] = r
        /\ \A i \in 1 .. Len(l) : Append(l, r)[i] = l[i]
    BY <1>2
  <1>4. \A i \in 1 .. Len(l) : Known(l[i], m)
    BY DEF LogKnown, Known
  <1>5. \A i \in 1 .. Len(l) + 1 : i \in 1 .. Len(l) \/ i = Len(l) + 1
    BY <1>3
  <1>6. \A i \in 1 .. Len(Append(l, r)) : Known(Append(l, r)[i], m)
    BY <1>3, <1>4, <1>5
  <1> QED BY <1>3, <1>6 DEF LogKnown

\* MODIFY appends two records.
LEMMA LogAppendTwo ==
    ASSUME NEW l, NEW n \in Nat, NEW m \in Nat, n <= m, LogKnown(l, n),
           NEW r, Known(r, m), NEW s, Known(s, m)
    PROVE  LogKnown(l \o <<r, s>>, m)
  <1>1. LogKnown(Append(l, r), m)
    BY LogAppend
  <1>2. LogKnown(Append(Append(l, r), s), m)
    BY <1>1, LogAppend
  <1>3. PICK S : l \in Seq(S)
    BY DEF LogKnown
  <1>4. Append(Append(l, r), s) = l \o <<r, s>>
    <2> DEFINE T == S \cup {r, s}
    <2>1. l \in Seq(T) /\ r \in T /\ s \in T
      <3>1. Len(l) \in Nat /\ \A i \in 1 .. Len(l) : l[i] \in T
        BY <1>3
      <3> QED BY <1>3, <3>1
    <2> HIDE DEF T
    <2> QED BY <2>1
  <1> QED BY <1>2, <1>4

LEMMA LiveKnown ==
    ASSUME ListInv, NEW r \in LiveRids
    PROVE  r[1] \in Nat /\ r[1] < numPages
  BY DEF ListInv, Distinct, LiveRids, Range

\* What a statement's record says of the page it put a row into, and the list
\* insertTuple leaves.
LEMMA InsertedKnown ==
    ASSUME ListInv, NEW P, NEW hints, NEW row, InsertTuple(P, hints, row)
    PROVE  /\ numPages' \in Nat /\ numPages <= numPages' /\ Distinct(list', numPages')
           /\ NewRid(P, hints, row)[1] \in Nat /\ NewRid(P, hints, row)[1] < numPages'
  <1> DEFINE p == Target(P, hints, row)
             H == Hosts(P, hints, row)
  <1>1. /\ numPages \in Nat /\ Distinct(list, numPages) /\ list \in Seq(Nat) /\ Len(list) \in Nat
    BY DEF ListInv, Distinct
  <1>2. NewRid(P, hints, row)[1] = p
    BY DEF NewRid
  <1>3. CASE H # {}
    <2>1. numPages' = numPages /\ list' = list
      BY <1>3 DEF InsertTuple
    <2>2. H \in SUBSET (1 .. Len(list))
      BY DEF Hosts, Tried
    <2>3. \E i \in H : \A j \in H : j <= i
      <3> HIDE DEF H
      <3> QED BY <1>1, <1>3, <2>2, GreatestNumber
    <2>4. HostAt(P, hints, row) \in 1 .. Len(list)
      BY <2>2, <2>3 DEF HostAt
    <2>5. p = list[HostAt(P, hints, row)]
      BY <1>3 DEF Target
    <2> HIDE DEF p, H
    <2> QED BY <1>1, <1>2, <2>1, <2>4, <2>5 DEF Distinct
  <1>4. CASE H = {}
    <2>1. p = numPages /\ numPages' = numPages + 1 /\ list' = Append(list, numPages)
      BY <1>4 DEF InsertTuple, Target
    <2>2. numPages \notin Range(list)
      BY <1>1 DEF Distinct, Range
    <2>3. Distinct(list, numPages + 1)
      BY <1>1, DistinctGrows
    <2>4. Distinct(Append(list, numPages), numPages + 1)
      BY <1>1, <2>2, <2>3, DistinctAppend
    <2> HIDE DEF p, H
    <2> QED BY <1>1, <1>2, <2>1, <2>4
  <1> QED BY <1>3, <1>4

\* What a statement leaves.
LEMMA StatementListed ==
    ASSUME ListInv, Statement, numPages' \in Nat, numPages <= numPages',
           Distinct(list', numPages'), LogKnown(log', numPages')
    PROVE  ListInv'
  <1>1. phase' = "open" /\ catalog' = catalog
    BY DEF Statement, flowVars, fileVars
  <1>2. Distinct(catalog', numPages')
    BY <1>1, DistinctGrows DEF ListInv
  <1> QED BY <1>1, <1>2 DEF ListInv

\* redoInsert and undoDelete put the page of a record on the list.
LEMMA SetListed ==
    ASSUME ListInv, NEW r, NEW row, NEW lsn, SetAt(r, row, lsn), r[1] \in Nat, r[1] < numPages
    PROVE  Distinct(list', numPages)
  BY DistinctAppend DEF ListInv, SetAt, Listed

LEMMA ListInit == Init => ListInv
  <1> SUFFICES ASSUME Init PROVE ListInv
    OBVIOUS
  <1>1. numPages = 0 /\ list = << >> /\ catalog = << >> /\ log = << >> /\ phase = "open"
    BY DEF Init
  <1>2. << >> \in Seq(Nat) /\ Len(<< >>) = 0
    OBVIOUS
  <1>3. Distinct(<< >>, 0)
    BY <1>2 DEF Distinct
  <1>4. LogKnown(<< >>, 0)
    BY <1>2 DEF LogKnown
  <1> QED BY <1>1, <1>3, <1>4 DEF ListInv

LEMMA ListNext == ListInv /\ [Next]_vars => ListInv'
  <1> SUFFICES ASSUME ListInv, [Next]_vars PROVE ListInv'
    OBVIOUS
  <1>1. /\ numPages \in Nat /\ numPages <= numPages
        /\ Distinct(list, numPages) /\ Distinct(catalog, numPages) /\ LogKnown(log, numPages)
    BY DEF ListInv
  <1>2. ASSUME NEW row \in Rows, Put(row) PROVE ListInv'
    <2> DEFINE rec == Record("Insert", NewRid(page, hint, row), row)
    <2>1. Statement /\ InsertTuple(page, hint, row) /\ log' = Append(log, rec)
      BY <1>2 DEF Put
    <2>2. /\ numPages' \in Nat /\ numPages <= numPages' /\ Distinct(list', numPages')
          /\ NewRid(page, hint, row)[1] \in Nat /\ NewRid(page, hint, row)[1] < numPages'
      BY <2>1, InsertedKnown
    <2>3. Known(rec, numPages')
      BY <2>2 DEF Record, Known
    <2> HIDE DEF rec
    <2>4. LogKnown(log', numPages')
      BY <1>1, <2>1, <2>2, <2>3, LogAppend
    <2> QED BY <2>1, <2>2, <2>4, StatementListed
  <1>3. ASSUME NEW r \in LiveRids, Remove(r) PROVE ListInv'
    <2> DEFINE rec == Record("Delete", r, RowAt(r))
    <2>1. Statement /\ log' = Append(log, rec) /\ UNCHANGED <<numPages, list>>
      BY <1>3 DEF Remove
    <2>2. Known(rec, numPages)
      BY LiveKnown DEF Record, Known
    <2> HIDE DEF rec
    <2>3. LogKnown(log', numPages)
      BY <1>1, <2>1, <2>2, LogAppend
    <2> QED BY <1>1, <2>1, <2>3, StatementListed
  <1>4. ASSUME NEW r \in LiveRids, NEW row \in Rows, ModifyInPlace(r, row) PROVE ListInv'
    <2> DEFINE del == Record("Delete", r, RowAt(r))
               ins == [Record("Insert", r, row) EXCEPT !.lsn = Len(log) + 2]
    <2>1. Statement /\ log' = log \o <<del, ins>> /\ UNCHANGED <<numPages, list>>
      BY <1>4 DEF ModifyInPlace
    <2>2. Known(del, numPages) /\ Known(ins, numPages)
      BY LiveKnown DEF Record, Known
    <2> HIDE DEF del, ins
    <2>3. LogKnown(log', numPages)
      BY <1>1, <2>1, <2>2, LogAppendTwo
    <2> QED BY <1>1, <2>1, <2>3, StatementListed
  <1>5. ASSUME NEW r \in LiveRids, NEW row \in Rows, ModifyMoves(r, row) PROVE ListInv'
    <2> DEFINE P == ErasedAt(r)
               hints == HintErased(r)
               to == NewRid(P, hints, row)
               del == Record("Delete", r, RowAt(r))
               ins == [Record("Insert", to, row) EXCEPT !.lsn = Len(log) + 2]
    <2>1. Statement /\ InsertTuple(P, hints, row) /\ log' = log \o <<del, ins>>
      BY <1>5 DEF ModifyMoves, MovedRid
    <2> HIDE DEF P, hints
    <2>2. /\ numPages' \in Nat /\ numPages <= numPages' /\ Distinct(list', numPages')
          /\ to[1] \in Nat /\ to[1] < numPages'
      BY <2>1, InsertedKnown
    <2> HIDE DEF to
    <2>3. Known(del, numPages') /\ Known(ins, numPages')
      <3>1. r[1] \in Nat /\ r[1] < numPages'
        BY <1>1, <2>2, LiveKnown
      <3> QED BY <2>2, <3>1 DEF Record, Known
    <2> HIDE DEF del, ins
    <2>4. LogKnown(log', numPages')
      BY <1>1, <2>1, <2>2, <2>3, LogAppendTwo
    <2> QED BY <2>1, <2>2, <2>4, StatementListed
  <1>6. CASE Commit
    <2> DEFINE rec == Record("Commit", <<>>, Dead)
    <2>1. log' = Append(log, rec) /\ UNCHANGED <<numPages, list, catalog>> /\ phase' = "flushing"
      BY <1>6 DEF Commit, heapVars, fileVars
    <2>2. Known(rec, numPages)
      BY DEF Record, Known
    <2> HIDE DEF rec
    <2>3. LogKnown(log', numPages)
      BY <1>1, <2>1, <2>2, LogAppend
    <2> QED BY <1>1, <2>1, <2>3 DEF ListInv
  <1>7. ASSUME NEW p \in PageIds, WritePage(p) PROVE ListInv'
    BY <1>7 DEF WritePage, heapVars, flowVars, ListInv
  <1>8. CASE Flushed
    BY <1>8 DEF Flushed, heapVars, ListInv
  <1>9. CASE Crash
    BY <1>9 DEF Crash, fileVars, ListInv
  <1>10. CASE Redo
    <2> DEFINE r == log[at]
    <2>1. /\ UNCHANGED <<numPages, log, catalog, phase>> /\ at' = at + 1 /\ phase = "redo"
          /\ at \in 1 .. Len(log)
          /\ \/ r.type = "Insert" /\ SetAt(r.rid, r.row, r.lsn)
             \/ r.type = "Delete" /\ UNCHANGED list
             \/ UNCHANGED list
      <3>1. at \in Nat \ {0} /\ at <= Len(log) /\ Len(log) \in Nat
        BY <1>10 DEF Redo, ListInv, LogKnown
      <3> QED BY <1>10, <3>1 DEF Redo, Recovering, fileVars, ClearAt
    <2>2. Known(r, numPages)
      BY <1>1, <2>1 DEF LogKnown
    <2>3. Distinct(list', numPages)
      <3>1. CASE r.type = "Insert" /\ SetAt(r.rid, r.row, r.lsn)
        BY <2>2, <3>1, SetListed DEF Known
      <3>2. CASE UNCHANGED list
        BY <1>1, <3>2
      <3> HIDE DEF r
      <3> QED BY <2>1, <3>1, <3>2
    <2> HIDE DEF r
    <2> QED BY <1>1, <2>1, <2>3 DEF ListInv
  <1>11. CASE RedoDone
    <2>1. Len(log) \in Nat
      BY DEF ListInv, LogKnown
    <2> QED BY <1>11, <2>1 DEF RedoDone, Recovering, fileVars, ListInv
  <1>12. CASE UndoLoser
    <2> DEFINE r == log[at]
    <2>1. /\ UNCHANGED <<numPages, log, catalog, phase>> /\ at' = at - 1 /\ phase = "undo"
          /\ at \in 1 .. Len(log) /\ Len(log) \in Nat
          /\ \/ r.type = "Delete" /\ SetAt(r.rid, r.row, 0)
             \/ UNCHANGED list
      <3>1. at \in 1 .. Len(log) /\ Len(log) \in Nat
        BY <1>12 DEF UndoLoser, ListInv, LogKnown
      <3> QED BY <1>12, <3>1 DEF UndoLoser, Recovering, fileVars, ClearAt
    <2>2. Known(r, numPages)
      BY <1>1, <2>1 DEF LogKnown
    <2>3. Distinct(list', numPages)
      <3>1. CASE r.type = "Delete" /\ SetAt(r.rid, r.row, 0)
        BY <2>2, <3>1, SetListed DEF Known
      <3>2. CASE UNCHANGED list
        BY <1>1, <3>2
      <3> HIDE DEF r
      <3> QED BY <2>1, <3>1, <3>2
    <2> HIDE DEF r
    <2> QED BY <1>1, <2>1, <2>3 DEF ListInv
  <1>13. CASE Recovered
    <2>1. /\ log' = << >> /\ catalog' = list /\ phase' = "open"
          /\ UNCHANGED <<numPages, list>>
      BY <1>13 DEF Recovered, heapVars
    <2>2. << >> \in Seq(Nat) /\ Len(<< >>) = 0
      OBVIOUS
    <2>3. LogKnown(<< >>, numPages)
      BY <2>2 DEF LogKnown
    <2> QED BY <1>1, <2>1, <2>3 DEF ListInv
  <1>14. CASE UNCHANGED vars
    BY <1>14 DEF vars, heapVars, fileVars, flowVars, ListInv
  <1> QED BY <1>2, <1>3, <1>4, <1>5, <1>6, <1>7, <1>8, <1>9, <1>10, <1>11, <1>12, <1>13, <1>14
          DEF Next

\* No page is on the table's list twice (ScannedOnce), whatever is written,
\* wherever the program is stopped, and whatever recovery puts back: a scan
\* meets every row at most once.
THEOREM PagesListedOnce == Spec => []ScannedOnce
  <1>1. ListInv => ScannedOnce
    BY DEF ListInv, Distinct, ScannedOnce
  <1> QED BY <1>1, ListInit, ListNext, PTL DEF Spec

----------------------------------------------------------------------------
(* Pages in recovery: redoSet and clearSlot.                               *)

\* A record below all others: the last half of insert and redoSet.
LEMMA PlaceSound ==
    ASSUME NEW pg, Sound(pg), NEW s \in 1 .. Len(pg.slots) + 1, NEW row \in Rows,
           NEW n, n = (IF s > Len(pg.slots) THEN s ELSE Len(pg.slots)),
           HeaderSize + SlotSize * n <= pg.freeEnd - RowLen[row]
    PROVE  LET new == Place(pg, s, row)
           IN  /\ Sound(new) /\ Len(new.slots) = n /\ SameBut(pg, new, s)
               /\ IsLive(new, s) /\ new.slots[s] = SlotOf(row, pg.freeEnd - RowLen[row])
               /\ new.slots[s].row = row
               /\ \A i \in 1 .. n : i # s => i \in 1 .. Len(pg.slots) /\ new.slots[i] = pg.slots[i]
               /\ new.freeEnd = pg.freeEnd - RowLen[row] /\ new.lsn = pg.lsn
  <1> DEFINE m == Len(pg.slots)
             off == pg.freeEnd - RowLen[row]
             slots == [i \in 1 .. n |-> IF i = s THEN SlotOf(row, off) ELSE pg.slots[i]]
             new == Place(pg, s, row)
  <1>1. RowLen[row] \in Nat \ {0}
    BY PageAssumption
  <1>2. new = WithSlots(pg, slots, off)
    BY DEF Place
  <1>3. /\ pg \in PageRecord /\ m \in Nat /\ pg.freeEnd \in Int /\ pg.freeEnd <= PageSize
        /\ \A i \in 1 .. m : /\ pg.slots[i] \in Slot
                             /\ pg.slots[i].off \in Int /\ pg.slots[i].len \in Nat
    BY SlotTypes DEF Sound
  <1>4. n \in Nat /\ s \in 1 .. n /\ m <= n /\ \A i \in 1 .. n : i # s => i \in 1 .. m
    BY <1>3
  <1>5. off \in Int /\ off <= pg.freeEnd /\ off = pg.freeEnd - RowLen[row] /\ SlotOf(row, off) \in Slot
        /\ HeaderSize + SlotSize * n <= off
    BY <1>1, <1>3 DEF SlotOf, Slot
  <1> HIDE DEF new, off, m
  <1>6. slots \in [1 .. n -> Slot] /\ slots[s] = SlotOf(row, off)
        /\ \A i \in 1 .. n : i # s => slots[i] = pg.slots[i]
    BY <1>3, <1>4, <1>5
  <1> HIDE DEF slots
  <1>7. slots \in Seq(Slot) /\ Len(slots) = n
    BY <1>4, <1>6, SlotArray
  <1>8. new \in PageRecord /\ new.slots = slots /\ new.freeEnd = off /\ new.lsn = pg.lsn
    <2>1. /\ WithSlots(pg, slots, off) \in PageRecord
          /\ WithSlots(pg, slots, off).slots = slots
          /\ WithSlots(pg, slots, off).freeEnd = off
      <3>1. pg \in PageRecord /\ slots \in Seq(Slot) /\ off \in Int
        BY <1>3, <1>5, <1>7
      <3> QED BY <3>1, PageChanged
    <2>2. WithSlots(pg, slots, off).lsn = pg.lsn
      BY <1>3 DEF WithSlots, PageRecord
    <2> QED BY <1>2, <2>1, <2>2
  <1>9. SlotEnd(new) = HeaderSize + SlotSize * n
    BY <1>7, <1>8 DEF SlotEnd
  <1>10. /\ IsLive(new, s) /\ new.slots[s].row = row /\ new.slots[s].off = off
         /\ new.slots[s].len = RowLen[row] /\ End(new.slots[s]) = pg.freeEnd
    BY <1>1, <1>3, <1>4, <1>5, <1>6, <1>7, <1>8 DEF IsLive, SlotOf, End
  <1>11. \A i \in 1 .. n : i # s => new.slots[i] = pg.slots[i] /\ (IsLive(new, i) <=> IsLive(pg, i))
    BY <1>4, <1>6, <1>7, <1>8 DEF IsLive, m
  <1>12. ASSUME NEW i \in Live(new)
         PROVE  i = s \/ (i # s /\ i \in 1 .. m /\ i \in Live(pg) /\ new.slots[i] = pg.slots[i])
    <2>1. i \in 1 .. n /\ IsLive(new, i)
      BY <1>7, <1>8 DEF Live
    <2> QED BY <1>4, <1>11, <2>1 DEF Live, m
  <1>13. ASSUME NEW i \in Live(new)
         PROVE  /\ new.slots[i].row \in Rows /\ new.slots[i].len = RowLen[new.slots[i].row]
                /\ new.freeEnd <= new.slots[i].off /\ End(new.slots[i]) <= PageSize
    <2>1. CASE i = s
      BY <1>3, <1>5, <1>8, <1>10, <2>1, PageAssumption
    <2>2. CASE i # s
      <3>1. /\ pg.freeEnd <= pg.slots[i].off /\ pg.slots[i].off \in Int /\ new.slots[i] = pg.slots[i]
            /\ pg.slots[i].row \in Rows /\ pg.slots[i].len = RowLen[pg.slots[i].row]
            /\ End(pg.slots[i]) <= PageSize
        BY <1>3, <1>12, <2>2 DEF Sound
      <3>2. new.freeEnd <= new.slots[i].off
        BY <1>3, <1>5, <1>8, <3>1
      <3> QED BY <3>1, <3>2
    <2> QED BY <2>1, <2>2
  <1>14. ASSUME NEW i \in Live(new), NEW j \in Live(new), i < j
         PROVE  End(new.slots[i]) <= new.slots[j].off \/ End(new.slots[j]) <= new.slots[i].off
    <2>1. ASSUME NEW k \in Live(new), k # s
          PROVE  End(new.slots[s]) <= new.slots[k].off
      <3>1. pg.freeEnd <= pg.slots[k].off /\ new.slots[k] = pg.slots[k]
        BY <1>12, <2>1 DEF Sound
      <3> QED BY <1>10, <3>1
    <2>2. CASE i = s \/ j = s
      <3>1. i \in Nat /\ j \in Nat /\ i # j
        BY <1>14 DEF Live
      <3> QED BY <2>1, <2>2, <3>1
    <2>3. CASE i # s /\ j # s
      <3>1. i \in Live(pg) /\ j \in Live(pg) /\ new.slots[i] = pg.slots[i] /\ new.slots[j] = pg.slots[j]
        BY <1>12, <2>3
      <3> QED BY <1>14, <3>1 DEF Sound
    <2> QED BY <2>2, <2>3
  <1>15. Sound(new)
    <2>1. SlotEnd(new) <= new.freeEnd /\ new.freeEnd <= PageSize
      BY <1>3, <1>5, <1>8, <1>9, PageAssumption
    <2> QED BY <1>8, <1>13, <1>14, <2>1 DEF Sound
  <1>16. SameBut(pg, new, s)
    <2>1. ASSUME NEW i \in 1 .. n, i # s
          PROVE  /\ IsLive(new, i) <=> i <= m /\ IsLive(pg, i)
                 /\ IsLive(new, i) => new.slots[i].row = pg.slots[i].row
      BY <1>4, <1>11, <2>1
    <2> QED BY <1>4, <1>7, <1>8, <2>1 DEF SameBut, m
  <1>17. \A i \in 1 .. n : i # s => i \in 1 .. m /\ new.slots[i] = pg.slots[i]
    BY <1>4, <1>11
  <1> QED BY <1>5, <1>7, <1>8, <1>6, <1>10, <1>15, <1>16, <1>17 DEF new, off, m

\* compact leaves the page LSN alone.
LEMMA MadeRoomLsn ==
    ASSUME NEW pg \in PageRecord, NEW need
    PROVE  MadeRoom(pg, need).lsn = pg.lsn
  <1>1. \A slots, free : WithSlots(pg, slots, free).lsn = pg.lsn
    BY DEF WithSlots, PageRecord
  <1>2. Compact(pg).lsn = pg.lsn
    BY <1>1 DEF Compact
  <1> QED BY <1>2 DEF MadeRoom

\* The page LSN is all that stamping changes.
LEMMA StampedSound ==
    ASSUME NEW pg \in PageRecord, NEW lsn \in Nat
    PROVE  /\ Stamped(pg, lsn) \in PageRecord
           /\ Stamped(pg, lsn).slots = pg.slots /\ Stamped(pg, lsn).freeEnd = pg.freeEnd
           /\ Stamped(pg, lsn).lsn = (IF lsn = 0 THEN pg.lsn ELSE lsn)
           /\ Sound(pg) => Sound(Stamped(pg, lsn))
           /\ \A s : IsLive(Stamped(pg, lsn), s) <=> IsLive(pg, s)
  <1> DEFINE new == Stamped(pg, lsn)
  <1>1. pg \in [slots : Seq(Slot), freeEnd : Int, lsn : Nat]
    BY DEF PageRecord
  <1>2. new \in [slots : Seq(Slot), freeEnd : Int, lsn : Nat]
    BY <1>1 DEF Stamped
  <1>3. /\ new.slots = pg.slots /\ new.freeEnd = pg.freeEnd
        /\ new.lsn = (IF lsn = 0 THEN pg.lsn ELSE lsn)
    BY <1>1 DEF Stamped
  <1> HIDE DEF new
  <1>4. \A s : IsLive(new, s) <=> IsLive(pg, s)
    BY <1>3 DEF IsLive
  <1>5. Live(new) = Live(pg) /\ SlotEnd(new) = SlotEnd(pg)
    BY <1>3, <1>4 DEF Live, SlotEnd
  <1>6. Sound(pg) => Sound(new)
    BY <1>2, <1>3, <1>5 DEF Sound, PageRecord
  <1> QED BY <1>2, <1>3, <1>4, <1>6 DEF new, PageRecord

\* Recovery has changed slot s of a page and no other.
SlotRedone(pg, new, s, lsn) ==
    /\ Sound(new) /\ Len(new.slots) = Len(pg.slots) /\ SameBut(pg, new, s)
    /\ new.lsn = (IF lsn = 0 THEN pg.lsn ELSE lsn)

\* redoSet of a slot that the page has.
LEMMA RedoSetKeeps ==
    ASSUME NEW pg, Sound(pg), NEW s \in 1 .. Len(pg.slots), NEW row \in Rows, NEW lsn \in Nat,
           ~Redone(pg, lsn)
    PROVE  /\ Extended(pg, s) = pg
           /\ CanRedoSet(pg, s, row, lsn) <=> HoldsRow(pg, s, row) \/ Fits(pg, RowLen[row])
           /\ CanRedoSet(pg, s, row, lsn) =>
                LET new == RedoSet(pg, s, row, lsn)
                IN  /\ SlotRedone(pg, new, s, lsn)
                    /\ IsLive(new, s) /\ new.slots[s].row = row
                    /\ HoldsRow(pg, s, row) => new.slots = pg.slots /\ new.freeEnd = pg.freeEnd
  <1> DEFINE n == Len(pg.slots)
  <1>1. /\ pg \in PageRecord /\ n \in Nat /\ pg.slots \in Seq(Slot) /\ pg.freeEnd \in Int
        /\ RowLen[row] \in Nat \ {0} /\ SlotEnd(pg) \in Int
    BY SlotTypes, PageAssumption DEF Sound
  <1>2. Initialised(pg) = pg
    BY SoundPage
  <1>3. Extended(pg, s) = pg
    <2> DEFINE last == IF s > Len(pg.slots) THEN s ELSE Len(pg.slots)
               f == [i \in 1 .. last |->
                       IF i > Len(pg.slots) THEN DeadSlot
                       ELSE IF last > Len(pg.slots) /\ IsLive(pg, i)
                               /\ pg.slots[i].off < HeaderSize + SlotSize * last
                            THEN [pg.slots[i] EXCEPT !.row = Torn]
                       ELSE pg.slots[i]]
    <2>1. last = n
      BY <1>1
    <2>2. \A i \in 1 .. n : ~(i > n)
      BY <1>1
    <2>3. ~(n > n)
      BY <1>1
    <2>4. f = [i \in 1 .. n |-> pg.slots[i]]
      BY <2>1, <2>2, <2>3
    <2>5. f = pg.slots
      BY <1>1, <2>4
    <2>6. Extended(pg, s) = WithSlots(pg, f, pg.freeEnd)
      BY DEF Extended
    <2> HIDE DEF f
    <2>7. WithSlots(pg, pg.slots, pg.freeEnd) = pg
      BY <1>1 DEF WithSlots, PageRecord
    <2> QED BY <2>5, <2>6, <2>7
  <1>4. CanRedoSet(pg, s, row, lsn) <=> HoldsRow(pg, s, row) \/ Fits(pg, RowLen[row])
    BY <1>2, <1>3 DEF CanRedoSet
  <1>5. CASE HoldsRow(pg, s, row)
    <2>1. RedoSet(pg, s, row, lsn) = Stamped(pg, lsn)
      BY <1>2, <1>5 DEF RedoSet
    <2> DEFINE new == Stamped(pg, lsn)
    <2>2. /\ Sound(new) /\ new.slots = pg.slots /\ new.freeEnd = pg.freeEnd
          /\ new.lsn = (IF lsn = 0 THEN pg.lsn ELSE lsn)
          /\ \A i : IsLive(new, i) <=> IsLive(pg, i)
      BY <1>1, StampedSound
    <2> HIDE DEF new
    <2>3. SlotRedone(pg, new, s, lsn)
      <3>1. \A i \in 1 .. n : i <= n
        BY <1>1
      <3> QED BY <1>1, <2>2, <3>1 DEF SlotRedone, SameBut
    <2>4. IsLive(new, s) /\ new.slots[s].row = row
      BY <1>5, <2>2 DEF HoldsRow
    <2>5. RedoSet(pg, s, row, lsn) = new
      BY <2>1 DEF new
    <2> QED BY <1>3, <1>4, <2>2, <2>3, <2>4, <2>5
  <1>6. CASE ~HoldsRow(pg, s, row) /\ Fits(pg, RowLen[row])
    <2> DEFINE room == MadeRoom(pg, RowLen[row])
               new == Place(room, s, row)
    <2>1. RedoSet(pg, s, row, lsn) = Stamped(new, lsn)
      BY <1>2, <1>3, <1>6 DEF RedoSet
    <2>2. /\ Sound(room) /\ SameBut(pg, room, 0) /\ Len(room.slots) = n
          /\ FreeSpace(room) >= RowLen[row] /\ room.lsn = pg.lsn
      BY <1>1, <1>6, MadeRoomSound, MadeRoomLsn
    <2> HIDE DEF room
    <2>3. HeaderSize + SlotSize * n <= room.freeEnd - RowLen[row]
      <3>1. room.freeEnd \in Int /\ SlotEnd(room) \in Int /\ SlotEnd(room) = HeaderSize + SlotSize * n
        BY <2>2, SlotTypes DEF Sound, SlotEnd
      <3>2. room.freeEnd - SlotEnd(room) >= RowLen[row]
        BY <2>2 DEF FreeSpace
      <3> QED BY <1>1, <3>1, <3>2
    <2>4. /\ Sound(new) /\ Len(new.slots) = n /\ SameBut(room, new, s)
          /\ IsLive(new, s) /\ new.slots[s].row = row /\ new.lsn = pg.lsn
      <3>1. s \in 1 .. Len(room.slots) + 1 /\ n = (IF s > Len(room.slots) THEN s ELSE Len(room.slots))
        BY <1>1, <2>2
      <3> HIDE DEF n
      <3> QED BY <2>2, <2>3, <3>1, PlaceSound
    <2> HIDE DEF new
    <2>5. SameBut(pg, Stamped(new, lsn), s)
      <3>1. new \in PageRecord
        BY <2>4 DEF Sound
      <3>2. ASSUME NEW i \in 1 .. n, i # s
            PROVE  /\ IsLive(Stamped(new, lsn), i) <=> i <= n /\ IsLive(pg, i)
                   /\ IsLive(Stamped(new, lsn), i) => Stamped(new, lsn).slots[i].row = pg.slots[i].row
        <4>1. i # 0 /\ i <= n
          BY <1>1
        <4>2. IsLive(new, i) <=> IsLive(room, i)
          BY <2>2, <2>4, <3>2, <4>1 DEF SameBut
        <4>3. IsLive(room, i) <=> IsLive(pg, i)
          BY <2>2, <4>1 DEF SameBut
        <4>4. IsLive(new, i) => new.slots[i].row = room.slots[i].row
          BY <2>4, <3>2 DEF SameBut
        <4>5. IsLive(room, i) => room.slots[i].row = pg.slots[i].row
          BY <2>2, <4>1 DEF SameBut
        <4> QED BY <3>1, <4>1, <4>2, <4>3, <4>4, <4>5, StampedSound
      <3>3. Len(Stamped(new, lsn).slots) = n
        BY <2>4, <3>1, StampedSound
      <3> QED BY <1>1, <3>2, <3>3 DEF SameBut
    <2>6. new \in PageRecord
      BY <2>4 DEF Sound
    <2> DEFINE after == Stamped(new, lsn)
    <2>7. /\ Sound(after) /\ Len(after.slots) = n
          /\ after.lsn = (IF lsn = 0 THEN pg.lsn ELSE lsn)
          /\ IsLive(after, s) /\ after.slots[s].row = row
      BY <2>4, <2>6, StampedSound
    <2>8. RedoSet(pg, s, row, lsn) = after
      BY <2>1
    <2> HIDE DEF after
    <2>9. SlotRedone(pg, after, s, lsn)
      BY <2>5, <2>7 DEF SlotRedone, after
    <2> QED BY <1>3, <1>4, <1>6, <2>7, <2>8, <2>9
  <1>7. CASE ~HoldsRow(pg, s, row) /\ ~Fits(pg, RowLen[row])
    BY <1>3, <1>4, <1>7
  <1> QED BY <1>5, <1>6, <1>7

\* redoClear of any slot: one that the page does not have is not there after.
LEMMA RedoClearKeeps ==
    ASSUME NEW pg, Sound(pg), NEW s \in Nat \ {0}, NEW lsn \in Nat, ~Redone(pg, lsn)
    PROVE  LET new == RedoClear(pg, s, lsn)
           IN  SlotRedone(pg, new, s, lsn) /\ ~IsLive(new, s)
  <1> DEFINE n == Len(pg.slots)
             cleared == IF s <= n THEN Erase(pg, s) ELSE pg
  <1>1. pg \in PageRecord /\ n \in Nat /\ Initialised(pg) = pg
    BY SoundPage, SlotTypes DEF Sound
  <1>2. RedoClear(pg, s, lsn) = Stamped(cleared, lsn)
    BY <1>1 DEF RedoClear
  <1>3. /\ Sound(cleared) /\ Len(cleared.slots) = n /\ ~IsLive(cleared, s) /\ SameBut(pg, cleared, s)
        /\ cleared.lsn = pg.lsn
    <2>1. CASE s <= n
      <3>1. s \in 1 .. n
        BY <1>1, <2>1
      <3>2. Erase(pg, s).lsn = pg.lsn
        BY <1>1 DEF Erase, WithSlots, PageRecord
      <3> QED BY <2>1, <3>1, <3>2, EraseSound
    <2>2. CASE ~(s <= n)
      BY <1>1, <2>2 DEF SameBut, IsLive
    <2> QED BY <2>1, <2>2
  <1> HIDE DEF cleared
  <1>4. cleared \in PageRecord
    BY <1>3 DEF Sound
  <1> DEFINE new == Stamped(cleared, lsn)
  <1>5. /\ Sound(new) /\ new.slots = cleared.slots
        /\ new.lsn = (IF lsn = 0 THEN pg.lsn ELSE lsn)
        /\ \A i : IsLive(new, i) <=> IsLive(cleared, i)
    BY <1>3, <1>4, StampedSound
  <1> HIDE DEF new
  <1>6. SlotRedone(pg, new, s, lsn) /\ ~IsLive(new, s)
    BY <1>3, <1>5 DEF SlotRedone, SameBut
  <1> QED BY <1>2, <1>6 DEF new

----------------------------------------------------------------------------
(* Pages into which rows were only put, and the room there is in them.     *)

\* A page into which rows were only put: each record is right below the one in
\* the slot before, and the slots end above the last.
Bottom(q, k) == IF k = 0 THEN PageSize ELSE q.slots[k].off
Stacked(q) ==
    /\ q \in PageRecord
    /\ \A s \in 1 .. Len(q.slots) :
          /\ q.slots[s].row \in Rows /\ q.slots[s].len = RowLen[q.slots[s].row]
          /\ q.slots[s].off = Bottom(q, s - 1) - q.slots[s].len
    /\ q.freeEnd = Bottom(q, Len(q.slots))
    /\ SlotEnd(q) <= q.freeEnd

\* The page as it was when it had fewer rows.
Prefix(pg, q) ==
    /\ Len(pg.slots) <= Len(q.slots)
    /\ \A s \in 1 .. Len(pg.slots) : pg.slots[s] = q.slots[s]
    /\ pg.freeEnd = Bottom(q, Len(pg.slots))

\* The bytes of such a page.
LEMMA StackedOrder ==
    ASSUME NEW q, Stacked(q)
    PROVE  /\ Len(q.slots) \in Nat /\ SlotEnd(q) \in Int
           /\ \A s \in 0 .. Len(q.slots) : Bottom(q, s) \in Int /\ Bottom(q, s) <= PageSize
                                           /\ SlotEnd(q) <= Bottom(q, s)
           /\ \A s, t \in 0 .. Len(q.slots) : s <= t => Bottom(q, t) <= Bottom(q, s)
           /\ \A s \in 1 .. Len(q.slots) : /\ q.slots[s] \in Slot /\ q.slots[s].len \in Nat \ {0}
                                           /\ IsLive(q, s) /\ q.slots[s].off = Bottom(q, s)
                                           /\ End(q.slots[s]) = Bottom(q, s - 1)
                                           /\ Bottom(q, s) = Bottom(q, s - 1) - q.slots[s].len
  <1> DEFINE n == Len(q.slots)
             B(s) == Bottom(q, s)
             bad == {t \in 0 .. n : \/ B(t) \notin Int
                                    \/ \E s \in 0 .. t : ~(B(t) <= B(s))}
  <1>1. /\ n \in Nat /\ q.freeEnd \in Int /\ SlotEnd(q) \in Int
        /\ \A s \in 1 .. n : q.slots[s] \in Slot /\ q.slots[s].off \in Int
    BY SlotTypes DEF Stacked
  <1>2. \A s \in 1 .. n : q.slots[s].len \in Nat \ {0} /\ IsLive(q, s) /\ q.slots[s].off = B(s)
    BY <1>1, PageAssumption DEF Stacked, IsLive, Bottom
  <1>3. /\ B(0) = PageSize /\ \A s \in 0 .. n : B(s) \in Int
    BY <1>1, PageAssumption DEF Bottom
  <1>4. \A s \in 1 .. n : s - 1 \in 0 .. n /\ s \in 0 .. n /\ B(s) = B(s - 1) - q.slots[s].len
    BY <1>1, <1>2 DEF Stacked
  <1>5. \A s \in 1 .. n : End(q.slots[s]) = B(s - 1)
    <2> SUFFICES ASSUME NEW s \in 1 .. n PROVE End(q.slots[s]) = B(s - 1)
      OBVIOUS
    <2>1. /\ q.slots[s].off = B(s) /\ B(s) = B(s - 1) - q.slots[s].len
          /\ B(s) \in Int /\ B(s - 1) \in Int /\ q.slots[s].len \in Nat
      BY <1>2, <1>3, <1>4
    <2> HIDE DEF B
    <2> QED BY <2>1 DEF End
  <1>6. B(n) = q.freeEnd
    BY DEF Stacked
  <1> HIDE DEF B, n
  <1>7. ASSUME bad # {} PROVE FALSE
    <2>1. bad \in SUBSET Nat
      BY <1>1
    <2>2. PICK t \in bad : \A k \in bad : t <= k
      <3> HIDE DEF bad
      <3> QED BY <1>7, <2>1, LeastNumber
    <2>3. t \in 0 .. n /\ B(t) \in Int
      BY <1>3, <2>2
    <2>4. PICK s \in 0 .. t : ~(B(t) <= B(s))
      BY <2>2, <2>3
    <2>5. s # t
      BY <2>3, <2>4
    <2>6. t \in 1 .. n /\ s \in 0 .. t - 1 /\ ~(t <= t - 1) /\ t - 1 \in 0 .. n
      BY <1>1, <2>3, <2>4, <2>5
    <2>7. t - 1 \notin bad
      <3> HIDE DEF bad
      <3> QED BY <2>2, <2>6
    <2>8. B(t - 1) <= B(s) /\ B(s) \in Int /\ B(t - 1) \in Int
      BY <1>1, <1>3, <2>6, <2>7
    <2>9. B(t) = B(t - 1) - q.slots[t].len /\ q.slots[t].len \in Nat
      BY <1>2, <1>4, <2>6
    <2> QED BY <2>3, <2>4, <2>8, <2>9
  <1>8. \A s, t \in 0 .. n : s <= t => B(t) <= B(s)
    <2>1. ASSUME NEW s \in 0 .. n, NEW t \in 0 .. n, s <= t PROVE B(t) <= B(s)
      <3>1. s \in 0 .. t /\ t \notin bad
        BY <1>1, <1>7, <2>1
      <3> QED BY <3>1
    <2> QED BY <2>1
  <1>9. \A s \in 0 .. n : B(s) <= PageSize /\ SlotEnd(q) <= B(s)
    <2>1. 0 \in 0 .. n /\ n \in 0 .. n /\ \A s \in 0 .. n : 0 <= s /\ s <= n
      BY <1>1
    <2>2. \A s \in 0 .. n : B(s) <= PageSize /\ B(n) <= B(s)
      BY <1>3, <1>8, <2>1
    <2>3. SlotEnd(q) <= B(n)
      BY <1>6 DEF Stacked
    <2> QED BY <1>1, <1>3, <2>1, <2>2, <2>3
  <1> QED BY <1>1, <1>2, <1>3, <1>4, <1>5, <1>8, <1>9 DEF B, n

\* A page with the first rows of a stacked page is a sound page.
LEMMA PrefixSound ==
    ASSUME NEW q, Stacked(q), NEW pg \in PageRecord, Prefix(pg, q)
    PROVE  Sound(pg) /\ SlotEnd(pg) <= SlotEnd(q)
  <1> DEFINE n == Len(q.slots)
             k == Len(pg.slots)
  <1>1. /\ n \in Nat /\ k \in Nat /\ k <= n /\ SlotEnd(pg) \in Int /\ pg.freeEnd \in Int
        /\ k \in 0 .. n /\ \A s \in 1 .. k : s \in 1 .. n /\ s \in 0 .. n /\ s - 1 \in 0 .. n /\ s <= k
    BY StackedOrder, SlotTypes DEF Prefix
  <1>2. SlotEnd(pg) <= SlotEnd(q)
    <2>1. SlotSize * k <= SlotSize * n /\ SlotSize * k \in Int /\ SlotSize * n \in Int
      BY <1>1, PageAssumption
    <2> QED BY <2>1, PageAssumption DEF SlotEnd
  <1>3. pg.freeEnd = Bottom(q, k) /\ SlotEnd(pg) <= pg.freeEnd /\ pg.freeEnd <= PageSize
    <2>1. pg.freeEnd = Bottom(q, k) /\ SlotEnd(q) <= Bottom(q, k) /\ Bottom(q, k) <= PageSize
          /\ SlotEnd(q) \in Int
      BY <1>1, StackedOrder DEF Prefix
    <2> QED BY <1>1, <1>2, <2>1
  <1>4. ASSUME NEW s \in Live(pg)
        PROVE  /\ s \in 1 .. k /\ pg.slots[s] = q.slots[s] /\ s \in 1 .. n
    BY <1>1 DEF Live, Prefix
  <1>5. ASSUME NEW s \in Live(pg)
        PROVE  /\ pg.slots[s].row \in Rows /\ pg.slots[s].len = RowLen[pg.slots[s].row]
               /\ pg.freeEnd <= pg.slots[s].off /\ End(pg.slots[s]) <= PageSize
    <2>1. s \in 0 .. n /\ s - 1 \in 0 .. n /\ k \in 0 .. n /\ s <= k
      BY <1>1, <1>4
    <2>2. Bottom(q, k) <= Bottom(q, s) /\ Bottom(q, s - 1) <= PageSize
      BY <2>1, StackedOrder
    <2>3. q.slots[s].off = Bottom(q, s) /\ End(q.slots[s]) = Bottom(q, s - 1)
      BY <1>4, StackedOrder
    <2>4. pg.slots[s].row \in Rows /\ pg.slots[s].len = RowLen[pg.slots[s].row]
      BY <1>4 DEF Stacked
    <2> QED BY <1>3, <1>4, <2>2, <2>3, <2>4
  <1>6. ASSUME NEW s \in Live(pg), NEW t \in Live(pg), s < t
        PROVE  End(pg.slots[t]) <= pg.slots[s].off
    <2>1. s \in 0 .. n /\ t - 1 \in 0 .. n /\ s <= t - 1
      BY <1>1, <1>4, <1>6
    <2>2. Bottom(q, t - 1) <= Bottom(q, s)
      BY <2>1, StackedOrder
    <2>3. q.slots[s].off = Bottom(q, s) /\ End(q.slots[t]) = Bottom(q, t - 1)
      BY <1>4, StackedOrder
    <2> QED BY <1>4, <2>2, <2>3
  <1> QED BY <1>2, <1>3, <1>5, <1>6 DEF Sound

\* A stacked page has no holes.
LEMMA StackedFull ==
    ASSUME NEW q, Stacked(q)
    PROVE  UsableSpace(q) = FreeSpace(q)
  <1> DEFINE n == Len(q.slots)
             bad == {t \in 0 .. n : BytesUpTo(q, t) # PageSize - Bottom(q, t)}
  <1>1. n \in Nat /\ q \in PageRecord
    BY StackedOrder DEF Stacked
  <1>2. /\ BytesUpTo(q, 0) = 0
        /\ \A s \in 1 .. n : BytesUpTo(q, s) = BytesUpTo(q, s - 1) + q.slots[s].len
    BY <1>1, Bytes
  <1> HIDE DEF n
  <1>3. ASSUME bad # {} PROVE FALSE
    <2>1. bad \in SUBSET Nat
      BY <1>1
    <2>2. PICK t \in bad : \A k \in bad : t <= k
      <3> HIDE DEF bad
      <3> QED BY <1>3, <2>1, LeastNumber
    <2>3. t \in 0 .. n /\ BytesUpTo(q, t) # PageSize - Bottom(q, t)
      BY <2>2
    <2>4. t # 0
      BY <1>2, <2>3, PageAssumption DEF Bottom
    <2>5. t \in 1 .. n /\ t - 1 \in 0 .. n /\ ~(t <= t - 1)
      BY <1>1, <2>3, <2>4
    <2>6. t - 1 \notin bad
      <3> HIDE DEF bad
      <3> QED BY <2>2, <2>5
    <2>7. BytesUpTo(q, t - 1) = PageSize - Bottom(q, t - 1)
      BY <2>5, <2>6
    <2>8. /\ Bottom(q, t) = Bottom(q, t - 1) - q.slots[t].len
          /\ Bottom(q, t - 1) \in Int /\ q.slots[t].len \in Nat
      BY <2>5, StackedOrder DEF n
    <2> QED BY <1>2, <2>3, <2>5, <2>7, <2>8, PageAssumption
  <1>4. n \in 0 .. n
    BY <1>1
  <1>5. BytesUpTo(q, n) = PageSize - q.freeEnd
    BY <1>3, <1>4 DEF n, Stacked
  <1>6. q.freeEnd \in Int /\ SlotEnd(q) \in Int
    BY <1>1, SlotTypes
  <1> QED BY <1>5, <1>6, PageAssumption DEF UsableSpace, FreeSpace, n

\* A page with the same slots and no longer records has room for a row that was
\* once in slot s, if that is free.
LEMMA RoomAgain ==
    ASSUME NEW q, Stacked(q), NEW pg \in PageRecord, Len(pg.slots) = Len(q.slots),
           \A i \in 1 .. Len(q.slots) : pg.slots[i].len <= q.slots[i].len,
           NEW s \in 1 .. Len(q.slots), pg.slots[s].len = 0,
           NEW need \in Nat, need <= q.slots[s].len
    PROVE  Fits(pg, need)
  <1> DEFINE n == Len(q.slots)
             spare(t) == IF s <= t THEN need ELSE 0
             bad == {t \in 0 .. n : ~(BytesUpTo(pg, t) + spare(t) <= PageSize - Bottom(q, t))}
  <1>1. n \in Nat
    BY StackedOrder
  <1>2. /\ BytesUpTo(pg, 0) = 0
        /\ \A i \in 1 .. n : BytesUpTo(pg, i) = BytesUpTo(pg, i - 1) + pg.slots[i].len
        /\ \A i \in 0 .. n : BytesUpTo(pg, i) \in Nat
    BY Bytes, BytesOrder
  <1>3. \A i \in 1 .. n : pg.slots[i].len \in Nat
    BY SlotTypes
  <1>4. /\ \A i \in 1 .. n : /\ pg.slots[i].len <= q.slots[i].len /\ q.slots[i].len \in Nat
                             /\ Bottom(q, i) = Bottom(q, i - 1) - q.slots[i].len
        /\ \A i \in 0 .. n : Bottom(q, i) \in Int
        /\ Bottom(q, 0) = PageSize
    BY StackedOrder DEF Bottom
  <1>5. s \in 1 .. n /\ pg.slots[s].len = 0 /\ need <= q.slots[s].len /\ need \in Nat
    OBVIOUS
  <1> HIDE DEF n
  <1>6. ASSUME bad # {} PROVE FALSE
    <2>1. bad \in SUBSET Nat
      BY <1>1
    <2>2. PICK t \in bad : \A k \in bad : t <= k
      <3> HIDE DEF bad
      <3> QED BY <1>6, <2>1, LeastNumber
    <2>3. t \in 0 .. n /\ ~(BytesUpTo(pg, t) + spare(t) <= PageSize - Bottom(q, t))
      BY <2>2
    <2>4. t # 0
      BY <1>2, <1>4, <1>5, <2>3, PageAssumption
    <2>5. t \in 1 .. n /\ t - 1 \in 0 .. n /\ ~(t <= t - 1)
      BY <1>1, <2>3, <2>4
    <2>6. t - 1 \notin bad
      <3> HIDE DEF bad
      <3> QED BY <2>2, <2>5
    <2>7. BytesUpTo(pg, t - 1) + spare(t - 1) <= PageSize - Bottom(q, t - 1)
      BY <2>5, <2>6
    <2>8. /\ BytesUpTo(pg, t) = BytesUpTo(pg, t - 1) + pg.slots[t].len
          /\ pg.slots[t].len \in Nat /\ BytesUpTo(pg, t - 1) \in Nat
          /\ Bottom(q, t) = Bottom(q, t - 1) - q.slots[t].len
          /\ pg.slots[t].len <= q.slots[t].len /\ q.slots[t].len \in Nat
          /\ Bottom(q, t - 1) \in Int
      BY <1>2, <1>3, <1>4, <2>5
    <2> HIDE DEF bad
    <2>9. spare(t) \in Nat /\ spare(t - 1) \in Nat
          /\ pg.slots[t].len + spare(t) <= q.slots[t].len + spare(t - 1)
      <3>1. CASE t = s
        <4>1. spare(t) = need /\ spare(t - 1) = 0
          BY <1>5, <2>5, <3>1
        <4>2. pg.slots[t].len = 0 /\ need <= q.slots[t].len
          BY <1>5, <3>1
        <4> HIDE DEF spare
        <4> QED BY <1>5, <2>8, <4>1, <4>2
      <3>2. CASE t # s
        <4>1. spare(t) = spare(t - 1) /\ spare(t) \in Nat
          BY <1>5, <2>5, <3>2
        <4>2. pg.slots[t].len \in Nat /\ q.slots[t].len \in Nat /\ pg.slots[t].len <= q.slots[t].len
          BY <2>8
        <4> HIDE DEF spare
        <4>3. pg.slots[t].len + spare(t) <= q.slots[t].len + spare(t)
          BY <4>1, <4>2
        <4> QED BY <4>1, <4>3
      <3> QED BY <3>1, <3>2
    <2> HIDE DEF spare
    <2>10. ASSUME NEW used \in Int, NEW len \in Int, NEW was \in Int, NEW low \in Int,
                  NEW size \in Int, NEW before \in Int, NEW after \in Int,
                  used + before <= size - low, len + after <= was + before
           PROVE  (used + len) + after <= size - (low - was)
      BY <2>10
    <2>11. (BytesUpTo(pg, t - 1) + pg.slots[t].len) + spare(t)
              <= PageSize - (Bottom(q, t - 1) - q.slots[t].len)
      <3>1. /\ BytesUpTo(pg, t - 1) \in Int /\ pg.slots[t].len \in Int /\ q.slots[t].len \in Int
            /\ Bottom(q, t - 1) \in Int /\ PageSize \in Int /\ spare(t - 1) \in Int /\ spare(t) \in Int
        BY <2>8, <2>9, PageAssumption
      <3> QED BY <2>7, <2>9, <2>10, <3>1
    <2> QED BY <2>3, <2>8, <2>11
  <1>7. n \in 0 .. n /\ s <= n
    BY <1>1, <1>5
  <1>8. BytesUpTo(pg, n) + need <= PageSize - Bottom(q, n)
    BY <1>6, <1>7
  <1>9. SlotEnd(pg) = SlotEnd(q) /\ SlotEnd(q) <= Bottom(q, n) /\ SlotEnd(pg) \in Int
    BY <1>7, StackedOrder, SlotTypes DEF n, SlotEnd
  <1>10. UsableSpace(pg) >= need
    <2>1. UsableSpace(pg) = PageSize - SlotEnd(pg) - BytesUpTo(pg, n)
      BY DEF UsableSpace, n
    <2> QED BY <1>2, <1>4, <1>5, <1>7, <1>8, <1>9, <2>1, PageAssumption
  <1> QED BY <1>10 DEF Fits

\* A record for the slot that has just been made.
LEMMA PlaceLast ==
    ASSUME NEW pg, Sound(pg), NEW row \in Rows, NEW s \in Nat \ {0}, s = Len(pg.slots),
           HeaderSize + SlotSize * s <= pg.freeEnd - RowLen[row]
    PROVE  LET new == Place(pg, s, row)
           IN  /\ Sound(new) /\ Len(new.slots) = s /\ IsLive(new, s)
               /\ new.slots[s] = SlotOf(row, pg.freeEnd - RowLen[row]) /\ new.slots[s].row = row
               /\ \A i \in 1 .. s : i # s => new.slots[i] = pg.slots[i]
               /\ new.freeEnd = pg.freeEnd - RowLen[row] /\ new.lsn = pg.lsn
  <1>1. s \in 1 .. Len(pg.slots) + 1 /\ s = (IF s > Len(pg.slots) THEN s ELSE Len(pg.slots))
    OBVIOUS
  <1> QED BY <1>1, PlaceSound

\* insert on a stacked page: no compaction, and the page stays stacked.
LEMMA StackedInsert ==
    ASSUME NEW q, Stacked(q), NEW row \in Rows, CanInsert(q, row)
    PROVE  LET new == Insert(q, row)
               n == Len(q.slots)
           IN  /\ Stacked(new) /\ Len(new.slots) = n + 1 /\ new.lsn = q.lsn
               /\ new.slots[n + 1].row = row /\ new.slots[n + 1].len = RowLen[row]
               /\ \A i \in 1 .. n : new.slots[i] = q.slots[i]
               /\ \A k \in 0 .. n : Bottom(new, k) = Bottom(q, k)
  <1> DEFINE n == Len(q.slots)
             new == Insert(q, row)
  <1>1. q \in PageRecord /\ n \in Nat /\ Prefix(q, q) /\ q.freeEnd = Bottom(q, n)
    BY StackedOrder DEF Stacked, Prefix
  <1>2. Sound(q) /\ q.freeEnd \in Int /\ SlotEnd(q) \in Int
    BY <1>1, PrefixSound, SlotTypes
  <1>3. RowLen[row] \in Nat \ {0} /\ SlotSize \in Nat /\ HeaderSize \in Nat
    BY PageAssumption
  <1>4. FreeSpace(q) >= RowLen[row] + SlotSize
    BY StackedFull DEF CanInsert, Fits
  <1>5. MadeRoom(q, RowLen[row] + SlotSize) = q
    <2>1. ~(FreeSpace(q) < RowLen[row] + SlotSize)
      <3>1. FreeSpace(q) \in Int
        BY <1>2 DEF FreeSpace
      <3> QED BY <1>3, <1>4, <3>1
    <2> QED BY <2>1 DEF MadeRoom
  <1>6. new = Place(q, n + 1, row)
    BY <1>5 DEF Insert, InsertSlot
  <1>7. HeaderSize + SlotSize * (n + 1) <= q.freeEnd - RowLen[row]
    <2>1. SlotEnd(q) = HeaderSize + SlotSize * n /\ SlotSize * n \in Int
          /\ SlotSize * (n + 1) = SlotSize * n + SlotSize
      BY <1>1, <1>3 DEF SlotEnd
    <2>2. q.freeEnd - SlotEnd(q) >= RowLen[row] + SlotSize
      BY <1>4 DEF FreeSpace
    <2> QED BY <1>2, <1>3, <2>1, <2>2
  <1>8. /\ Sound(new) /\ Len(new.slots) = n + 1
        /\ new.slots[n + 1] = SlotOf(row, q.freeEnd - RowLen[row])
        /\ \A i \in 1 .. n + 1 : i # n + 1 => i \in 1 .. n /\ new.slots[i] = q.slots[i]
        /\ new.freeEnd = q.freeEnd - RowLen[row] /\ new.lsn = q.lsn
    <2>1. n + 1 \in 1 .. n + 1 /\ n + 1 = (IF n + 1 > n THEN n + 1 ELSE n)
      BY <1>1
    <2> HIDE DEF new
    <2>2. n + 1 \in 1 .. Len(q.slots) + 1
          /\ n + 1 = (IF n + 1 > Len(q.slots) THEN n + 1 ELSE Len(q.slots))
      BY <2>1
    <2>3. HeaderSize + SlotSize * (n + 1) <= q.freeEnd - RowLen[row]
      BY <1>7
    <2> HIDE DEF n
    <2> QED BY <1>2, <1>6, <2>2, <2>3, PlaceSound DEF n
  <1> HIDE DEF new
  <1>9. \A i \in 1 .. n : i \in 1 .. n + 1 /\ i # n + 1 /\ new.slots[i] = q.slots[i]
    BY <1>1, <1>8
  <1>10. \A k \in 0 .. n : Bottom(new, k) = Bottom(q, k)
    <2>1. \A k \in 0 .. n : k = 0 \/ k \in 1 .. n
      BY <1>1
    <2> QED BY <1>9, <2>1 DEF Bottom
  <1>11. /\ new.slots[n + 1].row = row /\ new.slots[n + 1].len = RowLen[row]
         /\ new.slots[n + 1].off = q.freeEnd - RowLen[row]
    BY <1>8 DEF SlotOf
  <1>12. n + 1 # 0 /\ (n + 1) - 1 = n /\ n \in 0 .. n
    BY <1>1
  <1>13. Bottom(new, n + 1) = new.freeEnd
    BY <1>8, <1>11, <1>12 DEF Bottom
  <1>14. Stacked(new)
    <2>1. ASSUME NEW s \in 1 .. n + 1
          PROVE  /\ new.slots[s].row \in Rows /\ new.slots[s].len = RowLen[new.slots[s].row]
                 /\ new.slots[s].off = Bottom(new, s - 1) - new.slots[s].len
      <3>1. CASE s = n + 1
        BY <1>1, <1>10, <1>11, <1>12, <3>1
      <3>2. CASE s # n + 1
        <4>1. s \in 1 .. n /\ s - 1 \in 0 .. n /\ new.slots[s] = q.slots[s]
          BY <1>1, <1>8, <3>2
        <4>2. /\ q.slots[s].row \in Rows /\ q.slots[s].len = RowLen[q.slots[s].row]
              /\ q.slots[s].off = Bottom(q, s - 1) - q.slots[s].len
          BY <4>1 DEF Stacked
        <4> QED BY <1>10, <4>1, <4>2
      <3> QED BY <3>1, <3>2
    <2>2. new \in PageRecord /\ SlotEnd(new) <= new.freeEnd
      BY <1>8 DEF Sound
    <2> QED BY <1>8, <1>13, <2>1, <2>2 DEF Stacked
  <1> QED BY <1>8, <1>9, <1>10, <1>11, <1>14 DEF new, n

\* A new page.
LEMMA EmptyStacked == Stacked(EmptyPage) /\ Prefix(EmptyPage, EmptyPage)
  <1>1. Sound(EmptyPage) /\ Len(EmptyPage.slots) = 0 /\ EmptyPage.freeEnd = PageSize
    BY EmptyPageSound DEF EmptyPage
  <1>2. 1 .. 0 = {}
    OBVIOUS
  <1> QED BY <1>1, <1>2 DEF Stacked, Prefix, Bottom, Sound

\* redoSet and redoClear start from the page that init makes of zeros.
LEMMA Restarted ==
    ASSUME NEW pg, pg = ZeroPage \/ Sound(pg)
    PROVE  /\ Sound(Initialised(pg)) /\ Initialised(pg).slots = pg.slots
           /\ Initialised(pg).lsn = pg.lsn
           /\ pg # ZeroPage => Initialised(pg) = pg
           /\ pg = ZeroPage => Initialised(pg) = EmptyPage
           /\ \A s, row, lsn :
                 /\ CanRedoSet(pg, s, row, lsn) <=> CanRedoSet(Initialised(pg), s, row, lsn)
                 /\ RedoSet(pg, s, row, lsn) = RedoSet(Initialised(pg), s, row, lsn)
                 /\ RedoClear(pg, s, lsn) = RedoClear(Initialised(pg), s, lsn)
  <1>1. Initialised(EmptyPage) = EmptyPage
    BY EmptyPageSound, SoundPage
  <1>2. Initialised(ZeroPage) = EmptyPage /\ ZeroPage.slots = EmptyPage.slots /\ ZeroPage.lsn = EmptyPage.lsn
    <2>1. ZeroPage.freeEnd = 0 /\ 0 < HeaderSize /\ ZeroPage.lsn = EmptyPage.lsn
      BY PageAssumption DEF ZeroPage, EmptyPage
    <2> QED BY <2>1, ZeroPageIs DEF Initialised
  <1>3. CASE pg = ZeroPage
    BY <1>1, <1>2, <1>3, EmptyPageSound DEF CanRedoSet, RedoSet, RedoClear
  <1>4. CASE pg # ZeroPage
    <2>1. Sound(pg) /\ Initialised(pg) = pg
      BY <1>4, SoundPage
    <2> QED BY <1>4, <2>1
  <1> QED BY <1>3, <1>4

\* redoSet of the next row of a page that has the first rows of q.
LEMMA PrefixGrows ==
    ASSUME NEW q, Stacked(q), NEW pg \in PageRecord, Prefix(pg, q),
           NEW s \in 1 .. Len(q.slots), s = Len(pg.slots) + 1, NEW row, row = q.slots[s].row,
           NEW lsn \in Nat, ~Redone(pg, lsn)
    PROVE  /\ CanRedoSet(pg, s, row, lsn)
           /\ LET new == RedoSet(pg, s, row, lsn)
              IN  /\ Sound(new) /\ Prefix(new, q) /\ Len(new.slots) = s /\ SameBut(pg, new, s)
                  /\ IsLive(new, s) /\ new.slots[s].row = row
                  /\ new.lsn = (IF lsn = 0 THEN pg.lsn ELSE lsn)
  <1> DEFINE k == Len(pg.slots)
             n == Len(q.slots)
             ext == Extended(pg, s)
             slots == [i \in 1 .. s |-> IF i > k THEN DeadSlot ELSE pg.slots[i]]
  <1>1. /\ Sound(pg) /\ k \in Nat /\ n \in Nat /\ s = k + 1 /\ s \in 1 .. n /\ pg.freeEnd \in Int
        /\ SlotEnd(q) \in Int
    BY PrefixSound, StackedOrder, SlotTypes
  <1>2. Initialised(pg) = pg
    BY <1>1, SoundPage
  <1>3. ~HoldsRow(pg, s, row)
    BY <1>1 DEF HoldsRow, IsLive
  <1>4. /\ row \in Rows /\ RowLen[row] \in Nat \ {0} /\ q.slots[s].len = RowLen[row]
        /\ Bottom(q, s) = Bottom(q, k) - RowLen[row] /\ Bottom(q, k) \in Int
        /\ SlotEnd(q) <= Bottom(q, s) /\ pg.freeEnd = Bottom(q, k)
    <2>1. s - 1 = k /\ k \in 0 .. n /\ s \in 0 .. n
      BY <1>1
    <2> QED BY <2>1, StackedOrder, PageAssumption DEF Stacked, Prefix
  <1>5. HeaderSize + SlotSize * s <= SlotEnd(q) /\ HeaderSize + SlotSize * s \in Int
    <2>1. s \in Nat /\ n \in Nat /\ s <= n /\ SlotSize \in Nat /\ HeaderSize \in Nat
      BY <1>1, PageAssumption
    <2>2. SlotEnd(q) = HeaderSize + SlotSize * n
      BY DEF SlotEnd
    <2> HIDE DEF n
    <2>3. SlotSize * s <= SlotSize * n /\ SlotSize * s \in Int /\ SlotSize * n \in Int
      BY <2>1
    <2> QED BY <2>1, <2>2, <2>3
  <1>6. HeaderSize + SlotSize * s <= pg.freeEnd - RowLen[row]
    BY <1>1, <1>4, <1>5
  <1>7. ext = WithSlots(pg, slots, pg.freeEnd)
    <2> DEFINE last == IF s > Len(pg.slots) THEN s ELSE Len(pg.slots)
               end == HeaderSize + SlotSize * last
               over(i) == last > Len(pg.slots) /\ IsLive(pg, i) /\ pg.slots[i].off < end
               f == [i \in 1 .. last |->
                       IF i > Len(pg.slots) THEN DeadSlot
                       ELSE IF over(i) THEN [pg.slots[i] EXCEPT !.row = Torn]
                       ELSE pg.slots[i]]
    <2>1. last = s
      BY <1>1
    <2>2. ASSUME NEW i \in 1 .. k, IsLive(pg, i) PROVE ~(pg.slots[i].off < HeaderSize + SlotSize * s)
      <3>1. i \in Live(pg)
        BY <2>2 DEF Live
      <3>2. pg.freeEnd <= pg.slots[i].off /\ pg.slots[i].off \in Int
        BY <1>1, <2>2, <3>1, SlotTypes DEF Sound
      <3> DEFINE e == HeaderSize + SlotSize * s
      <3>3. e \in Int /\ e <= pg.freeEnd - RowLen[row] /\ RowLen[row] \in Nat
        BY <1>4, <1>5, <1>6
      <3> HIDE DEF e
      <3>4. \A a, b, c \in Int, d \in Nat : a <= b - d /\ b <= c => ~(c < a)
        OBVIOUS
      <3>5. ~(pg.slots[i].off < e)
        <4>1. pg.freeEnd \in Int
          BY <1>1
        <4> QED BY <3>2, <3>3, <3>4, <4>1
      <3> QED BY <3>5 DEF e
    <2>3. \A i \in 1 .. s : ~(i > k) => ~over(i)
      <3>1. \A i \in 1 .. s : ~(i > k) => i \in 1 .. k
        BY <1>1
      <3> QED BY <2>1, <2>2, <3>1
    <2>4. ext = WithSlots(pg, f, pg.freeEnd)
      BY DEF Extended
    <2>5. f = slots
      <3> HIDE DEF over
      <3> QED BY <2>1, <2>3
    <2> QED BY <2>4, <2>5
  <1>8. slots \in Seq(Slot) /\ Len(slots) = s
    <2>1. DeadSlot \in Slot
      BY DEF DeadSlot, Slot
    <2>2. slots \in [1 .. s -> Slot]
      <3>1. \A i \in 1 .. s : ~(i > k) => i \in 1 .. k
        BY <1>1
      <3> QED BY <2>1, <3>1, SlotTypes
    <2> HIDE DEF slots
    <2> QED BY <1>1, <2>2, SlotArray
  <1>9. \A i \in 1 .. k : i \in 1 .. s /\ slots[i] = pg.slots[i]
    BY <1>1
  <1>10. slots[s] = DeadSlot
    BY <1>1
  <1> HIDE DEF slots, ext
  <1>11. /\ ext \in PageRecord /\ ext.slots = slots /\ ext.freeEnd = pg.freeEnd /\ ext.lsn = pg.lsn
    <2>1. WithSlots(pg, slots, pg.freeEnd).lsn = pg.lsn
      BY DEF WithSlots, PageRecord
    <2> QED BY <1>1, <1>7, <1>8, <2>1, PageChanged
  <1>12. \A i \in 1 .. s : i = s \/ i \in 1 .. k
    BY <1>1
  <1>13. ~IsLive(ext, s) /\ \A i \in 1 .. k : IsLive(ext, i) <=> IsLive(pg, i)
    BY <1>8, <1>9, <1>10, <1>11 DEF IsLive, DeadSlot
  <1>14. Live(ext) = Live(pg) /\ \A i \in Live(ext) : i \in 1 .. k /\ ext.slots[i] = pg.slots[i]
    <2>1. \A i : i \in Live(ext) => i \in 1 .. k
      BY <1>8, <1>11, <1>12, <1>13 DEF Live
    <2>2. \A i \in 1 .. k : i \in Live(ext) <=> i \in Live(pg)
      BY <1>8, <1>9, <1>11, <1>13 DEF Live
    <2>3. \A i : i \in Live(pg) => i \in 1 .. k
      BY DEF Live
    <2> QED BY <1>9, <1>11, <2>1, <2>2, <2>3
  <1>15. SlotEnd(ext) = HeaderSize + SlotSize * s
    BY <1>8, <1>11 DEF SlotEnd
  <1>16. Sound(ext)
    <2>1. SlotEnd(ext) <= ext.freeEnd /\ ext.freeEnd <= PageSize
      <3>1. pg.freeEnd <= PageSize
        BY <1>1 DEF Sound
      <3> QED BY <1>1, <1>4, <1>5, <1>6, <1>11, <1>15, <3>1
    <2> QED BY <1>1, <1>11, <1>14, <2>1 DEF Sound
  <1>17. FreeSpace(ext) >= RowLen[row] /\ ~(FreeSpace(ext) < RowLen[row])
    BY <1>1, <1>4, <1>5, <1>6, <1>11, <1>15 DEF FreeSpace
  <1>18. CanRedoSet(pg, s, row, lsn)
    BY <1>2, <1>17 DEF CanRedoSet, Fits, ext
  <1> DEFINE put == Place(ext, s, row)
  <1>19. RedoSet(pg, s, row, lsn) = Stamped(put, lsn)
    <2>1. MadeRoom(ext, RowLen[row]) = ext
      BY <1>17 DEF MadeRoom
    <2> QED BY <1>2, <1>3, <2>1 DEF RedoSet, ext
  <1>20. /\ Sound(put) /\ Len(put.slots) = s
         /\ IsLive(put, s) /\ put.slots[s] = SlotOf(row, pg.freeEnd - RowLen[row])
         /\ put.slots[s].row = row
         /\ \A i \in 1 .. s : i # s => put.slots[i] = ext.slots[i]
         /\ put.freeEnd = pg.freeEnd - RowLen[row] /\ put.lsn = pg.lsn
    <2>1. /\ s \in 1 .. Len(ext.slots) + 1 /\ s = (IF s > Len(ext.slots) THEN s ELSE Len(ext.slots))
          /\ HeaderSize + SlotSize * s <= ext.freeEnd - RowLen[row]
      BY <1>1, <1>6, <1>8, <1>11
    <2> HIDE DEF put
    <2>2. /\ Sound(Place(ext, s, row)) /\ Len(Place(ext, s, row).slots) = s
          /\ IsLive(Place(ext, s, row), s)
          /\ Place(ext, s, row).slots[s] = SlotOf(row, ext.freeEnd - RowLen[row])
          /\ Place(ext, s, row).slots[s].row = row
          /\ \A i \in 1 .. s : i # s => Place(ext, s, row).slots[i] = ext.slots[i]
          /\ Place(ext, s, row).freeEnd = ext.freeEnd - RowLen[row] /\ Place(ext, s, row).lsn = ext.lsn
      <3>1. row \in Rows /\ Sound(ext) /\ s \in Nat \ {0} /\ s = Len(ext.slots)
        BY <1>1, <1>4, <1>8, <1>11, <1>16
      <3>2. HeaderSize + SlotSize * s <= ext.freeEnd - RowLen[row]
        BY <2>1
      <3>3. \A x \in Rows : HeaderSize + SlotSize * s <= ext.freeEnd - RowLen[x] =>
              LET new == Place(ext, s, x)
              IN  /\ Sound(new) /\ Len(new.slots) = s /\ IsLive(new, s)
                  /\ new.slots[s] = SlotOf(x, ext.freeEnd - RowLen[x]) /\ new.slots[s].row = x
                  /\ \A i \in 1 .. s : i # s => new.slots[i] = ext.slots[i]
                  /\ new.freeEnd = ext.freeEnd - RowLen[x] /\ new.lsn = ext.lsn
        BY <3>1, PlaceLast
      <3> QED BY <3>1, <3>2, <3>3
    <2> QED BY <1>11, <2>2 DEF put
  <1> HIDE DEF put
  <1>21. \A i \in 1 .. k : i \in 1 .. s /\ i # s /\ put.slots[i] = pg.slots[i]
    BY <1>1, <1>9, <1>11, <1>20
  <1> DEFINE new == Stamped(put, lsn)
  <1>22. /\ Sound(new) /\ new.slots = put.slots /\ new.freeEnd = put.freeEnd
         /\ new.lsn = (IF lsn = 0 THEN pg.lsn ELSE lsn)
         /\ \A i : IsLive(new, i) <=> IsLive(put, i)
    <2>1. put \in PageRecord
      BY <1>20 DEF Sound
    <2> QED BY <1>20, <2>1, StampedSound
  <1> HIDE DEF new
  <1>23. Prefix(new, q)
    <2>1. put.slots[s] = q.slots[s]
      <3>1. q.slots[s] \in Slot /\ q.slots[s].off = Bottom(q, s)
        BY StackedOrder
      <3>2. q.slots[s] = [off |-> q.slots[s].off, len |-> q.slots[s].len, row |-> q.slots[s].row]
        BY <3>1 DEF Slot
      <3> QED BY <1>4, <1>20, <3>1, <3>2 DEF SlotOf
    <2>2. \A i \in 1 .. s : put.slots[i] = q.slots[i]
      BY <1>12, <1>21, <2>1 DEF Prefix
    <2>3. put.freeEnd = Bottom(q, s)
      BY <1>4, <1>20
    <2> QED BY <1>1, <1>20, <1>22, <2>2, <2>3 DEF Prefix
  <1>24. SameBut(pg, new, s)
    <2>1. ASSUME NEW i \in 1 .. s, i # s
          PROVE  /\ IsLive(new, i) <=> i <= k /\ IsLive(pg, i)
                 /\ IsLive(new, i) => new.slots[i].row = pg.slots[i].row
      <3>1. i \in 1 .. k /\ i <= k
        BY <1>1, <2>1
      <3>2. IsLive(put, i) <=> IsLive(pg, i)
        BY <1>20, <1>21, <3>1 DEF IsLive
      <3> QED BY <1>21, <1>22, <3>1, <3>2
    <2>2. Len(new.slots) = s /\ k <= s
      BY <1>1, <1>20, <1>22
    <2> QED BY <2>1, <2>2 DEF SameBut
  <1> QED BY <1>18, <1>19, <1>20, <1>22, <1>23, <1>24 DEF new

----------------------------------------------------------------------------
(* A stop and the recovery, for a workload that uses no bytes again.       *)

\* Log records about a row, and those that gave it its id.
IsOf(l, i, r) == i \in 1 .. Len(l) /\ l[i].type \in {"Insert", "Delete"} /\ l[i].rid = r
Puts(l, i, r) == IsOf(l, i, r) /\ l[i].type = "Insert"
Takes(l, i, r) == IsOf(l, i, r) /\ l[i].type = "Delete"
Births(l, i, r) == Puts(l, i, r) /\ \A j \in 1 .. i - 1 : ~IsOf(l, j, r)

Clean(l) == \A i \in 1 .. Len(l) : l[i].type # "Delete"

LogRecord == [lsn : Nat, txn : Nat, type : {"Insert", "Delete", "Commit"},
              rid : Rid \cup {<<>>}, row : Rows \cup {Dead}]

\* The log when t is the number of the next or current transaction: records
\* are numbered, those of t are the last, and all others are committed.
Numbered(l, t) ==
    /\ l \in Seq(LogRecord) /\ t \in Nat
    /\ \A i \in 1 .. Len(l) :
          /\ l[i].lsn = i /\ l[i].txn <= t
          /\ l[i].type = "Commit" => l[i].txn # t
          /\ l[i].txn # t => \E j \in 1 .. Len(l) : l[j].type = "Commit" /\ l[j].txn = l[i].txn
          /\ l[i].txn = t => \A j \in i .. Len(l) : l[j].txn = t

\* A row is taken after it was put, and put again only by the statement that
\* took it; all rows are there and committed before the first is taken.
Changes(l, t, n) ==
    \A r \in Rid, i \in 1 .. Len(l) :
        /\ IsOf(l, i, r) => r[1] < n /\ l[i].row \in Rows
        /\ Takes(l, i, r) =>
              \E j \in 1 .. i - 1 : /\ Puts(l, j, r) /\ l[j].row = l[i].row
                                    /\ \A k \in j + 1 .. i - 1 : ~IsOf(l, k, r)
        /\ Puts(l, i, r) => \/ Births(l, i, r)
                            \/ i > 1 /\ Takes(l, i - 1, r) /\ l[i - 1].txn = l[i].txn
        /\ Births(l, i, r) =>
              \A d \in 1 .. Len(l) : l[d].type = "Delete" => i < d /\ l[i].txn # t

Typed(l) == \A i \in 1 .. Len(l) : l[i].type # "Commit" => l[i].rid \in Rid
LogWell(l, t, n) == Numbered(l, t) /\ Typed(l) /\ Changes(l, t, n)

\* Q has every page as it was when the last row had been put into it: no later
\* row of a slot is longer than the first.
Room(Q, l) ==
    /\ \A p \in PageIds : Stacked(Q[p])
    /\ \A r \in Rid, i \in 1 .. Len(l) : Puts(l, i, r) =>
          LET q == Q[r[1]]
          IN  /\ r[2] <= Len(q.slots) /\ RowLen[l[i].row] <= q.slots[r[2]].len
              /\ Births(l, i, r) => /\ l[i].row = q.slots[r[2]].row
                                    /\ \A s \in 1 .. r[2] - 1 :
                                          \E j \in 1 .. i - 1 : Births(l, j, <<r[1], s>>)
    /\ \A p \in PageIds : \A s \in 1 .. Len(Q[p].slots) :
          \E i \in 1 .. Len(l) : Births(l, i, <<p, s>>)

\* What a page in the file can be: never used, or as it was after some of the
\* rows were put, or as it was when all were.
Former(pg, q, l) ==
    pg = ZeroPage \/ (Sound(pg) /\ (Prefix(pg, q) \/ (~Clean(l) /\ Len(pg.slots) = Len(q.slots))))

Logged(pg, p, l) ==
    \A s \in Live(pg) : \E i \in 1 .. Len(l) : Puts(l, i, <<p, s>>) /\ l[i].row = pg.slots[s].row

FileWell(P, Q, l, n) ==
    /\ P \in [PageIds -> PageRecord]
    /\ \A p \in PageIds : /\ Former(P[p], Q[p], l) /\ Logged(P[p], p, l)
                          /\ P[p].lsn = 0 /\ (P[p] = ZeroPage \/ p < n)

\* The rows of the last commit, from the log.
LastSaved(l, t, i, r) ==
    /\ IsOf(l, i, r) /\ l[i].txn # t
    /\ \A j \in i + 1 .. Len(l) : IsOf(l, j, r) => l[j].txn = t
SavedRows(l, t, sv) ==
    /\ sv = [r \in DOMAIN sv |-> sv[r]]
    /\ \A r \in DOMAIN sv : r \in Rid /\ \E i \in 1 .. Len(l) : IsOf(l, i, r) /\ l[i].txn # t
    /\ \A r \in Rid, i \in 1 .. Len(l) : LastSaved(l, t, i, r) =>
          /\ r \in DOMAIN sv <=> l[i].type = "Insert"
          /\ r \in DOMAIN sv => sv[r] = l[i].row

\* The pages as the program sees them, from the log.
Holds(P, r, row) == r \in LiveOf(P) /\ RowIn(P, r) = row
Memory(l, P, Q) ==
    /\ \A r \in Rid, i \in 1 .. Len(l) :
          IsOf(l, i, r) /\ (\A j \in i + 1 .. Len(l) : ~IsOf(l, j, r)) =>
              IF l[i].type = "Insert" THEN Holds(P, r, l[i].row) ELSE r \notin LiveOf(P)
    /\ \A p \in PageIds : /\ Len(P[p].slots) = Len(Q[p].slots)
                          /\ Clean(l) => P[p] = ZeroPage \/ Prefix(P[p], Q[p])

\* While the program runs.
Holding(Q, l, t, n, sv, P, D) ==
    /\ LogWell(l, t, n) /\ Room(Q, l) /\ SavedRows(l, t, sv)
    /\ FileWell(P, Q, l, n) /\ FileWell(D, Q, l, n) /\ Memory(l, P, Q)
Running(Q) ==
    /\ Holding(Q, log, txn, numPages, saved, page, disk)
    /\ Listing(catalog, numPages) /\ Range(catalog) \subseteq Range(list)
    /\ \A p \in Range(catalog) : disk[p] # ZeroPage

----------------------------------------------------------------------------
(* Recovery.                                                               *)

\* Redo has come to record a: the row of the last record before it, if that is
\* committed, is as the record says, or some later record will put it.
Redoing(Q, l, t, a, P, li) ==
    /\ a \in 1 .. Len(l) + 1
    /\ \A p \in PageIds : Former(P[p], Q[p], l) /\ P[p].lsn < a
    /\ \A r \in Rid, i \in 1 .. a - 1 : IsOf(l, i, r) /\ l[i].txn # t =>
          /\ r[2] <= Len(P[r[1]].slots) /\ r[1] \in Range(li)
          /\ (\A j \in i + 1 .. a - 1 : IsOf(l, j, r) => l[j].txn = t) =>
                IF l[i].type = "Delete" THEN r \notin LiveOf(P)
                ELSE Holds(P, r, l[i].row) \/ \E j \in i + 1 .. Len(l) : Puts(l, j, r)

\* Undo has come to record a: rows of records beyond it that are not committed
\* are as they were before the first of these, and the others as committed.
Undoing(Q, l, t, a, P, li) ==
    /\ a \in 0 .. Len(l)
    /\ ~Clean(l) => \A p \in PageIds : Len(P[p].slots) = Len(Q[p].slots)
    /\ \A r \in Rid, i \in 1 .. Len(l) :
          /\ IsOf(l, i, r) /\ l[i].txn # t => r[1] \in Range(li)
          /\ LastSaved(l, t, i, r) /\ (\A j \in i + 1 .. Len(l) : IsOf(l, j, r) => j <= a) =>
                IF l[i].type = "Delete" THEN r \notin LiveOf(P)
                ELSE Holds(P, r, l[i].row) \/ \E j \in i + 1 .. Len(l) : Puts(l, j, r)
          /\ /\ IsOf(l, i, r) /\ l[i].txn = t /\ i > a
             /\ \A j \in a + 1 .. i - 1 : IsOf(l, j, r) => l[j].txn # t
             => IF l[i].type = "Insert" THEN r \notin LiveOf(P)
                ELSE Holds(P, r, l[i].row) \/ \E j \in 1 .. i - 1 : Puts(l, j, r) /\ l[j].txn = t

\* The pages while recovery works on them, li being the list of the table.
PagesWell(Q, l, n, P, li, k) ==
    /\ P \in [PageIds -> PageRecord]
    /\ \A p \in PageIds : /\ P[p] = ZeroPage \/ (Sound(P[p]) /\ p < n)
                          /\ Logged(P[p], p, l)
                          /\ Len(P[p].slots) <= Len(Q[p].slots) /\ Len(Q[p].slots) <= k
    /\ Listing(li, n) /\ \A p \in Range(li) : P[p] # ZeroPage

InRecovery(Q) ==
    /\ LogWell(log, txn, numPages) /\ Room(Q, log) /\ SavedRows(log, txn, saved)
    /\ PagesWell(Q, log, numPages, page, list, stmts)
    /\ scenario \in Scenario /\ ~scenario.crash
    /\ stmts \in 0 .. scenario.stmts /\ numPages \in 0 .. MaxPages
    /\ \/ phase = "redo" /\ Redoing(Q, log, txn, at, page, list)
       \/ phase = "undo" /\ Undoing(Q, log, txn, at, page, list)

Safe ==
    /\ scenario.crash => ~scenario.reuse
    /\ IF Open THEN HInv /\ (Careful => \E Q : Running(Q)) ELSE \E Q : InRecovery(Q)

----------------------------------------------------------------------------
(* The log, record by record.                                              *)

\* What is known of a record.
LEMMA LogTypes ==
    ASSUME NEW l, NEW t, NEW n, LogWell(l, t, n)
    PROVE  /\ l \in Seq(LogRecord) /\ Len(l) \in Nat /\ t \in Nat
           /\ \A i \in 1 .. Len(l) :
                 /\ l[i] \in LogRecord /\ l[i].lsn = i /\ l[i].txn \in Nat /\ l[i].txn <= t
                 /\ l[i].type \in {"Insert", "Delete", "Commit"}
                 /\ l[i].type # "Commit" => IsOf(l, i, l[i].rid) /\ l[i].rid \in Rid
           /\ \A i, r : IsOf(l, i, r) => /\ r \in Rid /\ i \in 1 .. Len(l) /\ l[i].rid = r
                                         /\ r[1] < n /\ l[i].row \in Rows
                                         /\ l[i].type \in {"Insert", "Delete"}
  <1>1. l \in Seq(LogRecord) /\ t \in Nat
    BY DEF LogWell, Numbered
  <1>2. Len(l) \in Nat /\ \A i \in 1 .. Len(l) : l[i] \in LogRecord
    BY <1>1
  <1>3. \A i \in 1 .. Len(l) : l[i].txn \in Nat /\ l[i].type \in {"Insert", "Delete", "Commit"}
    BY <1>2 DEF LogRecord
  <1>4. \A i \in 1 .. Len(l) : l[i].lsn = i /\ l[i].txn <= t
    BY DEF LogWell, Numbered
  <1>5. \A i \in 1 .. Len(l) : l[i].type # "Commit" => IsOf(l, i, l[i].rid) /\ l[i].rid \in Rid
    BY <1>3 DEF LogWell, Typed, IsOf
  <1>6. \A i, r : IsOf(l, i, r) => /\ r \in Rid /\ i \in 1 .. Len(l) /\ l[i].rid = r
                                   /\ l[i].type \in {"Insert", "Delete"}
    BY <1>5 DEF IsOf
  <1>7. \A i, r : IsOf(l, i, r) => r[1] < n /\ l[i].row \in Rows
    BY <1>6 DEF LogWell, Changes
  <1> QED BY <1>1, <1>2, <1>3, <1>4, <1>5, <1>6, <1>7

\* A row's record id.
LEMMA RidIs ==
    ASSUME NEW r \in Rid
    PROVE  r[1] \in PageIds /\ r[2] \in 1 .. MaxStmts /\ r = <<r[1], r[2]>>
  BY DEF Rid

\* A record is appended.
LEMMA LogPlus ==
    ASSUME NEW l \in Seq(LogRecord), NEW rec \in LogRecord
    PROVE  LET l2 == Append(l, rec)
           IN  /\ l2 \in Seq(LogRecord) /\ Len(l) \in Nat /\ Len(l2) = Len(l) + 1
               /\ l2[Len(l) + 1] = rec
               /\ \A i \in 1 .. Len(l) : i \in 1 .. Len(l2) /\ l2[i] = l[i]
               /\ \A i \in 1 .. Len(l2) : i \in 1 .. Len(l) \/ i = Len(l) + 1
               /\ \A i \in 1 .. Len(l) : \A r : /\ IsOf(l2, i, r) <=> IsOf(l, i, r)
                                                /\ Puts(l2, i, r) <=> Puts(l, i, r)
                                                /\ Takes(l2, i, r) <=> Takes(l, i, r)
                                                /\ Births(l2, i, r) <=> Births(l, i, r)
               /\ \A r : /\ IsOf(l2, Len(l) + 1, r) <=>
                                rec.type \in {"Insert", "Delete"} /\ rec.rid = r
                         /\ Puts(l2, Len(l) + 1, r) <=> rec.type = "Insert" /\ rec.rid = r
                         /\ Takes(l2, Len(l) + 1, r) <=> rec.type = "Delete" /\ rec.rid = r
                         /\ Births(l2, Len(l) + 1, r) <=>
                                /\ rec.type = "Insert" /\ rec.rid = r
                                /\ \A j \in 1 .. Len(l) : ~IsOf(l, j, r)
               /\ Clean(l2) <=> Clean(l) /\ rec.type # "Delete"
  <1> DEFINE l2 == Append(l, rec)
             n == Len(l)
  <1>1. /\ l2 \in Seq(LogRecord) /\ n \in Nat /\ Len(l2) = n + 1 /\ l2[n + 1] = rec
        /\ \A i \in 1 .. n : l2[i] = l[i]
    OBVIOUS
  <1> HIDE DEF l2, n
  <1>2. /\ \A i \in 1 .. n : i \in 1 .. n + 1
        /\ \A i \in 1 .. n + 1 : i \in 1 .. n \/ i = n + 1
        /\ n + 1 \in 1 .. n + 1 /\ (n + 1) - 1 = n
    BY <1>1
  <1>3. \A i \in 1 .. n : \A r : IsOf(l2, i, r) <=> IsOf(l, i, r)
    BY <1>1, <1>2 DEF IsOf, n
  <1>4. \A r : IsOf(l2, n + 1, r) <=> rec.type \in {"Insert", "Delete"} /\ rec.rid = r
    BY <1>1, <1>2 DEF IsOf
  <1>5. \A i \in 1 .. n : \A r : /\ Puts(l2, i, r) <=> Puts(l, i, r)
                                 /\ Takes(l2, i, r) <=> Takes(l, i, r)
    BY <1>1, <1>3 DEF Puts, Takes
  <1>6. \A r : /\ Puts(l2, n + 1, r) <=> rec.type = "Insert" /\ rec.rid = r
               /\ Takes(l2, n + 1, r) <=> rec.type = "Delete" /\ rec.rid = r
    BY <1>1, <1>4 DEF Puts, Takes
  <1>7. \A i \in 1 .. n : \A r : Births(l2, i, r) <=> Births(l, i, r)
    <2>1. \A i \in 1 .. n : \A j \in 1 .. i - 1 : j \in 1 .. n
      BY <1>1
    <2> QED BY <1>3, <1>5, <2>1 DEF Births
  <1>8. \A r : Births(l2, n + 1, r) <=> /\ rec.type = "Insert" /\ rec.rid = r
                                        /\ \A j \in 1 .. n : ~IsOf(l, j, r)
    BY <1>2, <1>3, <1>6 DEF Births
  <1>9. Clean(l2) <=> Clean(l) /\ rec.type # "Delete"
    BY <1>1, <1>2 DEF Clean, n
  <1> QED BY <1>1, <1>2, <1>3, <1>4, <1>5, <1>6, <1>7, <1>8, <1>9 DEF l2, n

\* A record of the running transaction.
LEMMA NumberedPlus ==
    ASSUME NEW l, NEW t, Numbered(l, t), NEW rec \in LogRecord,
           rec.lsn = Len(l) + 1, rec.txn = t, rec.type # "Commit"
    PROVE  Numbered(Append(l, rec), t)
  <1> DEFINE l2 == Append(l, rec)
             n == Len(l)
  <1>1. l \in Seq(LogRecord) /\ t \in Nat
    BY DEF Numbered
  <1>2. /\ l2 \in Seq(LogRecord) /\ n \in Nat /\ Len(l2) = n + 1 /\ l2[n + 1] = rec
        /\ \A i \in 1 .. n : i \in 1 .. Len(l2) /\ l2[i] = l[i]
        /\ \A i \in 1 .. Len(l2) : i \in 1 .. n \/ i = n + 1
    BY <1>1, LogPlus
  <1> HIDE DEF l2
  <1>3. ASSUME NEW i \in 1 .. Len(l2)
        PROVE  /\ l2[i].lsn = i /\ l2[i].txn <= t
               /\ l2[i].type = "Commit" => l2[i].txn # t
               /\ l2[i].txn # t => \E j \in 1 .. Len(l2) : l2[j].type = "Commit" /\ l2[j].txn = l2[i].txn
               /\ l2[i].txn = t => \A j \in i .. Len(l2) : l2[j].txn = t
    <2>1. CASE i = n + 1
      <3>1. \A j \in i .. Len(l2) : j = n + 1
        BY <1>2, <2>1
      <3> QED BY <1>1, <1>2, <2>1, <3>1
    <2>2. CASE i \in 1 .. n
      <3>1. /\ l[i].lsn = i /\ l[i].txn <= t
            /\ l[i].type = "Commit" => l[i].txn # t
            /\ l[i].txn # t => \E j \in 1 .. n : l[j].type = "Commit" /\ l[j].txn = l[i].txn
            /\ l[i].txn = t => \A j \in i .. n : l[j].txn = t
        BY <2>2 DEF Numbered
      <3>2. \A j \in i .. Len(l2) : (j \in i .. n /\ j \in 1 .. n) \/ j = n + 1
        BY <1>2, <2>2
      <3> HIDE DEF n
      <3>3. l2[i] = l[i] /\ \A j \in 1 .. n : l2[j] = l[j] /\ j \in 1 .. Len(l2)
        BY <1>2, <2>2
      <3> QED BY <1>2, <3>1, <3>2, <3>3
    <2> QED BY <1>2, <2>1, <2>2
  <1> QED BY <1>1, <1>2, <1>3 DEF Numbered, l2

\* The record that ends the transaction.
LEMMA NumberedCommit ==
    ASSUME NEW l, NEW t, Numbered(l, t), NEW rec \in LogRecord,
           rec.lsn = Len(l) + 1, rec.txn = t, rec.type = "Commit"
    PROVE  Numbered(Append(l, rec), t + 1)
  <1> DEFINE l2 == Append(l, rec)
             n == Len(l)
  <1>1. l \in Seq(LogRecord) /\ t \in Nat
    BY DEF Numbered
  <1>2. /\ l2 \in Seq(LogRecord) /\ n \in Nat /\ Len(l2) = n + 1 /\ l2[n + 1] = rec
        /\ \A i \in 1 .. n : i \in 1 .. Len(l2) /\ l2[i] = l[i]
        /\ \A i \in 1 .. Len(l2) : i \in 1 .. n \/ i = n + 1
        /\ n + 1 \in 1 .. Len(l2)
    BY <1>1, LogPlus
  <1> HIDE DEF l2
  <1>3. ASSUME NEW i \in 1 .. Len(l2)
        PROVE  /\ l2[i].lsn = i /\ l2[i].txn <= t + 1
               /\ l2[i].type = "Commit" => l2[i].txn # t + 1
               /\ l2[i].txn # t + 1 => \E j \in 1 .. Len(l2) : l2[j].type = "Commit" /\ l2[j].txn = l2[i].txn
               /\ l2[i].txn = t + 1 => \A j \in i .. Len(l2) : l2[j].txn = t + 1
    <2>1. l2[i].lsn = i /\ l2[i].txn \in Nat /\ l2[i].txn <= t
      <3>1. CASE i = n + 1
        BY <1>1, <1>2, <3>1
      <3>2. CASE i \in 1 .. n
        <4>1. l[i] \in LogRecord /\ l[i].lsn = i /\ l[i].txn <= t
          BY <1>1, <3>2 DEF Numbered
        <4>2. l[i].txn \in Nat
          BY <4>1 DEF LogRecord
        <4> QED BY <1>2, <3>2, <4>1, <4>2
      <3> QED BY <1>2, <3>1, <3>2
    <2>2. \E j \in 1 .. Len(l2) : l2[j].type = "Commit" /\ l2[j].txn = l2[i].txn
      <3>1. CASE l2[i].txn = t
        BY <1>2, <3>1
      <3>2. CASE l2[i].txn # t
        <4>1. i \in 1 .. n /\ l[i].txn # t /\ l2[i] = l[i]
          BY <1>2, <3>2
        <4>2. PICK j \in 1 .. n : l[j].type = "Commit" /\ l[j].txn = l[i].txn
          BY <4>1 DEF Numbered
        <4> QED BY <1>2, <4>1, <4>2
      <3> QED BY <3>1, <3>2
    <2>3. l2[i].txn # t + 1 /\ l2[i].txn <= t + 1
      BY <1>1, <2>1
    <2> QED BY <2>1, <2>2, <2>3
  <1> QED BY <1>1, <1>2, <1>3 DEF Numbered, l2

\* What a record must be like that a statement appends.
Fitting(l, t, n, rec) ==
    /\ rec \in LogRecord /\ rec.lsn = Len(l) + 1 /\ rec.txn = t
    /\ rec.rid \in Rid /\ rec.rid[1] < n /\ rec.row \in Rows
    /\ \/ /\ rec.type = "Delete"
          /\ \E j \in 1 .. Len(l) : /\ Puts(l, j, rec.rid) /\ l[j].row = rec.row
                                    /\ \A k \in j + 1 .. Len(l) : ~IsOf(l, k, rec.rid)
          /\ \A r \in Rid, i \in 1 .. Len(l) : Births(l, i, r) => l[i].txn # t
       \/ /\ rec.type = "Insert"
          /\ Takes(l, Len(l), rec.rid) /\ l[Len(l)].txn = t
       \/ /\ rec.type = "Insert" /\ Clean(l)
          /\ \A j \in 1 .. Len(l) : ~IsOf(l, j, rec.rid)

\* A record that a statement may append keeps the log in order.
LEMMA LogWellPlus ==
    ASSUME NEW l, NEW t, NEW n \in Nat, NEW m \in Nat, n <= m, LogWell(l, t, n),
           NEW rec, Fitting(l, t, m, rec)
    PROVE  LogWell(Append(l, rec), t, m)
  <1> DEFINE l2 == Append(l, rec)
             k == Len(l)
  <1>1. /\ l \in Seq(LogRecord) /\ k \in Nat /\ rec \in LogRecord /\ rec.type \in {"Insert", "Delete"}
        /\ Numbered(l, t) /\ rec.rid \in Rid /\ rec.lsn = k + 1 /\ rec.txn = t
    BY LogTypes DEF Fitting, LogWell
  <1>2. /\ l2 \in Seq(LogRecord) /\ Len(l2) = k + 1 /\ l2[k + 1] = rec
        /\ \A i \in 1 .. k : i \in 1 .. Len(l2) /\ l2[i] = l[i]
        /\ \A i \in 1 .. Len(l2) : i \in 1 .. k \/ i = k + 1
        /\ \A i \in 1 .. k : \A r : /\ IsOf(l2, i, r) <=> IsOf(l, i, r)
                                    /\ Puts(l2, i, r) <=> Puts(l, i, r)
                                    /\ Takes(l2, i, r) <=> Takes(l, i, r)
                                    /\ Births(l2, i, r) <=> Births(l, i, r)
        /\ \A r : /\ IsOf(l2, k + 1, r) => rec.rid = r
                  /\ Puts(l2, k + 1, r) <=> rec.type = "Insert" /\ rec.rid = r
                  /\ Takes(l2, k + 1, r) <=> rec.type = "Delete" /\ rec.rid = r
                  /\ Births(l2, k + 1, r) <=> /\ rec.type = "Insert" /\ rec.rid = r
                                              /\ \A j \in 1 .. k : ~IsOf(l, j, r)
    BY <1>1, LogPlus
  <1>3. Numbered(l2, t)
    BY <1>1, NumberedPlus
  <1>4. Typed(l2)
    BY <1>1, <1>2 DEF Typed, LogWell
  <1> HIDE DEF l2, k
  <1>5. \A i \in 1 .. k : \A j \in 1 .. i - 1 : j \in 1 .. k /\ \A x \in j + 1 .. i - 1 : x \in 1 .. k
    BY <1>1
  <1>6. /\ (k + 1) - 1 = k /\ \A j \in 1 .. k : j < k + 1
        /\ \A j \in 1 .. k : \A x \in j + 1 .. k : x \in 1 .. k
    BY <1>1
  <1>7. ASSUME NEW r \in Rid, NEW i \in 1 .. k
        PROVE  /\ IsOf(l2, i, r) => r[1] < m /\ l2[i].row \in Rows
               /\ Takes(l2, i, r) =>
                     \E j \in 1 .. i - 1 : /\ Puts(l2, j, r) /\ l2[j].row = l2[i].row
                                           /\ \A x \in j + 1 .. i - 1 : ~IsOf(l2, x, r)
               /\ Puts(l2, i, r) => \/ Births(l2, i, r)
                                    \/ i > 1 /\ Takes(l2, i - 1, r) /\ l2[i - 1].txn = l2[i].txn
               /\ Births(l2, i, r) =>
                     \A d \in 1 .. Len(l2) : l2[d].type = "Delete" => i < d /\ l2[i].txn # t
    <2>1. l2[i] = l[i]
      BY <1>2
    <2>2. IsOf(l2, i, r) => r[1] < m /\ l2[i].row \in Rows
      <3>1. IsOf(l, i, r) => r[1] < n /\ l[i].row \in Rows
        BY DEF LogWell, Changes, k
      <3>2. r[1] \in Nat
        BY RidIs, HeapAssumption DEF PageIds
      <3> QED BY <1>2, <2>1, <3>1, <3>2
    <2>3. ASSUME Takes(l2, i, r)
          PROVE  \E j \in 1 .. i - 1 : /\ Puts(l2, j, r) /\ l2[j].row = l2[i].row
                                       /\ \A x \in j + 1 .. i - 1 : ~IsOf(l2, x, r)
      <3>1. Takes(l, i, r)
        BY <1>2, <2>3
      <3>2. PICK j \in 1 .. i - 1 : /\ Puts(l, j, r) /\ l[j].row = l[i].row
                                    /\ \A x \in j + 1 .. i - 1 : ~IsOf(l, x, r)
        BY <3>1 DEF LogWell, Changes, k
      <3>3. j \in 1 .. k /\ \A x \in j + 1 .. i - 1 : x \in 1 .. k
        BY <1>5
      <3>4. Puts(l2, j, r) /\ l2[j] = l[j] /\ \A x \in j + 1 .. i - 1 : ~IsOf(l2, x, r)
        BY <1>2, <3>2, <3>3
      <3> QED BY <2>1, <3>2, <3>4
    <2>4. ASSUME Puts(l2, i, r)
          PROVE  \/ Births(l2, i, r)
                 \/ i > 1 /\ Takes(l2, i - 1, r) /\ l2[i - 1].txn = l2[i].txn
      <3>1. Puts(l, i, r)
        BY <1>2, <2>4
      <3>2. Births(l, i, r) \/ (i > 1 /\ Takes(l, i - 1, r) /\ l[i - 1].txn = l[i].txn)
        BY <3>1 DEF LogWell, Changes, k
      <3>3. i > 1 => i - 1 \in 1 .. k
        BY <1>1
      <3> QED BY <1>2, <2>1, <3>2, <3>3
    <2>5. ASSUME Births(l2, i, r), NEW d \in 1 .. Len(l2), l2[d].type = "Delete"
          PROVE  i < d /\ l2[i].txn # t
      <3>1. Births(l, i, r)
        BY <1>2, <2>5
      <3>2. CASE d \in 1 .. k
        BY <1>2, <2>1, <2>5, <3>1, <3>2 DEF LogWell, Changes, k
      <3>3. CASE d = k + 1
        <4>1. rec.type = "Delete"
          BY <1>2, <2>5, <3>3
        <4>2. l[i].txn # t
          BY <3>1, <4>1 DEF Fitting, k
        <4> QED BY <1>6, <2>1, <3>3, <4>2
      <3> QED BY <1>2, <3>2, <3>3
    <2> QED BY <2>2, <2>3, <2>4, <2>5
  <1>8. ASSUME NEW r \in Rid, NEW i, i = k + 1
        PROVE  /\ IsOf(l2, i, r) => r[1] < m /\ l2[i].row \in Rows
               /\ Takes(l2, i, r) =>
                     \E j \in 1 .. i - 1 : /\ Puts(l2, j, r) /\ l2[j].row = l2[i].row
                                           /\ \A x \in j + 1 .. i - 1 : ~IsOf(l2, x, r)
               /\ Puts(l2, i, r) => \/ Births(l2, i, r)
                                    \/ i > 1 /\ Takes(l2, i - 1, r) /\ l2[i - 1].txn = l2[i].txn
               /\ Births(l2, i, r) =>
                     \A d \in 1 .. Len(l2) : l2[d].type = "Delete" => i < d /\ l2[i].txn # t
    <2>1. i - 1 = k /\ l2[i] = rec
      BY <1>2, <1>6, <1>8
    <2>2. IsOf(l2, i, r) => r[1] < m /\ l2[i].row \in Rows
      BY <1>2, <1>8, <2>1 DEF Fitting
    <2>3. ASSUME Takes(l2, i, r)
          PROVE  \E j \in 1 .. i - 1 : /\ Puts(l2, j, r) /\ l2[j].row = l2[i].row
                                       /\ \A x \in j + 1 .. i - 1 : ~IsOf(l2, x, r)
      <3>1. rec.type = "Delete" /\ rec.rid = r
        BY <1>2, <1>8, <2>3
      <3>2. PICK j \in 1 .. k : /\ Puts(l, j, r) /\ l[j].row = rec.row
                                /\ \A x \in j + 1 .. k : ~IsOf(l, x, r)
        BY <3>1 DEF Fitting, k
      <3>3. Puts(l2, j, r) /\ l2[j] = l[j] /\ \A x \in j + 1 .. k : ~IsOf(l2, x, r)
        BY <1>2, <1>6, <3>2
      <3> QED BY <2>1, <3>2, <3>3
    <2>4. ASSUME Puts(l2, i, r)
          PROVE  \/ Births(l2, i, r)
                 \/ i > 1 /\ Takes(l2, i - 1, r) /\ l2[i - 1].txn = l2[i].txn
      <3>1. rec.type = "Insert" /\ rec.rid = r
        BY <1>2, <1>8, <2>4
      <3>2. CASE Takes(l, k, r) /\ l[k].txn = t
        <4>1. k \in 1 .. k
          BY <3>2 DEF Takes, IsOf, k
        <4> QED BY <1>1, <1>2, <1>8, <2>1, <3>2, <4>1
      <3>3. CASE \A j \in 1 .. k : ~IsOf(l, j, r)
        BY <1>2, <1>8, <3>1, <3>3
      <3> QED BY <3>1, <3>2, <3>3 DEF Fitting, k
    <2>5. ASSUME Births(l2, i, r), NEW d \in 1 .. Len(l2), l2[d].type = "Delete"
          PROVE  FALSE
      <3>1. rec.type = "Insert" /\ rec.rid = r /\ \A j \in 1 .. k : ~IsOf(l, j, r)
        BY <1>2, <1>8, <2>5
      <3>2. d \in 1 .. k /\ l[d].type = "Delete"
        BY <1>2, <2>5, <3>1
      <3>3. ~Clean(l)
        BY <3>2 DEF Clean, k
      <3>4. Takes(l, k, r)
        BY <3>1, <3>3 DEF Fitting, k
      <3>5. k \in 1 .. k /\ IsOf(l, k, r)
        BY <3>4 DEF Takes, IsOf, k
      <3> QED BY <3>1, <3>5
    <2> QED BY <2>2, <2>3, <2>4, <2>5
  <1>9. Changes(l2, t, m)
    BY <1>2, <1>7, <1>8 DEF Changes
  <1> QED BY <1>3, <1>4, <1>9 DEF LogWell, l2

\* SAVE ends the transaction in the log.
LEMMA LogWellCommit ==
    ASSUME NEW l, NEW t, NEW n, LogWell(l, t, n), NEW rec \in LogRecord,
           rec.lsn = Len(l) + 1, rec.txn = t, rec.type = "Commit"
    PROVE  LogWell(Append(l, rec), t + 1, n)
  <1> DEFINE l2 == Append(l, rec)
             k == Len(l)
  <1>1. l \in Seq(LogRecord) /\ k \in Nat /\ t \in Nat /\ Numbered(l, t)
        /\ \A i \in 1 .. k : l[i].txn \in Nat /\ l[i].txn <= t
    BY LogTypes DEF LogWell
  <1>2. /\ l2 \in Seq(LogRecord) /\ Len(l2) = k + 1 /\ l2[k + 1] = rec
        /\ \A i \in 1 .. k : i \in 1 .. Len(l2) /\ l2[i] = l[i]
        /\ \A i \in 1 .. Len(l2) : i \in 1 .. k \/ i = k + 1
        /\ \A i \in 1 .. k : \A r : /\ IsOf(l2, i, r) <=> IsOf(l, i, r)
                                    /\ Puts(l2, i, r) <=> Puts(l, i, r)
                                    /\ Takes(l2, i, r) <=> Takes(l, i, r)
                                    /\ Births(l2, i, r) <=> Births(l, i, r)
        /\ \A r : ~IsOf(l2, k + 1, r)
    BY <1>1, LogPlus
  <1>3. Numbered(l2, t + 1)
    BY <1>1, NumberedCommit
  <1>4. Typed(l2)
    BY <1>1, <1>2 DEF Typed, LogWell
  <1> HIDE DEF l2, k
  <1>5. \A i \in 1 .. k : \A j \in 1 .. i - 1 : j \in 1 .. k /\ \A x \in j + 1 .. i - 1 : x \in 1 .. k
    BY <1>1
  <1>6. ASSUME NEW r \in Rid, NEW i \in 1 .. k
        PROVE  /\ IsOf(l2, i, r) => r[1] < n /\ l2[i].row \in Rows
               /\ Takes(l2, i, r) =>
                     \E j \in 1 .. i - 1 : /\ Puts(l2, j, r) /\ l2[j].row = l2[i].row
                                           /\ \A x \in j + 1 .. i - 1 : ~IsOf(l2, x, r)
               /\ Puts(l2, i, r) => \/ Births(l2, i, r)
                                    \/ i > 1 /\ Takes(l2, i - 1, r) /\ l2[i - 1].txn = l2[i].txn
               /\ Births(l2, i, r) =>
                     \A d \in 1 .. Len(l2) : l2[d].type = "Delete" => i < d /\ l2[i].txn # t + 1
    <2>1. l2[i] = l[i]
      BY <1>2
    <2>2. IsOf(l2, i, r) => r[1] < n /\ l2[i].row \in Rows
      BY <1>2, <2>1 DEF LogWell, Changes, k
    <2>3. ASSUME Takes(l2, i, r)
          PROVE  \E j \in 1 .. i - 1 : /\ Puts(l2, j, r) /\ l2[j].row = l2[i].row
                                       /\ \A x \in j + 1 .. i - 1 : ~IsOf(l2, x, r)
      <3>1. Takes(l, i, r)
        BY <1>2, <2>3
      <3>2. PICK j \in 1 .. i - 1 : /\ Puts(l, j, r) /\ l[j].row = l[i].row
                                    /\ \A x \in j + 1 .. i - 1 : ~IsOf(l, x, r)
        BY <3>1 DEF LogWell, Changes, k
      <3>3. j \in 1 .. k /\ \A x \in j + 1 .. i - 1 : x \in 1 .. k
        BY <1>5
      <3>4. Puts(l2, j, r) /\ l2[j] = l[j] /\ \A x \in j + 1 .. i - 1 : ~IsOf(l2, x, r)
        BY <1>2, <3>2, <3>3
      <3> QED BY <2>1, <3>2, <3>4
    <2>4. ASSUME Puts(l2, i, r)
          PROVE  \/ Births(l2, i, r)
                 \/ i > 1 /\ Takes(l2, i - 1, r) /\ l2[i - 1].txn = l2[i].txn
      <3>1. Puts(l, i, r)
        BY <1>2, <2>4
      <3>2. Births(l, i, r) \/ (i > 1 /\ Takes(l, i - 1, r) /\ l[i - 1].txn = l[i].txn)
        BY <3>1 DEF LogWell, Changes, k
      <3>3. i > 1 => i - 1 \in 1 .. k
        BY <1>1
      <3> QED BY <1>2, <2>1, <3>2, <3>3
    <2>5. ASSUME Births(l2, i, r), NEW d \in 1 .. Len(l2), l2[d].type = "Delete"
          PROVE  i < d /\ l2[i].txn # t + 1
      <3>1. Births(l, i, r) /\ d \in 1 .. k /\ l[d].type = "Delete"
        BY <1>2, <2>5
      <3>2. i < d
        BY <3>1 DEF LogWell, Changes, k
      <3> QED BY <1>1, <2>1, <3>2
    <2> QED BY <2>2, <2>3, <2>4, <2>5
  <1>7. ASSUME NEW r \in Rid, NEW i \in 1 .. Len(l2), i \notin 1 .. k
        PROVE  ~IsOf(l2, i, r) /\ ~Takes(l2, i, r) /\ ~Puts(l2, i, r) /\ ~Births(l2, i, r)
    BY <1>2, <1>7 DEF Takes, Puts, Births
  <1>8. Changes(l2, t + 1, n)
    BY <1>2, <1>6, <1>7 DEF Changes
  <1> QED BY <1>3, <1>4, <1>8 DEF LogWell, l2

\* The records of a row that is put again are those of one that was put.
LEMMA RoomPlus ==
    ASSUME NEW l \in Seq(LogRecord), NEW Q, Room(Q, l), NEW rec \in LogRecord, rec.rid \in Rid \/ rec.type = "Commit",
           rec.type = "Insert" =>
              /\ rec.rid[2] <= Len(Q[rec.rid[1]].slots)
              /\ RowLen[rec.row] <= Q[rec.rid[1]].slots[rec.rid[2]].len
              /\ \E j \in 1 .. Len(l) : IsOf(l, j, rec.rid)
    PROVE  Room(Q, Append(l, rec))
  <1> DEFINE l2 == Append(l, rec)
             k == Len(l)
  <1>1. /\ k \in Nat /\ Len(l2) = k + 1 /\ l2[k + 1] = rec
        /\ \A i \in 1 .. k : i \in 1 .. Len(l2) /\ l2[i] = l[i]
        /\ \A i \in 1 .. Len(l2) : i \in 1 .. k \/ i = k + 1
        /\ \A i \in 1 .. k : \A r : /\ Puts(l2, i, r) <=> Puts(l, i, r)
                                    /\ Births(l2, i, r) <=> Births(l, i, r)
        /\ \A r : /\ Puts(l2, k + 1, r) <=> rec.type = "Insert" /\ rec.rid = r
                  /\ Births(l2, k + 1, r) <=> /\ rec.type = "Insert" /\ rec.rid = r
                                              /\ \A j \in 1 .. k : ~IsOf(l, j, r)
    BY LogPlus
  <1> HIDE DEF l2, k
  <1>2. \A r : ~Births(l2, k + 1, r)
    BY <1>1 DEF k
  <1>3. \A i \in 1 .. k : \A j \in 1 .. i - 1 : j \in 1 .. k
    BY <1>1
  <1>4. ASSUME NEW r \in Rid, NEW i \in 1 .. Len(l2), Puts(l2, i, r)
        PROVE  LET q == Q[r[1]]
               IN  /\ r[2] <= Len(q.slots) /\ RowLen[l2[i].row] <= q.slots[r[2]].len
                   /\ Births(l2, i, r) => /\ l2[i].row = q.slots[r[2]].row
                                          /\ \A s \in 1 .. r[2] - 1 :
                                                \E j \in 1 .. i - 1 : Births(l2, j, <<r[1], s>>)
    <2>1. CASE i \in 1 .. k
      <3>1. Puts(l, i, r) /\ l2[i] = l[i]
        BY <1>1, <1>4, <2>1
      <3>2. LET q == Q[r[1]]
            IN  /\ r[2] <= Len(q.slots) /\ RowLen[l[i].row] <= q.slots[r[2]].len
                /\ Births(l, i, r) => /\ l[i].row = q.slots[r[2]].row
                                      /\ \A s \in 1 .. r[2] - 1 :
                                            \E j \in 1 .. i - 1 : Births(l, j, <<r[1], s>>)
        BY <2>1, <3>1 DEF Room, k
      <3> QED BY <1>1, <1>3, <2>1, <3>1, <3>2
    <2>2. CASE i = k + 1
      BY <1>1, <1>2, <1>4, <2>2
    <2> QED BY <1>1, <2>1, <2>2
  <1>5. ASSUME NEW p \in PageIds, NEW s \in 1 .. Len(Q[p].slots)
        PROVE  \E i \in 1 .. Len(l2) : Births(l2, i, <<p, s>>)
    <2>1. PICK i \in 1 .. k : Births(l, i, <<p, s>>)
      BY DEF Room, k
    <2> QED BY <1>1, <2>1
  <1> QED BY <1>4, <1>5 DEF Room, l2

\* A new row of a page, in the slot behind all others.
Topped(l, Q, rec, r, Q2) ==
    /\ r \in Rid /\ rec \in LogRecord
    /\ rec.type = "Insert" /\ rec.rid = r /\ rec.row \in Rows
    /\ \A j \in 1 .. Len(l) : ~IsOf(l, j, r)
    /\ Stacked(Q2[r[1]]) /\ Len(Q2[r[1]].slots) = r[2]
    /\ r[2] = Len(Q[r[1]].slots) + 1
    /\ Q2[r[1]].slots[r[2]].row = rec.row
    /\ \A i \in 1 .. r[2] - 1 : Q2[r[1]].slots[i] = Q[r[1]].slots[i]
    /\ \A p \in PageIds : p # r[1] => Q2[p] = Q[p]

\* PUT: the page as it was when all rows had been put has one more row.
LEMMA RoomPut ==
    ASSUME NEW l \in Seq(LogRecord), NEW Q, Room(Q, l), NEW rec, NEW r, NEW Q2,
           Topped(l, Q, rec, r, Q2)
    PROVE  Room(Q2, Append(l, rec))
  <1> DEFINE q == Q2[r[1]]
  <1> r \in Rid /\ rec \in LogRecord
    BY DEF Topped
  <1> /\ rec.type = "Insert" /\ rec.rid = r /\ rec.row \in Rows
      /\ \A j \in 1 .. Len(l) : ~IsOf(l, j, r)
      /\ Stacked(q) /\ Len(q.slots) = r[2]
      /\ r[2] = Len(Q[r[1]].slots) + 1
      /\ q.slots[r[2]].row = rec.row
      /\ \A i \in 1 .. r[2] - 1 : q.slots[i] = Q[r[1]].slots[i]
      /\ \A p \in PageIds : p # r[1] => Q2[p] = Q[p]
      /\ Q2[r[1]] = q
    BY DEF Topped
  <1> HIDE DEF q
  <1> DEFINE l2 == Append(l, rec)
             k == Len(l)
  <1>1. /\ k \in Nat /\ Len(l2) = k + 1 /\ l2[k + 1] = rec
        /\ \A i \in 1 .. k : i \in 1 .. Len(l2) /\ l2[i] = l[i]
        /\ \A i \in 1 .. Len(l2) : i \in 1 .. k \/ i = k + 1
        /\ \A i \in 1 .. k : \A x : /\ Puts(l2, i, x) <=> Puts(l, i, x)
                                    /\ Births(l2, i, x) <=> Births(l, i, x)
        /\ \A x : /\ Puts(l2, k + 1, x) <=> rec.type = "Insert" /\ rec.rid = x
                  /\ Births(l2, k + 1, x) <=> /\ rec.type = "Insert" /\ rec.rid = x
                                              /\ \A j \in 1 .. k : ~IsOf(l, j, x)
        /\ k + 1 \in 1 .. Len(l2)
    BY LogPlus
  <1> HIDE DEF l2, k
  <1>2. r[1] \in PageIds /\ r[2] \in Nat \ {0} /\ r = <<r[1], r[2]>>
    BY RidIs, HeapAssumption
  <1>3. (\A i \in 1 .. k : \A j \in 1 .. i - 1 : j \in 1 .. k) /\ (k + 1) - 1 = k
    BY <1>1
  <1>4. \A s \in 1 .. r[2] : s = r[2] \/ (s \in 1 .. r[2] - 1 /\ s \in 1 .. Len(Q[r[1]].slots))
    BY <1>2
  <1>5. Births(l2, k + 1, r)
    BY <1>1 DEF k
  <1>6. ASSUME NEW x \in Rid, NEW i \in 1 .. k, Puts(l, i, x)
        PROVE  LET y == Q2[x[1]]
               IN  /\ x[2] <= Len(y.slots) /\ RowLen[l[i].row] <= y.slots[x[2]].len
                   /\ Births(l, i, x) => /\ l[i].row = y.slots[x[2]].row
                                         /\ \A s \in 1 .. x[2] - 1 :
                                               \E j \in 1 .. i - 1 : Births(l, j, <<x[1], s>>)
    <2>1. LET y == Q[x[1]]
          IN  /\ x[2] <= Len(y.slots) /\ RowLen[l[i].row] <= y.slots[x[2]].len
              /\ Births(l, i, x) => /\ l[i].row = y.slots[x[2]].row
                                    /\ \A s \in 1 .. x[2] - 1 :
                                          \E j \in 1 .. i - 1 : Births(l, j, <<x[1], s>>)
      BY <1>6 DEF Room, k
    <2>2. x[1] \in PageIds /\ x[2] \in Nat \ {0}
      BY RidIs, HeapAssumption
    <2>3. CASE x[1] # r[1]
      BY <2>1, <2>2, <2>3
    <2>4. CASE x[1] = r[1]
      <3>1. x[2] \in 1 .. r[2] - 1 /\ x[2] <= Len(q.slots)
        BY <1>2, <2>1, <2>2, <2>4
      <3>2. Q2[x[1]] = q /\ q.slots[x[2]] = Q[x[1]].slots[x[2]]
        BY <2>4, <3>1
      <3> QED BY <2>1, <3>1, <3>2
    <2> QED BY <2>3, <2>4
  <1>7. ASSUME NEW x \in Rid, NEW i \in 1 .. Len(l2), Puts(l2, i, x)
        PROVE  LET y == Q2[x[1]]
               IN  /\ x[2] <= Len(y.slots) /\ RowLen[l2[i].row] <= y.slots[x[2]].len
                   /\ Births(l2, i, x) => /\ l2[i].row = y.slots[x[2]].row
                                          /\ \A s \in 1 .. x[2] - 1 :
                                                \E j \in 1 .. i - 1 : Births(l2, j, <<x[1], s>>)
    <2>1. CASE i \in 1 .. k
      <3>1. Puts(l, i, x) /\ l2[i] = l[i]
        BY <1>1, <1>7, <2>1
      <3> QED BY <1>1, <1>3, <1>6, <2>1, <3>1
    <2>2. CASE i = k + 1
      <3>1. x = r /\ l2[i] = rec
        BY <1>1, <1>7, <2>2
      <3>2. RowLen[rec.row] <= q.slots[r[2]].len /\ r[2] <= Len(q.slots)
        <4>1. r[2] \in 1 .. Len(q.slots)
          BY <1>2
        <4>2. q.slots[r[2]].len = RowLen[rec.row] /\ RowLen[rec.row] \in Nat
          BY <4>1, PageAssumption DEF Stacked
        <4> QED BY <1>2, <4>2
      <3>3. ASSUME NEW s \in 1 .. r[2] - 1
            PROVE  \E j \in 1 .. k : Births(l2, j, <<r[1], s>>)
        <4>1. s \in 1 .. Len(Q[r[1]].slots)
          BY <1>2
        <4>2. PICK j \in 1 .. k : Births(l, j, <<r[1], s>>)
          BY <1>2, <4>1 DEF Room, k
        <4> QED BY <1>1, <4>2
      <3> QED BY <1>3, <2>2, <3>1, <3>2, <3>3
    <2> QED BY <1>1, <2>1, <2>2
  <1>8. ASSUME NEW p \in PageIds, NEW s \in 1 .. Len(Q2[p].slots)
        PROVE  \E i \in 1 .. Len(l2) : Births(l2, i, <<p, s>>)
    <2>1. CASE p = r[1] /\ s = r[2]
      <3>1. r = <<p, s>> /\ k + 1 \in 1 .. Len(l2)
        BY <1>1, <1>2, <2>1
      <3> QED BY <1>5, <3>1
    <2>2. CASE ~(p = r[1] /\ s = r[2])
      <3>1. s \in 1 .. Len(Q[p].slots)
        BY <1>4, <2>2
      <3>2. PICK i \in 1 .. k : Births(l, i, <<p, s>>)
        BY <3>1 DEF Room, k
      <3> QED BY <1>1, <3>2
    <2> QED BY <2>1, <2>2
  <1>9. \A p \in PageIds : Stacked(Q2[p])
    BY DEF Room
  <1> QED BY <1>7, <1>8, <1>9 DEF Room, l2

----------------------------------------------------------------------------
(* What statements do to the log, the pages and the file.                  *)

\* Records of a transaction that has not been committed change no saved row.
LEMMA SavedPlus ==
    ASSUME NEW l \in Seq(LogRecord), NEW t, NEW sv, SavedRows(l, t, sv),
           NEW rec \in LogRecord, rec.txn = t
    PROVE  SavedRows(Append(l, rec), t, sv)
  <1> DEFINE l2 == Append(l, rec)
             k == Len(l)
  <1>1. /\ k \in Nat /\ Len(l2) = k + 1 /\ l2[k + 1] = rec
        /\ \A i \in 1 .. k : i \in 1 .. Len(l2) /\ l2[i] = l[i]
        /\ \A i \in 1 .. Len(l2) : i \in 1 .. k \/ i = k + 1
        /\ \A i \in 1 .. k : \A r : IsOf(l2, i, r) <=> IsOf(l, i, r)
    BY LogPlus
  <1> HIDE DEF l2, k
  <1>2. \A i \in 1 .. k : \A j \in i + 1 .. k : j \in i + 1 .. Len(l2) /\ j \in 1 .. k
    BY <1>1
  <1>3. ASSUME NEW r \in Rid, NEW i \in 1 .. Len(l2), LastSaved(l2, t, i, r)
        PROVE  i \in 1 .. k /\ LastSaved(l, t, i, r) /\ l2[i] = l[i]
    <2>1. i # k + 1
      BY <1>1, <1>3 DEF LastSaved
    <2>2. i \in 1 .. k
      BY <1>1, <2>1
    <2> QED BY <1>1, <1>2, <1>3, <2>2 DEF LastSaved, k
  <1>4. ASSUME NEW r \in Rid, NEW i \in 1 .. Len(l2), LastSaved(l2, t, i, r)
        PROVE  /\ r \in DOMAIN sv <=> l2[i].type = "Insert"
               /\ r \in DOMAIN sv => sv[r] = l2[i].row
    BY <1>3, <1>4 DEF SavedRows, k
  <1>5. ASSUME NEW r \in DOMAIN sv
        PROVE  r \in Rid /\ \E i \in 1 .. Len(l2) : IsOf(l2, i, r) /\ l2[i].txn # t
    <2>1. PICK i \in 1 .. k : IsOf(l, i, r) /\ l[i].txn # t
      BY DEF SavedRows, k
    <2>2. r \in Rid
      BY DEF SavedRows
    <2> QED BY <1>1, <2>1, <2>2
  <1>6. sv = [r \in DOMAIN sv |-> sv[r]]
    BY DEF SavedRows
  <1> QED BY <1>4, <1>5, <1>6 DEF SavedRows, l2

\* SAVE.
LEMMA SavedCommit ==
    ASSUME NEW l, NEW t, NEW n, LogWell(l, t, n), NEW rec \in LogRecord, rec.type = "Commit",
           NEW P, NEW Q, Memory(l, P, Q), \A p \in PageIds : Logged(P[p], p, l)
    PROVE  SavedRows(Append(l, rec), t + 1, HeapOf(P))
  <1> DEFINE l2 == Append(l, rec)
             k == Len(l)
             sv == HeapOf(P)
  <1>1. /\ l \in Seq(LogRecord) /\ t \in Nat
        /\ \A i \in 1 .. k : l[i].txn \in Nat /\ l[i].txn <= t /\ l[i].type \in {"Insert", "Delete", "Commit"}
    BY LogTypes
  <1>2. /\ k \in Nat /\ Len(l2) = k + 1 /\ l2[k + 1] = rec
        /\ \A i \in 1 .. k : i \in 1 .. Len(l2) /\ l2[i] = l[i]
        /\ \A i \in 1 .. Len(l2) : i \in 1 .. k \/ i = k + 1
        /\ \A i \in 1 .. k : \A r : IsOf(l2, i, r) <=> IsOf(l, i, r)
        /\ \A r : ~IsOf(l2, k + 1, r)
    BY <1>1, LogPlus
  <1> HIDE DEF l2, k
  <1>3. \A i \in 1 .. k : l2[i].txn # t + 1
    BY <1>1, <1>2
  <1>4. \A i \in 1 .. k : \A j \in i + 1 .. k : j \in i + 1 .. Len(l2) /\ j \in 1 .. k
    BY <1>2
  <1>5. DOMAIN sv = LiveOf(P) /\ (\A r \in LiveOf(P) : sv[r] = RowIn(P, r))
        /\ sv = [r \in DOMAIN sv |-> sv[r]]
    BY DEF HeapOf
  <1> HIDE DEF sv
  <1>6. ASSUME NEW r \in Rid, NEW i \in 1 .. Len(l2), LastSaved(l2, t + 1, i, r)
        PROVE  /\ r \in DOMAIN sv <=> l2[i].type = "Insert"
               /\ r \in DOMAIN sv => sv[r] = l2[i].row
    <2>1. i \in 1 .. k /\ IsOf(l, i, r) /\ l2[i] = l[i]
      BY <1>2, <1>6 DEF LastSaved
    <2>2. \A j \in i + 1 .. k : ~IsOf(l, j, r)
      <3>1. \A j \in i + 1 .. k : IsOf(l2, j, r) => l2[j].txn = t + 1
        BY <1>4, <1>6, <2>1 DEF LastSaved
      <3> QED BY <1>2, <1>3, <1>4, <2>1, <3>1
    <2>3. IF l[i].type = "Insert" THEN Holds(P, r, l[i].row) ELSE r \notin LiveOf(P)
      BY <2>1, <2>2 DEF Memory, k
    <2> QED BY <1>5, <2>1, <2>3 DEF Holds
  <1>7. ASSUME NEW r \in DOMAIN sv
        PROVE  r \in Rid /\ \E i \in 1 .. Len(l2) : IsOf(l2, i, r) /\ l2[i].txn # t + 1
    <2>1. r \in Rid /\ IsLive(P[r[1]], r[2])
      BY <1>5 DEF LiveOf
    <2>2. r[1] \in PageIds /\ r[2] \in Live(P[r[1]]) /\ r = <<r[1], r[2]>>
      BY <2>1, RidIs DEF Live, IsLive
    <2>3. PICK i \in 1 .. k : Puts(l, i, r)
      BY <2>2 DEF Logged, k
    <2> QED BY <1>2, <1>3, <2>1, <2>3 DEF Puts
  <1> QED BY <1>5, <1>6, <1>7 DEF SavedRows, sv, l2

\* A statement's record rec of row r, and the pages before and after it.
RowChange(l, rec, r, m, P, Q, P2, Q2) ==
    /\ r \in Rid /\ r[1] < m
    /\ rec \in LogRecord /\ rec.rid = r /\ rec.type \in {"Insert", "Delete"}
    /\ P2 \in [PageIds -> PageRecord]
    /\ \A p \in PageIds : p # r[1] => Q2[p] = Q[p] /\ P2[p] = P[p]
    /\ \A s \in 1 .. Len(Q2[r[1]].slots) : <<r[1], s>> \in Rid
    /\ \A pg \in PageRecord : Prefix(pg, Q[r[1]]) => Prefix(pg, Q2[r[1]])
    /\ ~Clean(l) => Q2[r[1]] = Q[r[1]]
    /\ Sound(P2[r[1]]) /\ P2[r[1]].lsn = 0 /\ Len(P2[r[1]].slots) = Len(Q2[r[1]].slots)
    /\ Clean(l) /\ rec.type = "Insert" => Prefix(P2[r[1]], Q2[r[1]])
    /\ \A x \in Rid : x # r => /\ x \in LiveOf(P2) <=> x \in LiveOf(P)
                               /\ x \in LiveOf(P) => RowIn(P2, x) = RowIn(P, x)
    /\ IF rec.type = "Insert" THEN Holds(P2, r, rec.row) ELSE r \notin LiveOf(P2)

\* A statement changes one slot of the pages in memory; those in the file are
\* as they were.
LEMMA ChangeHolds ==
    ASSUME NEW l \in Seq(LogRecord), NEW n \in Nat, NEW m \in Nat, n <= m,
           NEW P, NEW D, NEW Q, NEW Q2, NEW P2, NEW r, NEW rec,
           FileWell(P, Q, l, n), FileWell(D, Q, l, n), Memory(l, P, Q),
           RowChange(l, rec, r, m, P, Q, P2, Q2)
    PROVE  FileWell(P2, Q2, Append(l, rec), m) /\ FileWell(D, Q2, Append(l, rec), m)
           /\ Memory(Append(l, rec), P2, Q2)
  <1> DEFINE l2 == Append(l, rec)
             k == Len(l)
  <1>1. /\ k \in Nat /\ Len(l2) = k + 1 /\ l2[k + 1] = rec
        /\ \A i \in 1 .. k : i \in 1 .. Len(l2) /\ l2[i] = l[i]
        /\ \A i \in 1 .. Len(l2) : i \in 1 .. k \/ i = k + 1
        /\ \A i \in 1 .. k : \A x : /\ IsOf(l2, i, x) <=> IsOf(l, i, x)
                                    /\ Puts(l2, i, x) <=> Puts(l, i, x)
        /\ \A x : /\ IsOf(l2, k + 1, x) <=> rec.rid = x
                  /\ Puts(l2, k + 1, x) <=> rec.type = "Insert" /\ rec.rid = x
        /\ Clean(l2) <=> Clean(l) /\ rec.type # "Delete"
        /\ k + 1 \in 1 .. Len(l2)
    BY LogPlus DEF RowChange
  <1> HIDE DEF l2, k
  <1>2. r \in Rid /\ r[1] \in PageIds /\ r = <<r[1], r[2]>>
    BY RidIs DEF RowChange
  <1>3. Clean(l2) => Clean(l)
    BY <1>1
  <1>4. ASSUME NEW pg, NEW p \in PageIds, Former(pg, Q[p], l)
        PROVE  Former(pg, Q2[p], l2)
    <2>1. CASE p = r[1]
      <3>1. Sound(pg) => pg \in PageRecord
        BY DEF Sound
      <3> QED BY <1>3, <1>4, <2>1, <3>1 DEF Former, RowChange
    <2>2. CASE p # r[1]
      BY <1>3, <1>4, <2>2 DEF Former, RowChange
    <2> QED BY <2>1, <2>2
  <1>5. ASSUME NEW pg, NEW p, Logged(pg, p, l)
        PROVE  Logged(pg, p, l2)
    <2>1. ASSUME NEW s \in Live(pg)
          PROVE  \E i \in 1 .. Len(l2) : Puts(l2, i, <<p, s>>) /\ l2[i].row = pg.slots[s].row
      <3>1. PICK i \in 1 .. k : Puts(l, i, <<p, s>>) /\ l[i].row = pg.slots[s].row
        BY <1>5 DEF Logged, k
      <3> QED BY <1>1, <3>1
    <2> QED BY <2>1 DEF Logged
  <1>6. \A p \in PageIds : p \in Nat
    BY HeapAssumption DEF PageIds
  <1>7. FileWell(D, Q2, l2, m)
    <2>1. ASSUME NEW p \in PageIds
          PROVE  /\ Former(D[p], Q2[p], l2) /\ Logged(D[p], p, l2)
                 /\ D[p].lsn = 0 /\ (D[p] = ZeroPage \/ p < m)
      <3>1. /\ Former(D[p], Q[p], l) /\ Logged(D[p], p, l) /\ D[p].lsn = 0
            /\ (D[p] = ZeroPage \/ p < n)
        BY DEF FileWell
      <3>2. D[p] = ZeroPage \/ p < m
        BY <1>6, <3>1
      <3> QED BY <1>4, <1>5, <3>1, <3>2
    <2> QED BY <2>1 DEF FileWell
  <1>8. Logged(P2[r[1]], r[1], l2)
    <2>1. ASSUME NEW s \in Live(P2[r[1]])
          PROVE  \E i \in 1 .. Len(l2) : Puts(l2, i, <<r[1], s>>) /\ l2[i].row = P2[r[1]].slots[s].row
      <3> DEFINE x == <<r[1], s>>
      <3>1. x \in Rid /\ x[1] = r[1] /\ x[2] = s
        BY DEF Live, RowChange
      <3>2. x \in LiveOf(P2) /\ RowIn(P2, x) = P2[r[1]].slots[s].row
        BY <3>1 DEF LiveOf, RowIn, Live
      <3> HIDE DEF x
      <3>3. CASE x = r
        <4>1. rec.type = "Insert" /\ RowIn(P2, r) = rec.row
          BY <3>2, <3>3 DEF Holds, RowChange
        <4>2. rec.rid = r
          BY DEF RowChange
        <4> QED BY <1>1, <3>2, <3>3, <4>1, <4>2 DEF x
      <3>4. CASE x # r
        <4>1. x \in LiveOf(P) /\ RowIn(P2, x) = RowIn(P, x)
          BY <3>1, <3>2, <3>4 DEF RowChange
        <4>2. s \in Live(P[r[1]]) /\ RowIn(P, x) = P[r[1]].slots[s].row
          BY <3>1, <4>1 DEF LiveOf, RowIn, Live, IsLive
        <4>3. PICK i \in 1 .. k : Puts(l, i, <<r[1], s>>) /\ l[i].row = P[r[1]].slots[s].row
          BY <1>2, <4>2 DEF FileWell, Logged, k
        <4> QED BY <1>1, <3>2, <4>1, <4>2, <4>3
      <3> QED BY <3>3, <3>4
    <2> QED BY <2>1 DEF Logged
  <1>9. Former(P2[r[1]], Q2[r[1]], l2)
    BY <1>1 DEF Former, RowChange
  <1>10. FileWell(P2, Q2, l2, m)
    <2>1. ASSUME NEW p \in PageIds
          PROVE  /\ Former(P2[p], Q2[p], l2) /\ Logged(P2[p], p, l2)
                 /\ P2[p].lsn = 0 /\ (P2[p] = ZeroPage \/ p < m)
      <3>1. CASE p = r[1]
        BY <1>8, <1>9, <3>1 DEF RowChange
      <3>2. CASE p # r[1]
        <4>1. /\ Former(P[p], Q[p], l) /\ Logged(P[p], p, l) /\ P[p].lsn = 0
              /\ (P[p] = ZeroPage \/ p < n) /\ P2[p] = P[p]
          BY <3>2 DEF FileWell, RowChange
        <4>2. P[p] = ZeroPage \/ p < m
          BY <1>6, <4>1
        <4> QED BY <1>4, <1>5, <4>1, <4>2
      <3> QED BY <3>1, <3>2
    <2> QED BY <2>1 DEF FileWell, RowChange
  <1>11. \A i \in 1 .. k : /\ k + 1 \in i + 1 .. Len(l2)
                           /\ \A j \in i + 1 .. k : j \in i + 1 .. Len(l2) /\ j \in 1 .. k
    BY <1>1
  <1>12. ASSUME NEW x \in Rid, NEW i \in 1 .. Len(l2), IsOf(l2, i, x),
                \A j \in i + 1 .. Len(l2) : ~IsOf(l2, j, x)
         PROVE  IF l2[i].type = "Insert" THEN Holds(P2, x, l2[i].row) ELSE x \notin LiveOf(P2)
    <2>1. CASE x = r
      <3>1. i = k + 1
        BY <1>1, <1>11, <1>12, <2>1 DEF RowChange
      <3> QED BY <1>1, <2>1, <3>1 DEF RowChange
    <2>2. CASE x # r
      <3>1. i \in 1 .. k
        BY <1>1, <1>12, <2>2 DEF RowChange
      <3>2. IsOf(l, i, x) /\ l2[i] = l[i] /\ \A j \in i + 1 .. k : ~IsOf(l, j, x)
        BY <1>1, <1>11, <1>12, <3>1
      <3>3. IF l[i].type = "Insert" THEN Holds(P, x, l[i].row) ELSE x \notin LiveOf(P)
        BY <3>1, <3>2 DEF Memory, k
      <3> QED BY <2>2, <3>2, <3>3 DEF Holds, RowChange
    <2> QED BY <2>1, <2>2
  <1>13. ASSUME NEW p \in PageIds
         PROVE  /\ Len(P2[p].slots) = Len(Q2[p].slots)
                /\ Clean(l2) => P2[p] = ZeroPage \/ Prefix(P2[p], Q2[p])
    <2>1. CASE p = r[1]
      BY <1>1, <2>1 DEF RowChange
    <2>2. CASE p # r[1]
      BY <1>3, <2>2 DEF Memory, RowChange
    <2> QED BY <2>1, <2>2
  <1>14. Memory(l2, P2, Q2)
    BY <1>12, <1>13 DEF Memory
  <1> QED BY <1>7, <1>10, <1>14 DEF l2

\* A slot is a record id.
LEMMA RoomRids ==
    ASSUME NEW l, NEW t, NEW n, LogWell(l, t, n), NEW Q, Room(Q, l)
    PROVE  \A p \in PageIds : \A s \in 1 .. Len(Q[p].slots) : <<p, s>> \in Rid
  BY LogTypes DEF Room, Births, Puts

\* What a live row has in the log.
LEMMA LiveLogged ==
    ASSUME NEW l, NEW t, NEW n, LogWell(l, t, n), NEW P, NEW r \in LiveOf(P), Logged(P[r[1]], r[1], l)
    PROVE  /\ r \in Rid /\ r[1] \in PageIds /\ r[2] \in Live(P[r[1]]) /\ r[1] < n
           /\ RowIn(P, r) \in Rows
           /\ \E i \in 1 .. Len(l) : Puts(l, i, r) /\ l[i].row = RowIn(P, r)
  <1>1. r \in Rid /\ IsLive(P[r[1]], r[2])
    BY DEF LiveOf
  <1>2. r[1] \in PageIds /\ r[2] \in Live(P[r[1]]) /\ r = <<r[1], r[2]>>
    BY <1>1, RidIs DEF Live, IsLive
  <1>3. PICK i \in 1 .. Len(l) : Puts(l, i, r) /\ l[i].row = RowIn(P, r)
    BY <1>2 DEF Logged, RowIn
  <1>4. IsOf(l, i, r)
    BY <1>3 DEF Puts
  <1> QED BY <1>1, <1>2, <1>3, <1>4, LogTypes

\* The last record of a row.
LEMMA LastRecord ==
    ASSUME NEW l, Len(l) \in Nat, NEW r, NEW i \in 1 .. Len(l), IsOf(l, i, r)
    PROVE  \E j \in 1 .. Len(l) : IsOf(l, j, r) /\ \A k \in j + 1 .. Len(l) : ~IsOf(l, k, r)
  <1> DEFINE S == {j \in 1 .. Len(l) : IsOf(l, j, r)}
  <1>1. S # {} /\ S \in SUBSET (1 .. Len(l))
    OBVIOUS
  <1>2. PICK j \in S : \A k \in S : k <= j
    <2> HIDE DEF S
    <2> QED BY <1>1, GreatestNumber
  <1>3. \A k \in j + 1 .. Len(l) : k \in 1 .. Len(l) /\ ~(k <= j)
    OBVIOUS
  <1> QED BY <1>2, <1>3

\* The record of a row that is in the pages puts it there.
LEMMA LastPuts ==
    ASSUME NEW l, NEW t, NEW n, LogWell(l, t, n), NEW P, NEW Q, Memory(l, P, Q),
           NEW r \in LiveOf(P), Logged(P[r[1]], r[1], l)
    PROVE  \E j \in 1 .. Len(l) : /\ Puts(l, j, r) /\ l[j].row = RowIn(P, r)
                                  /\ \A k \in j + 1 .. Len(l) : ~IsOf(l, k, r)
  <1>1. r \in Rid /\ Len(l) \in Nat
    BY LogTypes DEF LiveOf
  <1>2. PICK i \in 1 .. Len(l) : IsOf(l, i, r)
    BY LiveLogged DEF Puts
  <1>3. PICK j \in 1 .. Len(l) : IsOf(l, j, r) /\ \A k \in j + 1 .. Len(l) : ~IsOf(l, k, r)
    BY <1>1, <1>2, LastRecord
  <1>4. IF l[j].type = "Insert" THEN Holds(P, r, l[j].row) ELSE r \notin LiveOf(P)
    BY <1>1, <1>3 DEF Memory
  <1> QED BY <1>3, <1>4 DEF Puts, Holds

\* The page of a live row.
LEMMA LivePage ==
    ASSUME NEW P \in [PageIds -> PageRecord], NEW Q, NEW l, NEW n, FileWell(P, Q, l, n), NEW r \in LiveOf(P)
    PROVE  /\ r \in Rid /\ r[1] \in PageIds /\ r[2] \in 1 .. Len(P[r[1]].slots)
           /\ Sound(P[r[1]]) /\ P[r[1]].lsn = 0 /\ Logged(P[r[1]], r[1], l)
  <1>1. r \in Rid /\ IsLive(P[r[1]], r[2])
    BY DEF LiveOf
  <1>2. r[1] \in PageIds /\ r[2] \in 1 .. Len(P[r[1]].slots)
    BY <1>1, RidIs DEF IsLive
  <1>3. P[r[1]] # ZeroPage
    <2>1. 1 .. 0 = {}
      OBVIOUS
    <2> QED BY <1>2, <2>1, ZeroPageIs
  <1> QED BY <1>1, <1>2, <1>3 DEF FileWell, Former

\* REMOVE, and the first half of MODIFY.
Erasing(l, t, P, r) == [lsn |-> Len(l) + 1, txn |-> t, type |-> "Delete", rid |-> r, row |-> RowIn(P, r)]
Without(P, r) == [P EXCEPT ![r[1]] = Erase(@, r[2])]

\* The rows that were put are committed.
AllSettled(l, t) == \A x \in Rid, i \in 1 .. Len(l) : Births(l, i, x) => l[i].txn # t

\* The pages are the same but for the slot of r.
Apart(P, P2, r) ==
    /\ P2 \in [PageIds -> PageRecord] /\ Len(P2[r[1]].slots) = Len(P[r[1]].slots)
    /\ \A p \in PageIds : p # r[1] => P2[p] = P[p]
    /\ \A x \in Rid : x # r => /\ x \in LiveOf(P2) <=> x \in LiveOf(P)
                               /\ x \in LiveOf(P) => RowIn(P2, x) = RowIn(P, x)

\* The row is erased and the record is logged.
LEMMA TakeHolds ==
    ASSUME NEW Q, NEW l, NEW t, NEW n \in Nat, NEW sv, NEW P, NEW D, Holding(Q, l, t, n, sv, P, D),
           NEW r \in LiveOf(P), AllSettled(l, t)
    PROVE  /\ Holding(Q, Append(l, Erasing(l, t, P, r)), t, n, sv, Without(P, r), D)
           /\ Apart(P, Without(P, r), r)
  <1> DEFINE rec == Erasing(l, t, P, r)
  <1> DEFINE P2 == [P EXCEPT ![r[1]] = Erase(@, r[2])]
             l2 == Append(l, rec)
  <1>1. /\ LogWell(l, t, n) /\ Room(Q, l) /\ SavedRows(l, t, sv) /\ Memory(l, P, Q)
        /\ FileWell(P, Q, l, n) /\ FileWell(D, Q, l, n) /\ P \in [PageIds -> PageRecord]
    BY DEF Holding, FileWell
  <1>2. /\ l \in Seq(LogRecord) /\ Len(l) \in Nat /\ t \in Nat
    BY <1>1, LogTypes
  <1>3. /\ r \in Rid /\ r[1] \in PageIds /\ r[2] \in 1 .. Len(P[r[1]].slots) /\ r[2] \in 1 .. MaxStmts
        /\ Sound(P[r[1]]) /\ P[r[1]].lsn = 0 /\ Logged(P[r[1]], r[1], l) /\ r = <<r[1], r[2]>>
    BY <1>1, LivePage, RidIs
  <1>4. r[1] < n /\ RowIn(P, r) \in Rows
    BY <1>1, <1>3, LiveLogged
  <1>5. rec \in LogRecord /\ rec.lsn = Len(l) + 1 /\ rec.txn = t /\ rec.type = "Delete"
        /\ rec.rid = r /\ rec.row = RowIn(P, r)
    BY <1>2, <1>3, <1>4 DEF LogRecord, Erasing
  <1> HIDE DEF rec
  <1>6. Fitting(l, t, n, rec)
    <2>1. \E j \in 1 .. Len(l) : /\ Puts(l, j, r) /\ l[j].row = RowIn(P, r)
                                 /\ \A k \in j + 1 .. Len(l) : ~IsOf(l, k, r)
      BY <1>1, <1>3, LastPuts
    <2> QED BY <1>3, <1>4, <1>5, <2>1 DEF Fitting, AllSettled
  <1>7. LogWell(l2, t, n)
    BY <1>1, <1>6, LogWellPlus
  <1>8. Room(Q, l2)
    BY <1>1, <1>2, <1>3, <1>5, RoomPlus
  <1>9. SavedRows(l2, t, sv)
    BY <1>1, <1>2, <1>5, SavedPlus
  <1> DEFINE new == Erase(P[r[1]], r[2])
  <1>10. /\ Sound(new) /\ Len(new.slots) = Len(P[r[1]].slots) /\ ~IsLive(new, r[2])
         /\ SameBut(P[r[1]], new, r[2]) /\ new \in PageRecord /\ new.lsn = 0
    <2>1. Sound(new) /\ Len(new.slots) = Len(P[r[1]].slots) /\ ~IsLive(new, r[2]) /\ SameBut(P[r[1]], new, r[2])
      BY <1>3, EraseSound
    <2>2. P[r[1]] \in PageRecord /\ new \in PageRecord
      BY <1>1, <1>3, <2>1 DEF Sound
    <2>3. new.lsn = P[r[1]].lsn
      BY <2>2 DEF Erase, WithSlots, PageRecord
    <2> QED BY <1>3, <2>1, <2>2, <2>3
  <1>11. P2 = [P EXCEPT ![r[1]] = new]
    BY <1>1, <1>3
  <1> HIDE DEF new, P2
  <1>12. SlotChange(P, P2, r[1], r[2], new)
    BY <1>1, <1>3, <1>10, <1>11, OneSlot
  <1>13. /\ P2 \in [PageIds -> PageRecord] /\ P2[r[1]] = new
         /\ \A p \in PageIds : p # r[1] => P2[p] = P[p]
         /\ r \notin LiveOf(P2)
         /\ \A x \in Rid : x # r => /\ x \in LiveOf(P2) <=> x \in LiveOf(P)
                                    /\ x \in LiveOf(P) => RowIn(P2, x) = RowIn(P, x)
    BY <1>3, <1>10, <1>12 DEF SlotChange
  <1>15. FileWell(P2, Q, l2, n) /\ FileWell(D, Q, l2, n) /\ Memory(l2, P2, Q)
    <2>1. \A s \in 1 .. Len(Q[r[1]].slots) : <<r[1], s>> \in Rid
      BY <1>1, <1>3, RoomRids
    <2>2. Len(new.slots) = Len(Q[r[1]].slots)
      BY <1>1, <1>3, <1>10 DEF Memory
    <2>3. RowChange(l, rec, r, n, P, Q, P2, Q)
      BY <1>3, <1>4, <1>5, <1>10, <1>13, <2>1, <2>2 DEF RowChange
    <2> QED BY <1>1, <1>2, <2>3, ChangeHolds
  <1> QED BY <1>7, <1>8, <1>9, <1>10, <1>13, <1>15 DEF Holding, P2, Without, rec, Apart

\* The second half of MODIFY.
LEMMA PutBackHolds ==
    ASSUME NEW Q, NEW l, NEW t, NEW n \in Nat, NEW sv, NEW P, NEW D, Holding(Q, l, t, n, sv, P, D),
           NEW r \in Rid, Takes(l, Len(l), r), l[Len(l)].txn = t, NEW row \in Rows,
           r[2] <= Len(Q[r[1]].slots), RowLen[row] <= Q[r[1]].slots[r[2]].len,
           NEW rec, rec = [lsn |-> Len(l) + 1, txn |-> t, type |-> "Insert", rid |-> r, row |-> row],
           NEW P2, Apart(P, P2, r), Sound(P2[r[1]]), P2[r[1]].lsn = 0,
           Holds(P2, r, row)
    PROVE  Holding(Q, Append(l, rec), t, n, sv, P2, D)
  <1> DEFINE l2 == Append(l, rec)
  <1>1. /\ LogWell(l, t, n) /\ Room(Q, l) /\ SavedRows(l, t, sv) /\ Memory(l, P, Q)
        /\ FileWell(P, Q, l, n) /\ FileWell(D, Q, l, n)
    BY DEF Holding
  <1>2. /\ l \in Seq(LogRecord) /\ Len(l) \in Nat /\ t \in Nat
    BY <1>1, LogTypes
  <1>3. r[1] \in PageIds /\ r = <<r[1], r[2]>>
    BY RidIs
  <1>0. /\ P2 \in [PageIds -> PageRecord] /\ Len(P2[r[1]].slots) = Len(P[r[1]].slots)
        /\ \A p \in PageIds : p # r[1] => P2[p] = P[p]
        /\ \A x \in Rid : x # r => /\ x \in LiveOf(P2) <=> x \in LiveOf(P)
                                   /\ x \in LiveOf(P) => RowIn(P2, x) = RowIn(P, x)
    BY DEF Apart
  <1>4. IsOf(l, Len(l), r) /\ l[Len(l)].type = "Delete" /\ Len(l) \in 1 .. Len(l)
    BY DEF Takes, IsOf
  <1>5. r[1] < n
    BY <1>1, <1>4, LogTypes
  <1>6. rec \in LogRecord /\ rec.lsn = Len(l) + 1 /\ rec.txn = t /\ rec.type = "Insert"
        /\ rec.rid = r /\ rec.row = row
    BY <1>2 DEF LogRecord
  <1> HIDE DEF l2
  <1>12. n <= n
    OBVIOUS
  <1>7. LogWell(l2, t, n)
    <2>1. Fitting(l, t, n, rec)
      BY <1>5, <1>6 DEF Fitting
    <2> QED BY <1>1, <1>12, <2>1, LogWellPlus DEF l2
  <1>8. Room(Q, l2)
    BY <1>1, <1>2, <1>4, <1>6, RoomPlus DEF l2
  <1>9. SavedRows(l2, t, sv)
    BY <1>1, <1>2, <1>6, SavedPlus DEF l2
  <1>10. ~Clean(l)
    BY <1>4 DEF Clean
  <1>11. FileWell(P2, Q, l2, n) /\ FileWell(D, Q, l2, n) /\ Memory(l2, P2, Q)
    <2>1. \A s \in 1 .. Len(Q[r[1]].slots) : <<r[1], s>> \in Rid
      BY <1>1, <1>3, RoomRids
    <2>2. Len(P2[r[1]].slots) = Len(Q[r[1]].slots)
      BY <1>0, <1>1, <1>3 DEF Memory
    <2>3. RowChange(l, rec, r, n, P, Q, P2, Q)
      BY <1>0, <1>3, <1>5, <1>6, <1>10, <2>1, <2>2 DEF RowChange
    <2> QED BY <1>1, <1>2, <1>12, <2>3, ChangeHolds DEF l2
  <1> QED BY <1>7, <1>8, <1>9, <1>11 DEF Holding, l2

\* A page with as many rows as a stacked page is stacked.
LEMMA SameStack ==
    ASSUME NEW q, Stacked(q), NEW pg \in PageRecord, Prefix(pg, q), Len(pg.slots) = Len(q.slots)
    PROVE  /\ Stacked(pg) /\ \A s \in 1 .. Len(q.slots) : pg.slots[s] = q.slots[s]
           /\ \A s \in 0 .. Len(q.slots) : Bottom(pg, s) = Bottom(q, s)
  <1> DEFINE n == Len(q.slots)
  <1>1. n \in Nat /\ \A s \in 1 .. n : pg.slots[s] = q.slots[s]
    BY StackedOrder DEF Prefix
  <1>2. \A s \in 0 .. n : Bottom(pg, s) = Bottom(q, s)
    <2>1. \A s \in 0 .. n : s = 0 \/ s \in 1 .. n
      BY <1>1
    <2> QED BY <1>1, <2>1 DEF Bottom
  <1>3. \A s \in 1 .. n : s - 1 \in 0 .. n
    BY <1>1
  <1>4. n \in 0 .. n /\ SlotEnd(pg) = SlotEnd(q)
    BY <1>1 DEF SlotEnd
  <1>5. pg.freeEnd = q.freeEnd
    BY DEF Prefix, Stacked
  <1>6. Stacked(pg)
    BY <1>1, <1>2, <1>3, <1>4, <1>5 DEF Stacked
  <1> QED BY <1>1, <1>2, <1>6

\* PUT.
LEMMA PutHolds ==
    ASSUME NEW Q, NEW l, NEW t, NEW n \in Nat, NEW m \in Nat, n <= m, NEW sv, NEW P, NEW D,
           Holding(Q, l, t, n, sv, P, D), Clean(l),
           NEW r \in Rid, r[2] = Len(P[r[1]].slots) + 1, r[1] < m, NEW row \in Rows,
           CanInsert(Initialised(P[r[1]]), row),
           NEW rec, rec = [lsn |-> Len(l) + 1, txn |-> t, type |-> "Insert", rid |-> r, row |-> row]
    PROVE  \E Q2 : Holding(Q2, Append(l, rec), t, m, sv,
                           [P EXCEPT ![r[1]] = Insert(Initialised(P[r[1]]), row)], D)
  <1> DEFINE l2 == Append(l, rec)
             p == r[1]
             base == Initialised(P[p])
             new == Insert(base, row)
             P2 == [P EXCEPT ![p] = new]
             Q2 == [x \in PageIds |-> IF x = p THEN new ELSE Q[x]]
  <1>1. /\ LogWell(l, t, n) /\ Room(Q, l) /\ SavedRows(l, t, sv) /\ Memory(l, P, Q)
        /\ FileWell(P, Q, l, n) /\ FileWell(D, Q, l, n) /\ P \in [PageIds -> PageRecord]
    BY DEF Holding, FileWell
  <1>2. /\ l \in Seq(LogRecord) /\ Len(l) \in Nat /\ t \in Nat
    BY <1>1, LogTypes
  <1>3. p \in PageIds /\ r = <<p, r[2]>> /\ r[2] \in 1 .. MaxStmts
    BY RidIs
  <1>4. rec \in LogRecord /\ rec.lsn = Len(l) + 1 /\ rec.txn = t /\ rec.type = "Insert"
        /\ rec.rid = r /\ rec.row = row
    BY <1>2 DEF LogRecord
  <1>5. Stacked(Q[p]) /\ Len(P[p].slots) = Len(Q[p].slots) /\ Len(Q[p].slots) \in Nat
    BY <1>1, <1>3, StackedOrder DEF Room, Memory
  <1>6. P[p].lsn = 0 /\ (P[p] = ZeroPage \/ Sound(P[p])) /\ (P[p] = ZeroPage \/ Prefix(P[p], Q[p]))
    BY <1>1, <1>3 DEF FileWell, Former, Memory
  <1>7. /\ Sound(base) /\ base.slots = P[p].slots /\ base.lsn = 0
        /\ (P[p] # ZeroPage => base = P[p]) /\ (P[p] = ZeroPage => base = EmptyPage)
    BY <1>6, Restarted
  <1>8. Prefix(base, Q[p]) /\ base \in PageRecord /\ Len(base.slots) = Len(Q[p].slots)
    <2>1. CASE P[p] = ZeroPage
      <3>1. Len(Q[p].slots) = 0 /\ base = EmptyPage /\ Len(EmptyPage.slots) = 0 /\ EmptyPage.freeEnd = PageSize
        BY <1>5, <1>7, <2>1, ZeroPageIs, EmptyPageSound DEF EmptyPage
      <3>2. \A s \in 1 .. 0 : FALSE
        OBVIOUS
      <3> QED BY <1>7, <3>1, <3>2 DEF Prefix, Bottom, Sound
    <2>2. CASE P[p] # ZeroPage
      BY <1>5, <1>6, <1>7, <2>2 DEF Sound
    <2> QED BY <2>1, <2>2
  <1> HIDE DEF base
  <1>9. /\ Stacked(base) /\ \A s \in 1 .. Len(Q[p].slots) : base.slots[s] = Q[p].slots[s]
        /\ \A s \in 0 .. Len(Q[p].slots) : Bottom(base, s) = Bottom(Q[p], s)
    BY <1>5, <1>8, SameStack
  <1>10. CanInsert(base, row)
    BY DEF base
  <1>11. /\ Stacked(new) /\ Len(new.slots) = r[2] /\ new.lsn = 0
         /\ new.slots[r[2]].row = row
         /\ \A i \in 1 .. Len(Q[p].slots) : new.slots[i] = Q[p].slots[i]
         /\ \A k \in 0 .. Len(Q[p].slots) : Bottom(new, k) = Bottom(Q[p], k)
    <2> DEFINE k == Len(base.slots)
    <2>1. r[2] = k + 1 /\ k = Len(Q[p].slots)
      BY <1>5, <1>8
    <2>2. /\ Stacked(new) /\ Len(new.slots) = k + 1 /\ new.lsn = base.lsn
          /\ new.slots[k + 1].row = row
          /\ \A i \in 1 .. k : new.slots[i] = base.slots[i]
          /\ \A i \in 0 .. k : Bottom(new, i) = Bottom(base, i)
      BY <1>9, <1>10, StackedInsert
    <2> HIDE DEF k, new
    <2> QED BY <1>7, <1>9, <2>1, <2>2
  <1> HIDE DEF new
  <1>12. Prefix(new, new) /\ Sound(new) /\ new \in PageRecord
    <2>1. Prefix(new, new) /\ new \in PageRecord
      <3>1. Len(new.slots) \in Nat
        BY <1>11, StackedOrder
      <3> QED BY <1>11, <3>1 DEF Prefix, Stacked
    <2> QED BY <1>11, <2>1, PrefixSound
  <1>13. \A pg \in PageRecord : Prefix(pg, Q[p]) => Prefix(pg, new)
    <2> SUFFICES ASSUME NEW pg \in PageRecord, Prefix(pg, Q[p]) PROVE Prefix(pg, new)
      OBVIOUS
    <2> DEFINE k == Len(pg.slots)
    <2>1. k <= Len(Q[p].slots) /\ pg.freeEnd = Bottom(Q[p], k) /\ \A s \in 1 .. k : pg.slots[s] = Q[p].slots[s]
      BY DEF Prefix
    <2>2. k \in Nat
      BY SlotTypes
    <2>3. k \in 0 .. Len(Q[p].slots) /\ k <= r[2] /\ \A s \in 1 .. k : s \in 1 .. Len(Q[p].slots)
      BY <1>5, <2>1, <2>2
    <2> QED BY <1>11, <2>1, <2>3 DEF Prefix
  <1>14. \A j \in 1 .. Len(l) : ~IsOf(l, j, r)
    <2> SUFFICES ASSUME NEW j \in 1 .. Len(l), IsOf(l, j, r) PROVE FALSE
      OBVIOUS
    <2>1. Puts(l, j, r)
      BY DEF Clean, Puts, IsOf
    <2>2. r[2] <= Len(Q[p].slots)
      BY <1>1, <2>1 DEF Room
    <2> QED BY <1>5, <2>2
  <1>15. LogWell(l2, t, m)
    <2>1. Fitting(l, t, m, rec)
      BY <1>4, <1>14 DEF Fitting
    <2> QED BY <1>1, <2>1, LogWellPlus
  <1>16. Q2[p] = new /\ \A x \in PageIds : x # p => Q2[x] = Q[x]
    BY <1>3
  <1> HIDE DEF Q2
  <1>17. Room(Q2, l2)
    <2>1. r[2] = Len(Q[p].slots) + 1 /\ \A i \in 1 .. r[2] - 1 : i \in 1 .. Len(Q[p].slots)
      BY <1>5
    <2>2. \A i \in 1 .. r[2] - 1 : new.slots[i] = Q[p].slots[i]
      BY <1>11, <2>1
    <2>3. Topped(l, Q, rec, r, Q2)
      BY <1>4, <1>11, <1>14, <1>16, <2>1, <2>2 DEF Topped
    <2> QED BY <1>1, <1>2, <2>3, RoomPut
  <1>18. SavedRows(l2, t, sv)
    BY <1>1, <1>2, <1>4, SavedPlus
  <1>19. IsLive(new, r[2]) /\ SameBut(P[p], new, r[2])
    <2>1. r[2] = Len(base.slots) + 1
      BY <1>5, <1>8
    <2>2. IsLive(new, r[2]) /\ SameBut(base, new, r[2])
      BY <1>7, <1>10, <2>1, InsertSound DEF new
    <2>3. SameBut(P[p], new, r[2])
      BY <1>7, <2>2 DEF SameBut, IsLive
    <2> QED BY <2>2, <2>3
  <1>20. SlotChange(P, P2, p, r[2], new)
    BY <1>1, <1>3, <1>12, <1>19, OneSlot
  <1> HIDE DEF P2
  <1>21. /\ P2 \in [PageIds -> PageRecord] /\ P2[p] = new
         /\ \A x \in PageIds : x # p => P2[x] = P[x]
         /\ \A x \in Rid : x # r => /\ x \in LiveOf(P2) <=> x \in LiveOf(P)
                                    /\ x \in LiveOf(P) => RowIn(P2, x) = RowIn(P, x)
    BY <1>3, <1>20 DEF SlotChange
  <1>22. Holds(P2, r, row)
    BY <1>3, <1>11, <1>19, <1>20 DEF SlotChange, Holds, RowIn
  <1>23. FileWell(P2, Q2, l2, m) /\ FileWell(D, Q2, l2, m) /\ Memory(l2, P2, Q2)
    <2>1. \A s \in 1 .. Len(Q2[p].slots) : <<p, s>> \in Rid
      BY <1>3, <1>15, <1>17, RoomRids
    <2>2. RowChange(l, rec, r, m, P, Q, P2, Q2)
      BY <1>4, <1>11, <1>12, <1>13, <1>16, <1>21, <1>22, <2>1 DEF RowChange
    <2> QED BY <1>1, <1>2, <2>2, ChangeHolds
  <1> QED BY <1>15, <1>17, <1>18, <1>23 DEF Holding, P2, new, base

\* SAVE.
LEMMA CommitHolds ==
    ASSUME NEW Q, NEW l, NEW t, NEW n, NEW sv, NEW P, NEW D, Holding(Q, l, t, n, sv, P, D),
           NEW rec, rec = [lsn |-> Len(l) + 1, txn |-> t, type |-> "Commit", rid |-> <<>>, row |-> Dead]
    PROVE  Holding(Q, Append(l, rec), t + 1, n, HeapOf(P), P, D)
  <1> DEFINE l2 == Append(l, rec)
             k == Len(l)
  <1>1. /\ LogWell(l, t, n) /\ Room(Q, l) /\ SavedRows(l, t, sv) /\ Memory(l, P, Q)
        /\ FileWell(P, Q, l, n) /\ FileWell(D, Q, l, n)
    BY DEF Holding
  <1>2. /\ l \in Seq(LogRecord) /\ k \in Nat /\ t \in Nat
    BY <1>1, LogTypes
  <1>3. rec \in LogRecord /\ rec.lsn = k + 1 /\ rec.txn = t /\ rec.type = "Commit"
    BY <1>2 DEF LogRecord
  <1>4. LogWell(l2, t + 1, n)
    BY <1>1, <1>3, LogWellCommit
  <1>5. Room(Q, l2)
    BY <1>1, <1>2, <1>3, RoomPlus
  <1>6. SavedRows(l2, t + 1, HeapOf(P))
    <2>1. \A p \in PageIds : Logged(P[p], p, l)
      BY <1>1 DEF FileWell
    <2> QED BY <1>1, <1>3, <2>1, SavedCommit
  <1>7. /\ Len(l2) = k + 1
        /\ \A i \in 1 .. k : i \in 1 .. Len(l2) /\ l2[i] = l[i]
        /\ \A i \in 1 .. Len(l2) : i \in 1 .. k \/ i = k + 1
        /\ \A i \in 1 .. k : \A r : (IsOf(l2, i, r) <=> IsOf(l, i, r)) /\ (Puts(l2, i, r) <=> Puts(l, i, r))
        /\ \A r : ~IsOf(l2, k + 1, r)
        /\ Clean(l2) <=> Clean(l)
    BY <1>2, <1>3, LogPlus
  <1> HIDE DEF l2
  <1>8. \A pg, p : Logged(pg, p, l) => Logged(pg, p, l2)
    BY <1>7 DEF Logged
  <1>9. FileWell(P, Q, l2, n) /\ FileWell(D, Q, l2, n)
    BY <1>1, <1>7, <1>8 DEF FileWell, Former
  <1>10. Memory(l2, P, Q)
    <2>1. ASSUME NEW r \in Rid, NEW i \in 1 .. Len(l2), IsOf(l2, i, r),
                 \A j \in i + 1 .. Len(l2) : ~IsOf(l2, j, r)
          PROVE  IF l2[i].type = "Insert" THEN Holds(P, r, l2[i].row) ELSE r \notin LiveOf(P)
      <3>1. i \in 1 .. k /\ IsOf(l, i, r) /\ l2[i] = l[i]
        BY <1>7, <2>1
      <3>2. \A j \in i + 1 .. k : j \in 1 .. k /\ j \in i + 1 .. Len(l2)
        BY <1>2, <1>7, <3>1
      <3>3. \A j \in i + 1 .. k : ~IsOf(l, j, r)
        BY <1>7, <2>1, <3>2
      <3> QED BY <1>1, <3>1, <3>3 DEF Memory
    <2> QED BY <1>1, <1>7, <2>1 DEF Memory
  <1> QED BY <1>4, <1>5, <1>6, <1>9, <1>10 DEF Holding, l2

----------------------------------------------------------------------------
(* Each step of the running program.                                       *)

\* The file has more pages.
LEMMA ListingGrows ==
    ASSUME NEW l, NEW n \in Nat, NEW m \in Nat, n <= m, Listing(l, n)
    PROVE  Listing(l, m)
  <1>1. \A i \in 0 .. n - 1 : i \in 0 .. m - 1
    OBVIOUS
  <1> QED BY <1>1 DEF Listing

\* What stays as it is when the pages of the program and the log go on.
LEMMA FileKept ==
    ASSUME NEW Q, Running(Q), HInv, numPages' \in Nat, numPages <= numPages',
           Range(list) \subseteq Range(list'), UNCHANGED <<disk, catalog>>
    PROVE  /\ Listing(catalog', numPages') /\ Range(catalog') \subseteq Range(list')
           /\ \A p \in Range(catalog') : disk'[p] # ZeroPage
  <1>1. /\ Listing(catalog, numPages) /\ Range(catalog) \subseteq Range(list)
        /\ \A p \in Range(catalog) : disk[p] # ZeroPage
    BY DEF Running
  <1>2. numPages \in Nat
    BY HeapAssumption DEF HInv
  <1>4. Listing(catalog, numPages')
    BY <1>1, <1>2, ListingGrows
  <1> QED BY <1>1, <1>4

\* insertTuple on pages that have no reusable gap: one page changes, by insert.
LEMMA InsertedAt ==
    ASSUME HInv, NEW row \in Rows, stmts < scenario.stmts, InsertTuple(page, hint, row)
    PROVE  LET r == NewRid(page, hint, row)
           IN  /\ r \in Rid /\ r[2] = Len(page[r[1]].slots) + 1
               /\ r[1] < numPages' /\ numPages' \in Nat /\ numPages <= numPages'
               /\ CanInsert(Initialised(page[r[1]]), row)
               /\ page' = [page EXCEPT ![r[1]] = Insert(Initialised(page[r[1]]), row)]
               /\ Range(list) \subseteq Range(list')
  <1> DEFINE old == Hosts(page, hint, row) # {}
             p == Target(page, hint, row)
             r == NewRid(page, hint, row)
             from == IF old THEN page[p] ELSE EmptyPage
  <1>1. /\ page' = [page EXCEPT ![p] = Insert(from, row)]
        /\ list' = IF old THEN list ELSE Append(list, p)
        /\ numPages' = IF old THEN numPages ELSE numPages + 1
        /\ old \/ numPages < MaxPages
    BY DEF InsertTuple
  <1>2. /\ numPages \in 0 .. MaxPages /\ MaxPages \in Nat /\ Listing(list, numPages)
        /\ Whole(page, list, numPages, stmts)
    BY HeapAssumption DEF HInv
  <1>3. r \in Rid
    BY <1>2, Inserted
  <1>4. r[1] = p /\ r[2] = InsertSlot(page[p], row)
    BY DEF NewRid
  <1>5. CASE old
    <2>1. p \in PageIds /\ p \in 0 .. numPages - 1 /\ p \in Range(list) /\ CanInsert(page[p], row)
      BY <1>2, <1>5, HostIs
    <2>2. Sound(page[p]) /\ from = page[p] /\ page[p] # ZeroPage
      BY <1>2, <1>5, <2>1 DEF Whole
    <2> HIDE DEF p, r, old, from
    <2>3. Initialised(page[p]) = page[p]
      BY <2>2, Restarted
    <2>4. InsertSlot(page[p], row) = Len(page[p].slots) + 1
      BY <2>1, <2>2, InsertSound
    <2>5. numPages' = numPages /\ list' = list /\ p < numPages'
      BY <1>1, <1>2, <1>5, <2>1
    <2> QED BY <1>1, <1>2, <1>3, <1>4, <2>1, <2>2, <2>3, <2>4, <2>5 DEF r
  <1>6. CASE ~old
    <2>1. p = numPages /\ from = EmptyPage /\ numPages < MaxPages
      BY <1>1, <1>6 DEF Target
    <2>2. p \in PageIds /\ ~(p < numPages)
      BY <1>2, <2>1 DEF PageIds
    <2>3. page[p] = ZeroPage
      BY <1>2, <2>2 DEF Whole
    <2>4. Initialised(page[p]) = EmptyPage
      BY <2>3, Restarted
    <2>5. InsertSlot(page[p], row) = 1 /\ Len(page[p].slots) = 0 /\ CanInsert(EmptyPage, row)
      BY <2>3, FirstSlot, ZeroPageIs
    <2>6. numPages' = numPages + 1 /\ list' = Append(list, numPages)
      BY <1>1, <1>6, <2>1
    <2>7. Range(list) \subseteq Range(list')
      BY <1>2, <2>1, <2>6, ListedNew
    <2> HIDE DEF p, r, old, from
    <2> QED BY <1>1, <1>2, <1>3, <1>4, <2>1, <2>4, <2>5, <2>6, <2>7 DEF r
  <1> QED BY <1>5, <1>6

\* PUT.
LEMMA RunningPut ==
    ASSUME HInv, Careful, NEW Q, Running(Q), NEW row \in Rows, Put(row)
    PROVE  \E R : Running(R)'
  <1> DEFINE r == NewRid(page, hint, row)
             rec == Record("Insert", r, row)
             new == [page EXCEPT ![r[1]] = Insert(Initialised(page[r[1]]), row)]
  <1>1. /\ stmts < scenario.stmts /\ InsertTuple(page, hint, row) /\ MayPut
        /\ UNCHANGED <<disk, catalog, txn, saved>> /\ log' = Append(log, rec)
    BY DEF Put, Statement, fileVars
  <1>2. Clean(log)
    BY <1>1 DEF MayPut, Untouched, Clean
  <1>3. numPages \in Nat
    BY HeapAssumption DEF HInv
  <1>4. Holding(Q, log, txn, numPages, saved, page, disk)
    BY DEF Running
  <1> HIDE DEF r, rec
  <1>5. /\ r \in Rid /\ r[2] = Len(page[r[1]].slots) + 1
        /\ r[1] < numPages' /\ numPages' \in Nat /\ numPages <= numPages'
        /\ CanInsert(Initialised(page[r[1]]), row)
        /\ page' = new
        /\ Range(list) \subseteq Range(list')
    BY <1>1, InsertedAt DEF r
  <1>6. rec = [lsn |-> Len(log) + 1, txn |-> txn, type |-> "Insert", rid |-> r, row |-> row]
    BY DEF rec, Record
  <1>7. \E R : Holding(R, Append(log, rec), txn, numPages', saved, new, disk)
    BY <1>2, <1>3, <1>4, <1>5, <1>6, PutHolds
  <1>8. PICK R : Holding(R, log', txn', numPages', saved', page', disk')
    BY <1>1, <1>5, <1>7
  <1>9. /\ Listing(catalog', numPages') /\ Range(catalog') \subseteq Range(list')
        /\ \A p \in Range(catalog') : disk'[p] # ZeroPage
    BY <1>1, <1>5, FileKept
  <1>10. Running(R)'
    BY <1>8, <1>9 DEF Running
  <1> QED BY <1>10

\* Rows are removed or changed once those that were put are committed.
LEMMA BirthsSettled ==
    ASSUME Careful, MayChange, NEW Q, Running(Q), NEW x \in Rid, NEW i \in 1 .. Len(log), Births(log, i, x)
    PROVE  log[i].txn # txn
  <1>1. CASE Untouched
    BY <1>1 DEF MayChange, Settled
  <1>2. CASE ~Untouched
    <2>1. PICK d \in 1 .. Len(log) : log[d].type = "Delete"
      BY <1>2 DEF Untouched
    <2> QED BY <2>1 DEF Running, Holding, LogWell, Changes
  <1> QED BY <1>1, <1>2

\* The record of a REMOVE is appended.
LEMMA RunningTake ==
    ASSUME HInv, Careful, MayChange, NEW Q, Running(Q), NEW r \in LiveRids
    PROVE  /\ Holding(Q, Append(log, Record("Delete", r, RowAt(r))), txn, numPages, saved, ErasedAt(r), disk)
           /\ Apart(page, ErasedAt(r), r)
  <1>1. r \in LiveOf(page) /\ RowAt(r) = RowIn(page, r)
    BY HeapIs
  <1>2. Holding(Q, log, txn, numPages, saved, page, disk) /\ numPages \in Nat
    BY HeapAssumption DEF Running, HInv
  <1>3. AllSettled(log, txn)
    BY BirthsSettled DEF AllSettled
  <1>4. Erasing(log, txn, page, r) = Record("Delete", r, RowAt(r))
    BY <1>1 DEF Record, Erasing
  <1>5. Without(page, r) = ErasedAt(r)
    BY DEF ErasedAt, Without
  <1>6. /\ Holding(Q, Append(log, Erasing(log, txn, page, r)), txn, numPages, saved, Without(page, r), disk)
        /\ Apart(page, Without(page, r), r)
    BY <1>1, <1>2, <1>3, TakeHolds
  <1> QED BY <1>4, <1>5, <1>6

\* REMOVE.
LEMMA RunningRemove ==
    ASSUME HInv, Careful, NEW Q, Running(Q), NEW r \in LiveRids, Remove(r)
    PROVE  Running(Q)'
  <1>1. /\ page' = ErasedAt(r) /\ MayChange /\ log' = Append(log, Record("Delete", r, RowAt(r)))
        /\ UNCHANGED <<disk, catalog, txn, saved, numPages, list>>
    BY DEF Remove, Statement, fileVars
  <1>2. numPages' \in Nat /\ numPages <= numPages' /\ Range(list) \subseteq Range(list')
    BY <1>1, HeapAssumption DEF HInv
  <1>3. Holding(Q, log', txn', numPages', saved', page', disk')
    BY <1>1, RunningTake
  <1> QED BY <1>1, <1>2, <1>3, FileKept DEF Running

\* MODIFY in place.
LEMMA RunningModify ==
    ASSUME HInv, Careful, NEW Q, Running(Q), NEW r \in LiveRids, NEW row \in Rows, ModifyInPlace(r, row)
    PROVE  Running(Q)'
  <1> DEFINE a == Record("Delete", r, RowAt(r))
             b == [Record("Insert", r, row) EXCEPT !.lsn = Len(log) + 2]
             l1 == Append(log, a)
             P == ErasedAt(r)
             P2 == UpdatedAt(r, row)
             p == r[1]
             s == r[2]
             new == Update(page[p], s, row)
  <1>1. /\ page' = P2 /\ MayChange /\ CanUpdate(page[p], s, row)
        /\ log' = log \o <<a, b>>
        /\ UNCHANGED <<disk, catalog, txn, saved, numPages, list>>
    BY DEF ModifyInPlace, Statement, fileVars, UpdatedAt
  <1>2. numPages' \in Nat /\ numPages <= numPages' /\ Range(list) \subseteq Range(list') /\ numPages \in Nat
    BY <1>1, HeapAssumption DEF HInv
  <1>3. /\ Holding(Q, l1, txn, numPages, saved, P, disk) /\ Apart(page, P, r)
        /\ P \in [PageIds -> PageRecord] /\ Len(P[p].slots) = Len(page[p].slots)
        /\ \A x \in PageIds : x # p => P[x] = page[x]
        /\ \A x \in Rid : x # r => /\ x \in LiveOf(P) <=> x \in LiveOf(page)
                                   /\ x \in LiveOf(page) => RowIn(P, x) = RowIn(page, x)
    <2>1. Holding(Q, l1, txn, numPages, saved, P, disk) /\ Apart(page, P, r)
      BY <1>1, RunningTake
    <2> HIDE DEF P, l1
    <2> QED BY <2>1 DEF Apart
  <1> HIDE DEF P
  <1>4. /\ r \in Rid /\ p \in PageIds /\ s \in 1 .. MaxStmts /\ r = <<p, s>>
        /\ r \in LiveOf(page) /\ p \in Range(list) /\ RowAt(r) = RowIn(page, r)
    BY HeapIs
  <1>5. Sound(page[p]) /\ page \in [PageIds -> PageRecord]
    BY <1>4, ZeroPageIs DEF HInv, Whole
  <1>6. Holding(Q, log, txn, numPages, saved, page, disk)
    BY DEF Running
  <1>7. LogWell(log, txn, numPages) /\ Room(Q, log) /\ Memory(log, page, Q) /\ FileWell(page, Q, log, numPages)
    BY <1>6 DEF Holding
  <1>8. log \in Seq(LogRecord) /\ Len(log) \in Nat /\ txn \in Nat
    BY <1>7, LogTypes
  <1>9. page[p].lsn = 0 /\ Logged(page[p], p, log)
    BY <1>4, <1>7 DEF FileWell
  <1>10. /\ RowIn(page, r) \in Rows
         /\ \E j \in 1 .. Len(log) : Puts(log, j, r) /\ log[j].row = RowIn(page, r)
    BY <1>4, <1>7, <1>9, LiveLogged
  <1>11. s <= Len(Q[p].slots) /\ RowLen[RowIn(page, r)] <= Q[p].slots[s].len /\ Q[p] \in PageRecord
    BY <1>4, <1>7, <1>10 DEF Room, Stacked
  <1>12. RowLen[row] <= Q[p].slots[s].len
    <2>1. IsLive(page[p], s) /\ RowLen[row] <= page[p].slots[s].len
      BY <1>1 DEF CanUpdate
    <2>2. page[p].slots[s].len = RowLen[RowIn(page, r)]
      BY <1>5, <2>1 DEF Sound, Live, IsLive, RowIn
    <2>3. RowLen[row] \in Nat /\ RowLen[RowIn(page, r)] \in Nat
      BY <1>10, PageAssumption
    <2>4. Q[p].slots[s].len \in Nat
      <3>1. Len(Q[p].slots) \in Nat /\ \A i \in 1 .. Len(Q[p].slots) : Q[p].slots[i].len \in Nat
        BY <1>11, SlotTypes
      <3> QED BY <1>4, <1>11, <3>1, HeapAssumption
    <2> QED BY <1>11, <2>1, <2>2, <2>3, <2>4
  <1>13. a \in LogRecord /\ b \in LogRecord
    <2>1. /\ a = [lsn |-> Len(log) + 1, txn |-> txn, type |-> "Delete", rid |-> r, row |-> RowIn(page, r)]
          /\ b = [lsn |-> Len(log) + 2, txn |-> txn, type |-> "Insert", rid |-> r, row |-> row]
      BY <1>4 DEF Record
    <2> HIDE DEF a, b
    <2> QED BY <1>4, <1>8, <1>10, <2>1 DEF LogRecord
  <1>14. log' = Append(l1, b) /\ Len(l1) = Len(log) + 1 /\ l1[Len(l1)] = a
    BY <1>1, <1>8, <1>13
  <1>15. b = [lsn |-> Len(l1) + 1, txn |-> txn, type |-> "Insert", rid |-> r, row |-> row]
    <2>1. b = [lsn |-> Len(log) + 2, txn |-> txn, type |-> "Insert", rid |-> r, row |-> row]
      BY DEF Record
    <2>2. Len(l1) + 1 = Len(log) + 2
      BY <1>8, <1>14
    <2> QED BY <2>1, <2>2
  <1>16. Takes(l1, Len(l1), r) /\ l1[Len(l1)].txn = txn
    <2>1. Len(l1) \in 1 .. Len(l1)
      BY <1>8, <1>14
    <2> QED BY <1>14, <2>1 DEF Takes, IsOf, Record
  <1> HIDE DEF a, b, l1
  <1>17. /\ Sound(new) /\ Len(new.slots) = Len(page[p].slots) /\ IsLive(new, s)
         /\ new.slots[s].row = row /\ SameBut(page[p], new, s)
    BY <1>1, <1>5, UpdateSound
  <1>18. new.lsn = 0 /\ new \in PageRecord
    BY <1>5, <1>9, <1>17 DEF Sound, Update, WithSlots, PageRecord
  <1>19. P2 = [page EXCEPT ![p] = new]
    BY DEF UpdatedAt
  <1> HIDE DEF P2, new
  <1>20. SlotChange(page, P2, p, s, new)
    BY <1>4, <1>5, <1>17, <1>18, <1>19, OneSlot
  <1>21. /\ P2 \in [PageIds -> PageRecord] /\ P2[p] = new
         /\ \A x \in PageIds : x # p => P2[x] = P[x]
         /\ \A x \in Rid : x # r => /\ x \in LiveOf(P2) <=> x \in LiveOf(P)
                                    /\ x \in LiveOf(P) => RowIn(P2, x) = RowIn(P, x)
         /\ Holds(P2, r, row)
    BY <1>3, <1>4, <1>17, <1>20 DEF SlotChange, Holds, RowIn
  <1>22. Sound(P2[p]) /\ P2[p].lsn = 0 /\ Apart(P, P2, r)
    BY <1>3, <1>17, <1>18, <1>21 DEF Apart
  <1>23. Holding(Q, Append(l1, b), txn, numPages, saved, P2, disk)
    BY <1>2, <1>3, <1>4, <1>11, <1>12, <1>15, <1>16, <1>21, <1>22, PutBackHolds
  <1>24. Holding(Q, log', txn', numPages', saved', page', disk')
    BY <1>1, <1>14, <1>23
  <1> QED BY <1>1, <1>2, <1>24, FileKept DEF Running

\* SAVE.
LEMMA RunningCommit ==
    ASSUME HInv, NEW Q, Running(Q), Commit
    PROVE  Running(Q)'
  <1>1. /\ UNCHANGED <<page, numPages, list, disk, catalog>>
        /\ log' = Append(log, Record("Commit", <<>>, Dead)) /\ txn' = txn + 1 /\ saved' = Heap
    BY DEF Commit, heapVars, fileVars
  <1>2. Record("Commit", <<>>, Dead)
          = [lsn |-> Len(log) + 1, txn |-> txn, type |-> "Commit", rid |-> <<>>, row |-> Dead]
    BY DEF Record
  <1>3. saved' = HeapOf(page)
    BY <1>1, HeapIs
  <1>4. Holding(Q, log, txn, numPages, saved, page, disk)
    BY DEF Running
  <1>5. Holding(Q, log', txn', numPages', saved', page', disk')
    BY <1>1, <1>2, <1>3, <1>4, CommitHolds
  <1> QED BY <1>1, <1>5 DEF Running

\* A page is written.
LEMMA RunningWrite ==
    ASSUME HInv, NEW Q, Running(Q), NEW p \in PageIds, WritePage(p)
    PROVE  Running(Q)'
  <1>1. /\ UNCHANGED <<page, numPages, list, catalog, log, txn, saved>>
        /\ disk' = [disk EXCEPT ![p] = page[p]] /\ disk[p] # page[p]
    BY DEF WritePage, heapVars
  <1>2. /\ Holding(Q, log, txn, numPages, saved, page, disk)
        /\ FileWell(page, Q, log, numPages) /\ FileWell(disk, Q, log, numPages)
    BY DEF Running, Holding
  <1>3. disk' \in [PageIds -> PageRecord]
        /\ \A q \in PageIds : disk'[q] = IF q = p THEN page[q] ELSE disk[q]
    BY <1>1, <1>2 DEF FileWell
  <1>4. FileWell(disk', Q, log, numPages)
    BY <1>2, <1>3 DEF FileWell
  <1>5. Holding(Q, log', txn', numPages', saved', page', disk')
    BY <1>1, <1>2, <1>4 DEF Holding
  <1>6. \A q \in Range(catalog) : disk'[q] # ZeroPage
    <2> SUFFICES ASSUME NEW q \in Range(catalog) PROVE disk'[q] # ZeroPage
      OBVIOUS
    <2>1. disk[q] # ZeroPage /\ q \in Range(list) /\ q \in PageIds
      <3>1. \A i \in 1 .. Len(list) : list[i] \in PageIds
        BY DEF HInv, Listing
      <3> QED BY <3>1 DEF Running, Range
    <2>2. page[q] # ZeroPage
      BY <2>1 DEF HInv, Whole
    <2> QED BY <1>3, <2>1, <2>2
  <1> QED BY <1>1, <1>5, <1>6 DEF Running

\* After a commit all pages and the catalog have been written.
LEMMA RunningFlushed ==
    ASSUME HInv, Careful, NEW Q, Running(Q), Flushed
    PROVE  Running(Q)'
  <1>1. /\ UNCHANGED <<page, numPages, list, log, txn, saved>>
        /\ disk' = page /\ disk = page /\ catalog' = list
    BY DEF Flushed, heapVars, Careful
  <1>2. Holding(Q, log', txn', numPages', saved', page', disk')
    BY <1>1 DEF Running
  <1>3. \A q \in Range(list) : page[q] # ZeroPage
    <2>1. \A i \in 1 .. Len(list) : list[i] \in PageIds
      BY DEF HInv, Listing
    <2> QED BY <2>1 DEF HInv, Whole, Range
  <1> QED BY <1>1, <1>2, <1>3 DEF Running, HInv

\* Each step of the program while it runs.
LEMMA RunningNext ==
    ASSUME HInv, Careful, NEW Q, Running(Q), [Next]_vars, ~Crash
    PROVE  \E R : Running(R)'
  <1>1. phase \in {"open", "flushing"}
    BY DEF HInv, Open
  <1>2. ASSUME NEW row \in Rows, Put(row)
        PROVE  \E R : Running(R)'
    BY <1>2, RunningPut
  <1>3. ASSUME NEW r \in LiveRids, Remove(r)
        PROVE  Running(Q)'
    BY <1>3, RunningRemove
  <1>4. ASSUME NEW r \in LiveRids, NEW row \in Rows, ModifyInPlace(r, row)
        PROVE  Running(Q)'
    BY <1>4, RunningModify
  <1>5. ASSUME NEW r \in LiveRids, NEW row \in Rows, ModifyMoves(r, row)
        PROVE  FALSE
    BY <1>5 DEF ModifyMoves
  <1>6. CASE Commit
    BY <1>6, RunningCommit
  <1>7. CASE Flushed
    BY <1>7, RunningFlushed
  <1>8. CASE UNCHANGED vars
    <2>1. UNCHANGED <<page, disk, numPages, list, catalog, log, txn, saved>>
      BY <1>8 DEF vars, heapVars, fileVars
    <2>2. Running(Q)'
      BY <2>1 DEF Running
    <2> QED BY <2>2
  <1>9. ASSUME NEW p \in PageIds, WritePage(p)
        PROVE  Running(Q)'
    BY <1>9, RunningWrite
  <1>10. ~Redo /\ ~RedoDone /\ ~UndoLoser /\ ~Recovered
    BY <1>1 DEF Redo, RedoDone, UndoLoser, Recovered
  <1> QED BY <1>2, <1>3, <1>4, <1>5, <1>6, <1>7, <1>8, <1>9, <1>10 DEF Next

\* A stop: recovery starts with the pages in the file.
LEMMA CrashStops ==
    ASSUME HInv, NEW Q, Running(Q), Crash
    PROVE  InRecovery(Q)' /\ ~Open'
  <1>1. /\ scenario' = [scenario EXCEPT !.crash = FALSE] /\ page' = disk /\ list' = catalog
        /\ phase' = "redo" /\ at' = 1
        /\ UNCHANGED <<disk, catalog, numPages, log, txn, stmts, saved>>
    BY DEF Crash, fileVars
  <1>2. /\ scenario \in Scenario /\ stmts \in 0 .. scenario.stmts /\ numPages \in 0 .. MaxPages
        /\ Whole(page, list, numPages, stmts) /\ stmts \in Nat
    BY HeapAssumption DEF HInv, Scenario
  <1>3. /\ LogWell(log, txn, numPages) /\ Room(Q, log) /\ SavedRows(log, txn, saved)
        /\ FileWell(disk, Q, log, numPages) /\ Memory(log, page, Q)
    BY DEF Running, Holding
  <1>4. scenario' \in Scenario /\ ~scenario'.crash /\ scenario'.stmts = scenario.stmts
    BY <1>1, <1>2 DEF Scenario
  <1>5. disk \in [PageIds -> PageRecord]
    BY <1>3 DEF FileWell
  <1>6. ASSUME NEW p \in PageIds
        PROVE  /\ disk[p] = ZeroPage \/ (Sound(disk[p]) /\ p < numPages)
               /\ Logged(disk[p], p, log)
               /\ Len(disk[p].slots) <= Len(Q[p].slots) /\ Len(Q[p].slots) <= stmts
               /\ Former(disk[p], Q[p], log) /\ disk[p].lsn = 0
    <2>1. Former(disk[p], Q[p], log) /\ Logged(disk[p], p, log) /\ disk[p].lsn = 0
          /\ (disk[p] = ZeroPage \/ p < numPages)
      BY <1>3 DEF FileWell
    <2>2. Len(Q[p].slots) \in Nat
      BY <1>3, StackedOrder DEF Room
    <2>3. Len(disk[p].slots) <= Len(Q[p].slots)
      BY <2>1, <2>2, ZeroPageIs DEF Former, Prefix
    <2>4. Len(page[p].slots) <= stmts
      <3>1. page[p] = ZeroPage \/ Len(page[p].slots) <= stmts
        BY <1>2 DEF Whole
      <3> QED BY <1>2, <3>1, ZeroPageIs
    <2>5. Len(page[p].slots) = Len(Q[p].slots)
      BY <1>3 DEF Memory
    <2> QED BY <2>1, <2>3, <2>4, <2>5 DEF Former
  <1>7. Listing(catalog, numPages) /\ \A p \in Range(catalog) : disk[p] # ZeroPage
    BY DEF Running
  <1>8. PagesWell(Q, log, numPages, disk, catalog, stmts)
    BY <1>5, <1>6, <1>7 DEF PagesWell
  <1>9. Redoing(Q, log, txn, 1, disk, catalog)
    <2>1. \A p \in PageIds : disk[p].lsn < 1
      BY <1>6
    <2>2. Len(log) \in Nat /\ 1 \in 1 .. Len(log) + 1 /\ 1 .. 1 - 1 = {}
      BY <1>3, LogTypes
    <2> QED BY <1>6, <2>1, <2>2 DEF Redoing
  <1>10. InRecovery(Q)'
    BY <1>1, <1>2, <1>3, <1>4, <1>8, <1>9 DEF InRecovery
  <1> QED BY <1>1, <1>10 DEF Open

----------------------------------------------------------------------------
(* Each step of recovery.                                                  *)

\* The page of a row that recovery puts back is listed.
LEMMA ListedAlso ==
    ASSUME NEW n \in Nat, NEW li, Listing(li, n), NEW p \in PageIds, p < n,
           NEW li2, li2 = li \/ li2 = (IF p \in Range(li) THEN li ELSE Append(li, p))
    PROVE  /\ Listing(li2, n) /\ Range(li) \subseteq Range(li2) /\ Range(li2) \subseteq Range(li) \cup {p}
           /\ li2 = (IF p \in Range(li) THEN li ELSE Append(li, p)) => p \in Range(li2)
  <1>1. CASE li2 = li
    BY <1>1
  <1>2. CASE li2 = Append(li, p) /\ p \notin Range(li)
    <2>1. li \in Seq(PageIds) /\ Len(li) \in Nat /\ p \in Nat
      BY DEF Listing, PageIds
    <2>2. /\ li2 \in Seq(PageIds) /\ Len(li2) = Len(li) + 1 /\ li2[Len(li) + 1] = p
          /\ \A i \in 1 .. Len(li) : li2[i] = li[i]
      BY <1>2, <2>1
    <2>3. \A i \in 1 .. Len(li) : li[i] \in Range(li) /\ li[i] # p
      BY <1>2, <2>1 DEF Range
    <2>4. Range(li2) = Range(li) \cup {p}
      BY <2>1, <2>2 DEF Range
    <2>5. Range(li2) \subseteq 0 .. n - 1
      <3>1. p \in 0 .. n - 1
        BY <2>1
      <3> QED BY <2>4, <3>1 DEF Listing
    <2>6. ASSUME NEW i \in 1 .. Len(li) + 1, NEW j \in 1 .. Len(li) + 1, li2[i] = li2[j]
          PROVE  i = j
      BY <2>1, <2>2, <2>3, <2>6 DEF Listing
    <2>7. Listing(li2, n)
      BY <2>2, <2>5, <2>6 DEF Listing
    <2> QED BY <2>4, <2>7
  <1> QED BY <1>1, <1>2

\* One slot of a page of the file is changed by recovery.
SlotSet(Q, l, n, P, li, x, new, li2) ==
    /\ x \in Rid /\ x[1] < n
    /\ Sound(new) /\ SameBut(P[x[1]], new, x[2]) /\ Len(new.slots) <= Len(Q[x[1]].slots)
    /\ IsLive(new, x[2]) => \E i \in 1 .. Len(l) : Puts(l, i, x) /\ l[i].row = new.slots[x[2]].row
    /\ li2 = li \/ li2 = (IF x[1] \in Range(li) THEN li ELSE Append(li, x[1]))

\* What recovery has left alone.
Kept(P, P2, x, new, li, li2) ==
    /\ P2 \in [PageIds -> PageRecord] /\ P2[x[1]] = new
    /\ \A p \in PageIds : p # x[1] => P2[p] = P[p]
    /\ \A y \in Rid : y # x => /\ y \in LiveOf(P2) <=> y \in LiveOf(P)
                               /\ \A row : Holds(P, y, row) => Holds(P2, y, row)
    /\ x \in LiveOf(P2) <=> IsLive(new, x[2])
    /\ Range(li) \subseteq Range(li2)

\* What recovery does to one slot keeps the pages in order.
LEMMA PageSet ==
    ASSUME NEW Q, NEW l, NEW n \in Nat, NEW P, NEW li, NEW k, PagesWell(Q, l, n, P, li, k),
           NEW x, NEW new, NEW li2, SlotSet(Q, l, n, P, li, x, new, li2)
    PROVE  LET P2 == [P EXCEPT ![x[1]] = new]
           IN  PagesWell(Q, l, n, P2, li2, k) /\ Kept(P, P2, x, new, li, li2)
  <1> DEFINE P2 == [P EXCEPT ![x[1]] = new]
             p == x[1]
             s == x[2]
  <1>1. /\ x \in Rid /\ p < n /\ Sound(new) /\ SameBut(P[p], new, s) /\ Len(new.slots) <= Len(Q[p].slots)
        /\ IsLive(new, s) => \E i \in 1 .. Len(l) : Puts(l, i, x) /\ l[i].row = new.slots[s].row
        /\ li2 = li \/ li2 = (IF p \in Range(li) THEN li ELSE Append(li, p))
    BY DEF SlotSet
  <1>2. /\ P \in [PageIds -> PageRecord]
        /\ \A q \in PageIds : /\ P[q] = ZeroPage \/ (Sound(P[q]) /\ q < n)
                              /\ Logged(P[q], q, l)
                              /\ Len(P[q].slots) <= Len(Q[q].slots) /\ Len(Q[q].slots) <= k
        /\ Listing(li, n) /\ \A q \in Range(li) : P[q] # ZeroPage
    BY DEF PagesWell
  <1>3. x = <<p, s>> /\ p \in PageIds /\ s \in 1 .. MaxStmts
    BY <1>1, RidIs
  <1>4. new \in PageRecord
    BY <1>1 DEF Sound
  <1>5. SlotChange(P, P2, p, s, new)
    BY <1>1, <1>2, <1>3, <1>4, OneSlot
  <1>6. P2 \in [PageIds -> PageRecord] /\ P2[p] = new /\ \A q \in PageIds : q # p => P2[q] = P[q]
    BY <1>5 DEF SlotChange
  <1>7. Listing(li2, n) /\ Range(li) \subseteq Range(li2) /\ Range(li2) \subseteq Range(li) \cup {p}
    BY <1>1, <1>2, <1>3, ListedAlso
  <1> HIDE DEF P2, p, s
  <1>8. Logged(new, p, l)
    <2> SUFFICES ASSUME NEW i \in Live(new)
                 PROVE  \E j \in 1 .. Len(l) : Puts(l, j, <<p, i>>) /\ l[j].row = new.slots[i].row
      BY DEF Logged
    <2>1. i \in 1 .. Len(new.slots) /\ IsLive(new, i)
      BY DEF Live
    <2>2. CASE i = s
      BY <1>1, <1>3, <2>1, <2>2
    <2>3. CASE i # s
      <3>1. IsLive(P[p], i) /\ new.slots[i].row = P[p].slots[i].row /\ i \in Live(P[p])
        BY <1>1, <2>1, <2>3 DEF SameBut, Live, IsLive
      <3> QED BY <1>2, <1>3, <3>1 DEF Logged
    <2> QED BY <2>2, <2>3
  <1>9. \A q \in PageIds : /\ P2[q] = ZeroPage \/ (Sound(P2[q]) /\ q < n)
                           /\ Logged(P2[q], q, l)
                           /\ Len(P2[q].slots) <= Len(Q[q].slots) /\ Len(Q[q].slots) <= k
    <2> SUFFICES ASSUME NEW q \in PageIds
                 PROVE  /\ P2[q] = ZeroPage \/ (Sound(P2[q]) /\ q < n)
                        /\ Logged(P2[q], q, l)
                        /\ Len(P2[q].slots) <= Len(Q[q].slots) /\ Len(Q[q].slots) <= k
      OBVIOUS
    <2>1. CASE q = p
      BY <1>1, <1>2, <1>6, <1>8, <2>1
    <2>2. CASE q # p
      BY <1>2, <1>6, <2>2
    <2> QED BY <2>1, <2>2
  <1>10. \A q \in Range(li2) : P2[q] # ZeroPage
    <2> SUFFICES ASSUME NEW q \in Range(li2) PROVE P2[q] # ZeroPage
      OBVIOUS
    <2>1. q \in PageIds
      BY <1>7 DEF Listing, Range
    <2>2. new # ZeroPage
      BY <1>1, SoundPage
    <2> QED BY <1>2, <1>6, <1>7, <2>1, <2>2
  <1>11. PagesWell(Q, l, n, P2, li2, k)
    BY <1>6, <1>7, <1>9, <1>10 DEF PagesWell
  <1>12. ASSUME NEW y \in Rid, y # x
         PROVE  /\ y \in LiveOf(P2) <=> y \in LiveOf(P)
                /\ \A row : Holds(P, y, row) => Holds(P2, y, row)
    <2>1. y \in LiveOf(P2) \ {x} <=> y \in LiveOf(P) \ {x}
      BY <1>3, <1>5 DEF SlotChange
    <2>2. y \in LiveOf(P) => RowIn(P2, y) = RowIn(P, y)
      BY <1>3, <1>5, <1>12 DEF SlotChange
    <2> QED BY <1>12, <2>1, <2>2 DEF Holds
  <1>13. x \in LiveOf(P2) <=> IsLive(new, s)
    BY <1>3, <1>5 DEF SlotChange
  <1>14. Kept(P, P2, x, new, li, li2)
    BY <1>6, <1>7, <1>12, <1>13 DEF Kept, p, s
  <1> QED BY <1>11, <1>14 DEF P2, p

\* The transactions that recovery redoes are all but the last one.
LEMMA Losers ==
    ASSUME NEW l, NEW t, NEW n, LogWell(l, t, n)
    PROVE  /\ \A i \in 1 .. Len(l) :
                 l[i].txn # t <=>
                     l[i].txn \in {l[j].txn : j \in {m \in 1 .. Len(l) : l[m].type = "Commit"}}
           /\ \A i, j \in 1 .. Len(l) : i <= j /\ l[j].txn # t => l[i].txn # t
           /\ \A i \in 1 .. Len(l) : l[i].type = "Commit" => l[i].txn # t
  <1>1. Numbered(l, t)
    BY DEF LogWell
  <1>2. ASSUME NEW i \in 1 .. Len(l), NEW j \in 1 .. Len(l), i <= j, l[j].txn # t
        PROVE  l[i].txn # t
    <2>1. j \in i .. Len(l)
      BY <1>2
    <2> QED BY <1>1, <1>2, <2>1 DEF Numbered
  <1>3. \A i \in 1 .. Len(l) : l[i].txn # t =>
           \E j \in 1 .. Len(l) : l[j].type = "Commit" /\ l[j].txn = l[i].txn
    BY <1>1 DEF Numbered
  <1>4. \A i \in 1 .. Len(l) : l[i].type = "Commit" => l[i].txn # t
    BY <1>1 DEF Numbered
  <1> QED BY <1>2, <1>3, <1>4

\* The slots of committed rows, up to record a, are there.
SlotsThere(l, t, a, P) ==
    \A r \in Rid, i \in 1 .. a - 1 : IsOf(l, i, r) /\ l[i].txn # t => r[2] <= Len(P[r[1]].slots)

\* Before a row was taken, every row had been put and was committed.
LEMMA AllThere ==
    ASSUME NEW l, NEW t, NEW n, LogWell(l, t, n), NEW Q, Room(Q, l), NEW a \in Nat, NEW P,
           SlotsThere(l, t, a, P), NEW d \in 1 .. Len(l), d <= a, l[d].type = "Delete",
           NEW p \in PageIds, Len(P[p].slots) \in Nat, Len(P[p].slots) <= Len(Q[p].slots)
    PROVE  Len(P[p].slots) = Len(Q[p].slots)
  <1> DEFINE s == Len(Q[p].slots)
  <1>1. s \in Nat
    BY StackedOrder DEF Room
  <1>2. CASE s = 0
    BY <1>2
  <1>3. CASE s # 0
    <2>1. s \in 1 .. Len(Q[p].slots)
      BY <1>1, <1>3
    <2>2. PICK i \in 1 .. Len(l) : Births(l, i, <<p, s>>)
      BY <2>1 DEF Room
    <2>3. <<p, s>> \in Rid
      BY <2>1, RoomRids
    <2>4. i < d /\ l[i].txn # t
      BY <2>2, <2>3 DEF LogWell, Changes
    <2>5. i \in 1 .. a - 1
      BY <2>4
    <2>6. IsOf(l, i, <<p, s>>)
      BY <2>2 DEF Births, Puts
    <2>7. s <= Len(P[p].slots)
      BY <2>3, <2>4, <2>5, <2>6 DEF SlotsThere
    <2> QED BY <1>1, <2>7
  <1> QED BY <1>2, <1>3

\* A page with a slot that is not live has all slots it ever had.
LEMMA DeadThere ==
    ASSUME NEW q, Stacked(q), NEW pg, NEW l, Former(pg, q, l),
           NEW s \in 1 .. Len(pg.slots), ~IsLive(pg, s)
    PROVE  Len(pg.slots) = Len(q.slots) /\ ~Clean(l)
  <1>1. pg # ZeroPage
    <2>1. 1 .. 0 = {}
      OBVIOUS
    <2> QED BY <2>1, ZeroPageIs
  <1>2. ASSUME Prefix(pg, q)
        PROVE  FALSE
    <2>1. Len(q.slots) \in Nat
      BY StackedOrder
    <2>2. pg \in PageRecord /\ Len(pg.slots) \in Nat
      BY <1>1, SlotTypes DEF Former, Sound
    <2>3. s \in 1 .. Len(q.slots) /\ pg.slots[s] = q.slots[s]
      BY <1>2, <2>1, <2>2 DEF Prefix
    <2> QED BY <2>3, StackedOrder DEF IsLive
  <1> QED BY <1>1, <1>2 DEF Former

\* A row finds room again in its own slot.
LEMMA RoomFor ==
    ASSUME NEW l, NEW t, NEW n, LogWell(l, t, n), NEW Q, Room(Q, l), NEW x \in Rid,
           NEW pg, Sound(pg), Logged(pg, x[1], l), Len(pg.slots) = Len(Q[x[1]].slots),
           x[2] \in 1 .. Len(pg.slots), ~IsLive(pg, x[2]),
           NEW a \in 1 .. Len(l), Puts(l, a, x)
    PROVE  Fits(pg, RowLen[l[a].row])
  <1> DEFINE q == Q[x[1]]
  <1>1. x[1] \in PageIds /\ x = <<x[1], x[2]>>
    BY RidIs
  <1>2. Stacked(q) /\ pg \in PageRecord /\ q \in PageRecord
    BY <1>1 DEF Room, Sound, Stacked
  <1>3. l[a].row \in Rows
    BY LogTypes DEF Puts
  <1>4. RowLen[l[a].row] \in Nat /\ RowLen[l[a].row] <= q.slots[x[2]].len
    BY <1>3, PageAssumption DEF Room
  <1>5. pg.slots[x[2]].len = 0
    BY DEF IsLive
  <1>6. ASSUME NEW i \in 1 .. Len(q.slots)
        PROVE  pg.slots[i].len <= q.slots[i].len
    <2>1. i \in 1 .. Len(pg.slots)
      OBVIOUS
    <2>2. q.slots[i].len \in Nat
      BY <1>2, SlotTypes
    <2>3. CASE ~IsLive(pg, i)
      <3>1. pg.slots[i].len = 0
        BY <2>1, <2>3 DEF IsLive
      <3> QED BY <2>2, <3>1
    <2>4. CASE IsLive(pg, i)
      <3>1. i \in Live(pg)
        BY <2>1, <2>4 DEF Live
      <3>2. PICK j \in 1 .. Len(l) : Puts(l, j, <<x[1], i>>) /\ l[j].row = pg.slots[i].row
        BY <3>1 DEF Logged
      <3>3. <<x[1], i>> \in Rid
        BY <1>1, RoomRids
      <3>4. RowLen[l[j].row] <= q.slots[i].len
        BY <3>2, <3>3 DEF Room
      <3>5. pg.slots[i].len = RowLen[pg.slots[i].row]
        BY <3>1 DEF Sound
      <3> QED BY <3>2, <3>4, <3>5
    <2> QED BY <2>3, <2>4
  <1> HIDE DEF q
  <1>7. x[2] \in 1 .. Len(q.slots)
    BY DEF q
  <1>8. Len(pg.slots) = Len(q.slots)
    BY DEF q
  <1> QED BY <1>2, <1>4, <1>5, <1>6, <1>7, <1>8, RoomAgain

InRedo(Q, l, t, n, a, P, li, k) ==
    /\ LogWell(l, t, n) /\ Room(Q, l) /\ PagesWell(Q, l, n, P, li, k)
    /\ Redoing(Q, l, t, a, P, li) /\ a <= Len(l) /\ l[a].txn # t

\* What redo knows of the page of the record it has come to.
LEMMA RedoPage ==
    ASSUME NEW Q, NEW l, NEW t, NEW n, NEW a, NEW P, NEW li, NEW k, InRedo(Q, l, t, n, a, P, li, k),
           NEW x, IsOf(l, a, x)
    PROVE  LET pg == P[x[1]]
           IN  /\ x \in Rid /\ x[1] \in PageIds /\ x[2] \in Nat \ {0} /\ x = <<x[1], x[2]>>
               /\ l[a].row \in Rows /\ x[1] < n /\ a \in Nat \ {0} /\ a \in 1 .. Len(l)
               /\ pg \in PageRecord /\ Len(pg.slots) \in Nat
               /\ Stacked(Q[x[1]]) /\ Len(Q[x[1]].slots) \in Nat /\ Len(pg.slots) <= Len(Q[x[1]].slots)
               /\ Logged(pg, x[1], l) /\ Former(pg, Q[x[1]], l)
               /\ ~Redone(pg, a) /\ ~Redone(Initialised(pg), a)
               /\ x[2] <= Len(pg.slots) => Sound(pg) /\ pg # ZeroPage
               /\ pg = ZeroPage \/ Sound(pg)
               /\ \A i \in 1 .. a - 1 : i \in 1 .. Len(l) /\ l[i].txn # t
               /\ \A i \in 1 .. a - 1 : \A y \in Rid : IsOf(l, i, y) =>
                       y[2] <= Len(P[y[1]].slots) /\ y[1] \in Range(li)
  <1> DEFINE pg == P[x[1]]
  <1>1. /\ LogWell(l, t, n) /\ Room(Q, l) /\ PagesWell(Q, l, n, P, li, k)
        /\ Redoing(Q, l, t, a, P, li) /\ a <= Len(l) /\ l[a].txn # t
    BY DEF InRedo
  <1>2. a \in 1 .. Len(l) /\ x \in Rid /\ l[a].row \in Rows /\ x[1] < n /\ Len(l) \in Nat
    BY <1>1, LogTypes
  <1>3. x[1] \in PageIds /\ x[2] \in Nat \ {0} /\ x = <<x[1], x[2]>>
    BY <1>2, RidIs, HeapAssumption
  <1>4. /\ pg \in PageRecord /\ (pg = ZeroPage \/ Sound(pg)) /\ Logged(pg, x[1], l)
        /\ Len(pg.slots) <= Len(Q[x[1]].slots) /\ Former(pg, Q[x[1]], l) /\ pg.lsn < a
    BY <1>1, <1>3 DEF PagesWell, Redoing
  <1>5. Len(pg.slots) \in Nat
    BY <1>4, SlotTypes
  <1>6. Stacked(Q[x[1]]) /\ Len(Q[x[1]].slots) \in Nat
    BY <1>1, <1>3, StackedOrder DEF Room
  <1>7. Initialised(pg).lsn = pg.lsn /\ pg.lsn \in Nat
    BY <1>4, Restarted DEF PageRecord
  <1>8. ~Redone(pg, a) /\ ~Redone(Initialised(pg), a)
    BY <1>2, <1>4, <1>7 DEF Redone
  <1>9. x[2] <= Len(pg.slots) => pg # ZeroPage
    BY <1>3, ZeroPageIs
  <1>10. \A i \in 1 .. a - 1 : i \in 1 .. Len(l) /\ i <= a
    BY <1>2
  <1>11. \A i \in 1 .. a - 1 : l[i].txn # t
    BY <1>1, <1>2, <1>10, Losers
  <1>12. \A i \in 1 .. a - 1 : \A y \in Rid : IsOf(l, i, y) =>
                       y[2] <= Len(P[y[1]].slots) /\ y[1] \in Range(li)
    BY <1>1, <1>11 DEF Redoing
  <1> QED BY <1>2, <1>3, <1>4, <1>5, <1>6, <1>8, <1>9, <1>10, <1>11, <1>12

\* Once redo has come to a committed REMOVE, the pages have all their slots.
LEMMA RedoneAll ==
    ASSUME NEW Q, NEW l, NEW t, NEW n, NEW a, NEW P, NEW li, NEW k, InRedo(Q, l, t, n, a, P, li, k),
           NEW x, IsOf(l, a, x), NEW d \in 1 .. Len(l), d <= a, l[d].type = "Delete"
    PROVE  Len(P[x[1]].slots) = Len(Q[x[1]].slots)
  <1>1. LogWell(l, t, n) /\ Room(Q, l)
    BY DEF InRedo
  <1>2. /\ x[1] \in PageIds /\ a \in Nat /\ Len(P[x[1]].slots) \in Nat
        /\ Len(P[x[1]].slots) <= Len(Q[x[1]].slots)
        /\ \A i \in 1 .. a - 1 : \A y \in Rid : IsOf(l, i, y) =>
                       y[2] <= Len(P[y[1]].slots) /\ y[1] \in Range(li)
    BY RedoPage
  <1>3. SlotsThere(l, t, a, P)
    BY <1>2 DEF SlotsThere
  <1> QED BY <1>1, <1>2, <1>3, AllThere

\* redoDelete.
LEMMA RedoDelete ==
    ASSUME NEW Q, NEW l, NEW t, NEW n, NEW a, NEW P, NEW li, NEW k, InRedo(Q, l, t, n, a, P, li, k),
           NEW x, Takes(l, a, x)
    PROVE  LET pg == P[x[1]]
               new == RedoClear(pg, x[2], a)
           IN  /\ x[2] <= Len(pg.slots) /\ x[1] \in Range(li)
               /\ Sound(new) /\ SameBut(pg, new, x[2]) /\ Len(new.slots) = Len(pg.slots)
               /\ Former(new, Q[x[1]], l) /\ new.lsn <= a /\ ~IsLive(new, x[2])
  <1> DEFINE pg == P[x[1]]
             new == RedoClear(pg, x[2], a)
  <1>1. IsOf(l, a, x) /\ l[a].type = "Delete"
    BY DEF Takes
  <1>2. /\ x \in Rid /\ x[2] \in Nat \ {0} /\ a \in Nat \ {0} /\ a \in 1 .. Len(l)
        /\ ~Redone(pg, a) /\ (x[2] <= Len(pg.slots) => Sound(pg))
        /\ \A i \in 1 .. a - 1 : \A y \in Rid : IsOf(l, i, y) =>
                       y[2] <= Len(P[y[1]].slots) /\ y[1] \in Range(li)
    BY <1>1, RedoPage
  <1>3. PICK j \in 1 .. a - 1 : Puts(l, j, x)
    BY <1>2 DEF InRedo, LogWell, Changes
  <1>4. x[2] <= Len(pg.slots) /\ x[1] \in Range(li) /\ Sound(pg)
    BY <1>2, <1>3 DEF Puts
  <1>5. SlotRedone(pg, new, x[2], a) /\ ~IsLive(new, x[2])
    BY <1>2, <1>4, RedoClearKeeps
  <1>6. Len(pg.slots) = Len(Q[x[1]].slots)
    BY <1>1, <1>2, RedoneAll
  <1>7. ~Clean(l)
    BY <1>1, <1>2 DEF Clean
  <1>8. new.lsn <= a
    BY <1>2, <1>5 DEF SlotRedone
  <1>9. Former(new, Q[x[1]], l)
    BY <1>5, <1>6, <1>7 DEF Former, SlotRedone
  <1> QED BY <1>4, <1>5, <1>8, <1>9 DEF SlotRedone

\* redoInsert of a row whose slot the page has.
LEMMA RedoAgain ==
    ASSUME NEW Q, NEW l, NEW t, NEW n, NEW a, NEW P, NEW li, NEW k, InRedo(Q, l, t, n, a, P, li, k),
           NEW x, Puts(l, a, x), x[2] <= Len(P[x[1]].slots)
    PROVE  LET pg == P[x[1]]
               new == RedoSet(pg, x[2], l[a].row, a)
           IN  /\ CanRedoSet(pg, x[2], l[a].row, a) =>
                    /\ Sound(new) /\ SameBut(pg, new, x[2]) /\ Len(new.slots) = Len(pg.slots)
                    /\ Former(new, Q[x[1]], l) /\ new.lsn <= a
                    /\ IsLive(new, x[2]) /\ new.slots[x[2]].row = l[a].row
               /\ ~CanRedoSet(pg, x[2], l[a].row, a) => \E j \in a + 1 .. Len(l) : Puts(l, j, x)
               /\ Extended(Initialised(pg), x[2]) = pg
  <1> DEFINE pg == P[x[1]]
             row == l[a].row
             s == x[2]
             new == RedoSet(pg, s, row, a)
             q == Q[x[1]]
  <1>1. IsOf(l, a, x) /\ l[a].type = "Insert"
    BY DEF Puts
  <1>2. /\ x \in Rid /\ x[1] \in PageIds /\ s \in Nat \ {0} /\ x = <<x[1], x[2]>>
        /\ a \in Nat \ {0} /\ a \in 1 .. Len(l) /\ row \in Rows
        /\ pg \in PageRecord /\ Len(pg.slots) \in Nat
        /\ ~Redone(pg, a) /\ Sound(pg) /\ pg # ZeroPage /\ Stacked(q) /\ Len(q.slots) \in Nat
        /\ Logged(pg, x[1], l) /\ Former(pg, q, l)
        /\ \A i \in 1 .. a - 1 : i \in 1 .. Len(l) /\ l[i].txn # t
    BY <1>1, RedoPage
  <1>3. /\ LogWell(l, t, n) /\ Room(Q, l) /\ Redoing(Q, l, t, a, P, li)
    BY DEF InRedo
  <1>4. Initialised(pg) = pg
    BY <1>2, SoundPage
  <1>5. s \in 1 .. Len(pg.slots)
    BY <1>2
  <1> HIDE DEF pg, row, s, new, q
  <1>6. /\ Extended(pg, s) = pg
        /\ CanRedoSet(pg, s, row, a) <=> HoldsRow(pg, s, row) \/ Fits(pg, RowLen[row])
        /\ CanRedoSet(pg, s, row, a) =>
                /\ SlotRedone(pg, new, s, a)
                /\ IsLive(new, s) /\ new.slots[s].row = row
                /\ HoldsRow(pg, s, row) => new.slots = pg.slots /\ new.freeEnd = pg.freeEnd
    BY <1>2, <1>5, RedoSetKeeps DEF new
  <1>7. Births(l, a, x) \/ (a > 1 /\ Takes(l, a - 1, x))
    BY <1>2, <1>3 DEF LogWell, Changes
  \* The record before this one took the row away.
  <1>8. ASSUME a > 1, Takes(l, a - 1, x)
        PROVE  ~IsLive(pg, s) /\ Len(pg.slots) = Len(q.slots) /\ ~Clean(l)
    <2>1. a - 1 \in 1 .. a - 1 /\ a - 1 \in 1 .. Len(l) /\ a - 1 <= a /\ (a - 1) + 1 .. a - 1 = {}
      BY <1>2, <1>8
    <2>2. IsOf(l, a - 1, x) /\ l[a - 1].type = "Delete" /\ l[a - 1].txn # t
      BY <1>2, <1>8, <2>1 DEF Takes
    <2>3. x \notin LiveOf(P)
      BY <1>2, <1>3, <2>1, <2>2 DEF Redoing
    <2>4. ~IsLive(pg, s)
      BY <1>2, <2>3 DEF LiveOf, pg, s
    <2>5. Len(pg.slots) = Len(q.slots)
      BY <1>1, <2>1, <2>2, RedoneAll DEF pg, q
    <2>6. ~Clean(l)
      BY <2>1, <2>2 DEF Clean
    <2> QED BY <2>4, <2>5, <2>6
  <1>9. ASSUME CanRedoSet(pg, s, row, a)
        PROVE  Former(new, q, l)
    <2>1. SlotRedone(pg, new, s, a)
      BY <1>6, <1>9
    <2>2. Sound(new) /\ Len(new.slots) = Len(pg.slots)
      BY <2>1 DEF SlotRedone
    <2>3. CASE ~Clean(l) /\ Len(pg.slots) = Len(q.slots)
      BY <2>2, <2>3 DEF Former
    <2>4. CASE Prefix(pg, q) /\ ~(a > 1 /\ Takes(l, a - 1, x))
      <3>1. Births(l, a, x)
        BY <1>7, <2>4
      <3>2. row = q.slots[s].row
        BY <1>2, <1>3, <3>1 DEF Births, Room, row, q, s
      <3>3. pg.slots[s] = q.slots[s] /\ s \in 1 .. Len(q.slots)
        BY <1>2, <1>5, <2>4 DEF Prefix
      <3>4. IsLive(q, s)
        BY <1>2, <3>3, StackedOrder
      <3>5. HoldsRow(pg, s, row)
        BY <1>5, <3>2, <3>3, <3>4 DEF HoldsRow, IsLive
      <3>6. new.slots = pg.slots /\ new.freeEnd = pg.freeEnd
        BY <1>6, <1>9, <3>5
      <3>7. Prefix(new, q)
        BY <2>4, <3>6 DEF Prefix
      <3> QED BY <2>2, <3>7 DEF Former
    <2> QED BY <1>2, <1>8, <2>3, <2>4 DEF Former
  <1>10. ASSUME ~CanRedoSet(pg, s, row, a)
         PROVE  \E j \in a + 1 .. Len(l) : Puts(l, j, x)
    <2>1. ~HoldsRow(pg, s, row) /\ ~Fits(pg, RowLen[row])
      BY <1>6, <1>10
    <2>2. IsLive(pg, s)
      <3>1. SUFFICES ASSUME ~IsLive(pg, s) PROVE FALSE
        OBVIOUS
      <3>2. Len(pg.slots) = Len(q.slots)
        BY <1>2, <1>5, <3>1, DeadThere
      <3>3. Fits(pg, RowLen[l[a].row])
        BY <1>2, <1>3, <1>5, <3>1, <3>2, RoomFor DEF s, q
      <3> QED BY <2>1, <3>3 DEF row
    <2>3. ~(a > 1 /\ Takes(l, a - 1, x))
      BY <1>8, <2>2
    <2>4. Births(l, a, x)
      BY <1>7, <2>3
    <2>5. s \in Live(pg)
      BY <1>5, <2>2 DEF Live
    <2>6. PICK j \in 1 .. Len(l) : Puts(l, j, <<x[1], s>>) /\ l[j].row = pg.slots[s].row
      BY <1>2, <2>5 DEF Logged
    <2>7. Puts(l, j, x) /\ IsOf(l, j, x)
      BY <1>2, <2>6 DEF s, Puts
    <2>8. j # a
      BY <2>1, <2>2, <2>6 DEF HoldsRow, row
    <2>9. ~(j \in 1 .. a - 1)
      BY <2>4, <2>7 DEF Births
    <2>10. j \in a + 1 .. Len(l)
      BY <1>2, <2>8, <2>9
    <2> QED BY <2>7, <2>10
  <1>11. CanRedoSet(pg, s, row, a) => new.lsn <= a
    BY <1>2, <1>6 DEF SlotRedone
  <1>12. CanRedoSet(pg, s, row, a) => Sound(new) /\ SameBut(pg, new, s) /\ Len(new.slots) = Len(pg.slots)
    BY <1>6 DEF SlotRedone
  <1>13. Extended(Initialised(pg), s) = pg
    BY <1>4, <1>6
  <1> QED BY <1>6, <1>9, <1>10, <1>11, <1>12, <1>13 DEF pg, s, row, new, q

\* redoInsert of a row whose slot the page does not have yet.
LEMMA RedoFirst ==
    ASSUME NEW Q, NEW l, NEW t, NEW n, NEW a, NEW P, NEW li, NEW k, InRedo(Q, l, t, n, a, P, li, k),
           NEW x, Puts(l, a, x), ~(x[2] <= Len(P[x[1]].slots))
    PROVE  LET pg == P[x[1]]
               new == RedoSet(pg, x[2], l[a].row, a)
           IN  /\ CanRedoSet(pg, x[2], l[a].row, a)
               /\ Sound(new) /\ SameBut(pg, new, x[2])
               /\ x[2] = Len(new.slots) /\ Len(new.slots) <= Len(Q[x[1]].slots)
               /\ Former(new, Q[x[1]], l) /\ new.lsn <= a
               /\ IsLive(new, x[2]) /\ new.slots[x[2]].row = l[a].row
  <1> DEFINE pg == P[x[1]]
             row == l[a].row
             s == x[2]
             q == Q[x[1]]
             init == Initialised(pg)
             new == RedoSet(init, s, row, a)
  <1>1. IsOf(l, a, x) /\ l[a].type = "Insert"
    BY DEF Puts
  <1>2. /\ x \in Rid /\ x[1] \in PageIds /\ s \in Nat \ {0} /\ x = <<x[1], x[2]>>
        /\ a \in Nat \ {0} /\ a \in 1 .. Len(l)
        /\ pg \in PageRecord /\ Len(pg.slots) \in Nat
        /\ ~Redone(init, a) /\ (pg = ZeroPage \/ Sound(pg)) /\ Stacked(q) /\ Len(q.slots) \in Nat
        /\ Len(pg.slots) <= Len(q.slots) /\ Former(pg, q, l)
        /\ \A i \in 1 .. a - 1 : i \in 1 .. Len(l) /\ l[i].txn # t
        /\ \A i \in 1 .. a - 1 : \A y \in Rid : IsOf(l, i, y) => y[2] <= Len(P[y[1]].slots)
    BY <1>1, RedoPage
  <1>3. LogWell(l, t, n) /\ Room(Q, l)
    BY DEF InRedo
  <1>4. Births(l, a, x)
    <2>1. ASSUME a > 1, Takes(l, a - 1, x)
          PROVE  FALSE
      <3>1. a - 1 \in 1 .. a - 1
        BY <1>2, <2>1
      <3> QED BY <1>2, <2>1, <3>1 DEF Takes
    <2> QED BY <1>2, <1>3, <2>1 DEF LogWell, Changes
  <1>5. /\ s <= Len(q.slots) /\ row = q.slots[s].row
        /\ \A i \in 1 .. s - 1 : \E j \in 1 .. a - 1 : Births(l, j, <<x[1], i>>)
    BY <1>2, <1>3, <1>4 DEF Room, Births
  <1>6. s = Len(pg.slots) + 1
    <2>1. SUFFICES ASSUME ~(s <= Len(pg.slots) + 1) PROVE FALSE
      BY <1>2
    <2>2. s - 1 \in 1 .. s - 1 /\ ~(s - 1 <= Len(pg.slots)) /\ s - 1 \in 1 .. Len(q.slots)
      BY <1>2, <1>5, <2>1
    <2>3. PICK j \in 1 .. a - 1 : Births(l, j, <<x[1], s - 1>>)
      BY <1>5, <2>2
    <2>4. <<x[1], s - 1>> \in Rid
      BY <1>2, <1>3, <2>2, RoomRids
    <2>5. IsOf(l, j, <<x[1], s - 1>>)
      BY <2>3 DEF Births, Puts
    <2> QED BY <1>2, <2>2, <2>4, <2>5
  <1>7. /\ Sound(init) /\ init.slots = pg.slots /\ init.lsn = pg.lsn
        /\ (pg # ZeroPage => init = pg) /\ (pg = ZeroPage => init = EmptyPage)
        /\ CanRedoSet(pg, s, row, a) <=> CanRedoSet(init, s, row, a)
        /\ RedoSet(pg, s, row, a) = RedoSet(init, s, row, a)
    BY <1>2, Restarted
  <1>8. Prefix(init, q) /\ init \in PageRecord
    <2>1. CASE pg = ZeroPage
      <3>1. init = EmptyPage /\ Len(EmptyPage.slots) = 0 /\ EmptyPage.freeEnd = PageSize
        BY <1>7, <2>1, EmptyPageSound DEF EmptyPage
      <3>2. \A i \in 1 .. 0 : FALSE
        OBVIOUS
      <3> QED BY <1>2, <1>7, <3>1, <3>2 DEF Prefix, Bottom, Sound
    <2>2. CASE pg # ZeroPage
      <3>1. Len(pg.slots) # Len(q.slots)
        BY <1>2, <1>5, <1>6
      <3> QED BY <1>2, <1>7, <2>2, <3>1 DEF Former
    <2> QED BY <2>1, <2>2
  <1>9. s \in 1 .. Len(q.slots) /\ s = Len(init.slots) + 1 /\ row = q.slots[s].row /\ a \in Nat
    BY <1>2, <1>5, <1>6, <1>7
  <1> HIDE DEF init, pg, s, row, q
  <1>10. /\ CanRedoSet(init, s, row, a)
         /\ Sound(new) /\ Prefix(new, q) /\ Len(new.slots) = s /\ SameBut(init, new, s)
         /\ IsLive(new, s) /\ new.slots[s].row = row
         /\ new.lsn = (IF a = 0 THEN init.lsn ELSE a)
    <2>1. /\ Stacked(q) /\ init \in PageRecord /\ Prefix(init, q) /\ s \in 1 .. Len(q.slots)
          /\ s = Len(init.slots) + 1 /\ row = q.slots[s].row /\ a \in Nat /\ ~Redone(init, a)
      BY <1>2, <1>8, <1>9
    <2> QED BY ONLY <2>1, PrefixGrows
  <1>11. Former(new, q, l) /\ new.lsn <= a
    BY <1>2, <1>10 DEF Former
  <1>12. SameBut(pg, new, s)
    BY <1>7, <1>10 DEF SameBut, IsLive
  <1> QED BY <1>5, <1>7, <1>10, <1>11, <1>12 DEF pg, s, row, q

\* What redo has to leave of a record that it has replayed.
LEMMA RedoingSet ==
    ASSUME NEW Q, NEW l, NEW t, NEW n \in Nat, NEW a, NEW P, NEW li, NEW k, InRedo(Q, l, t, n, a, P, li, k),
           NEW x, IsOf(l, a, x), NEW new, NEW li2, SlotSet(Q, l, n, P, li, x, new, li2),
           Former(new, Q[x[1]], l), new.lsn <= a, x[2] <= Len(new.slots), x[1] \in Range(li2),
           IF l[a].type = "Delete" THEN ~IsLive(new, x[2])
           ELSE \/ IsLive(new, x[2]) /\ new.slots[x[2]].row = l[a].row
                \/ \E j \in a + 1 .. Len(l) : Puts(l, j, x)
    PROVE  LET P2 == [P EXCEPT ![x[1]] = new]
           IN  PagesWell(Q, l, n, P2, li2, k) /\ Redoing(Q, l, t, a + 1, P2, li2)
  <1> DEFINE P2 == [P EXCEPT ![x[1]] = new]
  <1>1. /\ LogWell(l, t, n) /\ PagesWell(Q, l, n, P, li, k) /\ Redoing(Q, l, t, a, P, li) /\ l[a].txn # t
    BY DEF InRedo
  <1>2. PagesWell(Q, l, n, P2, li2, k) /\ Kept(P, P2, x, new, li, li2)
    BY <1>1, PageSet
  <1> HIDE DEF P2
  <1>3. /\ x \in Rid /\ x[1] \in PageIds /\ a \in 1 .. Len(l) /\ a \in Nat \ {0} /\ x = <<x[1], x[2]>>
        /\ \A i \in 1 .. a - 1 : \A y \in Rid : IsOf(l, i, y) =>
                       y[2] <= Len(P[y[1]].slots) /\ y[1] \in Range(li)
    BY RedoPage
  <1>4. /\ P2 \in [PageIds -> PageRecord] /\ P2[x[1]] = new
        /\ \A p \in PageIds : p # x[1] => P2[p] = P[p]
        /\ \A y \in Rid : y # x => /\ y \in LiveOf(P2) <=> y \in LiveOf(P)
                                   /\ \A row : Holds(P, y, row) => Holds(P2, y, row)
        /\ x \in LiveOf(P2) <=> IsLive(new, x[2])
        /\ Range(li) \subseteq Range(li2)
    BY <1>2 DEF Kept
  <1>5. Len(P[x[1]].slots) <= Len(new.slots) /\ Len(P[x[1]].slots) \in Nat /\ Len(new.slots) \in Nat
    <2>1. P[x[1]] \in PageRecord /\ new \in PageRecord
      BY <1>1, <1>3 DEF PagesWell, SlotSet, Sound
    <2> QED BY <2>1, SlotTypes DEF SlotSet, SameBut
  <1>6. a + 1 \in 1 .. Len(l) + 1 /\ \A i \in 1 .. (a + 1) - 1 : i = a \/ i \in 1 .. a - 1
    BY <1>3
  <1>7. \A p \in PageIds : Former(P2[p], Q[p], l) /\ P2[p].lsn < a + 1
    <2> SUFFICES ASSUME NEW p \in PageIds PROVE Former(P2[p], Q[p], l) /\ P2[p].lsn < a + 1
      OBVIOUS
    <2>1. CASE p = x[1]
      <3>1. new.lsn \in Nat
        BY DEF SlotSet, Sound, PageRecord
      <3> QED BY <1>3, <1>4, <2>1, <3>1
    <2>2. CASE p # x[1]
      <3>1. P2[p] = P[p] /\ P[p].lsn < a /\ Former(P[p], Q[p], l)
        BY <1>1, <1>4, <2>2 DEF Redoing
      <3>2. P[p].lsn \in Nat
        BY <1>1 DEF PagesWell, PageRecord
      <3> QED BY <1>3, <3>1, <3>2
    <2> QED BY <2>1, <2>2
  <1>8. ASSUME NEW y \in Rid, NEW i \in 1 .. (a + 1) - 1, IsOf(l, i, y), l[i].txn # t
        PROVE  /\ y[2] <= Len(P2[y[1]].slots) /\ y[1] \in Range(li2)
               /\ (\A j \in i + 1 .. (a + 1) - 1 : IsOf(l, j, y) => l[j].txn = t) =>
                     IF l[i].type = "Delete" THEN y \notin LiveOf(P2)
                     ELSE Holds(P2, y, l[i].row) \/ \E j \in i + 1 .. Len(l) : Puts(l, j, y)
    <2>1. CASE i = a
      <3>1. y = x
        BY <1>8, <2>1 DEF IsOf
      <3>2. IF l[i].type = "Delete" THEN y \notin LiveOf(P2)
            ELSE Holds(P2, y, l[i].row) \/ \E j \in i + 1 .. Len(l) : Puts(l, j, y)
        BY <1>4, <2>1, <3>1 DEF Holds, RowIn
      <3> QED BY <1>4, <3>1, <3>2
    <2>2. CASE i \in 1 .. a - 1
      <3>1. y[2] <= Len(P[y[1]].slots) /\ y[1] \in Range(li)
        BY <1>3, <1>8, <2>2
      <3>2. y[1] \in PageIds /\ y[2] \in Nat
        BY RidIs, HeapAssumption
      <3>3. y[2] <= Len(P2[y[1]].slots) /\ y[1] \in Range(li2)
        BY <1>4, <1>5, <3>1, <3>2
      <3>4. ASSUME \A j \in i + 1 .. (a + 1) - 1 : IsOf(l, j, y) => l[j].txn = t
            PROVE  IF l[i].type = "Delete" THEN y \notin LiveOf(P2)
                   ELSE Holds(P2, y, l[i].row) \/ \E j \in i + 1 .. Len(l) : Puts(l, j, y)
        <4>1. a \in i + 1 .. (a + 1) - 1 /\ \A j \in i + 1 .. a - 1 : j \in i + 1 .. (a + 1) - 1
          BY <1>3, <2>2
        <4>2. y # x
          BY <1>1, <3>4, <4>1
        <4>3. \A j \in i + 1 .. a - 1 : IsOf(l, j, y) => l[j].txn = t
          BY <3>4, <4>1
        <4>4. IF l[i].type = "Delete" THEN y \notin LiveOf(P)
              ELSE Holds(P, y, l[i].row) \/ \E j \in i + 1 .. Len(l) : Puts(l, j, y)
          BY <1>1, <1>8, <2>2, <4>3 DEF Redoing
        <4> QED BY <1>4, <4>2, <4>4
      <3> QED BY <3>3, <3>4
    <2> QED BY <1>6, <2>1, <2>2
  <1>9. Redoing(Q, l, t, a + 1, P2, li2)
    BY <1>6, <1>7, <1>8 DEF Redoing
  <1> QED BY <1>2, <1>9 DEF P2

\* A record that redo skips.
LEMMA RedoingSkip ==
    ASSUME NEW Q, NEW l, NEW t, NEW n, LogWell(l, t, n), NEW a, NEW P, P \in [PageIds -> PageRecord],
           NEW li, Redoing(Q, l, t, a, P, li),
           a <= Len(l), l[a].txn = t \/ l[a].type = "Commit"
    PROVE  Redoing(Q, l, t, a + 1, P, li)
  <1>1. a \in 1 .. Len(l) + 1 /\ Len(l) \in Nat
    BY LogTypes DEF Redoing
  <1>2. /\ a + 1 \in 1 .. Len(l) + 1 /\ a \in Nat
        /\ \A i \in 1 .. (a + 1) - 1 : i = a \/ i \in 1 .. a - 1
    BY <1>1
  <1>3. \A p \in PageIds : P[p].lsn < a + 1
    <2>1. \A p \in PageIds : P[p].lsn \in Nat /\ P[p].lsn < a
      BY DEF Redoing, PageRecord
    <2> QED BY <1>2, <2>1
  <1>4. ASSUME NEW y \in Rid, NEW i \in 1 .. (a + 1) - 1, IsOf(l, i, y), l[i].txn # t
        PROVE  /\ y[2] <= Len(P[y[1]].slots) /\ y[1] \in Range(li)
               /\ (\A j \in i + 1 .. (a + 1) - 1 : IsOf(l, j, y) => l[j].txn = t) =>
                     IF l[i].type = "Delete" THEN y \notin LiveOf(P)
                     ELSE Holds(P, y, l[i].row) \/ \E j \in i + 1 .. Len(l) : Puts(l, j, y)
    <2>1. i # a
      BY <1>4 DEF IsOf
    <2>2. i \in 1 .. a - 1
      BY <1>2, <2>1
    <2>3. \A j \in i + 1 .. a - 1 : j \in i + 1 .. (a + 1) - 1
      BY <1>2, <2>2
    <2> QED BY <1>4, <2>2, <2>3 DEF Redoing
  <1> QED BY <1>2, <1>3, <1>4 DEF Redoing

\* Recovery goes on when the pages and its position are in order.
LEMMA RecoveryGoesOn ==
    ASSUME NEW Q, InRecovery(Q), UNCHANGED <<scenario, numPages, log, txn, stmts, saved>>,
           PagesWell(Q, log, numPages, page', list', stmts),
           \/ phase' = "redo" /\ Redoing(Q, log, txn, at', page', list')
           \/ phase' = "undo" /\ Undoing(Q, log, txn, at', page', list')
    PROVE  InRecovery(Q)'
  BY DEF InRecovery

\* What redoInsert leaves in the page, and what it makes of the list.
LEMMA RedoneInsert ==
    ASSUME NEW Q, NEW t, NEW n, NEW a, NEW k, InRedo(Q, log, t, n, a, page, list, k),
           NEW x, Puts(log, a, x), SetAt(x, log[a].row, a)
    PROVE  \E new : /\ page' = [page EXCEPT ![x[1]] = new]
                    /\ SlotSet(Q, log, n, page, list, x, new, list')
                    /\ Former(new, Q[x[1]], log) /\ new.lsn <= a /\ x[2] <= Len(new.slots)
                    /\ \/ IsLive(new, x[2]) /\ new.slots[x[2]].row = log[a].row
                       \/ \E j \in a + 1 .. Len(log) : Puts(log, j, x)
  <1> DEFINE pg == page[x[1]]
             s == x[2]
             row == log[a].row
             new == RedoSet(pg, s, row, a)
  <1>1. IsOf(log, a, x)
    BY DEF Puts
  <1>2. /\ x \in Rid /\ x[1] \in PageIds /\ s \in Nat \ {0} /\ x = <<x[1], x[2]>> /\ x[1] < n
        /\ a \in Nat \ {0} /\ a \in 1 .. Len(log)
        /\ pg \in PageRecord /\ Len(pg.slots) \in Nat /\ Len(Q[x[1]].slots) \in Nat
        /\ (s <= Len(pg.slots) => Sound(pg) /\ pg # ZeroPage)
        /\ Len(pg.slots) <= Len(Q[x[1]].slots) /\ Former(pg, Q[x[1]], log) /\ Logged(pg, x[1], log)
    BY <1>1, RedoPage
  <1>3. /\ page \in [PageIds -> PageRecord] /\ \A p \in PageIds : page[p].lsn < a
    BY DEF InRedo, PagesWell, Redoing
  <1>4. list' = (IF x[1] \in Range(list) THEN list ELSE Append(list, x[1]))
    BY DEF SetAt, Listed
  <1>5. IF CanRedoSet(pg, s, row, a) THEN page' = [page EXCEPT ![x[1]] = new]
        ELSE page' \in {page, [page EXCEPT ![x[1]] = Extended(Initialised(pg), s)]}
    BY DEF SetAt
  <1> HIDE DEF pg, s, row, new
  <1>6. CASE ~(s <= Len(pg.slots))
    <2>1. /\ CanRedoSet(pg, s, row, a)
          /\ Sound(new) /\ SameBut(pg, new, s) /\ s = Len(new.slots) /\ Len(new.slots) <= Len(Q[x[1]].slots)
          /\ Former(new, Q[x[1]], log) /\ new.lsn <= a
          /\ IsLive(new, s) /\ new.slots[s].row = row
      BY <1>6, RedoFirst DEF pg, s, row, new
    <2>2. SlotSet(Q, log, n, page, list, x, new, list')
      BY <1>2, <1>4, <2>1 DEF SlotSet, pg, s, row
    <2>3. s <= Len(new.slots)
      BY <1>2, <2>1
    <2> QED BY <1>5, <2>1, <2>2, <2>3 DEF s, row
  <1>7. CASE s <= Len(pg.slots) /\ CanRedoSet(pg, s, row, a)
    <2>1. /\ Sound(new) /\ SameBut(pg, new, s) /\ Len(new.slots) = Len(pg.slots)
          /\ Former(new, Q[x[1]], log) /\ new.lsn <= a
          /\ IsLive(new, s) /\ new.slots[s].row = row
      BY <1>7, RedoAgain DEF pg, s, row, new
    <2>2. Len(new.slots) <= Len(Q[x[1]].slots) /\ s <= Len(new.slots)
      BY <1>2, <1>7, <2>1
    <2>3. SlotSet(Q, log, n, page, list, x, new, list')
      BY <1>2, <1>4, <2>1, <2>2 DEF SlotSet, pg, s, row
    <2> QED BY <1>5, <1>7, <2>1, <2>2, <2>3 DEF s, row
  <1>8. CASE s <= Len(pg.slots) /\ ~CanRedoSet(pg, s, row, a)
    <2>1. Extended(Initialised(pg), s) = pg /\ \E j \in a + 1 .. Len(log) : Puts(log, j, x)
      BY <1>8, RedoAgain DEF pg, s, row
    <2>2. page' = [page EXCEPT ![x[1]] = pg]
      BY <1>2, <1>3, <1>5, <1>8, <2>1 DEF pg
    <2>3. IsLive(pg, s) => \E i \in 1 .. Len(log) : Puts(log, i, x) /\ log[i].row = pg.slots[s].row
      BY <1>2 DEF Logged, Live, IsLive, s
    <2>4. SameBut(pg, pg, s)
      BY <1>2 DEF SameBut
    <2>5. SlotSet(Q, log, n, page, list, x, pg, list')
      BY <1>2, <1>4, <1>8, <2>3, <2>4 DEF SlotSet, pg, s
    <2>6. pg.lsn <= a
      <3>1. pg.lsn < a /\ pg.lsn \in Nat
        BY <1>2, <1>3 DEF pg, PageRecord
      <3> QED BY <1>2, <3>1
    <2> QED BY <1>2, <1>8, <2>1, <2>2, <2>5, <2>6 DEF s
  <1> QED BY <1>6, <1>7, <1>8

\* A step of the redo pass.
LEMMA RedoKeeps ==
    ASSUME NEW Q, InRecovery(Q), Redo
    PROVE  InRecovery(Q)'
  <1> DEFINE r == log[at]
             x == r.rid
  <1>1. /\ phase = "redo" /\ at <= Len(log) /\ at' = at + 1 /\ phase' = "redo"
        /\ UNCHANGED <<scenario, numPages, log, txn, stmts, saved>>
        /\ \/ r.txn \in Committed /\ r.type = "Insert" /\ SetAt(x, r.row, r.lsn)
           \/ r.txn \in Committed /\ r.type = "Delete" /\ ClearAt(x, r.lsn)
           \/ (~(r.txn \in Committed) \/ r.type = "Commit") /\ UNCHANGED <<page, list, hint>>
    BY DEF Redo, Recovering, fileVars
  <1>2. /\ LogWell(log, txn, numPages) /\ Room(Q, log)
        /\ PagesWell(Q, log, numPages, page, list, stmts)
        /\ Redoing(Q, log, txn, at, page, list)
        /\ numPages \in Nat /\ page \in [PageIds -> PageRecord]
    BY <1>1, HeapAssumption DEF InRecovery, PagesWell
  <1>3. at \in 1 .. Len(log) /\ Len(log) \in Nat /\ at \in Nat
    <2>1. Len(log) \in Nat /\ at \in 1 .. Len(log) + 1
      BY <1>2, LogTypes DEF Redoing
    <2> QED BY <1>1, <2>1
  <1>4. r.lsn = at /\ (r.type # "Commit" => IsOf(log, at, x))
    BY <1>2, <1>3, LogTypes
  <1>5. r.txn \in Committed <=> r.txn # txn
    BY <1>2, <1>3, Losers DEF Committed
  <1> HIDE DEF r, x
  <1>6. CASE r.txn \in Committed /\ r.type = "Insert" /\ SetAt(x, r.row, r.lsn)
    <2>1. InRedo(Q, log, txn, numPages, at, page, list, stmts)
      BY <1>1, <1>2, <1>5, <1>6 DEF InRedo, r
    <2>2. Puts(log, at, x) /\ IsOf(log, at, x) /\ SetAt(x, log[at].row, at)
      BY <1>4, <1>6 DEF Puts, r
    <2>3. PICK new : /\ page' = [page EXCEPT ![x[1]] = new]
                     /\ SlotSet(Q, log, numPages, page, list, x, new, list')
                     /\ Former(new, Q[x[1]], log) /\ new.lsn <= at /\ x[2] <= Len(new.slots)
                     /\ \/ IsLive(new, x[2]) /\ new.slots[x[2]].row = log[at].row
                        \/ \E j \in at + 1 .. Len(log) : Puts(log, j, x)
      BY <2>1, <2>2, RedoneInsert
    <2>4. x[1] \in Range(list')
      <3>1. list' = (IF x[1] \in Range(list) THEN list ELSE Append(list, x[1]))
        BY <1>6 DEF SetAt, Listed
      <3>2. Listing(list, numPages)
        BY <1>2 DEF PagesWell
      <3>3. x[1] \in PageIds /\ x[1] < numPages
        BY <2>1, <2>2, RedoPage
      <3> DEFINE p == x[1]
      <3> HIDE DEF p
      <3>4. p \in PageIds /\ p < numPages /\ list' = (IF p \in Range(list) THEN list ELSE Append(list, p))
        BY <3>1, <3>3 DEF p
      <3>5. p \in Range(list')
        BY <1>2, <3>2, <3>4, ListedAlso
      <3> QED BY <3>5 DEF p
    <2>5. IF log[at].type = "Delete" THEN ~IsLive(new, x[2])
          ELSE \/ IsLive(new, x[2]) /\ new.slots[x[2]].row = log[at].row
               \/ \E j \in at + 1 .. Len(log) : Puts(log, j, x)
      BY <1>6, <2>3 DEF r
    <2>6. PagesWell(Q, log, numPages, page', list', stmts) /\ Redoing(Q, log, txn, at + 1, page', list')
      BY <1>2, <2>1, <2>2, <2>3, <2>4, <2>5, RedoingSet
    <2> QED BY <1>1, <2>6, RecoveryGoesOn
  <1>7. CASE r.txn \in Committed /\ r.type = "Delete" /\ ClearAt(x, r.lsn)
    <2> DEFINE new == RedoClear(page[x[1]], x[2], at)
    <2>1. InRedo(Q, log, txn, numPages, at, page, list, stmts)
      BY <1>1, <1>2, <1>5, <1>7 DEF InRedo, r
    <2>2. Takes(log, at, x) /\ IsOf(log, at, x)
      BY <1>4, <1>7 DEF Takes, r
    <2>3. page' = [page EXCEPT ![x[1]] = new] /\ list' = list
      BY <1>4, <1>7 DEF ClearAt
    <2>4. /\ x[2] <= Len(page[x[1]].slots) /\ x[1] \in Range(list)
          /\ Sound(new) /\ SameBut(page[x[1]], new, x[2]) /\ Len(new.slots) = Len(page[x[1]].slots)
          /\ Former(new, Q[x[1]], log) /\ new.lsn <= at /\ ~IsLive(new, x[2])
      BY <2>1, <2>2, RedoDelete
    <2>5. x \in Rid /\ x[1] < numPages /\ Len(page[x[1]].slots) <= Len(Q[x[1]].slots)
      BY <2>1, <2>2, RedoPage
    <2> HIDE DEF new
    <2>6. SlotSet(Q, log, numPages, page, list, x, new, list')
      BY <2>3, <2>4, <2>5 DEF SlotSet
    <2>7. IF log[at].type = "Delete" THEN ~IsLive(new, x[2])
          ELSE \/ IsLive(new, x[2]) /\ new.slots[x[2]].row = log[at].row
               \/ \E j \in at + 1 .. Len(log) : Puts(log, j, x)
      BY <1>7, <2>4 DEF r
    <2>8. x[2] <= Len(new.slots) /\ x[1] \in Range(list')
      BY <2>3, <2>4
    <2>9. PagesWell(Q, log, numPages, page', list', stmts) /\ Redoing(Q, log, txn, at + 1, page', list')
      BY <1>2, <2>1, <2>2, <2>3, <2>4, <2>6, <2>7, <2>8, RedoingSet
    <2> QED BY <1>1, <2>9, RecoveryGoesOn
  <1>8. CASE (~(r.txn \in Committed) \/ r.type = "Commit") /\ UNCHANGED <<page, list, hint>>
    <2>1. log[at].txn = txn \/ log[at].type = "Commit"
      BY <1>5, <1>8 DEF r
    <2>2. Redoing(Q, log, txn, at + 1, page, list)
      BY <1>1, <1>2, <2>1, RedoingSkip
    <2> QED BY <1>1, <1>2, <1>8, <2>2, RecoveryGoesOn
  <1> QED BY <1>1, <1>6, <1>7, <1>8

\* Between the passes.
LEMMA RedoDoneKeeps ==
    ASSUME NEW Q, InRecovery(Q), RedoDone
    PROVE  InRecovery(Q)'
  <1>1. /\ phase = "redo" /\ at > Len(log) /\ phase' = "undo" /\ at' = Len(log)
        /\ UNCHANGED <<page, list, scenario, numPages, log, txn, stmts, saved>>
    BY DEF RedoDone, Recovering
  <1>2. /\ LogWell(log, txn, numPages) /\ Room(Q, log)
        /\ PagesWell(Q, log, numPages, page, list, stmts)
        /\ Redoing(Q, log, txn, at, page, list)
    BY <1>1 DEF InRecovery
  <1> DEFINE k == Len(log)
  <1>3. k \in Nat /\ at = k + 1 /\ at - 1 = k
    <2>1. k \in Nat /\ at \in 1 .. k + 1
      BY <1>2, LogTypes DEF Redoing
    <2> QED BY <1>1, <2>1
  <1> HIDE DEF k
  <1>4. \A r \in Rid, i \in 1 .. k : IsOf(log, i, r) /\ log[i].txn # txn =>
          /\ r[2] <= Len(page[r[1]].slots) /\ r[1] \in Range(list)
          /\ (\A j \in i + 1 .. k : IsOf(log, j, r) => log[j].txn = txn) =>
                IF log[i].type = "Delete" THEN r \notin LiveOf(page)
                ELSE Holds(page, r, log[i].row) \/ \E j \in i + 1 .. k : Puts(log, j, r)
    BY <1>2, <1>3 DEF Redoing, k
  <1>5. SlotsThere(log, txn, at, page)
    BY <1>3, <1>4 DEF SlotsThere
  <1>6. ASSUME ~Clean(log), NEW p \in PageIds
        PROVE  Len(page[p].slots) = Len(Q[p].slots)
    <2>1. PICK d \in 1 .. Len(log) : log[d].type = "Delete"
      BY <1>6 DEF Clean
    <2>2. d <= at /\ at \in Nat
      BY <1>3 DEF k
    <2>3. Len(page[p].slots) \in Nat /\ Len(page[p].slots) <= Len(Q[p].slots)
      BY <1>2, SlotTypes DEF PagesWell
    <2> QED BY <1>2, <1>5, <2>1, <2>2, <2>3, AllThere
  <1>7. \A i \in 1 .. k : ~(i > k)
    BY <1>3
  <1>8. Undoing(Q, log, txn, k, page, list)
    <2>1. k \in 0 .. Len(log)
      BY <1>3 DEF k
    <2>2. ASSUME NEW r \in Rid, NEW i \in 1 .. k, LastSaved(log, txn, i, r)
          PROVE  IF log[i].type = "Delete" THEN r \notin LiveOf(page)
                 ELSE Holds(page, r, log[i].row) \/ \E j \in i + 1 .. k : Puts(log, j, r)
      BY <1>4, <2>2 DEF LastSaved, k
    <2> QED BY <1>4, <1>6, <1>7, <2>1, <2>2 DEF Undoing, k
  <1> QED BY <1>1, <1>2, <1>8, RecoveryGoesOn DEF k

InUndo(Q, l, t, n, a, P, li, k) ==
    /\ LogWell(l, t, n) /\ Room(Q, l) /\ PagesWell(Q, l, n, P, li, k)
    /\ Undoing(Q, l, t, a, P, li) /\ a \in 1 .. Len(l) /\ l[a].txn = t

\* What undo knows of the page of the record it has come to.
LEMMA UndoPage ==
    ASSUME NEW Q, NEW l, NEW t, NEW n, NEW a, NEW P, NEW li, NEW k, InUndo(Q, l, t, n, a, P, li, k),
           NEW x, IsOf(l, a, x)
    PROVE  LET pg == P[x[1]]
           IN  /\ x \in Rid /\ x[1] \in PageIds /\ x[2] \in Nat \ {0} /\ x = <<x[1], x[2]>>
               /\ l[a].row \in Rows /\ x[1] < n /\ a \in Nat \ {0} /\ a \in 1 .. Len(l) /\ Len(l) \in Nat
               /\ pg \in PageRecord /\ Len(pg.slots) \in Nat
               /\ Len(Q[x[1]].slots) \in Nat /\ Len(pg.slots) <= Len(Q[x[1]].slots)
               /\ Logged(pg, x[1], l)
               /\ pg = ZeroPage \/ Sound(pg)
               /\ x[2] <= Len(pg.slots) => Sound(pg)
               /\ \A i \in a .. Len(l) : i \in 1 .. Len(l) /\ l[i].txn = t
  <1> DEFINE pg == P[x[1]]
  <1>1. /\ LogWell(l, t, n) /\ Room(Q, l) /\ PagesWell(Q, l, n, P, li, k)
        /\ a \in 1 .. Len(l) /\ l[a].txn = t
    BY DEF InUndo
  <1>2. x \in Rid /\ l[a].row \in Rows /\ x[1] < n /\ Len(l) \in Nat
    BY <1>1, LogTypes
  <1>3. x[1] \in PageIds /\ x[2] \in Nat \ {0} /\ x = <<x[1], x[2]>>
    BY <1>2, RidIs, HeapAssumption
  <1>4. /\ pg \in PageRecord /\ (pg = ZeroPage \/ Sound(pg)) /\ Logged(pg, x[1], l)
        /\ Len(pg.slots) <= Len(Q[x[1]].slots)
    BY <1>1, <1>3 DEF PagesWell
  <1>5. Len(pg.slots) \in Nat
    BY <1>4, SlotTypes
  <1>6. Len(Q[x[1]].slots) \in Nat
    BY <1>1, <1>3, StackedOrder DEF Room
  <1>7. x[2] <= Len(pg.slots) => pg # ZeroPage
    BY <1>3, ZeroPageIs
  <1>8. \A i \in a .. Len(l) : i \in 1 .. Len(l) /\ l[i].txn = t
    BY <1>1, <1>2 DEF LogWell, Numbered
  <1> QED BY <1>1, <1>2, <1>3, <1>4, <1>5, <1>6, <1>7, <1>8

\* undoInsert.
LEMMA UndoInsert ==
    ASSUME NEW Q, NEW l, NEW t, NEW n, NEW a, NEW P, NEW li, NEW k, InUndo(Q, l, t, n, a, P, li, k),
           NEW x, IsOf(l, a, x)
    PROVE  LET pg == P[x[1]]
               new == RedoClear(pg, x[2], 0)
           IN  /\ Sound(new) /\ SameBut(pg, new, x[2]) /\ Len(new.slots) = Len(pg.slots)
               /\ ~IsLive(new, x[2])
  <1> DEFINE pg == P[x[1]]
             s == x[2]
             init == Initialised(pg)
             new == RedoClear(init, s, 0)
  <1>1. s \in Nat \ {0} /\ (pg = ZeroPage \/ Sound(pg))
    BY UndoPage
  <1>2. Sound(init) /\ init.slots = pg.slots /\ RedoClear(pg, s, 0) = new
    BY <1>1, Restarted
  <1>3. ~Redone(init, 0) /\ 0 \in Nat
    BY DEF Redone
  <1> HIDE DEF init, pg, s
  <1>4. SlotRedone(init, new, s, 0) /\ ~IsLive(new, s)
    BY <1>1, <1>2, <1>3, RedoClearKeeps
  <1>5. SameBut(pg, new, s)
    BY <1>2, <1>4 DEF SlotRedone, SameBut, IsLive
  <1> QED BY <1>2, <1>4, <1>5 DEF SlotRedone, pg, s

\* undoDelete.
LEMMA UndoDelete ==
    ASSUME NEW Q, NEW l, NEW t, NEW n, NEW a, NEW P, NEW li, NEW k, InUndo(Q, l, t, n, a, P, li, k),
           NEW x, Takes(l, a, x)
    PROVE  LET pg == P[x[1]]
               new == RedoSet(pg, x[2], l[a].row, 0)
           IN  /\ x[2] <= Len(pg.slots)
               /\ \E j \in 1 .. Len(l) : Puts(l, j, x) /\ l[j].row = l[a].row
               /\ CanRedoSet(pg, x[2], l[a].row, 0) =>
                    /\ Sound(new) /\ SameBut(pg, new, x[2]) /\ Len(new.slots) = Len(pg.slots)
                    /\ IsLive(new, x[2]) /\ new.slots[x[2]].row = l[a].row
               /\ ~CanRedoSet(pg, x[2], l[a].row, 0) =>
                    \E j \in 1 .. a - 1 : Puts(l, j, x) /\ l[j].txn = t
               /\ Extended(Initialised(pg), x[2]) = pg
  <1> DEFINE pg == P[x[1]]
             row == l[a].row
             s == x[2]
             new == RedoSet(pg, s, row, 0)
             q == Q[x[1]]
  <1>1. IsOf(l, a, x) /\ l[a].type = "Delete"
    BY DEF Takes
  <1>2. /\ x \in Rid /\ x[1] \in PageIds /\ s \in Nat \ {0} /\ x = <<x[1], x[2]>>
        /\ a \in Nat \ {0} /\ a \in 1 .. Len(l) /\ row \in Rows /\ Len(l) \in Nat
        /\ pg \in PageRecord /\ Len(pg.slots) \in Nat /\ Logged(pg, x[1], l)
        /\ (s <= Len(pg.slots) => Sound(pg))
        /\ \A i \in a .. Len(l) : i \in 1 .. Len(l) /\ l[i].txn = t
    BY <1>1, UndoPage
  <1>3. /\ LogWell(l, t, n) /\ Room(Q, l) /\ Undoing(Q, l, t, a, P, li)
    BY DEF InUndo
  <1>4. PICK j0 \in 1 .. a - 1 : /\ Puts(l, j0, x) /\ l[j0].row = row
                                 /\ \A m \in j0 + 1 .. a - 1 : ~IsOf(l, m, x)
    BY <1>2, <1>3 DEF LogWell, Changes
  <1>5. j0 \in 1 .. Len(l) /\ IsOf(l, j0, x) /\ l[j0].type = "Insert"
    BY <1>2, <1>4 DEF Puts
  <1>6. ~Clean(l)
    BY <1>1, <1>2 DEF Clean
  <1>7. Len(pg.slots) = Len(q.slots)
    BY <1>2, <1>3, <1>6 DEF Undoing
  <1>8. s \in 1 .. Len(pg.slots) /\ Sound(pg)
    <2>1. s <= Len(q.slots)
      BY <1>2, <1>3, <1>4, <1>5 DEF Room
    <2> QED BY <1>2, <1>7, <2>1
  <1>9. Initialised(pg) = pg
    BY <1>8, SoundPage
  <1>10. ~Redone(pg, 0) /\ 0 \in Nat
    BY DEF Redone
  <1> HIDE DEF pg, row, s, new, q
  <1>11. /\ Extended(pg, s) = pg
         /\ CanRedoSet(pg, s, row, 0) <=> HoldsRow(pg, s, row) \/ Fits(pg, RowLen[row])
         /\ CanRedoSet(pg, s, row, 0) =>
                 /\ SlotRedone(pg, new, s, 0)
                 /\ IsLive(new, s) /\ new.slots[s].row = row
    BY <1>2, <1>8, <1>10, RedoSetKeeps DEF new
  <1>12. ASSUME ~CanRedoSet(pg, s, row, 0)
         PROVE  l[j0].txn = t
    <2>1. SUFFICES ASSUME l[j0].txn # t PROVE FALSE
      OBVIOUS
    <2>2. ~HoldsRow(pg, s, row) /\ ~Fits(pg, RowLen[row])
      BY <1>11, <1>12
    <2>3. IsLive(pg, s)
      <3>1. SUFFICES ASSUME ~IsLive(pg, s) PROVE FALSE
        OBVIOUS
      <3>2. Fits(pg, RowLen[l[j0].row])
        BY <1>2, <1>3, <1>4, <1>5, <1>7, <1>8, <3>1, RoomFor DEF s, q
      <3> QED BY <1>4, <2>2, <3>2
    <2>4. x \in LiveOf(P)
      BY <1>2, <2>3 DEF LiveOf, pg, s
    <2>5. CASE \A j \in a + 1 .. Len(l) : ~IsOf(l, j, x)
      <3>1. \A j \in j0 + 1 .. Len(l) : j \in j0 + 1 .. a - 1 \/ j = a \/ j \in a + 1 .. Len(l)
        BY <1>2, <1>5
      <3>2. \A j \in j0 + 1 .. Len(l) : IsOf(l, j, x) => j = a
        BY <1>4, <2>5, <3>1
      <3>3. LastSaved(l, t, j0, x)
        <4>1. l[a].txn = t
          BY DEF InUndo
        <4> QED BY <1>5, <2>1, <3>2, <4>1 DEF LastSaved
      <3>4. \A j \in j0 + 1 .. Len(l) : IsOf(l, j, x) => j <= a
        BY <1>2, <3>2
      <3>5. Holds(P, x, l[j0].row) \/ \E j \in j0 + 1 .. Len(l) : Puts(l, j, x)
        BY <1>2, <1>3, <1>5, <3>3, <3>4 DEF Undoing
      <3>6. ~\E j \in j0 + 1 .. Len(l) : Puts(l, j, x)
        BY <1>1, <3>2 DEF Puts
      <3>7. Holds(P, x, row)
        BY <1>4, <3>5, <3>6
      <3> QED BY <2>2, <2>3, <3>7 DEF Holds, RowIn, HoldsRow, pg, s
    <2>6. CASE ~ \A j \in a + 1 .. Len(l) : ~IsOf(l, j, x)
      <3> DEFINE S == {j \in a + 1 .. Len(l) : IsOf(l, j, x)}
      <3>1. S # {} /\ S \subseteq Nat
        BY <1>2, <2>6
      <3>2. PICK i \in S : \A j \in S : i <= j
        <4> HIDE DEF S
        <4> QED BY <3>1, LeastNumber
      <3>3. i \in a + 1 .. Len(l) /\ IsOf(l, i, x) /\ i \in a .. Len(l) /\ i > a /\ l[i].txn = t
            /\ i \in 1 .. Len(l)
        BY <1>2, <3>2
      <3>4. \A j \in a + 1 .. i - 1 : ~IsOf(l, j, x)
        BY <1>2, <3>2, <3>3
      <3>5. l[i].type = "Insert"
        <4>1. SUFFICES ASSUME Takes(l, i, x) PROVE FALSE
          BY <3>3 DEF Takes, IsOf
        <4>2. PICK j \in 1 .. i - 1 : Puts(l, j, x) /\ \A m \in j + 1 .. i - 1 : ~IsOf(l, m, x)
          BY <1>2, <1>3, <3>3, <4>1 DEF LogWell, Changes
        <4>3. j # a /\ IsOf(l, j, x)
          BY <1>1, <4>2 DEF Puts
        <4>4. ~(j \in a + 1 .. i - 1)
          BY <3>4, <4>3
        <4>5. a \in j + 1 .. i - 1
          BY <1>2, <3>3, <4>3, <4>4
        <4> QED BY <1>1, <4>2, <4>5
      <3>6. x \notin LiveOf(P)
        BY <1>2, <1>3, <3>3, <3>4, <3>5 DEF Undoing
      <3> QED BY <2>4, <3>6
    <2> QED BY <2>5, <2>6
  <1>13. ~CanRedoSet(pg, s, row, 0) => \E j \in 1 .. a - 1 : Puts(l, j, x) /\ l[j].txn = t
    BY <1>4, <1>12
  <1>14. \E j \in 1 .. Len(l) : Puts(l, j, x) /\ l[j].row = row
    BY <1>4, <1>5
  <1>15. CanRedoSet(pg, s, row, 0) => Sound(new) /\ SameBut(pg, new, s) /\ Len(new.slots) = Len(pg.slots)
    BY <1>11 DEF SlotRedone
  <1>16. s <= Len(pg.slots) /\ Extended(Initialised(pg), s) = pg
    BY <1>2, <1>8, <1>9, <1>11
  <1> QED BY <1>11, <1>13, <1>14, <1>15, <1>16 DEF pg, s, row, new

\* What undo has to leave of a record that it has undone.
LEMMA UndoingSet ==
    ASSUME NEW Q, NEW l, NEW t, NEW n \in Nat, NEW a, NEW P, NEW li, NEW k, InUndo(Q, l, t, n, a, P, li, k),
           NEW x, IsOf(l, a, x), NEW new, NEW li2, SlotSet(Q, l, n, P, li, x, new, li2),
           Len(new.slots) = Len(P[x[1]].slots),
           IF l[a].type = "Insert" THEN ~IsLive(new, x[2])
           ELSE \/ IsLive(new, x[2]) /\ new.slots[x[2]].row = l[a].row
                \/ \E j \in 1 .. a - 1 : Puts(l, j, x) /\ l[j].txn = t
    PROVE  LET P2 == [P EXCEPT ![x[1]] = new]
           IN  PagesWell(Q, l, n, P2, li2, k) /\ Undoing(Q, l, t, a - 1, P2, li2)
  <1> DEFINE P2 == [P EXCEPT ![x[1]] = new]
  <1>1. /\ LogWell(l, t, n) /\ PagesWell(Q, l, n, P, li, k) /\ Undoing(Q, l, t, a, P, li) /\ l[a].txn = t
    BY DEF InUndo
  <1>2. PagesWell(Q, l, n, P2, li2, k) /\ Kept(P, P2, x, new, li, li2)
    BY <1>1, PageSet
  <1> HIDE DEF P2
  <1>3. /\ x \in Rid /\ x[1] \in PageIds /\ a \in 1 .. Len(l) /\ a \in Nat \ {0} /\ x = <<x[1], x[2]>>
        /\ Len(l) \in Nat /\ \A i \in a .. Len(l) : i \in 1 .. Len(l) /\ l[i].txn = t
    BY UndoPage
  <1>4. /\ P2[x[1]] = new
        /\ \A p \in PageIds : p # x[1] => P2[p] = P[p]
        /\ \A y \in Rid : y # x => /\ y \in LiveOf(P2) <=> y \in LiveOf(P)
                                   /\ \A row : Holds(P, y, row) => Holds(P2, y, row)
        /\ x \in LiveOf(P2) <=> IsLive(new, x[2])
        /\ Range(li) \subseteq Range(li2)
    BY <1>2 DEF Kept
  <1>5. a - 1 \in 0 .. Len(l) /\ (\A i \in 1 .. Len(l) : i > a - 1 => i = a \/ i > a)
    BY <1>3
  <1>6. ~Clean(l) => \A p \in PageIds : Len(P2[p].slots) = Len(Q[p].slots)
    <2>1. \A p \in PageIds : Len(P2[p].slots) = Len(P[p].slots)
      BY <1>4
    <2> QED BY <1>1, <2>1 DEF Undoing
  <1>7. ASSUME NEW y \in Rid, NEW i \in 1 .. Len(l), IsOf(l, i, y), l[i].txn # t
        PROVE  y[1] \in Range(li2)
    BY <1>1, <1>4, <1>7 DEF Undoing
  <1>8. ASSUME NEW y \in Rid, NEW i \in 1 .. Len(l), LastSaved(l, t, i, y),
               \A j \in i + 1 .. Len(l) : IsOf(l, j, y) => j <= a - 1
        PROVE  IF l[i].type = "Delete" THEN y \notin LiveOf(P2)
               ELSE Holds(P2, y, l[i].row) \/ \E j \in i + 1 .. Len(l) : Puts(l, j, y)
    <2>1. l[i].txn # t
      BY <1>8 DEF LastSaved
    <2>2. ~(i \in a .. Len(l))
      BY <1>3, <2>1
    <2>3. a \in i + 1 .. Len(l) /\ ~(a <= a - 1)
      BY <1>3, <2>2
    <2>4. y # x
      BY <1>8, <2>3
    <2>5. \A j \in i + 1 .. Len(l) : j <= a - 1 => j <= a
      BY <1>3
    <2>6. IF l[i].type = "Delete" THEN y \notin LiveOf(P)
          ELSE Holds(P, y, l[i].row) \/ \E j \in i + 1 .. Len(l) : Puts(l, j, y)
      BY <1>1, <1>8, <2>5 DEF Undoing
    <2> QED BY <1>4, <2>4, <2>6
  <1>9. ASSUME NEW y \in Rid, NEW i \in 1 .. Len(l), IsOf(l, i, y), l[i].txn = t, i > a - 1,
               \A j \in (a - 1) + 1 .. i - 1 : IsOf(l, j, y) => l[j].txn # t
        PROVE  IF l[i].type = "Insert" THEN y \notin LiveOf(P2)
               ELSE Holds(P2, y, l[i].row) \/ \E j \in 1 .. i - 1 : Puts(l, j, y) /\ l[j].txn = t
    <2>1. CASE i = a
      <3>1. y = x
        BY <1>9, <2>1 DEF IsOf
      <3> QED BY <1>4, <2>1, <3>1 DEF Holds, RowIn
    <2>2. CASE i > a
      <3>1. a \in (a - 1) + 1 .. i - 1 /\ \A j \in a + 1 .. i - 1 : j \in (a - 1) + 1 .. i - 1
        BY <1>3, <2>2
      <3>2. y # x
        BY <1>1, <1>9, <3>1
      <3>3. \A j \in a + 1 .. i - 1 : IsOf(l, j, y) => l[j].txn # t
        BY <1>9, <3>1
      <3>4. IF l[i].type = "Insert" THEN y \notin LiveOf(P)
            ELSE Holds(P, y, l[i].row) \/ \E j \in 1 .. i - 1 : Puts(l, j, y) /\ l[j].txn = t
        BY <1>1, <1>9, <2>2, <3>3 DEF Undoing
      <3> QED BY <1>4, <3>2, <3>4
    <2> QED BY <1>5, <1>9, <2>1, <2>2
  <1>10. Undoing(Q, l, t, a - 1, P2, li2)
    BY <1>5, <1>6, <1>7, <1>8, <1>9 DEF Undoing
  <1> QED BY <1>2, <1>10 DEF P2

\* A record that undo skips.
LEMMA UndoingSkip ==
    ASSUME NEW Q, NEW l, NEW t, NEW n, LogWell(l, t, n), NEW a, NEW P,
           NEW li, Undoing(Q, l, t, a, P, li), a \in 1 .. Len(l), l[a].txn # t
    PROVE  Undoing(Q, l, t, a - 1, P, li)
  <1>1. Len(l) \in Nat /\ a \in Nat /\ a - 1 \in 0 .. Len(l)
    BY LogTypes
  <1>2. ASSUME NEW y \in Rid, NEW i \in 1 .. Len(l), LastSaved(l, t, i, y),
               \A j \in i + 1 .. Len(l) : IsOf(l, j, y) => j <= a - 1
        PROVE  IF l[i].type = "Delete" THEN y \notin LiveOf(P)
               ELSE Holds(P, y, l[i].row) \/ \E j \in i + 1 .. Len(l) : Puts(l, j, y)
    <2>1. \A j \in i + 1 .. Len(l) : j <= a - 1 => j <= a
      BY <1>1
    <2> QED BY <1>2, <2>1 DEF Undoing
  <1>3. ASSUME NEW y \in Rid, NEW i \in 1 .. Len(l), IsOf(l, i, y), l[i].txn = t, i > a - 1,
               \A j \in (a - 1) + 1 .. i - 1 : IsOf(l, j, y) => l[j].txn # t
        PROVE  IF l[i].type = "Insert" THEN y \notin LiveOf(P)
               ELSE Holds(P, y, l[i].row) \/ \E j \in 1 .. i - 1 : Puts(l, j, y) /\ l[j].txn = t
    <2>1. i # a
      BY <1>3
    <2>2. i > a /\ \A j \in a + 1 .. i - 1 : j \in (a - 1) + 1 .. i - 1
      BY <1>1, <1>3, <2>1
    <2> QED BY <1>3, <2>2 DEF Undoing
  <1> QED BY <1>1, <1>2, <1>3 DEF Undoing

\* What undoDelete leaves in the page.
LEMMA UndoneDelete ==
    ASSUME NEW Q, NEW t, NEW n, NEW a, NEW k, InUndo(Q, log, t, n, a, page, list, k),
           NEW x, Takes(log, a, x), SetAt(x, log[a].row, 0)
    PROVE  \E new : /\ page' = [page EXCEPT ![x[1]] = new]
                    /\ SlotSet(Q, log, n, page, list, x, new, list')
                    /\ Len(new.slots) = Len(page[x[1]].slots)
                    /\ \/ IsLive(new, x[2]) /\ new.slots[x[2]].row = log[a].row
                       \/ \E j \in 1 .. a - 1 : Puts(log, j, x) /\ log[j].txn = t
  <1> DEFINE pg == page[x[1]]
             s == x[2]
             row == log[a].row
             new == RedoSet(pg, s, row, 0)
  <1>1. IsOf(log, a, x)
    BY DEF Takes
  <1>2. /\ x \in Rid /\ x[1] \in PageIds /\ s \in Nat \ {0} /\ x = <<x[1], x[2]>> /\ x[1] < n
        /\ Len(pg.slots) <= Len(Q[x[1]].slots) /\ Logged(pg, x[1], log)
        /\ (s <= Len(pg.slots) => Sound(pg))
    BY <1>1, UndoPage
  <1>3. page \in [PageIds -> PageRecord]
    BY DEF InUndo, PagesWell
  <1>4. list' = (IF x[1] \in Range(list) THEN list ELSE Append(list, x[1]))
    BY DEF SetAt, Listed
  <1>5. IF CanRedoSet(pg, s, row, 0) THEN page' = [page EXCEPT ![x[1]] = new]
        ELSE page' \in {page, [page EXCEPT ![x[1]] = Extended(Initialised(pg), s)]}
    BY DEF SetAt
  <1>6. /\ s <= Len(pg.slots)
        /\ \E j \in 1 .. Len(log) : Puts(log, j, x) /\ log[j].row = row
        /\ CanRedoSet(pg, s, row, 0) =>
             /\ Sound(new) /\ SameBut(pg, new, s) /\ Len(new.slots) = Len(pg.slots)
             /\ IsLive(new, s) /\ new.slots[s].row = row
        /\ ~CanRedoSet(pg, s, row, 0) =>
             \E j \in 1 .. a - 1 : Puts(log, j, x) /\ log[j].txn = t
        /\ Extended(Initialised(pg), s) = pg
    BY UndoDelete
  <1> HIDE DEF pg, s, row, new
  <1>7. CASE CanRedoSet(pg, s, row, 0)
    <2>1. SlotSet(Q, log, n, page, list, x, new, list')
      BY <1>2, <1>4, <1>6, <1>7 DEF SlotSet, pg, s, row
    <2> QED BY <1>5, <1>6, <1>7, <2>1 DEF pg, s, row
  <1>8. CASE ~CanRedoSet(pg, s, row, 0)
    <2>1. page' = [page EXCEPT ![x[1]] = pg]
      BY <1>2, <1>3, <1>5, <1>6, <1>8 DEF pg
    <2>2. Sound(pg) /\ pg \in PageRecord
      BY <1>2, <1>6 DEF Sound
    <2>3. s \in 1 .. Len(pg.slots)
      BY <1>2, <1>6, <2>2, SlotTypes
    <2>4. IsLive(pg, s) => \E i \in 1 .. Len(log) : Puts(log, i, x) /\ log[i].row = pg.slots[s].row
      BY <1>2, <2>3 DEF Logged, Live, s
    <2>5. SameBut(pg, pg, s)
      BY <1>2 DEF SameBut
    <2>6. SlotSet(Q, log, n, page, list, x, pg, list')
      BY <1>2, <1>4, <2>2, <2>4, <2>5 DEF SlotSet, pg, s
    <2> QED BY <1>6, <1>8, <2>1, <2>6 DEF pg
  <1> QED BY <1>7, <1>8

\* A step of the undo pass.
LEMMA UndoKeeps ==
    ASSUME NEW Q, InRecovery(Q), UndoLoser
    PROVE  InRecovery(Q)'
  <1> DEFINE r == log[at]
             x == r.rid
  <1>1. /\ phase = "undo" /\ at > 0 /\ at' = at - 1 /\ phase' = "undo"
        /\ UNCHANGED <<scenario, numPages, log, txn, stmts, saved>>
        /\ \/ r.txn \notin Committed /\ r.type = "Insert" /\ ClearAt(x, 0)
           \/ r.txn \notin Committed /\ r.type = "Delete" /\ SetAt(x, r.row, 0)
           \/ ~(r.txn \notin Committed) /\ UNCHANGED <<page, list, hint>>
    BY DEF UndoLoser, Recovering, fileVars
  <1>2. /\ LogWell(log, txn, numPages) /\ Room(Q, log)
        /\ PagesWell(Q, log, numPages, page, list, stmts)
        /\ Undoing(Q, log, txn, at, page, list)
        /\ numPages \in Nat /\ page \in [PageIds -> PageRecord]
    BY <1>1, HeapAssumption DEF InRecovery, PagesWell
  <1>3. at \in 1 .. Len(log) /\ Len(log) \in Nat /\ at \in Nat
    <2>1. Len(log) \in Nat /\ at \in 0 .. Len(log)
      BY <1>2, LogTypes DEF Undoing
    <2> QED BY <1>1, <2>1
  <1>4. r.type # "Commit" => IsOf(log, at, x)
    BY <1>2, <1>3, LogTypes
  <1>5. r.txn \in Committed <=> r.txn # txn
    BY <1>2, <1>3, Losers DEF Committed
  <1> HIDE DEF r, x
  <1>6. CASE r.txn \notin Committed /\ r.type = "Insert" /\ ClearAt(x, 0)
    <2> DEFINE new == RedoClear(page[x[1]], x[2], 0)
    <2>1. InUndo(Q, log, txn, numPages, at, page, list, stmts)
      BY <1>2, <1>3, <1>5, <1>6 DEF InUndo, r
    <2>2. IsOf(log, at, x)
      BY <1>4, <1>6
    <2>3. page' = [page EXCEPT ![x[1]] = new] /\ list' = list
      BY <1>6 DEF ClearAt
    <2>4. /\ Sound(new) /\ SameBut(page[x[1]], new, x[2]) /\ Len(new.slots) = Len(page[x[1]].slots)
          /\ ~IsLive(new, x[2])
      BY <2>1, <2>2, UndoInsert
    <2>5. x \in Rid /\ x[1] < numPages /\ Len(page[x[1]].slots) <= Len(Q[x[1]].slots)
      BY <2>1, <2>2, UndoPage
    <2> HIDE DEF new
    <2>6. SlotSet(Q, log, numPages, page, list, x, new, list')
      BY <2>3, <2>4, <2>5 DEF SlotSet
    <2>7. IF log[at].type = "Insert" THEN ~IsLive(new, x[2])
          ELSE \/ IsLive(new, x[2]) /\ new.slots[x[2]].row = log[at].row
               \/ \E j \in 1 .. at - 1 : Puts(log, j, x) /\ log[j].txn = txn
      BY <1>6, <2>4 DEF r
    <2>8. PagesWell(Q, log, numPages, page', list', stmts) /\ Undoing(Q, log, txn, at - 1, page', list')
      BY <1>2, <2>1, <2>2, <2>3, <2>4, <2>6, <2>7, UndoingSet
    <2> QED BY <1>1, <2>8, RecoveryGoesOn
  <1>7. CASE r.txn \notin Committed /\ r.type = "Delete" /\ SetAt(x, r.row, 0)
    <2>1. InUndo(Q, log, txn, numPages, at, page, list, stmts)
      BY <1>2, <1>3, <1>5, <1>7 DEF InUndo, r
    <2>2. Takes(log, at, x) /\ IsOf(log, at, x) /\ SetAt(x, log[at].row, 0)
      BY <1>4, <1>7 DEF Takes, r
    <2>3. PICK new : /\ page' = [page EXCEPT ![x[1]] = new]
                     /\ SlotSet(Q, log, numPages, page, list, x, new, list')
                     /\ Len(new.slots) = Len(page[x[1]].slots)
                     /\ \/ IsLive(new, x[2]) /\ new.slots[x[2]].row = log[at].row
                        \/ \E j \in 1 .. at - 1 : Puts(log, j, x) /\ log[j].txn = txn
      BY <2>1, <2>2, UndoneDelete
    <2>4. IF log[at].type = "Insert" THEN ~IsLive(new, x[2])
          ELSE \/ IsLive(new, x[2]) /\ new.slots[x[2]].row = log[at].row
               \/ \E j \in 1 .. at - 1 : Puts(log, j, x) /\ log[j].txn = txn
      BY <1>7, <2>3 DEF r
    <2>5. PagesWell(Q, log, numPages, page', list', stmts) /\ Undoing(Q, log, txn, at - 1, page', list')
      BY <1>2, <2>1, <2>2, <2>3, <2>4, UndoingSet
    <2> QED BY <1>1, <2>5, RecoveryGoesOn
  <1>8. CASE ~(r.txn \notin Committed) /\ UNCHANGED <<page, list, hint>>
    <2>1. log[at].txn # txn
      BY <1>5, <1>8 DEF r
    <2>2. Undoing(Q, log, txn, at - 1, page, list)
      BY <1>2, <1>3, <2>1, UndoingSkip
    <2> QED BY <1>1, <1>2, <1>8, <2>2, RecoveryGoesOn
  <1> QED BY <1>1, <1>6, <1>7, <1>8

----------------------------------------------------------------------------
(* The end of recovery.                                                    *)

\* At its end recovery has put back each row of the last commit, and no other.
LEMMA RowBack ==
    ASSUME NEW l, NEW t, NEW n, LogWell(l, t, n), NEW sv, SavedRows(l, t, sv),
           NEW Q, NEW P, NEW li, NEW k, PagesWell(Q, l, n, P, li, k), Undoing(Q, l, t, 0, P, li),
           NEW x \in Rid
    PROVE  /\ x \in DOMAIN sv <=> x \in LiveOf(P)
           /\ x \in DOMAIN sv => sv[x] = RowIn(P, x)
           /\ x \in LiveOf(P) => x[1] \in Range(li)
  <1>1. Len(l) \in Nat /\ \A i \in 1 .. Len(l) : l[i].type \in {"Insert", "Delete", "Commit"}
    BY LogTypes
  <1>2. x[1] \in PageIds
    BY RidIs
  <1>3. x \in LiveOf(P) => \E i \in 1 .. Len(l) : Puts(l, i, x)
    <2>1. Logged(P[x[1]], x[1], l)
      BY <1>2 DEF PagesWell
    <2> QED BY <2>1, LiveLogged
  <1>4. x \in DOMAIN sv => \E i \in 1 .. Len(l) : IsOf(l, i, x) /\ l[i].txn # t
    BY DEF SavedRows
  <1>5. \A i \in 1 .. Len(l) : LastSaved(l, t, i, x) =>
          /\ x \in DOMAIN sv <=> l[i].type = "Insert"
          /\ x \in DOMAIN sv => sv[x] = l[i].row
    BY DEF SavedRows
  <1>6. \A i \in 1 .. Len(l) : IsOf(l, i, x) /\ l[i].txn # t => x[1] \in Range(li)
    BY DEF Undoing
  <1>7. CASE \A i \in 1 .. Len(l) : IsOf(l, i, x) => l[i].txn # t
    <2>1. CASE ~ \E i \in 1 .. Len(l) : IsOf(l, i, x)
      BY <1>3, <1>4, <2>1 DEF Puts
    <2>2. CASE \E i \in 1 .. Len(l) : IsOf(l, i, x)
      <3>1. PICK i \in 1 .. Len(l) : IsOf(l, i, x) /\ \A j \in i + 1 .. Len(l) : ~IsOf(l, j, x)
        BY <1>1, <2>2, LastRecord
      <3>2. LastSaved(l, t, i, x) /\ x[1] \in Range(li)
        BY <1>6, <1>7, <3>1 DEF LastSaved
      <3>3. IF l[i].type = "Delete" THEN x \notin LiveOf(P)
            ELSE Holds(P, x, l[i].row) \/ \E j \in i + 1 .. Len(l) : Puts(l, j, x)
        BY <3>1, <3>2 DEF Undoing
      <3>4. ~ \E j \in i + 1 .. Len(l) : Puts(l, j, x)
        BY <3>1 DEF Puts
      <3>5. l[i].type \in {"Insert", "Delete"}
        BY <3>1 DEF IsOf
      <3> QED BY <1>5, <3>2, <3>3, <3>4, <3>5 DEF Holds
    <2> QED BY <2>1, <2>2
  <1>8. CASE ~ \A i \in 1 .. Len(l) : IsOf(l, i, x) => l[i].txn # t
    <2> DEFINE S == {i \in 1 .. Len(l) : IsOf(l, i, x) /\ l[i].txn = t}
    <2>1. S # {} /\ S \in SUBSET Nat
      BY <1>8
    <2>2. PICK i \in S : \A j \in S : i <= j
      <3> HIDE DEF S
      <3> QED BY <2>1, LeastNumber
    <2>3. i \in 1 .. Len(l) /\ IsOf(l, i, x) /\ l[i].txn = t /\ i > 0
      BY <2>2
    <2>4. ASSUME NEW j \in 1 .. i - 1
          PROVE  j \in 1 .. Len(l) /\ (IsOf(l, j, x) => l[j].txn # t)
      BY <1>1, <2>2, <2>3
    <2>5. \A j \in i .. Len(l) : l[j].txn = t
      BY <2>3 DEF LogWell, Numbered
    <2>6. \A j \in 0 + 1 .. i - 1 : j \in 1 .. i - 1
      OBVIOUS
    <2>7. IF l[i].type = "Insert" THEN x \notin LiveOf(P)
          ELSE Holds(P, x, l[i].row) \/ \E j \in 1 .. i - 1 : Puts(l, j, x) /\ l[j].txn = t
      BY <2>3, <2>4, <2>6 DEF Undoing
    <2>8. l[i].type \in {"Insert", "Delete"}
      BY <2>3 DEF IsOf
    <2>9. CASE l[i].type = "Insert"
      <3>1. Puts(l, i, x)
        BY <2>3, <2>9 DEF Puts
      <3>2. Births(l, i, x) \/ (i > 1 /\ Takes(l, i - 1, x) /\ l[i - 1].txn = l[i].txn)
        BY <2>3, <3>1 DEF LogWell, Changes
      <3>3. ~(i > 1 /\ Takes(l, i - 1, x) /\ l[i - 1].txn = l[i].txn)
        <4>1. i > 1 => i - 1 \in 1 .. i - 1
          BY <2>3
        <4> QED BY <2>3, <2>4, <4>1 DEF Takes
      <3>4. \A j \in 1 .. i - 1 : ~IsOf(l, j, x)
        BY <3>2, <3>3 DEF Births
      <3>5. \A j \in 1 .. Len(l) : j \in 1 .. i - 1 \/ j \in i .. Len(l)
        BY <1>1, <2>3
      <3>6. x \notin DOMAIN sv
        BY <1>4, <2>5, <3>4, <3>5
      <3> QED BY <2>7, <2>9, <3>6
    <2>10. CASE l[i].type = "Delete"
      <3>1. Takes(l, i, x)
        BY <2>3, <2>10 DEF Takes
      <3>2. PICK j0 \in 1 .. i - 1 : /\ Puts(l, j0, x) /\ l[j0].row = l[i].row
                                     /\ \A m \in j0 + 1 .. i - 1 : ~IsOf(l, m, x)
        BY <2>3, <3>1 DEF LogWell, Changes
      <3>3. IsOf(l, j0, x) /\ l[j0].type = "Insert" /\ j0 \in 1 .. Len(l) /\ l[j0].txn # t
        BY <2>4, <3>2 DEF Puts
      <3>4. \A j \in j0 + 1 .. Len(l) : j \in j0 + 1 .. i - 1 \/ j \in i .. Len(l)
        BY <1>1, <2>3, <3>3
      <3>5. LastSaved(l, t, j0, x)
        BY <2>5, <3>2, <3>3, <3>4 DEF LastSaved
      <3>6. ~ \E j \in 1 .. i - 1 : Puts(l, j, x) /\ l[j].txn = t
        BY <2>4 DEF Puts
      <3>7. Holds(P, x, l[i].row)
        BY <2>7, <2>10, <3>6
      <3> QED BY <1>5, <1>6, <3>2, <3>3, <3>5, <3>7 DEF Holds
    <2> QED BY <2>8, <2>9, <2>10
  <1> QED BY <1>7, <1>8

\* Recovery ends with the rows of the last commit.
LEMMA RecoveredKeeps ==
    ASSUME NEW Q, InRecovery(Q), Recovered
    PROVE  /\ HInv' /\ Heap = saved /\ HeapOf(page') = saved /\ saved' = saved
           /\ DOMAIN saved \subseteq SlotsOf(page')
  <1>1. /\ phase = "undo" /\ at = 0 /\ phase' = "open"
        /\ UNCHANGED <<page, numPages, list, scenario, stmts, saved>>
    BY DEF Recovered, heapVars
  <1>2. /\ LogWell(log, txn, numPages) /\ SavedRows(log, txn, saved)
        /\ PagesWell(Q, log, numPages, page, list, stmts)
        /\ Undoing(Q, log, txn, 0, page, list)
        /\ scenario \in Scenario /\ stmts \in 0 .. scenario.stmts /\ numPages \in 0 .. MaxPages
    BY <1>1 DEF InRecovery
  <1>3. \A x \in Rid : /\ x \in DOMAIN saved <=> x \in LiveOf(page)
                       /\ x \in DOMAIN saved => saved[x] = RowIn(page, x)
                       /\ x \in LiveOf(page) => x[1] \in Range(list)
    BY <1>2, RowBack
  <1>4. /\ page \in [PageIds -> PageRecord]
        /\ \A p \in PageIds : /\ page[p] = ZeroPage \/ (Sound(page[p]) /\ p < numPages)
                              /\ Len(page[p].slots) <= Len(Q[p].slots) /\ Len(Q[p].slots) <= stmts
                              /\ Logged(page[p], p, log)
        /\ Listing(list, numPages) /\ \A p \in Range(list) : page[p] # ZeroPage
    BY <1>2 DEF PagesWell
  <1>5. /\ DOMAIN saved \subseteq Rid /\ saved = [r \in DOMAIN saved |-> saved[r]]
    BY <1>2 DEF SavedRows
  <1>6. DOMAIN saved = LiveOf(page) /\ LiveOf(page) = LiveRids
    <2>1. LiveOf(page) \subseteq Rid
      BY DEF LiveOf
    <2>2. LiveOf(page) = LiveRids
      BY <1>3 DEF LiveOf, LiveRids
    <2> QED BY <1>3, <1>5, <2>1, <2>2
  <1>7. HeapOf(page) = saved
    <2>1. \A r \in DOMAIN saved : saved[r] = RowIn(page, r)
      BY <1>3, <1>5
    <2> QED BY <1>5, <1>6, <2>1 DEF HeapOf
  <1>8. Heap = HeapOf(page)
    BY <1>6 DEF Heap, HeapOf, RowAt, RowIn
  <1>9. stmts \in Nat /\ numPages \in Nat /\ \A p \in PageIds : Len(page[p].slots) \in Nat
    BY <1>2, <1>4, HeapAssumption, SlotTypes DEF Scenario
  <1>10. \A p \in PageIds : Len(page[p].slots) <= stmts
    <2> SUFFICES ASSUME NEW p \in PageIds PROVE Len(page[p].slots) <= stmts
      OBVIOUS
    <2>1. Len(Q[p].slots) \in Nat
      BY <1>1, StackedOrder DEF InRecovery, Room
    <2> QED BY <1>4, <1>9, <2>1
  <1>11. ASSUME NEW p \in PageIds, p \notin Range(list)
         PROVE  Live(page[p]) = {}
    <2> SUFFICES ASSUME NEW s \in Live(page[p]) PROVE FALSE
      OBVIOUS
    <2>1. s \in 1 .. Len(page[p].slots) /\ IsLive(page[p], s)
      BY DEF Live
    <2>2. PICK i \in 1 .. Len(log) : Puts(log, i, <<p, s>>)
      BY <1>4 DEF Logged
    <2>3. <<p, s>> \in Rid
      BY <1>2, <2>2, LogTypes DEF Puts
    <2>4. <<p, s>> \in LiveOf(page)
      BY <2>1, <2>3 DEF LiveOf
    <2>5. p \in Range(list)
      BY <1>3, <2>3, <2>4
    <2> QED BY <1>11, <2>5
  <1>12. Whole(page, list, numPages, stmts)
    BY <1>4, <1>10, <1>11 DEF Whole
  <1>13. HInv'
    BY <1>1, <1>2, <1>4, <1>12 DEF HInv, Open
  <1>14. DOMAIN saved \subseteq SlotsOf(page)
    <2>1. \A r \in LiveOf(page) : r \in Rid /\ r[2] <= Len(page[r[1]].slots)
      BY DEF LiveOf, IsLive
    <2> QED BY <1>6, <2>1 DEF SlotsOf
  <1> QED BY <1>1, <1>7, <1>8, <1>13, <1>14

----------------------------------------------------------------------------
(* The theorems.                                                           *)

\* Only a stop changes what may happen.
LEMMA ScenarioKept == [Next]_vars /\ ~Crash => UNCHANGED scenario
  <1>1. Statement => UNCHANGED scenario
    BY DEF Statement, flowVars
  <1>2. Recovering => UNCHANGED scenario
    BY DEF Recovering
  <1>3. ASSUME NEW row \in Rows, Put(row)
        PROVE  UNCHANGED scenario
    BY <1>1, <1>3 DEF Put
  <1>4. ASSUME NEW r \in LiveRids, Remove(r)
        PROVE  UNCHANGED scenario
    BY <1>1, <1>4 DEF Remove
  <1>5. ASSUME NEW r \in LiveRids, NEW row \in Rows, ModifyInPlace(r, row) \/ ModifyMoves(r, row)
        PROVE  UNCHANGED scenario
    BY <1>1, <1>5 DEF ModifyInPlace, ModifyMoves
  <1>6. ASSUME NEW p \in PageIds, WritePage(p)
        PROVE  UNCHANGED scenario
    BY <1>6 DEF WritePage, flowVars
  <1>7. Commit \/ Flushed \/ Redo \/ RedoDone \/ UndoLoser \/ Recovered => UNCHANGED scenario
    BY <1>2 DEF Commit, Flushed, Redo, RedoDone, UndoLoser, Recovered
  <1>8. UNCHANGED vars => UNCHANGED scenario
    BY DEF vars, flowVars
  <1> QED BY <1>3, <1>4, <1>5, <1>6, <1>7, <1>8 DEF Next

\* The program starts with an empty file and an empty log.
LEMMA SafeInit ==
    ASSUME scenario.crash => ~scenario.reuse, Init
    PROVE  Safe /\ Store!Init
  <1>1. HInv /\ Store!Init
    BY HInit
  <1>2. Open
    BY <1>1 DEF HInv
  <1>3. /\ page = [p \in PageIds |-> ZeroPage] /\ disk = page
        /\ numPages = 0 /\ list = << >> /\ catalog = << >> /\ log = << >> /\ txn = 1 /\ saved = Heap
    BY DEF Init
  <1> DEFINE Q == [p \in PageIds |-> EmptyPage]
  <1>4. \A p \in PageIds : Q[p] = EmptyPage /\ page[p] = ZeroPage
    BY <1>3
  <1> HIDE DEF Q
  <1>5. Len(log) = 0 /\ 1 .. Len(log) = {} /\ log \in Seq(LogRecord)
    BY <1>3
  <1>6. \A i, r : ~IsOf(log, i, r)
    BY <1>5 DEF IsOf
  <1>7. LogWell(log, txn, numPages)
    BY <1>3, <1>5 DEF LogWell, Numbered, Typed, Changes
  <1>8. Room(Q, log)
    <2>1. \A p \in PageIds : Stacked(Q[p]) /\ Len(Q[p].slots) = 0
      BY <1>4, EmptyStacked, EmptyPageSound
    <2>2. \A p \in PageIds : 1 .. Len(Q[p].slots) = {}
      BY <2>1
    <2> QED BY <1>5, <2>1, <2>2 DEF Room
  <1>9. DOMAIN saved = {} /\ saved = [r \in DOMAIN saved |-> saved[r]]
    <2>1. \A r \in Rid : ~IsLive(page[r[1]], r[2])
      <3> SUFFICES ASSUME NEW r \in Rid PROVE ~IsLive(page[r[1]], r[2])
        OBVIOUS
      <3>1. r[1] \in PageIds /\ r[2] \in 1 .. MaxStmts
        BY RidIs
      <3>2. ~(r[2] <= Len(page[r[1]].slots))
        BY <1>4, <3>1, ZeroPageIs
      <3> QED BY <3>2 DEF IsLive
    <2>2. LiveRids = {}
      BY <2>1 DEF LiveRids
    <2> QED BY <1>3, <2>2 DEF Heap
  <1>10. SavedRows(log, txn, saved)
    BY <1>5, <1>9 DEF SavedRows
  <1>11. FileWell(page, Q, log, numPages)
    <2>1. page \in [PageIds -> PageRecord]
      BY <1>3, ZeroPageIs
    <2>2. \A p \in PageIds : Former(page[p], Q[p], log)
      BY <1>4 DEF Former
    <2>3. \A p \in PageIds : Logged(page[p], p, log)
      <3>1. Live(ZeroPage) = {}
        BY ZeroPageIs DEF Live
      <3> QED BY <1>4, <3>1 DEF Logged
    <2>4. ZeroPage.lsn = 0
      BY DEF ZeroPage, EmptyPage
    <2> QED BY <1>4, <2>1, <2>2, <2>3, <2>4 DEF FileWell
  <1>12. Memory(log, page, Q)
    <2>1. \A p \in PageIds : Len(page[p].slots) = Len(Q[p].slots)
      BY <1>4, ZeroPageIs
    <2>2. \A p \in PageIds : page[p] = ZeroPage
      BY <1>4
    <2> QED BY <1>5, <2>1, <2>2 DEF Memory
  <1>13. Holding(Q, log, txn, numPages, saved, page, disk)
    BY <1>3, <1>7, <1>8, <1>10, <1>11, <1>12 DEF Holding
  <1>14. Listing(catalog, numPages) /\ Range(catalog) = {}
    BY <1>1, <1>3 DEF HInv, Range
  <1>15. Running(Q)
    BY <1>13, <1>14 DEF Running
  <1> QED BY <1>1, <1>2, <1>15 DEF Safe

\* A step of recovery before the last.
LEMMA StillRecovering ==
    ASSUME NEW Q, InRecovery(Q)', UNCHANGED saved, ~Open
    PROVE  Safe' /\ Store!Waste
  <1>1. ~Open' /\ ~scenario'.crash
    BY DEF InRecovery, Open
  <1>2. Safe'
    BY <1>1 DEF Safe
  <1> QED BY <1>1, <1>2 DEF Store!Waste

\* A stop takes the rows back to the saved ones.
LEMMA CrashKeeps ==
    ASSUME Safe, Crash
    PROVE  Safe' /\ Store!Stop
  <1>1. HInv /\ (Careful => \E Q : Running(Q))
    BY DEF Safe, Crash, Open
  <1>2. Careful /\ UNCHANGED saved /\ ~scenario'.crash
    <2>1. scenario \in Scenario /\ (scenario.crash => ~scenario.reuse)
      BY <1>1 DEF HInv, Safe
    <2> QED BY <2>1 DEF Careful, Crash, Scenario
  <1>3. PICK Q : Running(Q)
    BY <1>1, <1>2
  <1>4. InRecovery(Q)' /\ ~Open'
    BY <1>1, <1>3, CrashStops
  <1>5. Safe'
    BY <1>2, <1>4 DEF Safe
  <1>6. Store!Stop
    BY <1>2, <1>4 DEF Store!Stop
  <1> QED BY <1>5, <1>6

\* The steps of recovery change no row that anybody sees; its end may waste ids.
LEMMA RecoveryKeeps ==
    ASSUME Safe, Redo \/ RedoDone \/ UndoLoser \/ Recovered
    PROVE  Safe' /\ Store!Waste
  <1>1. ~Open
    BY DEF Open, Redo, RedoDone, UndoLoser, Recovered
  <1>2. PICK Q : InRecovery(Q)
    BY <1>1 DEF Safe
  <1>3. ~scenario.crash
    BY <1>2 DEF InRecovery
  <1>4. CASE Redo
    <2>1. InRecovery(Q)' /\ UNCHANGED saved
      BY <1>2, <1>4, RedoKeeps DEF Redo, Recovering
    <2> QED BY <1>1, <2>1, StillRecovering
  <1>5. CASE RedoDone
    <2>1. InRecovery(Q)' /\ UNCHANGED saved
      BY <1>2, <1>5, RedoDoneKeeps DEF RedoDone, Recovering
    <2> QED BY <1>1, <2>1, StillRecovering
  <1>6. CASE UndoLoser
    <2>1. InRecovery(Q)' /\ UNCHANGED saved
      BY <1>2, <1>6, UndoKeeps DEF UndoLoser, Recovering
    <2> QED BY <1>1, <2>1, StillRecovering
  <1>7. CASE Recovered
    <2>1. /\ HInv' /\ HeapOf(page') = saved /\ saved' = saved /\ DOMAIN saved \subseteq SlotsOf(page')
      BY <1>2, <1>7, RecoveredKeeps
    <2>2. Open' /\ UNCHANGED scenario
      BY <1>7, <2>1 DEF HInv, Recovered
    <2>3. ~Careful'
      BY <1>3, <2>2 DEF Careful
    <2>4. Safe'
      BY <1>3, <2>1, <2>2, <2>3 DEF Safe
    <2>5. Store!Waste
      BY <1>1, <2>1, SeenNext DEF Store!Waste
    <2> QED BY <2>4, <2>5
  <1> QED BY <1>4, <1>5, <1>6, <1>7

\* Each step keeps the invariant and is a step of RowStore.
LEMMA SafeNext == Safe /\ [Next]_vars => Safe' /\ [Store!Next]_Store!rsVars
  <1> SUFFICES ASSUME Safe, [Next]_vars
               PROVE  Safe' /\ [Store!Next]_Store!rsVars
    OBVIOUS
  <1>1. scenario.crash => ~scenario.reuse
    BY DEF Safe
  <1>2. CASE Open /\ ~Crash
    <2>1. HInv /\ (Careful => \E Q : Running(Q))
      BY <1>2 DEF Safe
    <2>2. HInv' /\ [Store!Next]_Store!rsVars
      BY <1>2, <2>1, HNext
    <2>3. UNCHANGED scenario
      BY <1>2, ScenarioKept
    <2>4. (Careful => \E Q : Running(Q))'
      <3>1. ASSUME Careful PROVE (\E Q : Running(Q))'
        <4>1. PICK Q : Running(Q)
          BY <2>1, <3>1
        <4> QED BY <1>2, <2>1, <3>1, <4>1, RunningNext
      <3>2. Careful' <=> Careful
        BY <2>3 DEF Careful
      <3> QED BY <3>1, <3>2
    <2>5. Open'
      BY <2>2 DEF HInv
    <2> QED BY <1>1, <2>2, <2>3, <2>4, <2>5 DEF Safe
  <1>3. CASE Crash
    BY <1>3, CrashKeeps DEF Store!Next
  <1>4. CASE ~Open /\ ~Crash
    <2>1. PICK Q : InRecovery(Q)
      BY <1>4 DEF Safe
    <2>2. phase \in {"redo", "undo"} /\ ~scenario.crash
      BY <2>1 DEF InRecovery
    <2>3. CASE Redo \/ RedoDone \/ UndoLoser \/ Recovered
      BY <2>3, RecoveryKeeps DEF Store!Next
    <2>4. CASE UNCHANGED vars
      <3>1. InRecovery(Q)' /\ UNCHANGED saved
        BY <2>1, <2>4 DEF InRecovery, vars, heapVars, fileVars, flowVars
      <3> QED BY <1>4, <3>1, StillRecovering DEF Store!Next
    <2>5. /\ ~(\E row \in Rows : Put(row)) /\ ~Commit /\ ~Flushed
          /\ ~(\E p \in PageIds : WritePage(p))
          /\ ~(\E r \in LiveRids : \/ Remove(r)
                                   \/ \E row \in Rows : ModifyInPlace(r, row) \/ ModifyMoves(r, row))
      BY <2>2 DEF Put, Remove, ModifyInPlace, ModifyMoves, Statement, Commit, Flushed, WritePage
    <2> QED BY <1>4, <2>3, <2>4, <2>5 DEF Next
  <1> QED BY <1>2, <1>3, <1>4

\* An operation changes its own row and no other.
LEMMA OwnRow == Safe => OwnRowOnly
  <1> SUFFICES ASSUME Safe PROVE OwnRowOnly
    OBVIOUS
  <1>1. phase \in {"open", "flushing"} => HInv
    BY DEF Safe, Open
  <1>2. ASSUME NEW row \in Rows, Put(row)
        PROVE  Store!Insert(NewRid(page, hint, row), row)
    <2>1. HInv
      BY <1>1, <1>2 DEF Put, Statement
    <2> QED BY <1>2, <2>1, PutKeeps
  <1>3. ASSUME NEW r \in LiveRids, Remove(r)
        PROVE  Store!Erase(r)
    <2>1. HInv
      BY <1>1, <1>3 DEF Remove, Statement
    <2> QED BY <1>3, <2>1, RemoveKeeps
  <1>4. ASSUME NEW r \in LiveRids, NEW row \in Rows, ModifyInPlace(r, row)
        PROVE  Store!Change(r, row)
    <2>1. HInv
      BY <1>1, <1>4 DEF ModifyInPlace, Statement
    <2> QED BY <1>4, <2>1, ModifyInPlaceKeeps
  <1>5. ASSUME NEW r \in LiveRids, NEW row \in Rows, ModifyMoves(r, row)
        PROVE  Store!Move(r, MovedRid(r, row), row)
    <2>1. HInv
      BY <1>1, <1>5 DEF ModifyMoves, Statement
    <2> QED BY <1>5, <2>1, ModifyMovesKeeps
  <1>6. Commit => Store!Commit
    BY <1>1, CommitKeeps DEF Commit
  <1>7. Crash => Store!Stop
    BY CrashKeeps
  <1>8. Internal => Store!Waste
    <2>1. (\E p \in PageIds : WritePage(p)) \/ Flushed => HInv
      BY <1>1 DEF WritePage, Flushed
    <2> QED BY <2>1, WritingKeeps, RecoveryKeeps DEF Internal
  <1> QED BY <1>2, <1>3, <1>4, <1>5, <1>6, <1>7, <1>8 DEF OwnRowOnly

\* While the program runs, pages are sound and listed once; for the careful
\* workload the pages, the file, the log and the rows of the last commit agree
\* (Running), and through both passes of DB::recover they lead back to those
\* rows (InRecovery).
THEOREM HeapInvariant == (scenario.crash => ~scenario.reuse) /\ Spec => []Safe
  BY SafeInit, SafeNext, PTL DEF Spec

\* No byte of a page is used twice (NoOverlap): every series of insert, erase,
\* update in place and compact, and of redoSet and clearSlot after a stop, on
\* pages of any size with rows of any lengths (page.cpp).
THEOREM BytesUsedOnce == (scenario.crash => ~scenario.reuse) /\ Spec => []NoOverlap
  <1>1. Safe => NoOverlap
    <2> SUFFICES ASSUME Safe, NEW p \in PageIds, page[p] # ZeroPage
                 PROVE  Sound(page[p])
      BY DEF NoOverlap, Sound, Live, End
    <2>1. CASE Open
      BY <2>1 DEF Safe, HInv, Whole
    <2>2. CASE ~Open
      BY <2>2 DEF Safe, InRecovery, PagesWell
    <2> QED BY <2>1, <2>2
  <1> QED BY <1>1, HeapInvariant, PTL

\* The heap implements RowStore, operation by operation (KeepsRows): PUT adds the
\* row it was given under an id that was never given out, REMOVE and MODIFY
\* change the row they name and no other, in any number of transactions, with
\* any compaction, choice of page and hints; and a stop, with any pages written
\* and any not, followed by recovery, takes the rows back to those of the last
\* commit (TableManager, Page, DB::recover).
THEOREM RowsKeepTheirIds == (scenario.crash => ~scenario.reuse) /\ Spec => KeepsRows
  <1>1. (scenario.crash => ~scenario.reuse) /\ Spec => Store!Spec
    BY SafeInit, SafeNext, PTL DEF Spec, Store!Spec
  <1>2. Safe => [OwnRowOnly]_vars
    BY OwnRow
  <1>3. (scenario.crash => ~scenario.reuse) /\ Spec => [][OwnRowOnly]_vars
    BY <1>2, HeapInvariant, PTL
  <1> QED BY <1>1, <1>3, PTL DEF KeepsRows

\* Committed work survives a stop (RecoveredRows): when the undo pass of
\* DB::recover has come to its end, the rows are those of the last commit.
THEOREM CommittedRowsAreBack == (scenario.crash => ~scenario.reuse) /\ Spec => RecoveredRows
  <1>1. Safe /\ [Next]_vars => [phase = "undo" /\ phase' = "open" => Heap = saved]_vars
    <2> SUFFICES ASSUME Safe, Next, phase = "undo", phase' = "open"
                 PROVE  Heap = saved
      OBVIOUS
    <2>1. PICK Q : InRecovery(Q)
      BY DEF Safe, Open
    <2>2. Recovered
      BY DEF Next, Put, Remove, ModifyInPlace, ModifyMoves, Statement, Commit, Flushed, Crash,
             WritePage, Redo, RedoDone, UndoLoser, flowVars
    <2> QED BY <2>1, <2>2, RecoveredKeeps
  <1> QED BY <1>1, HeapInvariant, PTL DEF Spec, RecoveredRows

============================================================================
