-------------------------- MODULE DurabilityProofs --------------------------
(***************************************************************************)
(* Proofs about durability, for any number of pages and any scenario: the  *)
(* write-ahead rule, and that the log outlives the pages it describes.     *)
(*                                                                         *)
(* WriteAhead is not inductive.  It needs that the log has the records of  *)
(* every change in the undo list (Logged), and of a change halfway through *)
(* its logging (Prepared); that a change between heap and log is in no     *)
(* page version on the platter (Unwritten); and that a slot which is dead  *)
(* in a version is dead in all later ones (Chained), or a version on the   *)
(* platter could show a removal before it happens.  Chained holds between  *)
(* recoveries only: recovery brings rows back, but it ends with one        *)
(* version of each page everywhere.                                        *)
(***************************************************************************)
EXTENDS Durability, LeastNumbers, SequenceTheorems

----------------------------------------------------------------------------
(* Types.                                                                  *)

Place == Pages \X (Nat \ {0})
Page == [lsn : Nat, slots : Seq(Nat)]
Change == [rid : Place \cup {NoRid}, to : Place \cup {NoRid}, old : Nat, new : Nat]
RecordTypes == {"Begin", "Insert", "Delete", "Commit", "Abort", "Torn"}
LogRecord ==
    {r \in [lsn : Nat, txn : Nat, type : RecordTypes, rid : Place \cup {NoRid},
            before : Nat, after : Nat] :
        r.type \in {"Insert", "Delete"} => r.rid \in Place}

Recoveries == {"redo", "undoLosers", "recoverFlush"}
Flushes == {"flush", "recoverFlush", "closeFlush"}
Halves == {"logInsert", "logModifyDelete", "logModifyInsert"}
Phases == {"ready", "erase", "commitSync", "undo", "abortSync", "truncate", "resetSync"}
          \cup Recoveries \cup Flushes \cup Halves

\* No row is known before the statement that writes it.
RowsUpTo(pg, n) == \A s \in 1 .. Len(pg.slots) : pg.slots[s] <= n
LogRowsUpTo(l, n) == \A i \in 1 .. Len(l) : l[i].before <= n /\ l[i].after <= n

----------------------------------------------------------------------------
(* The inductive invariant.                                                *)

\* The session, and what each phase has at hand.
SessionOK ==
    /\ scenario \in Scenario
    /\ txn \in Nat /\ nextTxn \in Nat \ {0}
    /\ undo \in Seq(Change)
    /\ pc \in Phases /\ cur \in Change /\ left \in SUBSET Pages /\ at \in Nat
    /\ stmts \in Nat /\ stops \in Nat
    /\ \A i \in 1 .. Len(undo) : undo[i].old <= stmts /\ undo[i].new <= stmts
    /\ cur.old <= stmts /\ cur.new <= stmts
    /\ pc \in Halves => cur.to \in Place
    /\ pc \in {"erase", "logModifyDelete"} => cur.rid \in Place
    /\ pc \in Flushes \cup Recoveries \cup {"truncate", "resetSync"} => txn = 0
    /\ pc \in Recoveries => Readable(wal) # << >>
    /\ pc = "redo" => at >= 1
    /\ pc = "undoLosers" => at <= Len(Readable(wal))

\* Slots are only added to a page, and what is dead stays dead.
Prior(v, w) ==
    /\ Len(v.slots) <= Len(w.slots)
    /\ \A s \in 1 .. Len(v.slots) : v.slots[s] = Dead => w.slots[s] = Dead

\* The copies of a page are versions of it, one after the other.
Chained ==
    pc \notin Recoveries =>
        \A p \in Pages : /\ Prior(os[p], mem[p])
                         /\ \A v \in platter[p] : Prior(v, os[p])
PagesOK ==
    /\ mem \in [Pages -> Page] /\ os \in [Pages -> Page]
    /\ platter \in [Pages -> SUBSET Page]
    /\ \A p \in Pages : /\ RowsUpTo(mem[p], stmts) /\ RowsUpTo(os[p], stmts)
                        /\ \A v \in platter[p] : RowsUpTo(v, stmts)
    /\ Chained

LogsOK ==
    /\ wal \in Seq(LogRecord) /\ walPlatter \in SUBSET Seq(LogRecord) /\ nextLsn \in Nat
    /\ LogRowsUpTo(wal, stmts) /\ \A l \in walPlatter : LogRowsUpTo(l, stmts)

\* flushAll leaves out no page that has changed.
FlushComplete == pc \in Flushes => \A p \in Pages : mem[p] # os[p] => p \in left

\* Before the log is given up, the platter holds what the program sees.
PagesSafe == pc = "truncate" => \A p \in Pages : platter[p] = {mem[p]}

\* The log has the records of every change in the undo list.
Describes(l, id, u) ==
    /\ u.to # NoRid => HasInsert(l, id, u)
    /\ u.rid # NoRid => HasDelete(l, id, u)
Logged == InTxn => \A i \in 1 .. Len(undo) : Describes(wal, txn, undo[i])

\* What is still to be logged of a change is its new row.
Prepared ==
    /\ pc = "logInsert" => cur.rid = NoRid
    /\ pc = "logModifyInsert" => HasDelete(wal, txn, cur)

\* Between the change of the heap and its records, no page is written.
Unwritten ==
    pc \in Halves /\ ~scenario.smallPool =>
        \A p \in Pages : \A v \in platter[p] :
            /\ \A s \in 1 .. Len(v.slots) : v.slots[s] # cur.new
            /\ ~ShowsGone(p, v, cur)

IInv ==
    /\ SessionOK /\ PagesOK /\ LogsOK
    /\ FlushComplete /\ PagesSafe /\ Logged /\ Prepared /\ Unwritten /\ WriteAhead

----------------------------------------------------------------------------
(* Pages.                                                                  *)

\* What a statement may do to the pages: slots are added or changed to one row
\* or to Dead, and nothing that is dead comes back.
Grows(pages, new, row) ==
    /\ new \in [Pages -> Page]
    /\ \A p \in Pages :
        /\ Prior(pages[p], new[p])
        /\ \A s \in 1 .. Len(new[p].slots) :
              \/ new[p].slots[s] \in {Dead, row}
              \/ s <= Len(pages[p].slots) /\ new[p].slots[s] = pages[p].slots[s]

\* Versions of a page are in order.
LEMMA PriorOrder ==
    /\ \A v \in Page : Prior(v, v)
    /\ \A u, v, w \in Page : Prior(u, v) /\ Prior(v, w) => Prior(u, w)
  BY DEF Prior, Page

\* One page gets new slots.
LEMMA SlotsReplaced ==
    ASSUME NEW pages \in [Pages -> Page], NEW p \in Pages, NEW x \in Seq(Nat),
           NEW new, new = [pages EXCEPT ![p].slots = x]
    PROVE  /\ new \in [Pages -> Page]
           /\ new[p].slots = x
           /\ \A q \in Pages \ {p} : new[q] = pages[q]
  <1>1. pages \in [Pages -> [lsn : Nat, slots : Seq(Nat)]]
    BY DEF Page
  <1>2. new \in [Pages -> [lsn : Nat, slots : Seq(Nat)]]
    BY <1>1
  <1>3. new[p].slots = x
    BY <1>1
  <1>4. \A q \in Pages \ {p} : new[q] = pages[q]
    BY <1>1
  <1> QED BY <1>2, <1>3, <1>4 DEF Page

\* The pages left alone have grown by nothing.
LEMMA OnePageGrows ==
    ASSUME NEW pages \in [Pages -> Page], NEW new \in [Pages -> Page], NEW p \in Pages,
           NEW row,
           \A q \in Pages \ {p} : new[q] = pages[q],
           Prior(pages[p], new[p]),
           \A s \in 1 .. Len(new[p].slots) :
              \/ new[p].slots[s] \in {Dead, row}
              \/ s <= Len(pages[p].slots) /\ new[p].slots[s] = pages[p].slots[s]
    PROVE  Grows(pages, new, row)
  <1>1. ASSUME NEW q \in Pages \ {p}
        PROVE  /\ Prior(pages[q], new[q])
               /\ \A s \in 1 .. Len(new[q].slots) :
                     s <= Len(pages[q].slots) /\ new[q].slots[s] = pages[q].slots[s]
    <2>1. new[q] = pages[q] /\ pages[q] \in Page /\ Len(pages[q].slots) \in Nat
      BY DEF Page
    <2> QED BY <2>1, PriorOrder
  <1> QED BY <1>1 DEF Grows

\* Page::insert.
LEMMA InsertedGrows ==
    ASSUME NEW pages \in [Pages -> Page], NEW p \in Pages, NEW row \in Nat
    PROVE  Grows(pages, Inserted(pages, p, row), row)
  <1> DEFINE old == pages[p].slots
             slots == Append(old, row)
             new == Inserted(pages, p, row)
  <1>1. new = [pages EXCEPT ![p].slots = slots]
    BY Zenon DEF Inserted
  <1> HIDE DEF new
  <1>2. old \in Seq(Nat) /\ Len(old) \in Nat
    BY DEF Page
  <1> HIDE DEF old
  <1>3. /\ slots \in Seq(Nat)
        /\ Len(slots) = Len(old) + 1
        /\ slots[Len(old) + 1] = row
        /\ \A s \in 1 .. Len(old) : slots[s] = old[s]
    BY <1>2
  <1> HIDE DEF slots
  <1>4. /\ new \in [Pages -> Page]
        /\ new[p].slots = slots
        /\ \A q \in Pages \ {p} : new[q] = pages[q]
    BY <1>1, <1>3, SlotsReplaced
  <1>5. Prior(pages[p], new[p])
    BY <1>2, <1>3, <1>4, SMTT(30) DEF Prior, old
  <1>6. \A s \in 1 .. Len(new[p].slots) :
           \/ new[p].slots[s] \in {Dead, row}
           \/ s <= Len(pages[p].slots) /\ new[p].slots[s] = pages[p].slots[s]
    BY <1>2, <1>3, <1>4, SMTT(30) DEF old
  <1>7. Grows(pages, new, row)
    BY <1>4, <1>5, <1>6, OnePageGrows
  <1> QED BY <1>7 DEF new

\* Page::update and Page::erase: one slot changes.
LEMMA SlotChanged ==
    ASSUME NEW pages \in [Pages -> Page], NEW r \in Place, NEW row \in Nat,
           row = Dead \/ pages[r[1]].slots[r[2]] # Dead
    PROVE  Grows(pages, Overwritten(pages, r, row), row)
  <1> DEFINE p == r[1]
             i == r[2]
             old == pages[p].slots
             slots == [old EXCEPT ![i] = row]
             new == Overwritten(pages, r, row)
  <1>1. p \in Pages /\ i \in Nat \ {0}
    BY DEF Place
  <1>2. new = [pages EXCEPT ![p].slots = slots]
    BY Zenon DEF Overwritten
  <1>3. row = Dead \/ old[i] # Dead
    OBVIOUS
  <1> HIDE DEF p, i, new
  <1>4. old \in Seq(Nat) /\ Len(old) \in Nat /\ old \in [1 .. Len(old) -> Nat]
    BY <1>1 DEF Page
  <1> HIDE DEF old
  <1>5. /\ slots \in [1 .. Len(old) -> Nat]
        /\ \A s \in 1 .. Len(old) : slots[s] = IF s = i THEN row ELSE old[s]
    BY <1>4
  <1>6. slots \in Seq(Nat) /\ Len(slots) = Len(old)
    <2> HIDE DEF slots
    <2> QED BY <1>4, <1>5, SMTT(30)
  <1> HIDE DEF slots
  <1>7. /\ new \in [Pages -> Page]
        /\ new[p].slots = slots
        /\ \A q \in Pages \ {p} : new[q] = pages[q]
    BY <1>1, <1>2, <1>6, SlotsReplaced
  <1>8. \A s \in 1 .. Len(old) : old[s] = Dead => slots[s] = Dead
    BY <1>1, <1>3, <1>5
  <1>9. Prior(pages[p], new[p])
    BY <1>4, <1>6, <1>7, <1>8 DEF Prior, old
  <1>10. \A s \in 1 .. Len(new[p].slots) :
           \/ new[p].slots[s] \in {Dead, row}
           \/ s <= Len(pages[p].slots) /\ new[p].slots[s] = pages[p].slots[s]
    BY <1>4, <1>5, <1>6, <1>7 DEF old
  <1>11. Grows(pages, new, row)
    BY <1>1, <1>7, <1>9, <1>10, OnePageGrows
  <1> QED BY <1>11 DEF new

LEMMA ErasedGrows ==
    ASSUME NEW pages \in [Pages -> Page], NEW r \in Place
    PROVE  Grows(pages, Erased(pages, r), Dead)
  <1>1. Erased(pages, r) = Overwritten(pages, r, Dead)
    BY Zenon DEF Erased, Overwritten
  <1> QED BY <1>1, SlotChanged DEF Dead

\* A removal and an insertion one after the other.
LEMMA GrowsTwice ==
    ASSUME NEW pages \in [Pages -> Page], NEW mid, NEW new, NEW row,
           Grows(pages, mid, Dead), Grows(mid, new, row)
    PROVE  Grows(pages, new, row)
  <1>1. mid \in [Pages -> Page] /\ new \in [Pages -> Page]
    BY DEF Grows
  <1>2. ASSUME NEW p \in Pages
        PROVE  /\ Prior(pages[p], new[p])
               /\ \A s \in 1 .. Len(new[p].slots) :
                    \/ new[p].slots[s] \in {Dead, row}
                    \/ s <= Len(pages[p].slots) /\ new[p].slots[s] = pages[p].slots[s]
    <2>1. /\ Prior(pages[p], mid[p]) /\ Prior(mid[p], new[p])
          /\ \A s \in 1 .. Len(new[p].slots) :
               \/ new[p].slots[s] \in {Dead, row}
               \/ s <= Len(mid[p].slots) /\ new[p].slots[s] = mid[p].slots[s]
          /\ \A s \in 1 .. Len(mid[p].slots) :
               \/ mid[p].slots[s] = Dead
               \/ s <= Len(pages[p].slots) /\ mid[p].slots[s] = pages[p].slots[s]
      BY DEF Grows
    <2>2. pages[p] \in Page /\ mid[p] \in Page /\ new[p] \in Page
      BY <1>1
    <2>3. Len(mid[p].slots) \in Nat /\ Len(new[p].slots) \in Nat
      BY <2>2 DEF Page
    <2> QED BY <2>1, <2>2, <2>3, PriorOrder
  <1> QED BY <1>1, <1>2 DEF Grows

\* Page::redoSet and Page::redoClear, in recovery.
LEMMA RedoPages ==
    ASSUME NEW pg \in Page, NEW s \in Nat \ {0}, NEW row \in Nat, NEW lsn \in Nat,
           NEW n \in Nat, RowsUpTo(pg, n), row <= n
    PROVE  /\ RedoSet(pg, s, row, lsn) \in Page /\ RowsUpTo(RedoSet(pg, s, row, lsn), n)
           /\ RedoClear(pg, s, lsn) \in Page /\ RowsUpTo(RedoClear(pg, s, lsn), n)
  <1>1. pg.slots \in Seq(Nat) /\ pg.lsn \in Nat /\ Len(pg.slots) \in Nat
    BY DEF Page
  <1>2. \A i \in 1 .. Len(pg.slots) : pg.slots[i] \in Nat /\ pg.slots[i] <= n
    BY <1>1 DEF RowsUpTo
  <1> DEFINE len == IF s > Len(pg.slots) THEN s ELSE Len(pg.slots)
             set == [i \in 1 .. len |-> IF i = s THEN row
                                      ELSE IF i <= Len(pg.slots) THEN pg.slots[i] ELSE Dead]
             clear == [i \in 1 .. Len(pg.slots) |-> IF i = s THEN Dead ELSE pg.slots[i]]
  <1>3. len \in Nat
    BY <1>1
  <1>4. /\ set \in [1 .. len -> Nat] /\ \A i \in 1 .. len : set[i] <= n
        /\ clear \in [1 .. Len(pg.slots) -> Nat] /\ \A i \in 1 .. Len(pg.slots) : clear[i] <= n
    BY <1>2, <1>3 DEF Dead
  <1> HIDE DEF set, clear, len
  <1>5. set \in Seq(Nat) /\ Len(set) = len /\ clear \in Seq(Nat) /\ Len(clear) = Len(pg.slots)
    <2>1. \A k \in Nat : \A f \in [1 .. k -> Nat] : f \in Seq(Nat) /\ Len(f) = k
      OBVIOUS
    <2> QED BY <1>1, <1>3, <1>4, <2>1
  <1>6. /\ [lsn |-> IF lsn # 0 THEN lsn ELSE pg.lsn, slots |-> set] \in Page
        /\ [lsn |-> IF lsn # 0 THEN lsn ELSE pg.lsn, slots |-> clear] \in Page
    BY <1>1, <1>5 DEF Page
  <1>7. /\ RowsUpTo([lsn |-> IF lsn # 0 THEN lsn ELSE pg.lsn, slots |-> set], n)
        /\ RowsUpTo([lsn |-> IF lsn # 0 THEN lsn ELSE pg.lsn, slots |-> clear], n)
    BY <1>4, <1>5 DEF RowsUpTo
  <1> QED BY <1>6, <1>7 DEF RedoSet, RedoClear, set, clear, len

----------------------------------------------------------------------------
(* What may happen to the copies of the pages.                             *)

\* A version that has grown has no row that was not there or is not the new one.
LEMMA RowsGrown ==
    ASSUME NEW pages \in [Pages -> Page], NEW new, NEW row \in Nat, Grows(pages, new, row),
           NEW p \in Pages, NEW n \in Nat, NEW m \in Nat, n <= m, row <= m,
           RowsUpTo(pages[p], n)
    PROVE  RowsUpTo(new[p], m)
  <1>1. pages[p].slots \in Seq(Nat) /\ new[p].slots \in Seq(Nat)
    BY DEF Page, Grows
  <1>2. \A s \in 1 .. Len(new[p].slots) :
           \/ new[p].slots[s] \in {Dead, row}
           \/ s <= Len(pages[p].slots) /\ new[p].slots[s] = pages[p].slots[s]
    BY DEF Grows
  <1>3. \A s \in 1 .. Len(pages[p].slots) : pages[p].slots[s] <= n
    BY DEF RowsUpTo
  <1>4. ASSUME NEW s \in 1 .. Len(new[p].slots)
        PROVE  new[p].slots[s] <= m
    <2>1. CASE new[p].slots[s] \in {Dead, row}
      BY <2>1 DEF Dead
    <2>2. CASE s <= Len(pages[p].slots) /\ new[p].slots[s] = pages[p].slots[s]
      <3>1. s \in 1 .. Len(pages[p].slots)
        BY <1>1, <2>2
      <3>2. pages[p].slots[s] <= n /\ pages[p].slots[s] \in Nat
        BY <1>1, <1>3, <3>1, SMTT(30)
      <3> QED BY <2>2, <3>2
    <2> QED BY <1>2, <2>1, <2>2
  <1> QED BY <1>4 DEF RowsUpTo

LEMMA RowsLater ==
    ASSUME NEW v \in Page, NEW n \in Nat, NEW m \in Nat, n <= m, RowsUpTo(v, n)
    PROVE  RowsUpTo(v, m)
  <1>1. v.slots \in Seq(Nat)
    BY DEF Page
  <1> QED BY <1>1 DEF RowsUpTo

\* A statement changes the pages the program sees.
LEMMA PagesGrown ==
    ASSUME PagesOK, stmts \in Nat, stmts' \in Nat, stmts <= stmts',
           NEW row \in Nat, row <= stmts', Grows(mem, mem', row),
           UNCHANGED <<os, platter>>, pc \notin Recoveries
    PROVE  PagesOK'
  <1>1. mem' \in [Pages -> Page]
    BY DEF Grows
  <1>2. ASSUME NEW p \in Pages
        PROVE  /\ RowsUpTo(mem'[p], stmts') /\ RowsUpTo(os[p], stmts')
               /\ \A v \in platter[p] : RowsUpTo(v, stmts')
               /\ Prior(os[p], mem'[p]) /\ \A v \in platter[p] : Prior(v, os[p])
    <2>1. mem[p] \in Page /\ mem'[p] \in Page /\ os[p] \in Page /\ platter[p] \in SUBSET Page
      BY <1>1 DEF PagesOK
    <2>2. ASSUME NEW v \in Page, RowsUpTo(v, stmts)
          PROVE  RowsUpTo(v, stmts')
      BY <2>2, RowsLater
    <2>3. RowsUpTo(mem'[p], stmts')
      BY RowsGrown DEF PagesOK
    <2>4. Prior(os[p], mem'[p])
      <3>1. Prior(os[p], mem[p]) /\ Prior(mem[p], mem'[p])
        BY DEF PagesOK, Chained, Grows
      <3> QED BY <2>1, <3>1, PriorOrder
    <2> QED BY <2>1, <2>2, <2>3, <2>4 DEF PagesOK, Chained
  <1> QED BY <1>1, <1>2 DEF PagesOK, Chained

\* A statement changes them, and a page is written when it has half changed.
LEMMA PagesGrownTwice ==
    ASSUME PagesOK, stmts \in Nat, stmts' \in Nat, stmts <= stmts',
           NEW row \in Nat, row <= stmts', NEW mid, Grows(mem, mid, Dead), Grows(mid, mem', row),
           NEW o \in Pages, os' = [os EXCEPT ![o] = mid[o]],
           platter' = [platter EXCEPT ![o] = @ \cup {mid[o]}], pc \notin Recoveries
    PROVE  PagesOK'
  <1>1. mid \in [Pages -> Page] /\ mem' \in [Pages -> Page] /\ mem \in [Pages -> Page]
    BY DEF Grows, PagesOK
  <1>2. os' \in [Pages -> Page] /\ platter' \in [Pages -> SUBSET Page]
    BY <1>1 DEF PagesOK
  <1>3. ASSUME NEW p \in Pages
        PROVE  /\ RowsUpTo(mem'[p], stmts') /\ RowsUpTo(os'[p], stmts')
               /\ \A v \in platter'[p] : RowsUpTo(v, stmts')
               /\ Prior(os'[p], mem'[p]) /\ \A v \in platter'[p] : Prior(v, os'[p])
    <2>1. /\ mem[p] \in Page /\ mid[p] \in Page /\ mem'[p] \in Page /\ os[p] \in Page
          /\ \A v \in platter[p] : v \in Page /\ Prior(v, os[p]) /\ RowsUpTo(v, stmts)
          /\ RowsUpTo(mem[p], stmts) /\ RowsUpTo(os[p], stmts)
      BY <1>1 DEF PagesOK, Chained
    <2>2. Prior(os[p], mem[p]) /\ Prior(mem[p], mid[p]) /\ Prior(mid[p], mem'[p])
      BY DEF PagesOK, Chained, Grows
    <2>3. Prior(os[p], mid[p]) /\ Prior(os[p], mem'[p]) /\ Prior(mid[p], mid[p])
      BY <2>1, <2>2, PriorOrder
    <2>4. \A v \in platter[p] : Prior(v, mid[p])
      BY <2>1, <2>3, PriorOrder
    <2>5. RowsUpTo(mid[p], stmts)
      BY <1>1, <2>1, RowsGrown DEF Dead
    <2>6. RowsUpTo(mid[p], stmts') /\ RowsUpTo(mem'[p], stmts') /\ RowsUpTo(os[p], stmts')
      BY <1>1, <2>1, <2>5, RowsLater, RowsGrown
    <2>7. \A v \in platter[p] : RowsUpTo(v, stmts')
      BY <2>1, RowsLater
    <2>8. CASE p = o
      <3>1. os'[p] = mid[p] /\ platter'[p] = platter[p] \cup {mid[p]}
        BY <2>8 DEF PagesOK
      <3> QED BY <2>2, <2>3, <2>4, <2>6, <2>7, <3>1
    <2>9. CASE p # o
      <3>1. os'[p] = os[p] /\ platter'[p] = platter[p]
        BY <2>9 DEF PagesOK
      <3> QED BY <2>1, <2>3, <2>6, <2>7, <3>1
    <2> QED BY <2>8, <2>9
  <1> QED BY <1>1, <1>2, <1>3 DEF PagesOK, Chained

\* Nothing happens to them.
LEMMA PagesKept ==
    ASSUME PagesOK, stmts \in Nat, stmts' \in Nat, stmts <= stmts', UNCHANGED pageVars,
           pc \in Recoveries => pc' \in Recoveries
    PROVE  PagesOK'
  <1>1. ASSUME NEW v \in Page, RowsUpTo(v, stmts)
        PROVE  RowsUpTo(v, stmts')
    <2>1. v.slots \in Seq(Nat)
      BY DEF Page
    <2> QED BY <1>1, <2>1 DEF RowsUpTo
  <1>2. ASSUME NEW p \in Pages
        PROVE  /\ RowsUpTo(mem[p], stmts') /\ RowsUpTo(os[p], stmts')
               /\ \A v \in platter[p] : RowsUpTo(v, stmts')
    BY <1>1 DEF PagesOK
  <1> QED BY <1>2 DEF PagesOK, Chained, pageVars

\* One page reaches the file cache: flushAll or an eviction.
LEMMA PageWritten ==
    ASSUME PagesOK, NEW p \in Pages, os' = [os EXCEPT ![p] = mem[p]],
           platter' = [platter EXCEPT ![p] = @ \cup {mem[p]}], UNCHANGED <<mem, stmts, pc>>
    PROVE  PagesOK'
  <1>1. os' \in [Pages -> Page] /\ platter' \in [Pages -> SUBSET Page]
    BY DEF PagesOK
  <1>2. ASSUME NEW q \in Pages
        PROVE  /\ RowsUpTo(os'[q], stmts) /\ \A v \in platter'[q] : RowsUpTo(v, stmts)
               /\ pc \notin Recoveries =>
                     Prior(os'[q], mem[q]) /\ \A v \in platter'[q] : Prior(v, os'[q])
    <2>1. CASE q = p
      <3>1. os'[q] = mem[q] /\ platter'[q] = platter[q] \cup {mem[q]}
        BY <2>1 DEF PagesOK
      <3>2. mem[q] \in Page /\ os[q] \in Page /\ \A v \in platter[q] : v \in Page
        BY DEF PagesOK
      <3>3. Prior(mem[q], mem[q])
        BY <3>2, PriorOrder
      <3>4. ASSUME pc \notin Recoveries, NEW v \in platter[q]
            PROVE  Prior(v, mem[q])
        <4>1. Prior(v, os[q]) /\ Prior(os[q], mem[q])
          BY <3>4 DEF PagesOK, Chained
        <4> QED BY <3>2, <4>1, PriorOrder
      <3> QED BY <3>1, <3>3, <3>4 DEF PagesOK
    <2>2. CASE q # p
      <3>1. os'[q] = os[q] /\ platter'[q] = platter[q]
        BY <2>2 DEF PagesOK
      <3> QED BY <3>1 DEF PagesOK, Chained
    <2> QED BY <2>1, <2>2
  <1> QED BY <1>1, <1>2 DEF PagesOK, Chained

\* The platter catches up with the file cache.
LEMMA PagesSynced ==
    ASSUME PagesOK, platter' = [p \in Pages |-> {os[p]}], UNCHANGED <<mem, os, stmts>>,
           \/ pc \notin Recoveries
           \/ \A p \in Pages : mem[p] = os[p]
    PROVE  PagesOK'
  <1>1. platter' \in [Pages -> SUBSET Page] /\ \A p \in Pages : platter'[p] = {os[p]}
    BY DEF PagesOK
  <1>2. ASSUME NEW p \in Pages
        PROVE  Prior(os[p], mem[p]) /\ Prior(os[p], os[p])
    <2>1. os[p] \in Page
      BY DEF PagesOK
    <2> QED BY <2>1, PriorOrder DEF PagesOK, Chained
  <1> QED BY <1>1, <1>2 DEF PagesOK, Chained

\* The program starts again with the pages it finds.
LEMMA PagesFound ==
    ASSUME PagesOK, NEW pages \in [Pages -> Page],
           \A p \in Pages : RowsUpTo(pages[p], stmts),
           mem' = pages, os' = pages, UNCHANGED stmts,
           \/ platter' = [p \in Pages |-> {pages[p]}]
           \/ platter' = platter /\ pages = os /\ (pc \in Recoveries => pc' \in Recoveries)
    PROVE  PagesOK'
  <1>1. platter' \in [Pages -> SUBSET Page]
    BY DEF PagesOK
  <1>2. ASSUME NEW p \in Pages
        PROVE  /\ \A v \in platter'[p] : RowsUpTo(v, stmts)
               /\ Prior(pages[p], pages[p])
               /\ pc' \notin Recoveries => \A v \in platter'[p] : Prior(v, pages[p])
    <2>1. Prior(pages[p], pages[p])
      BY PriorOrder
    <2>2. CASE platter' = [q \in Pages |-> {pages[q]}]
      BY <2>1, <2>2
    <2>3. CASE platter' = platter /\ pages = os /\ (pc \in Recoveries => pc' \in Recoveries)
      BY <2>1, <2>3 DEF PagesOK, Chained
    <2> QED BY <2>1, <2>2, <2>3
  <1> QED BY <1>1, <1>2 DEF PagesOK, Chained

\* Recovery changes the pages the program sees.
LEMMA PagesRecovered ==
    ASSUME PagesOK, mem' \in [Pages -> Page], \A p \in Pages : RowsUpTo(mem'[p], stmts),
           UNCHANGED <<os, platter, stmts>>, pc' \in Recoveries
    PROVE  PagesOK'
  BY DEF PagesOK, Chained

----------------------------------------------------------------------------
(* What may happen to the log.                                             *)

LEMMA LogRowsKept ==
    ASSUME NEW l \in Seq(LogRecord), NEW n \in Nat, NEW m \in Nat, LogRowsUpTo(l, n), n <= m
    PROVE  LogRowsUpTo(l, m)
  <1>1. ASSUME NEW i \in 1 .. Len(l)
        PROVE  l[i].before <= m /\ l[i].after <= m
    <2>1. l[i] \in LogRecord /\ l[i].before <= n /\ l[i].after <= n
      BY DEF LogRowsUpTo
    <2>2. l[i].before \in Nat /\ l[i].after \in Nat
      BY <2>1 DEF LogRecord
    <2> QED BY <2>1, <2>2
  <1> QED BY <1>1 DEF LogRowsUpTo

\* WriteAheadLog::append: the new record comes after all others.
LEMMA LogAppended ==
    ASSUME LogsOK, stmts \in Nat, stmts' \in Nat, stmts <= stmts',
           NEW rec \in LogRecord, rec.before <= stmts', rec.after <= stmts', AppendLog(rec)
    PROVE  /\ LogsOK'
           /\ Len(wal') = Len(wal) + 1 /\ wal'[Len(wal) + 1] = rec
           /\ \A k \in 1 .. Len(wal) : wal'[k] = wal[k]
           /\ walPlatter' = walPlatter \cup {wal'}
  <1>1. wal \in Seq(LogRecord) /\ wal' = Append(wal, rec)
    BY DEF LogsOK, AppendLog
  <1>2. /\ wal' \in Seq(LogRecord)
        /\ Len(wal') = Len(wal) + 1 /\ wal'[Len(wal) + 1] = rec
        /\ \A k \in 1 .. Len(wal) : wal'[k] = wal[k]
    BY <1>1
  <1>3. LogRowsUpTo(wal', stmts')
    <2>1. LogRowsUpTo(wal, stmts')
      BY <1>1, LogRowsKept DEF LogsOK
    <2> QED BY <1>1, <1>2, <2>1 DEF LogRowsUpTo
  <1>4. walPlatter' = walPlatter \cup {wal'} /\ nextLsn' \in Nat
    BY DEF AppendLog, LogsOK
  <1>5. \A l \in walPlatter : l \in Seq(LogRecord) /\ LogRowsUpTo(l, stmts')
    BY LogRowsKept DEF LogsOK
  <1> QED BY <1>2, <1>3, <1>4, <1>5 DEF LogsOK

\* Nothing happens to it, it is synced, or it is emptied.
LEMMA LogKept ==
    ASSUME LogsOK, stmts \in Nat, stmts' \in Nat, stmts <= stmts',
           wal' = wal \/ wal' = << >>, nextLsn' \in Nat,
           walPlatter' \subseteq walPlatter \cup {wal, << >>}
    PROVE  LogsOK'
  <1>1. << >> \in Seq(LogRecord) /\ LogRowsUpTo(<< >>, stmts')
    BY DEF LogRowsUpTo
  <1>2. \A l \in walPlatter \cup {wal} : l \in Seq(LogRecord) /\ LogRowsUpTo(l, stmts')
    BY LogRowsKept DEF LogsOK
  <1> QED BY <1>1, <1>2 DEF LogsOK

\* What can be read of a log is a beginning of it.
LEMMA ReadablePrefix ==
    ASSUME NEW l \in Seq(LogRecord)
    PROVE  Readable(l) \in Seq(LogRecord) /\ Len(Readable(l)) <= Len(l)
  <1> DEFINE torn == {i \in 1 .. Len(l) : l[i].type = "Torn"}
             first == CHOOSE i \in torn : \A j \in torn : i <= j
  <1>1. CASE torn = {}
    BY <1>1 DEF Readable
  <1>2. CASE torn # {}
    <2>1. torn \in SUBSET Nat
      OBVIOUS
    <2>2. \E i \in torn : \A j \in torn : i <= j
      BY <1>2, <2>1, LeastNumber
    <2>3. first \in torn
      BY <2>2
    <2>4. Readable(l) = SubSeq(l, 1, first - 1)
      BY <1>2 DEF Readable
    <2>5. first \in 1 .. Len(l)
      BY <2>3
    <2> HIDE DEF first
    <2>6. first - 1 \in 0 .. Len(l)
      BY <2>5
    <2>7. SubSeq(l, 1, first - 1) \in Seq(LogRecord) /\ Len(SubSeq(l, 1, first - 1)) = first - 1
      BY <2>6
    <2> QED BY <2>4, <2>6, <2>7
  <1> QED BY <1>1, <1>2

----------------------------------------------------------------------------
(* Places and changes.                                                     *)

LEMMA PlaceIsReal ==
    ASSUME NEW r \in Place
    PROVE  r # NoRid /\ r[1] \in Pages /\ r[2] \in Nat \ {0}
  BY DEF Place, NoRid

\* A row the scan finds.
LEMMA LiveRow ==
    ASSUME SessionOK, PagesOK, NEW r \in LiveRids
    PROVE  /\ r \in Place
           /\ r[2] <= Len(mem[r[1]].slots) /\ mem[r[1]].slots[r[2]] # Dead
           /\ RowAt(r) \in Nat /\ RowAt(r) <= stmts
  <1>1. PICK p \in Pages : r \in {p} \X (1 .. Len(mem[p].slots))
    BY DEF LiveRids, Scanned
  <1>2. mem[p] \in Page /\ RowsUpTo(mem[p], stmts)
    BY DEF PagesOK
  <1>3. mem[p].slots \in Seq(Nat) /\ Len(mem[p].slots) \in Nat
    BY <1>2 DEF Page
  <1>4. r \in Place /\ r[1] = p /\ r[2] \in 1 .. Len(mem[p].slots)
    BY <1>1, <1>3 DEF Place
  <1>5. mem[p].slots[r[2]] # Dead
    BY <1>4 DEF LiveRids, RowAt
  <1> QED BY <1>2, <1>3, <1>4, <1>5 DEF RowAt, RowsUpTo

\* Where the next row of a page goes.
LEMMA InsertPlace ==
    ASSUME PagesOK, NEW p \in Pages
    PROVE  InsertAt(p) \in Place /\ InsertAt(p)[1] = p
  <1>1. mem[p] \in Page
    BY DEF PagesOK
  <1>2. Len(mem[p].slots) + 1 \in Nat \ {0}
    BY <1>1 DEF Page
  <1> QED BY <1>2 DEF InsertAt, Place

\* updateTuple.
LEMMA Updated ==
    ASSUME SessionOK, PagesOK, NEW r \in LiveRids, NEW to \in UpdateTargets(r), NEW row \in Nat
    PROVE  to \in Place /\ Grows(mem, UpdateTuple(r, to, row), row)
  <1>1. r \in Place /\ mem[r[1]].slots[r[2]] # Dead /\ mem \in [Pages -> Page]
    BY LiveRow DEF PagesOK
  <1>2. to \in Place
    BY <1>1, InsertPlace DEF UpdateTargets
  <1>3. CASE to = r
    <2>1. Grows(mem, Overwritten(mem, r, row), row)
      BY <1>1, SlotChanged
    <2> QED BY <1>2, <1>3, <2>1 DEF UpdateTuple
  <1>4. CASE to # r
    <2>1. Grows(mem, Erased(mem, r), Dead)
      BY <1>1, ErasedGrows
    <2>2. Erased(mem, r) \in [Pages -> Page] /\ to[1] \in Pages
      BY <1>2, <2>1, PlaceIsReal DEF Grows
    <2>3. Grows(Erased(mem, r), Inserted(Erased(mem, r), to[1], row), row)
      BY <2>2, InsertedGrows
    <2>4. Grows(mem, Inserted(Erased(mem, r), to[1], row), row)
      BY <1>1, <2>1, <2>3, GrowsTwice
    <2> QED BY <1>2, <1>4, <2>4 DEF UpdateTuple
  <1> QED BY <1>3, <1>4

\* An undo closure.
LEMMA UndoneGrows ==
    ASSUME PagesOK, NEW u \in Change, NEW p \in Pages
    PROVE  Grows(mem, Undone(u, p), u.old)
  <1> DEFINE gone == IF u.to # NoRid THEN Erased(mem, u.to) ELSE mem
  <1>1. mem \in [Pages -> Page] /\ u.to \in Place \cup {NoRid} /\ u.old \in Nat
    BY DEF PagesOK, Change
  <1>2. Grows(mem, mem, Dead)
    <2>1. \A q \in Pages : Prior(mem[q], mem[q]) /\ Len(mem[q].slots) \in Nat
      BY <1>1, PriorOrder DEF Page
    <2> QED BY <1>1, <2>1 DEF Grows
  <1>3. Grows(mem, gone, Dead)
    <2>1. CASE u.to = NoRid
      BY <1>2, <2>1
    <2>2. CASE u.to # NoRid
      BY <1>1, <2>2, ErasedGrows
    <2> QED BY <2>1, <2>2
  <1> HIDE DEF gone
  <1>4. CASE u.old = Dead
    BY <1>3, <1>4 DEF Undone, gone
  <1>5. CASE u.old # Dead
    <2>1. Grows(gone, Inserted(gone, p, u.old), u.old)
      BY <1>1, <1>3, InsertedGrows DEF Grows
    <2>2. Grows(mem, Inserted(gone, p, u.old), u.old)
      BY <1>1, <1>3, <2>1, GrowsTwice
    <2> QED BY <1>5, <2>2 DEF Undone, gone
  <1> QED BY <1>4, <1>5

\* A row that moves changes the pages in two halves, and a small pool may write a page
\* in between.
HalfWritten(row) ==
    /\ UNCHANGED <<wal, nextLsn>>
    /\ \/ UNCHANGED <<os, platter, walPlatter>>
       \/ /\ scenario.smallPool /\ walPlatter' = {wal}
          /\ \E mid : /\ Grows(mem, mid, Dead) /\ Grows(mid, mem', row)
                      /\ \E o \in Pages : /\ os' = [os EXCEPT ![o] = mid[o]]
                                          /\ platter' = [platter EXCEPT ![o] = @ \cup {mid[o]}]

LEMMA UpdatedInHalves ==
    ASSUME SessionOK, PagesOK, NEW r \in LiveRids, NEW to \in UpdateTargets(r), NEW row \in Nat,
           mem' = UpdateTuple(r, to, row), UpdateWrites(r, to)
    PROVE  HalfWritten(row)
  <1>1. CASE UNCHANGED <<os, platter, walVars>>
    BY <1>1 DEF HalfWritten, walVars
  <1>2. CASE ~UNCHANGED <<os, platter, walVars>>
    <2> DEFINE mid == Erased(mem, r)
    <2>1. to # r /\ WrittenBetween(r, mid)
      BY <1>2 DEF UpdateWrites
    <2>2. mem \in [Pages -> Page] /\ r \in Place /\ to \in Place
      BY LiveRow, Updated DEF PagesOK
    <2>3. Grows(mem, mid, Dead) /\ r[1] \in Pages /\ to[1] \in Pages
      BY <2>2, ErasedGrows, PlaceIsReal
    <2>4. mem' = Inserted(mid, to[1], row)
      BY <2>1 DEF UpdateTuple
    <2>5. /\ scenario.smallPool /\ walPlatter' = {wal} /\ UNCHANGED <<wal, nextLsn>>
          /\ os' = [os EXCEPT ![r[1]] = mid[r[1]]]
          /\ platter' = [platter EXCEPT ![r[1]] = @ \cup {mid[r[1]]}]
      BY <1>2, <2>1 DEF WrittenBetween, SyncLog
    <2> HIDE DEF mid
    <2>6. Grows(mid, mem', row)
      BY <2>3, <2>4, InsertedGrows DEF Grows
    <2> QED BY <2>3, <2>5, <2>6 DEF HalfWritten
  <1> QED BY <1>1, <1>2

LEMMA UndoneInHalves ==
    ASSUME PagesOK, NEW u \in Change, NEW p \in Pages, mem' = Undone(u, p), UndoneWrites(u)
    PROVE  HalfWritten(u.old)
  <1>1. CASE UNCHANGED <<os, platter, walVars>>
    BY <1>1 DEF HalfWritten, walVars
  <1>2. CASE ~UNCHANGED <<os, platter, walVars>>
    <2> DEFINE mid == Erased(mem, u.to)
               o == u.to[1]
    <2>1. u.to # NoRid /\ u.old # Dead /\ WrittenBetween(u.to, mid)
      BY <1>2 DEF UndoneWrites
    <2>2. mem \in [Pages -> Page] /\ u.to \in Place /\ u.old \in Nat
      BY <2>1 DEF PagesOK, Change
    <2>3. Grows(mem, mid, Dead) /\ o \in Pages
      BY <2>2, ErasedGrows, PlaceIsReal
    <2>4. mem' = Inserted(mid, p, u.old)
      BY <2>1 DEF Undone
    <2>5. /\ scenario.smallPool /\ walPlatter' = {wal} /\ UNCHANGED <<wal, nextLsn>>
          /\ os' = [os EXCEPT ![o] = mid[o]]
          /\ platter' = [platter EXCEPT ![o] = @ \cup {mid[o]}]
      BY <1>2, <2>1 DEF WrittenBetween, SyncLog
    <2> HIDE DEF mid, o
    <2>6. Grows(mid, mem', u.old)
      BY <2>2, <2>3, <2>4, InsertedGrows DEF Grows
    <2> QED BY <2>3, <2>5, <2>6 DEF HalfWritten
  <1> QED BY <1>1, <1>2

LEMMA HalvesKeepPages ==
    ASSUME PagesOK, stmts \in Nat, stmts' \in Nat, stmts <= stmts',
           NEW row \in Nat, row <= stmts', Grows(mem, mem', row), HalfWritten(row),
           pc \notin Recoveries
    PROVE  PagesOK'
  <1>1. CASE UNCHANGED <<os, platter>>
    BY <1>1, PagesGrown
  <1>2. CASE ~UNCHANGED <<os, platter>>
    <2>1. PICK mid : /\ Grows(mem, mid, Dead) /\ Grows(mid, mem', row)
                     /\ \E o \in Pages : /\ os' = [os EXCEPT ![o] = mid[o]]
                                         /\ platter' = [platter EXCEPT ![o] = @ \cup {mid[o]}]
      BY <1>2 DEF HalfWritten
    <2> QED BY <2>1, PagesGrownTwice
  <1> QED BY <1>1, <1>2

LEMMA HalvesKeepLog ==
    ASSUME LogsOK, stmts \in Nat, stmts' \in Nat, stmts <= stmts', NEW row, HalfWritten(row)
    PROVE  /\ LogsOK' /\ wal' = wal /\ walPlatter' \subseteq walPlatter \cup {wal'}
           /\ \A p \in Pages : \A v \in platter'[p] : v \in platter[p] \/ walPlatter' = {wal'}
           /\ ~scenario.smallPool => platter' = platter
  <1>1. /\ wal' = wal /\ nextLsn' = nextLsn /\ walPlatter' \subseteq walPlatter \cup {wal}
        /\ platter' = platter \/ (scenario.smallPool /\ walPlatter' = {wal})
    BY DEF HalfWritten
  <1>2. LogsOK'
    BY <1>1, LogKept DEF LogsOK
  <1> QED BY <1>1, <1>2

\* The log goes on describing what it described, and the new change too.
LEMMA RecordsStay ==
    ASSUME NEW l, NEW m, NEW id, NEW u, Len(l) \in Nat, Len(m) \in Nat, Len(l) <= Len(m),
           \A k \in 1 .. Len(l) : m[k] = l[k]
    PROVE  /\ HasInsert(l, id, u) => HasInsert(m, id, u)
           /\ HasDelete(l, id, u) => HasDelete(m, id, u)
           /\ Describes(l, id, u) => Describes(m, id, u)
  <1>1. ASSUME HasInsert(l, id, u) PROVE HasInsert(m, id, u)
    <2>1. PICK k \in 1 .. Len(l) : /\ l[k].txn = id /\ l[k].type = "Insert"
                                  /\ l[k].rid = u.to /\ l[k].after = u.new
      BY <1>1 DEF HasInsert
    <2>2. k \in 1 .. Len(m) /\ m[k] = l[k]
      OBVIOUS
    <2> QED BY <2>1, <2>2 DEF HasInsert
  <1>2. ASSUME HasDelete(l, id, u) PROVE HasDelete(m, id, u)
    <2>1. PICK k \in 1 .. Len(l) : /\ l[k].txn = id /\ l[k].type = "Delete"
                                  /\ l[k].rid = u.rid /\ l[k].before = u.old
      BY <1>2 DEF HasDelete
    <2>2. k \in 1 .. Len(m) /\ m[k] = l[k]
      OBVIOUS
    <2> QED BY <2>1, <2>2 DEF HasDelete
  <1> QED BY <1>1, <1>2 DEF Describes

LEMMA LoggedStill ==
    ASSUME Logged, txn' = txn, Len(wal) \in Nat, Len(wal') \in Nat, Len(wal) <= Len(wal'),
           \A k \in 1 .. Len(wal) : wal'[k] = wal[k],
           \A i \in 1 .. Len(undo') :
              \/ i \in 1 .. Len(undo) /\ undo'[i] = undo[i]
              \/ Describes(wal', txn, undo'[i])
    PROVE  Logged'
  <1>1. ASSUME NEW u, Describes(wal, txn, u)
        PROVE  Describes(wal', txn, u)
    BY <1>1, RecordsStay
  <1> QED BY <1>1 DEF Logged, InTxn

\* A page version shows a change when it has the new row, or lacks the old one.
Shows(p, v, u) == ShowsNew(p, v, u) \/ ShowsGone(p, v, u)

\* What it shows, the log describes.
Covered(p, v, l, u) ==
    /\ ShowsNew(p, v, u) => HasInsert(l, txn, u)
    /\ ShowsGone(p, v, u) => HasDelete(l, txn, u)

\* The write-ahead rule survives a step that writes pages only after it has synced
\* the log, adds to the undo list only what no page on the platter shows, and
\* changes the log only by what keeps it complete.
LEMMA WriteAheadStill ==
    ASSUME Logged', WriteAhead, txn' = txn, scenario' = scenario,
           \A p \in Pages : \A v \in platter'[p] : v \in platter[p] \/ walPlatter' = {wal'},
           walPlatter' \subseteq walPlatter \cup {wal'},
           \A i \in 1 .. Len(undo') :
              \/ i \in 1 .. Len(undo) /\ undo'[i] = undo[i]
              \/ ~scenario.smallPool =>
                    \A p \in Pages : \A v \in platter'[p] : ~Shows(p, v, undo'[i])
    PROVE  WriteAhead'
  <1>0. ASSUME txn # 0, ~scenario.smallPool,
               NEW p \in Pages, NEW v \in platter[p], NEW log \in walPlatter,
               NEW i \in 1 .. Len(undo)
        PROVE  Covered(p, v, log, undo[i])
    BY <1>0 DEF WriteAhead, Covered, InTxn
  <1>1. ASSUME txn # 0, ~scenario.smallPool,
               NEW p \in Pages, NEW v \in platter'[p], NEW log \in walPlatter',
               NEW i \in 1 .. Len(undo')
        PROVE  Covered(p, v, log, undo'[i])
    <2>1. CASE log = wal'
      <3>1. Describes(log, txn, undo'[i])
        BY <1>1, <2>1 DEF Logged, InTxn
      <3>2. ShowsNew(p, v, undo'[i]) => undo'[i].to # NoRid
        BY DEF ShowsNew
      <3>3. ShowsGone(p, v, undo'[i]) => undo'[i].rid # NoRid
        BY DEF ShowsGone
      <3> QED BY <3>1, <3>2, <3>3 DEF Describes, Covered
    <2>2. CASE log # wal' /\ ~Shows(p, v, undo'[i])
      BY <2>2 DEF Shows, Covered
    <2>3. CASE log # wal' /\ Shows(p, v, undo'[i])
      <3>1. log \in walPlatter /\ v \in platter[p]
        BY <2>3
      <3>2. i \in 1 .. Len(undo) /\ undo'[i] = undo[i]
        BY <1>1, <2>3
      <3> QED BY <1>0, <1>1, <3>1, <3>2
    <2> QED BY <2>1, <2>2, <2>3
  <1>2. ASSUME txn # 0, ~scenario.smallPool,
               NEW p \in Pages, NEW v \in platter'[p], NEW log \in walPlatter',
               NEW i \in 1 .. Len(undo')
        PROVE  /\ ShowsNew(p, v, undo'[i]) => HasInsert(log, txn', undo'[i])
               /\ ShowsGone(p, v, undo'[i]) => HasDelete(log, txn', undo'[i])
    BY <1>1, <1>2 DEF Covered
  <1> QED BY <1>2 DEF WriteAhead, InTxn

\* Outside a transaction there is nothing to log.
LEMMA NoTransaction ==
    ASSUME txn' = 0
    PROVE  Logged' /\ WriteAhead'
  BY DEF Logged, WriteAhead, InTxn

----------------------------------------------------------------------------
(* The steps.  A session starts with empty pages and an empty log.         *)

LEMMA InitOK == Init => IInv
  <1> SUFFICES ASSUME Init PROVE IInv
    OBVIOUS
  <1> DEFINE empty == [lsn |-> 0, slots |-> << >>]
  <1>1. << >> \in Seq(LogRecord) /\ << >> \in Seq(Change) /\ NoCur \in Change
    BY DEF NoCur, Change, Dead
  <1>2. empty \in Page /\ Len(empty.slots) = 0
    BY DEF Page
  <1>3. mem \in [Pages -> Page] /\ os = mem /\ \A p \in Pages : mem[p] = empty /\ platter[p] = {mem[p]}
    BY <1>2 DEF Init
  <1> HIDE DEF empty
  <1>4. platter \in [Pages -> SUBSET Page]
    BY <1>3 DEF Init
  <1>5. \A p \in Pages : Prior(os[p], mem[p]) /\ \A v \in platter[p] : Prior(v, os[p])
    BY <1>2, <1>3, PriorOrder
  <1>6. \A p \in Pages : /\ RowsUpTo(mem[p], stmts) /\ RowsUpTo(os[p], stmts)
                         /\ \A v \in platter[p] : RowsUpTo(v, stmts)
    BY <1>2, <1>3 DEF RowsUpTo
  <1>7. PagesOK
    BY <1>3, <1>4, <1>5, <1>6 DEF PagesOK, Chained
  <1>8. LogsOK
    BY <1>1 DEF LogsOK, Init, LogRowsUpTo
  <1>9. SessionOK
    BY <1>1, DurabilityAssumption
       DEF SessionOK, Init, Phases, Halves, Flushes, Recoveries, NoCur, Dead
  <1>10. FlushComplete /\ PagesSafe /\ Prepared /\ Unwritten /\ Logged /\ WriteAhead
    BY DEF FlushComplete, PagesSafe, Prepared, Unwritten, Logged, WriteAhead, InTxn, Init, Flushes, Halves
  <1> QED BY <1>7, <1>8, <1>9, <1>10 DEF IInv

\* START.
LEMMA BeginStep == ASSUME IInv, Begin PROVE IInv'
  <1>1. SessionOK'
    BY DEF IInv, SessionOK, Begin, Ready, Flushes, Halves, Recoveries, flow, bounds
  <1>2. PagesOK'
    BY PagesKept DEF IInv, SessionOK, Begin, flow, bounds
  <1>3. LogsOK'
    <2>1. Record(nextTxn, "Begin", NoRid, Dead, Dead) \in LogRecord
      BY DEF IInv, SessionOK, LogsOK, Record, LogRecord, RecordTypes, Dead
    <2> QED BY <2>1, LogAppended DEF IInv, SessionOK, Begin, bounds, Record, Dead
  <1>4. FlushComplete' /\ PagesSafe' /\ Prepared' /\ Unwritten'
    BY DEF FlushComplete, PagesSafe, Prepared, Unwritten, Begin, Ready, flow, Flushes, Halves
  <1>5. Logged' /\ WriteAhead'
    BY DEF Logged, WriteAhead, Begin
  <1> QED BY <1>1, <1>2, <1>3, <1>4, <1>5 DEF IInv

\* The rows an undo list has are known after the next statement, too.
LEMMA UndoRows ==
    ASSUME SessionOK
    PROVE  /\ \A i \in 1 .. Len(undo) : undo[i].old <= stmts + 1 /\ undo[i].new <= stmts + 1
           /\ cur.old <= stmts + 1 /\ cur.new <= stmts + 1
  <1>1. ASSUME NEW u \in Change, u.old <= stmts, u.new <= stmts
        PROVE  u.old <= stmts + 1 /\ u.new <= stmts + 1
    BY <1>1 DEF SessionOK, Change
  <1> QED BY <1>1 DEF SessionOK

\* PUT: the row is in the heap.
LEMMA TxnPutStep == ASSUME IInv, NEW p \in Pages, TxnPut(p) PROVE IInv'
  <1>1. stmts \in Nat /\ InsertAt(p) \in Place /\ cur' \in Change /\ cur'.new = stmts + 1
    BY InsertPlace DEF IInv, SessionOK, TxnPut, Change, NewRow, Dead
  <1>2. SessionOK'
    BY <1>1, UndoRows DEF IInv, SessionOK, TxnPut, CanIssueInTxn, CanIssue, Ready, Phases, Flushes, Halves,
                Recoveries, Dead, NewRow, txnVars
  <1>3. PagesOK'
    <2>1. Grows(mem, mem', stmts + 1)
      BY <1>1, InsertedGrows DEF IInv, PagesOK, TxnPut, NewRow
    <2> QED BY <1>1, <2>1, PagesGrown
            DEF IInv, TxnPut, CanIssueInTxn, CanIssue, Ready, Recoveries
  <1>4. LogsOK'
    BY <1>1, LogKept DEF IInv, LogsOK, TxnPut, walVars
  <1>5. FlushComplete' /\ PagesSafe' /\ Prepared'
    BY DEF FlushComplete, PagesSafe, Prepared, TxnPut, Flushes
  <1>6. Unwritten'
    <2>1. ASSUME NEW q \in Pages, NEW v \in platter[q], NEW s \in 1 .. Len(v.slots)
          PROVE  v.slots[s] # stmts + 1
      <3>1. v \in Page /\ RowsUpTo(v, stmts)
        BY DEF IInv, PagesOK
      <3>2. v.slots[s] \in Nat /\ v.slots[s] <= stmts
        BY <3>1 DEF Page, RowsUpTo
      <3> QED BY <1>1, <3>2
    <2>2. cur'.rid = NoRid
      BY DEF TxnPut
    <2> QED BY <1>1, <2>1, <2>2 DEF Unwritten, TxnPut, ShowsGone
  <1>7. Logged'
    BY DEF IInv, Logged, InTxn, TxnPut, walVars, txnVars
  <1>8. WriteAhead'
    BY <1>7, WriteAheadStill DEF IInv, TxnPut, walVars, txnVars
  <1> QED BY <1>2, <1>3, <1>4, <1>5, <1>6, <1>7, <1>8 DEF IInv

\* PUT and MODIFY: the log record of the new row, and the undo entry.
LEMMA LogInsertStep == ASSUME IInv, LogInsert \/ LogModifyInsert PROVE IInv'
  <1> DEFINE rec == Record(txn, "Insert", cur.to, Dead, cur.new)
  <1>1. /\ stmts \in Nat /\ undo \in Seq(Change) /\ cur \in Change /\ cur.to \in Place
        /\ wal \in Seq(LogRecord) /\ undo' = Append(undo, cur) /\ stmts' = stmts /\ txn' = txn
    BY DEF IInv, SessionOK, LogsOK, LogInsert, LogModifyInsert, Halves, bounds
  <1>2. /\ undo' \in Seq(Change) /\ Len(undo') = Len(undo) + 1 /\ undo'[Len(undo) + 1] = cur
        /\ \A i \in 1 .. Len(undo) : undo'[i] = undo[i]
    BY <1>1
  <1>3. SessionOK'
    <2>1. /\ pc' = "ready" /\ cur' = NoCur /\ NoCur \in Change
          /\ UNCHANGED <<txn, nextTxn, left, at, stmts, stops, scenario>>
      BY DEF LogInsert, LogModifyInsert, NoCur, Change, Dead, bounds
    <2>2. \A i \in 1 .. Len(undo') : undo'[i].old <= stmts /\ undo'[i].new <= stmts
      BY <1>2 DEF IInv, SessionOK
    <2> QED BY <1>1, <1>2, <2>1, <2>2
            DEF IInv, SessionOK, Phases, Flushes, Halves, Recoveries, NoCur, Dead
  <1>4. PagesOK'
    BY <1>1, PagesKept DEF IInv, LogInsert, LogModifyInsert, Recoveries
  <1>5. /\ LogsOK' /\ walPlatter' = walPlatter \cup {wal'}
        /\ Len(wal') = Len(wal) + 1 /\ wal'[Len(wal) + 1] = rec
        /\ \A k \in 1 .. Len(wal) : wal'[k] = wal[k]
    <2>1. rec \in LogRecord
      BY <1>1 DEF IInv, SessionOK, LogsOK, Record, LogRecord, RecordTypes, Dead, Change
    <2>2. rec.before <= stmts /\ rec.after <= stmts
      BY <1>1 DEF IInv, SessionOK, Record, Dead
    <2> QED BY <1>1, <2>1, <2>2, LogAppended DEF IInv, LogInsert, LogModifyInsert
  <1>6. FlushComplete' /\ PagesSafe' /\ Prepared' /\ Unwritten'
    BY DEF FlushComplete, PagesSafe, Prepared, Unwritten, LogInsert, LogModifyInsert, Flushes, Halves
  <1>7. Logged'
    <2>1. HasInsert(wal', txn, cur)
      <3>1. Len(wal) + 1 \in 1 .. Len(wal')
        BY <1>1, <1>5
      <3>2. rec.txn = txn /\ rec.type = "Insert" /\ rec.rid = cur.to /\ rec.after = cur.new
        BY DEF Record
      <3> HIDE DEF rec
      <3> QED BY <1>5, <3>1, <3>2 DEF HasInsert
    <2>2. cur.rid # NoRid => HasDelete(wal', txn, cur)
      <3>1. cur.rid # NoRid => HasDelete(wal, txn, cur)
        BY DEF IInv, Prepared, LogInsert, LogModifyInsert
      <3>2. Len(wal) \in Nat /\ Len(wal') \in Nat /\ Len(wal) <= Len(wal')
        BY <1>1, <1>5
      <3> QED BY <1>5, <3>1, <3>2, RecordsStay
    <2>3. Describes(wal', txn, cur)
      BY <2>1, <2>2 DEF Describes
    <2> HIDE DEF rec
    <2> QED BY <1>1, <1>2, <1>5, <2>3, LoggedStill DEF IInv
  <1>8. WriteAhead'
    <2>1. ASSUME ~scenario.smallPool, NEW q \in Pages, NEW v \in platter'[q], Shows(q, v, cur)
          PROVE  FALSE
      <3>1. cur.to # NoRid /\ cur.to[1] \in Pages /\ cur.to[2] \in Nat \ {0}
        BY <1>1, PlaceIsReal
      <3>2. v \in platter[q] /\ v \in Page
        BY DEF IInv, PagesOK, LogInsert, LogModifyInsert, pageVars
      <3>3. ShowsNew(q, v, cur)
        BY <2>1, <3>2 DEF Shows, IInv, Unwritten, LogInsert, LogModifyInsert, Halves
      <3>4. cur.to[2] \in 1 .. Len(v.slots) /\ v.slots[cur.to[2]] = cur.new
        BY <3>1, <3>2, <3>3 DEF ShowsNew, Page
      <3> QED BY <2>1, <3>2, <3>4 DEF IInv, Unwritten, LogInsert, LogModifyInsert, Halves
    <2> QED BY <1>1, <1>2, <1>5, <1>7, <2>1, WriteAheadStill
            DEF IInv, LogInsert, LogModifyInsert, bounds, pageVars
  <1> QED BY <1>3, <1>4, <1>5, <1>6, <1>7, <1>8 DEF IInv

\* REMOVE: its log record and undo entry.  The slot is live, so no version of the
\* page shows the removal yet.
LEMMA TxnRemoveStep == ASSUME IInv, NEW r \in LiveRids, TxnRemove(r) PROVE IInv'
  <1> DEFINE rec == Record(txn, "Delete", r, RowAt(r), Dead)
             u == [rid |-> r, to |-> NoRid, old |-> RowAt(r), new |-> Dead]
  <1>1. /\ r \in Place /\ mem[r[1]].slots[r[2]] # Dead
        /\ RowAt(r) \in Nat /\ RowAt(r) <= stmts
    BY LiveRow DEF IInv
  <1>2. /\ u \in Change /\ cur' = u
        /\ stmts \in Nat /\ undo \in Seq(Change) /\ wal \in Seq(LogRecord)
        /\ undo' = Append(undo, u) /\ stmts' = stmts + 1 /\ txn' = txn
    BY <1>1 DEF IInv, SessionOK, LogsOK, TxnRemove, Change, Dead
  <1>3. /\ undo' \in Seq(Change) /\ Len(undo') = Len(undo) + 1 /\ undo'[Len(undo) + 1] = u
        /\ \A i \in 1 .. Len(undo) : undo'[i] = undo[i]
    <2> HIDE DEF u
    <2> QED BY <1>2
  <1>4. u.old <= stmts + 1 /\ u.new <= stmts + 1
    BY <1>1, <1>2 DEF Dead
  <1>5. SessionOK'
    <2>1. \A i \in 1 .. Len(undo') : undo'[i].old <= stmts' /\ undo'[i].new <= stmts'
      <3> HIDE DEF u
      <3> QED BY <1>2, <1>3, <1>4, UndoRows DEF IInv
    <2>2. cur'.rid \in Place /\ cur' \in Change /\ cur'.old <= stmts' /\ cur'.new <= stmts'
      BY <1>1, <1>2, <1>4
    <2> HIDE DEF u
    <2> QED BY <1>2, <1>3, <2>1, <2>2
            DEF IInv, SessionOK, TxnRemove, Phases, Flushes, Halves, Recoveries
  <1>6. PagesOK'
    BY <1>2, PagesKept
       DEF IInv, TxnRemove, CanIssueInTxn, CanIssue, Ready, Recoveries
  <1>7. /\ LogsOK' /\ walPlatter' = walPlatter \cup {wal'}
        /\ Len(wal') = Len(wal) + 1 /\ wal'[Len(wal) + 1] = rec
        /\ \A k \in 1 .. Len(wal) : wal'[k] = wal[k]
    <2>1. rec \in LogRecord
      BY <1>1 DEF IInv, SessionOK, LogsOK, Record, LogRecord, RecordTypes, Dead
    <2>2. rec.before <= stmts' /\ rec.after <= stmts'
      BY <1>1, <1>2 DEF Record, Dead
    <2> QED BY <1>2, <2>1, <2>2, LogAppended DEF IInv, TxnRemove
  <1>8. FlushComplete' /\ PagesSafe' /\ Prepared' /\ Unwritten'
    BY DEF FlushComplete, PagesSafe, Prepared, Unwritten, TxnRemove, Flushes, Halves
  <1>9. Logged'
    <2>1. HasDelete(wal', txn, u)
      <3>1. Len(wal) + 1 \in 1 .. Len(wal')
        BY <1>2, <1>7
      <3>2. rec.txn = txn /\ rec.type = "Delete" /\ rec.rid = u.rid /\ rec.before = u.old
        BY DEF Record
      <3> HIDE DEF rec, u
      <3> QED BY <1>7, <3>1, <3>2 DEF HasDelete
    <2>2. Describes(wal', txn, u)
      BY <2>1 DEF Describes
    <2> HIDE DEF u, rec
    <2> QED BY <1>2, <1>3, <1>7, <2>2, LoggedStill DEF IInv
  <1>10. WriteAhead'
    <2>1. ASSUME NEW q \in Pages, NEW v \in platter'[q], Shows(q, v, u)
          PROVE  FALSE
      <3>1. v \in platter[q] /\ v \in Page /\ os[q] \in Page /\ mem[q] \in Page
        BY DEF IInv, PagesOK, TxnRemove, pageVars
      <3>2. r[1] = q /\ r[2] \in 1 .. Len(v.slots) /\ v.slots[r[2]] = Dead
        <4>1. ~ShowsNew(q, v, u)
          BY DEF ShowsNew
        <4>2. ShowsGone(q, v, u) /\ u.rid = r /\ u.new = Dead
          BY <2>1, <4>1 DEF Shows
        <4> HIDE DEF u
        <4>3. r[1] = q /\ r[2] <= Len(v.slots) /\ v.slots[r[2]] = Dead
          BY <4>2 DEF ShowsGone
        <4> QED BY <1>1, <3>1, <4>3, PlaceIsReal DEF Page
      <3>3. Prior(v, os[q]) /\ Prior(os[q], mem[q])
        BY <3>1 DEF IInv, PagesOK, Chained, TxnRemove, CanIssueInTxn, CanIssue, Ready, Recoveries
      <3>4. Prior(v, mem[q])
        BY <3>1, <3>3, PriorOrder
      <3> QED BY <1>1, <3>2, <3>4 DEF Prior
    <2> HIDE DEF u, rec
    <2> QED BY <1>2, <1>3, <1>7, <1>9, <2>1, WriteAheadStill DEF IInv, TxnRemove, pageVars
  <1> QED BY <1>5, <1>6, <1>7, <1>8, <1>9, <1>10 DEF IInv

\* REMOVE: the row leaves the heap.
LEMMA EraseStep == ASSUME IInv, Erase PROVE IInv'
  <1>1. stmts \in Nat /\ cur.rid \in Place /\ NoCur \in Change
    BY DEF IInv, SessionOK, Erase, NoCur, Change, Dead
  <1>2. SessionOK'
    BY <1>1 DEF IInv, SessionOK, Erase, Phases, Flushes, Halves, Recoveries, NoCur, Dead,
                txnVars, bounds
  <1>3. PagesOK'
    <2>1. Grows(mem, mem', Dead)
      BY <1>1, ErasedGrows DEF IInv, PagesOK, Erase
    <2> QED BY <1>1, <2>1, PagesGrown DEF IInv, Erase, Recoveries, bounds, Dead
  <1>4. LogsOK' /\ Logged'
    BY <1>1, LogKept DEF IInv, LogsOK, Erase, Logged, InTxn, walVars, txnVars, bounds
  <1>5. FlushComplete' /\ PagesSafe' /\ Prepared' /\ Unwritten'
    BY DEF FlushComplete, PagesSafe, Prepared, Unwritten, Erase, Flushes, Halves
  <1>6. WriteAhead'
    BY <1>4, WriteAheadStill DEF IInv, Erase, walVars, txnVars, bounds
  <1> QED BY <1>2, <1>3, <1>4, <1>5, <1>6 DEF IInv

\* MODIFY: the heap is changed.
LEMMA TxnModifyStep ==
    ASSUME IInv, NEW r \in LiveRids, NEW to \in UpdateTargets(r), TxnModify(r, to)
    PROVE  IInv'
  <1>1. /\ r \in Place /\ RowAt(r) \in Nat /\ RowAt(r) <= stmts /\ stmts \in Nat
        /\ to \in Place /\ Grows(mem, mem', stmts + 1)
    BY LiveRow, Updated DEF IInv, SessionOK, TxnModify, NewRow
  <1>2. /\ cur' \in Change /\ cur'.new = stmts + 1 /\ cur'.old <= stmts + 1
        /\ cur'.rid \in Place /\ cur'.to \in Place
    BY <1>1 DEF TxnModify, Change, NewRow
  <1>3. SessionOK'
    BY <1>1, <1>2, UndoRows DEF IInv, SessionOK, TxnModify, Phases, Flushes, Halves, Recoveries,
                                txnVars
  <1>4. HalfWritten(stmts + 1) /\ pc \notin Recoveries
    BY <1>1, UpdatedInHalves
       DEF IInv, TxnModify, NewRow, CanIssueInTxn, CanIssue, Ready, Recoveries
  <1>5. stmts' = stmts + 1 /\ UNCHANGED <<undo, txn, scenario>>
    BY DEF TxnModify, txnVars
  <1>6. PagesOK'
    BY <1>1, <1>4, <1>5, HalvesKeepPages DEF IInv
  <1>7. /\ LogsOK' /\ wal' = wal /\ walPlatter' \subseteq walPlatter \cup {wal'}
        /\ \A p \in Pages : \A v \in platter'[p] : v \in platter[p] \/ walPlatter' = {wal'}
        /\ ~scenario.smallPool => platter' = platter
    BY <1>1, <1>4, <1>5, HalvesKeepLog DEF IInv
  <1>8. Logged'
    BY <1>5, <1>7 DEF IInv, Logged, InTxn
  <1>9. FlushComplete' /\ PagesSafe' /\ Prepared'
    BY DEF FlushComplete, PagesSafe, Prepared, TxnModify, Flushes
  <1>10. Unwritten'
    <2>1. cur' = [rid |-> r, to |-> to, old |-> RowAt(r), new |-> stmts + 1]
      BY DEF TxnModify, NewRow
    <2>2. ASSUME NEW q \in Pages, NEW v \in platter[q]
          PROVE  /\ \A s \in 1 .. Len(v.slots) : v.slots[s] # stmts + 1
                 /\ ~ShowsGone(q, v, cur')
      <3>1. v \in Page /\ RowsUpTo(v, stmts) /\ os[q] \in Page /\ mem[q] \in Page
        BY DEF IInv, PagesOK
      <3>2. \A s \in 1 .. Len(v.slots) : v.slots[s] \in Nat /\ v.slots[s] <= stmts
        BY <3>1 DEF Page, RowsUpTo
      <3>3. \A s \in 1 .. Len(v.slots) : v.slots[s] # stmts + 1
        BY <1>1, <3>2
      <3>4. ASSUME ShowsGone(q, v, cur')
            PROVE  FALSE
        <4>1. r[1] = q /\ r[2] <= Len(v.slots) /\ v.slots[r[2]] \in {Dead, stmts + 1}
          BY <2>1, <3>4 DEF ShowsGone
        <4>2. r[2] \in 1 .. Len(v.slots)
          BY <1>1, <3>1, <4>1, PlaceIsReal DEF Page
        <4>3. v.slots[r[2]] = Dead
          BY <3>3, <4>1, <4>2
        <4>4. Prior(v, os[q]) /\ Prior(os[q], mem[q])
          BY <1>4 DEF IInv, PagesOK, Chained
        <4>5. Prior(v, mem[q])
          BY <3>1, <4>4, PriorOrder
        <4>6. mem[q].slots[r[2]] # Dead
          BY <4>1, LiveRow DEF IInv
        <4> QED BY <4>2, <4>3, <4>5, <4>6 DEF Prior
      <3> QED BY <3>3, <3>4
    <2> QED BY <1>2, <1>5, <1>7, <2>2 DEF Unwritten
  <1>11. WriteAhead'
    BY <1>5, <1>7, <1>8, WriteAheadStill DEF IInv
  <1> QED BY <1>3, <1>6, <1>7, <1>8, <1>9, <1>10, <1>11 DEF IInv

\* A record that comes with no undo entry: MODIFY's logDelete, Commit, Abort.
LEMMA RecordStep == ASSUME IInv, LogModifyDelete \/ Commit \/ Abort PROVE IInv'
  <1>1. PICK rec \in LogRecord : rec.before <= stmts /\ rec.after <= stmts /\ AppendLog(rec)
    <2>1. CASE LogModifyDelete
      <3>1. Record(txn, "Delete", cur.rid, cur.old, Dead) \in LogRecord
        BY <2>1 DEF LogModifyDelete, IInv, SessionOK, LogsOK, Record, LogRecord, RecordTypes,
                    Change, Dead
      <3> QED BY <2>1, <3>1 DEF LogModifyDelete, IInv, SessionOK, Record, Dead
    <2>2. ASSUME NEW type \in {"Commit", "Abort"}, AppendLog(Record(txn, type, NoRid, Dead, Dead))
          PROVE  \E rec \in LogRecord : rec.before <= stmts /\ rec.after <= stmts /\ AppendLog(rec)
      <3>1. Record(txn, type, NoRid, Dead, Dead) \in LogRecord
        BY DEF IInv, SessionOK, LogsOK, Record, LogRecord, RecordTypes, Dead
      <3> QED BY <2>2, <3>1 DEF IInv, SessionOK, Record, Dead
    <2> QED BY <2>1, <2>2 DEF Commit, Abort
  <1>2. /\ pc' \in {"logModifyInsert", "commitSync", "abortSync"}
        /\ pc' = "logModifyInsert" => pc = "logModifyDelete"
        /\ pc \in {"logModifyDelete", "ready", "undo"}
        /\ UNCHANGED <<pageVars, txn, nextTxn, undo, cur, left, at, stmts, stops, scenario>>
    BY DEF LogModifyDelete, Commit, Abort, Ready, txnVars, bounds
  <1>3. stmts \in Nat /\ wal \in Seq(LogRecord)
    BY DEF IInv, SessionOK, LogsOK
  <1>4. SessionOK'
    BY <1>2 DEF IInv, SessionOK, Phases, Flushes, Halves, Recoveries
  <1>5. PagesOK'
    BY <1>2, <1>3, PagesKept DEF IInv, Recoveries
  <1>6. /\ LogsOK' /\ walPlatter' = walPlatter \cup {wal'}
        /\ Len(wal') = Len(wal) + 1 /\ \A k \in 1 .. Len(wal) : wal'[k] = wal[k]
    BY <1>1, <1>2, <1>3, LogAppended DEF IInv
  <1>7. FlushComplete' /\ PagesSafe' /\ Prepared' /\ Unwritten'
    <2>1. FlushComplete' /\ PagesSafe' /\ Unwritten'
      BY <1>2 DEF IInv, FlushComplete, PagesSafe, Unwritten, Flushes, Halves, pageVars
    <2>2. pc' = "logModifyInsert" => HasDelete(wal', txn, cur)
      <3> SUFFICES ASSUME LogModifyDelete PROVE HasDelete(wal', txn, cur)
        BY <1>2 DEF Commit, Abort
      <3> DEFINE del == Record(txn, "Delete", cur.rid, cur.old, Dead)
      <3>1. del.txn = txn /\ del.type = "Delete" /\ del.rid = cur.rid /\ del.before = cur.old
        BY DEF Record
      <3>2. wal' = Append(wal, del)
        BY DEF LogModifyDelete, AppendLog
      <3> HIDE DEF del
      <3>3. wal'[Len(wal) + 1] = del /\ Len(wal) + 1 \in 1 .. Len(wal')
        BY <1>3, <1>6, <3>2
      <3> QED BY <3>1, <3>3 DEF HasDelete
    <2> QED BY <1>2, <2>1, <2>2 DEF Prepared
  <1>8. Logged'
    BY <1>2, <1>3, <1>6, LoggedStill DEF IInv
  <1>9. WriteAhead'
    BY <1>2, <1>6, <1>8, WriteAheadStill DEF IInv, pageVars
  <1> QED BY <1>4, <1>5, <1>6, <1>7, <1>8, <1>9 DEF IInv

\* SAVE and UNDO end with a synced log; DB::connect starts to flush.
LEMMA EndStep == ASSUME IInv, CommitSync \/ AbortSync PROVE IInv'
  <1>1. /\ pc' = "flush" /\ left' = Dirty /\ txn' = 0 /\ pc \notin Recoveries
        /\ undo' \in {undo, << >>}
        /\ UNCHANGED <<pageVars, wal, nextLsn, nextTxn, cur, at, stmts, stops, scenario>>
        /\ walPlatter' = {wal}
    BY DEF CommitSync, AbortSync, SyncLog, Recoveries, bounds
  <1>2. SessionOK'
    <2>1. /\ undo' \in Seq(Change) /\ left' \in SUBSET Pages
          /\ \A i \in 1 .. Len(undo') : undo'[i].old <= stmts /\ undo'[i].new <= stmts
      <3>1. CASE undo' = undo
        BY <1>1, <3>1 DEF IInv, SessionOK, Dirty
      <3>2. CASE undo' = << >>
        BY <1>1, <3>2 DEF Dirty
      <3> QED BY <1>1, <3>1, <3>2
    <2> QED BY <1>1, <2>1 DEF IInv, SessionOK, Phases, Flushes, Halves, Recoveries
  <1>3. PagesOK' /\ LogsOK'
    BY <1>1, PagesKept, LogKept DEF IInv, SessionOK, LogsOK
  <1>4. FlushComplete' /\ PagesSafe' /\ Prepared' /\ Unwritten'
    BY <1>1 DEF FlushComplete, PagesSafe, Prepared, Unwritten, Halves, Dirty, pageVars
  <1> QED BY <1>1, <1>2, <1>3, <1>4, NoTransaction DEF IInv

\* UNDO: the closures run last to first.
LEMMA RollbackStep == ASSUME IInv, Rollback PROVE IInv'
  <1>1. /\ pc = "ready" /\ pc' = "undo"
        /\ UNCHANGED <<pageVars, walVars, txnVars, cur, left, at, stmts, stops, scenario>>
    BY DEF Rollback, Ready, bounds
  <1>2. SessionOK'
    BY <1>1 DEF IInv, SessionOK, Phases, Flushes, Halves, Recoveries, txnVars
  <1>3. PagesOK' /\ LogsOK'
    BY <1>1, PagesKept, LogKept DEF IInv, SessionOK, LogsOK, Recoveries, walVars
  <1>4. FlushComplete' /\ PagesSafe' /\ Prepared' /\ Unwritten'
    BY <1>1 DEF FlushComplete, PagesSafe, Prepared, Unwritten, Flushes, Halves
  <1>5. Logged' /\ WriteAhead'
    BY <1>1 DEF IInv, Logged, WriteAhead, InTxn, pageVars, walVars, txnVars
  <1> QED BY <1>2, <1>3, <1>4, <1>5 DEF IInv

LEMMA UndoOneStep == ASSUME IInv, NEW p \in Pages, UndoStep(p) PROVE IInv'
  <1> DEFINE n == Len(undo)
             u == undo[n]
  <1>1. undo \in Seq(Change) /\ n \in Nat \ {0} /\ n = Len(undo) /\ stmts \in Nat /\ wal \in Seq(LogRecord)
    BY EmptySeq DEF IInv, SessionOK, LogsOK, UndoStep
  <1>2. u \in Change /\ u.old \in Nat /\ u.old <= stmts
    <2>1. n \in 1 .. Len(undo)
      BY <1>1
    <2>2. u \in Change /\ u.old <= stmts
      BY <1>1, <2>1 DEF IInv, SessionOK
    <2> QED BY <2>2 DEF Change
  <1>3. undo' = SubSeq(undo, 1, n - 1)
    BY DEF UndoStep
  <1>4. /\ undo' \in Seq(Change) /\ Len(undo') = n - 1
        /\ \A i \in 1 .. n - 1 : undo'[i] = undo[i]
    <2> HIDE DEF n
    <2>1. n - 1 \in Nat /\ n - 1 <= Len(undo)
      BY <1>1
    <2> QED BY <1>1, <1>3, <2>1
  <1>5. /\ pc = "undo"
        /\ UNCHANGED <<txn, nextTxn, pc, cur, left, at, stmts, stops, scenario>>
        /\ HalfWritten(u.old)
    <2>1. u = undo[Len(undo)] /\ mem' = Undone(u, p) /\ UndoneWrites(u)
      BY DEF UndoStep
    <2> HIDE DEF u
    <2>2. HalfWritten(u.old)
      BY <1>2, <2>1, UndoneInHalves DEF IInv
    <2> QED BY <2>2 DEF UndoStep, flow, bounds
  <1>6. SessionOK'
    <2>1. \A i \in 1 .. Len(undo') : undo'[i].old <= stmts /\ undo'[i].new <= stmts
      BY <1>1, <1>4, SMTT(30) DEF IInv, SessionOK
    <2> QED BY <1>4, <1>5, <2>1 DEF IInv, SessionOK, Phases, Flushes, Halves, Recoveries
  <1>7. PagesOK'
    <2>1. Grows(mem, mem', u.old)
      BY <1>2, UndoneGrows DEF IInv, UndoStep
    <2> HIDE DEF u
    <2> QED BY <1>1, <1>2, <1>5, <2>1, HalvesKeepPages DEF IInv, Recoveries
  <1>8. /\ LogsOK' /\ wal' = wal /\ walPlatter' \subseteq walPlatter \cup {wal'}
        /\ \A q \in Pages : \A v \in platter'[q] : v \in platter[q] \/ walPlatter' = {wal'}
    <2> HIDE DEF u
    <2> QED BY <1>1, <1>5, HalvesKeepLog DEF IInv
  <1>9. FlushComplete' /\ PagesSafe' /\ Prepared' /\ Unwritten'
    BY <1>5 DEF FlushComplete, PagesSafe, Prepared, Unwritten, Flushes, Halves
  <1>10. Logged'
    BY <1>1, <1>4, <1>5, <1>8, LoggedStill DEF IInv
  <1>11. WriteAhead'
    BY <1>1, <1>4, <1>5, <1>8, <1>10, WriteAheadStill DEF IInv
  <1> QED BY <1>6, <1>7, <1>8, <1>9, <1>10, <1>11 DEF IInv

\* A statement outside a transaction.
LEMMA AutoCommitStep ==
    ASSUME IInv, NEW row \in Nat, row <= stmts + 1, Grows(mem, mem', row),
           HalfWritten(row), NEW kind, NEW rows, AutoCommit(kind, mem', rows)
    PROVE  IInv'
  <1>1. /\ pc = "ready" /\ txn = 0 /\ stmts \in Nat /\ stmts' = stmts + 1
        /\ pc' = "flush" /\ left' = {p \in Pages : mem'[p] # os'[p]}
        /\ UNCHANGED <<txn, nextTxn, undo, cur, at, stops, scenario>>
    BY DEF IInv, SessionOK, AutoCommit, CanIssue, Ready, InTxn, txnVars
  <1>2. SessionOK'
    BY <1>1, UndoRows DEF IInv, SessionOK, Phases, Flushes, Halves, Recoveries
  <1>3. PagesOK'
    BY <1>1, HalvesKeepPages DEF IInv, Recoveries
  <1>4. LogsOK'
    BY <1>1, HalvesKeepLog DEF IInv
  <1>5. FlushComplete' /\ PagesSafe' /\ Prepared' /\ Unwritten'
    BY <1>1 DEF FlushComplete, PagesSafe, Prepared, Unwritten, Halves
  <1> QED BY <1>1, <1>2, <1>3, <1>4, <1>5, NoTransaction DEF IInv

LEMMA PutReturningStep == ASSUME IInv, NEW p \in Pages, PutReturning(p) PROVE IInv'
  <1>1. /\ pc = "ready" /\ txn = 0 /\ stmts \in Nat /\ stmts' = stmts + 1
        /\ UNCHANGED <<os, platter, wal, walPlatter, nextLsn, txn, nextTxn, undo, pc, cur, left, at, stops, scenario>>
    BY DEF IInv, SessionOK, PutReturning, CanIssue, Ready, InTxn, walVars, txnVars, flow
  <1>2. SessionOK'
    BY <1>1, UndoRows DEF IInv, SessionOK, Phases, Flushes, Halves, Recoveries
  <1>3. PagesOK'
    <2>1. Grows(mem, mem', stmts + 1)
      BY <1>1, InsertedGrows DEF IInv, PagesOK, PutReturning, NewRow
    <2> QED BY <1>1, <2>1, PagesGrown DEF IInv, Recoveries
  <1>4. LogsOK'
    BY <1>1, LogKept DEF IInv, LogsOK
  <1>5. FlushComplete' /\ PagesSafe' /\ Prepared' /\ Unwritten'
    BY <1>1 DEF FlushComplete, PagesSafe, Prepared, Unwritten, Flushes, Halves
  <1> QED BY <1>1, <1>2, <1>3, <1>4, <1>5, NoTransaction DEF IInv

\* PUT, REMOVE and MODIFY outside a transaction.
LEMMA UnloggedStep ==
    ASSUME IInv,
           \/ \E p \in Pages : Put(p)
           \/ \E r \in LiveRids : Remove(r) \/ \E to \in UpdateTargets(r) : Modify(r, to)
    PROVE  IInv'
  <1>1. stmts + 1 \in Nat /\ mem \in [Pages -> Page]
    BY DEF IInv, SessionOK, PagesOK
  <1>2. ASSUME NEW p \in Pages, Put(p) PROVE IInv'
    <2>1. Grows(mem, mem', stmts + 1)
      BY <1>1, <1>2, InsertedGrows DEF Put, AutoCommit, NewRow
    <2>2. AutoCommit("put", mem', stable \cup {NewRow}) /\ HalfWritten(stmts + 1)
      BY <1>2 DEF Put, AutoCommit, HalfWritten, walVars
    <2> QED BY <1>1, <2>1, <2>2, AutoCommitStep
  <1>3. ASSUME NEW r \in LiveRids, Remove(r) PROVE IInv'
    <2>1. Grows(mem, mem', Dead)
      BY <1>1, <1>3, LiveRow, ErasedGrows DEF IInv, Remove, AutoCommit
    <2>2. AutoCommit("remove", mem', stable \ {RowAt(r)}) /\ HalfWritten(Dead)
      BY <1>3 DEF Remove, AutoCommit, HalfWritten, walVars
    <2>3. Dead \in Nat /\ Dead <= stmts + 1
      BY <1>1 DEF Dead
    <2> QED BY <2>1, <2>2, <2>3, AutoCommitStep
  <1>4. ASSUME NEW r \in LiveRids, NEW to \in UpdateTargets(r), Modify(r, to) PROVE IInv'
    <2>1. Grows(mem, mem', stmts + 1)
      BY <1>1, <1>4, Updated DEF IInv, Modify, AutoCommit, NewRow
    <2>2. AutoCommit("modify", mem', (stable \ {RowAt(r)}) \cup {NewRow})
      BY <1>4 DEF Modify, AutoCommit
    <2>3. HalfWritten(stmts + 1)
      BY <1>1, <1>4, UpdatedInHalves DEF IInv, Modify, AutoCommit, NewRow
    <2> QED BY <1>1, <2>1, <2>2, <2>3, AutoCommitStep
  <1> QED BY <1>2, <1>3, <1>4

----------------------------------------------------------------------------
(* Flush, checkpoint, eviction.                                            *)

LEMMA FlushPageStep == ASSUME IInv, NEW p \in Pages, FlushPage(p) PROVE IInv'
  <1>1. /\ pc \in Flushes /\ os' = [os EXCEPT ![p] = mem[p]] /\ left' = left \ {p}
        /\ platter' = [platter EXCEPT ![p] = @ \cup {mem[p]}]
        /\ UNCHANGED <<mem, wal, walPlatter, nextLsn, txn, nextTxn, undo, pc, cur, at, stmts, stops, scenario>>
    BY DEF FlushPage, walVars, txnVars, bounds, Flushes
  <1>2. SessionOK' /\ txn' = 0
    BY <1>1 DEF IInv, SessionOK, Phases, Flushes, Halves, Recoveries
  <1>3. PagesOK'
    BY <1>1, PageWritten DEF IInv
  <1>4. LogsOK'
    BY <1>1, LogKept DEF IInv, LogsOK, SessionOK
  <1>5. FlushComplete'
    <2>1. ASSUME NEW q \in Pages, mem[q] # os'[q]
          PROVE  q \in left'
      <3>1. os \in [Pages -> Page]
        BY DEF IInv, PagesOK
      <3>2. q # p /\ os'[q] = os[q]
        BY <1>1, <2>1, <3>1
      <3> QED BY <1>1, <2>1, <3>2 DEF IInv, FlushComplete
    <2> QED BY <1>1, <2>1 DEF FlushComplete
  <1>6. PagesSafe' /\ Prepared' /\ Unwritten'
    BY <1>1 DEF PagesSafe, Prepared, Unwritten, Flushes, Halves
  <1> QED BY <1>2, <1>3, <1>4, <1>5, <1>6, NoTransaction DEF IInv

\* The pre-evict hook: the log is synced, then the page is written.
LEMMA EvictStep == ASSUME IInv, NEW p \in Pages, Evict(p) PROVE IInv'
  <1>1. /\ \/ pc \in {"ready", "erase", "undo", "redo", "undoLosers"}
           \/ scenario.smallPool /\ pc \in {"logInsert", "logModifyDelete"}
        /\ os' = [os EXCEPT ![p] = mem[p]] /\ walPlatter' = {wal}
        /\ platter' = [platter EXCEPT ![p] = @ \cup {mem[p]}]
        /\ UNCHANGED <<mem, wal, nextLsn, txn, nextTxn, undo, pc, cur, left, at, stmts, stops, scenario>>
    BY DEF Evict, SyncLog, txnVars, flow, bounds
  <1>2. SessionOK'
    BY <1>1 DEF IInv, SessionOK, Phases, Flushes, Halves, Recoveries
  <1>3. PagesOK'
    BY <1>1, PageWritten DEF IInv
  <1>4. LogsOK'
    BY <1>1, LogKept DEF IInv, LogsOK, SessionOK
  <1>5. FlushComplete' /\ PagesSafe' /\ Unwritten'
    BY <1>1 DEF FlushComplete, PagesSafe, Unwritten, Flushes, Halves
  <1>6. Prepared'
    BY <1>1 DEF IInv, Prepared
  <1>7. Logged'
    BY <1>1 DEF IInv, Logged, InTxn
  <1>8. WriteAhead'
    BY <1>1, <1>7, WriteAheadStill DEF IInv
  <1> QED BY <1>2, <1>3, <1>4, <1>5, <1>6, <1>7, <1>8 DEF IInv

\* DiskManager::sync after flushAll has written every page.
LEMMA SyncStep == ASSUME IInv, SyncPages \/ RecoverSync PROVE IInv'
  <1>1. /\ pc \in Flushes /\ left = {} /\ pc' \in {"truncate", "ready"}
        /\ platter' = [p \in Pages |-> {os[p]}]
        /\ UNCHANGED <<mem, os, wal, walPlatter, nextLsn, txn, nextTxn, undo, cur, left, at, stmts, stops, scenario>>
    BY DEF SyncPages, RecoverSync, Flushes, walVars, txnVars, bounds
  <1>2. \A p \in Pages : mem[p] = os[p]
    BY <1>1 DEF IInv, FlushComplete
  <1>3. SessionOK' /\ txn' = 0
    BY <1>1 DEF IInv, SessionOK, Phases, Flushes, Halves, Recoveries
  <1>4. PagesOK'
    BY <1>1, <1>2, PagesSynced DEF IInv
  <1>5. LogsOK'
    BY <1>1, LogKept DEF IInv, LogsOK, SessionOK
  <1>6. FlushComplete' /\ PagesSafe' /\ Prepared' /\ Unwritten'
    BY <1>1, <1>2 DEF FlushComplete, PagesSafe, Prepared, Unwritten, Flushes, Halves
  <1> QED BY <1>3, <1>4, <1>5, <1>6, NoTransaction DEF IInv

\* WriteAheadLog::reset.
LEMMA ResetStep == ASSUME IInv, Truncate \/ ResetSync PROVE IInv'
  <1>1. /\ pc \in {"truncate", "resetSync"} /\ pc' \in {"resetSync", "ready"}
        /\ wal' \in {wal, << >>} /\ nextLsn' \in {nextLsn, 1}
        /\ walPlatter' \subseteq walPlatter \cup {<< >>}
        /\ UNCHANGED <<pageVars, txn, nextTxn, undo, cur, left, at, stmts, stops, scenario>>
    BY DEF Truncate, ResetSync, txnVars, bounds
  <1>2. SessionOK' /\ txn' = 0
    BY <1>1 DEF IInv, SessionOK, Phases, Flushes, Halves, Recoveries
  <1>3. PagesOK'
    BY <1>1, PagesKept DEF IInv, SessionOK, Recoveries
  <1>4. LogsOK'
    BY <1>1, LogKept DEF IInv, LogsOK, SessionOK
  <1>5. FlushComplete' /\ PagesSafe' /\ Prepared' /\ Unwritten'
    BY <1>1 DEF FlushComplete, PagesSafe, Prepared, Unwritten, Flushes, Halves
  <1> QED BY <1>2, <1>3, <1>4, <1>5, NoTransaction DEF IInv

----------------------------------------------------------------------------
(* Stops and recovery.                                                     *)

\* DB::DB over the files it finds: there is something to recover exactly when
\* recovery starts.
LEMMA RestartStep ==
    ASSUME IInv, NEW pages \in [Pages -> Page], \A p \in Pages : RowsUpTo(pages[p], stmts),
           NEW log \in Seq(LogRecord), LogRowsUpTo(log, stmts), Restart(pages, log),
           \/ platter' = [p \in Pages |-> {pages[p]}] /\ walPlatter' = {log}
           \/ /\ platter' = platter \/ platter' = [p \in Pages |-> {pages[p]}]
              /\ pages = os /\ log = wal /\ walPlatter' = walPlatter
    PROVE  IInv'
  <1>1. /\ mem' = pages /\ os' = pages /\ wal' = log
        /\ txn' = 0 /\ nextTxn' = 1 /\ undo' = << >> /\ cur' = NoCur /\ left' = {}
        /\ stops' = stops + 1 /\ UNCHANGED <<stmts, scenario>>
        /\ IF Readable(log) = << >> THEN pc' = "ready" /\ at' = 0 ELSE pc' = "redo" /\ at' = 1
    BY DEF Restart
  <1>2. NoCur \in Change /\ NoCur.old = 0 /\ NoCur.new = 0 /\ << >> \in Seq(Change)
    BY DEF NoCur, Change, Dead
  <1>3. SessionOK' /\ txn' = 0
    BY <1>1, <1>2 DEF IInv, SessionOK, Phases, Flushes, Halves, Recoveries
  <1>4. PagesOK'
    <2>1. pc \in Recoveries => Readable(wal) # << >>
      BY DEF IInv, SessionOK
    <2> QED BY <1>1, <2>1, PagesFound DEF IInv, Recoveries
  <1>5. LogsOK'
    <2>1. nextLsn' \in Nat
      <3>1. CASE Readable(log) = << >>
        BY <3>1 DEF Restart
      <3>2. CASE Readable(log) # << >>
        <4>1. Readable(log) \in Seq(LogRecord)
          BY ReadablePrefix
        <4>2. Len(Readable(log)) \in 1 .. Len(Readable(log))
          BY <3>2, <4>1, EmptySeq
        <4>3. Readable(log)[Len(Readable(log))] \in LogRecord
          BY <4>1, <4>2
        <4>4. Readable(log)[Len(Readable(log))].lsn \in Nat
          BY <4>3 DEF LogRecord
        <4> QED BY <3>2, <4>4 DEF Restart
      <3> QED BY <3>1, <3>2
    <2>2. walPlatter' \subseteq Seq(LogRecord) /\ \A l \in walPlatter' : LogRowsUpTo(l, stmts)
      BY DEF IInv, LogsOK
    <2> QED BY <1>1, <2>1, <2>2 DEF LogsOK
  <1>6. FlushComplete' /\ PagesSafe' /\ Prepared' /\ Unwritten'
    BY <1>1 DEF FlushComplete, PagesSafe, Prepared, Unwritten, Flushes, Halves
  <1> QED BY <1>3, <1>4, <1>5, <1>6, NoTransaction DEF IInv

\* The process dies, or closes: the file cache survives.
LEMMA ProcessStep == ASSUME IInv, ProcessCrash \/ Closed PROVE IInv'
  <1>1. /\ Restart(os, wal) /\ walPlatter' = walPlatter
        /\ platter' = platter \/ platter' = [p \in Pages |-> {os[p]}]
    BY DEF ProcessCrash, Closed
  <1>2. /\ os \in [Pages -> Page] /\ \A p \in Pages : RowsUpTo(os[p], stmts)
        /\ wal \in Seq(LogRecord) /\ LogRowsUpTo(wal, stmts)
    BY DEF IInv, PagesOK, LogsOK
  <1> QED BY <1>1, <1>2, RestartStep

\* The machine dies: any of the platter's versions is found, and a log that may
\* end in a torn record.
LEMMA PowerLossStep == ASSUME IInv, PowerLoss PROVE IInv'
  <1>1. PICK pages \in [Pages -> UNION {platter[p] : p \in Pages}], log \in walPlatter :
           /\ \A p \in Pages : pages[p] \in platter[p]
           /\ \E found \in Found(log) :
                 Restart(pages, found) /\ platter' = [p \in Pages |-> {pages[p]}] /\ walPlatter' = {found}
    BY DEF PowerLoss
  <1>2. PICK found \in Found(log) :
           Restart(pages, found) /\ platter' = [p \in Pages |-> {pages[p]}] /\ walPlatter' = {found}
    BY <1>1
  <1>3. pages \in [Pages -> Page] /\ \A p \in Pages : RowsUpTo(pages[p], stmts)
    BY <1>1 DEF IInv, PagesOK
  <1>4. found \in Seq(LogRecord) /\ LogRowsUpTo(found, stmts)
    <2>1. log \in Seq(LogRecord) /\ LogRowsUpTo(log, stmts) /\ stmts \in Nat
      BY DEF IInv, LogsOK, SessionOK
    <2>2. Torn \in LogRecord /\ Torn.before = 0 /\ Torn.after = 0
      BY DEF Torn, LogRecord, RecordTypes, Dead
    <2>3. found = log \/ found = Append(log, Torn)
      BY DEF Found
    <2>4. Append(log, Torn) \in Seq(LogRecord) /\ LogRowsUpTo(Append(log, Torn), stmts)
      <3>1. /\ Append(log, Torn) \in Seq(LogRecord)
            /\ Len(Append(log, Torn)) = Len(log) + 1 /\ Append(log, Torn)[Len(log) + 1] = Torn
            /\ \A k \in 1 .. Len(log) : Append(log, Torn)[k] = log[k]
        BY <2>1, <2>2
      <3> QED BY <2>1, <2>2, <3>1 DEF LogRowsUpTo
    <2> QED BY <2>1, <2>3, <2>4
  <1> QED BY <1>2, <1>3, <1>4, RestartStep

\* Steps that only move the program on: Close, the passes of recovery.
LEMMA PassStep == ASSUME IInv, Close \/ RedoDone \/ UndoDone PROVE IInv'
  <1>1. /\ \/ pc = "ready" /\ txn = 0 /\ pc' = "closeFlush" /\ left' = Dirty /\ at' = at
           \/ pc = "redo" /\ pc' = "undoLosers" /\ left' = left /\ at' = Len(Readable(wal))
           \/ pc = "undoLosers" /\ pc' = "recoverFlush" /\ left' = Dirty /\ at' = at
        /\ UNCHANGED <<pageVars, wal, walPlatter, nextLsn, txn, nextTxn, undo, cur, stmts, stops, scenario>>
    BY DEF Close, RedoDone, UndoDone, Ready, InTxn, walVars, txnVars, bounds
  <1>2. Readable(wal)' = Readable(wal) /\ Len(Readable(wal)) \in Nat
    <2>1. wal \in Seq(LogRecord) /\ wal' = wal
      BY <1>1 DEF IInv, LogsOK
    <2> QED BY <2>1, ReadablePrefix
  <1>3. SessionOK' /\ txn' = 0
    BY <1>1, <1>2 DEF IInv, SessionOK, Phases, Flushes, Halves, Recoveries, Dirty
  <1>4. PagesOK'
    BY <1>1, PagesKept DEF IInv, SessionOK, Recoveries
  <1>5. LogsOK'
    BY <1>1, LogKept DEF IInv, LogsOK, SessionOK
  <1>6. FlushComplete' /\ PagesSafe' /\ Prepared' /\ Unwritten'
    BY <1>1 DEF FlushComplete, PagesSafe, Prepared, Unwritten, Flushes, Halves, Dirty, pageVars
  <1> QED BY <1>3, <1>4, <1>5, <1>6, NoTransaction DEF IInv

\* One record of the redo pass, or of the undo pass.
LEMMA RecordPassStep == ASSUME IInv, RedoRecord \/ UndoRecord PROVE IInv'
  <1> DEFINE rec == wal[at]
  <1>1. /\ \/ pc = "redo" /\ at >= 1 /\ at <= Len(Readable(wal)) /\ at' = at + 1
           \/ pc = "undoLosers" /\ at >= 1 /\ at <= Len(Readable(wal)) /\ at' = at - 1
        /\ UNCHANGED <<os, platter, wal, walPlatter, nextLsn, txn, nextTxn, undo, pc, cur, left, stmts, stops, scenario>>
    BY DEF IInv, SessionOK, RedoRecord, UndoRecord, walVars, txnVars, bounds
  <1>2. Readable(wal)' = Readable(wal) /\ Len(Readable(wal)) <= Len(wal) /\ Len(Readable(wal)) \in Nat
    <2>1. wal \in Seq(LogRecord) /\ wal' = wal
      BY <1>1 DEF IInv, LogsOK
    <2>2. Readable(wal) \in Seq(LogRecord) /\ Len(Readable(wal)) <= Len(wal)
      BY <2>1, ReadablePrefix
    <2> QED BY <2>1, <2>2
  <1>3. /\ rec \in LogRecord /\ rec.before <= stmts /\ rec.after <= stmts
        /\ stmts \in Nat /\ at \in Nat
    <2>1. at \in 1 .. Len(wal)
      BY <1>1, <1>2 DEF IInv, SessionOK, LogsOK
    <2> QED BY <2>1 DEF IInv, SessionOK, LogsOK, LogRowsUpTo
  <1>4. SessionOK' /\ txn' = 0
    BY <1>1, <1>2, <1>3 DEF IInv, SessionOK, Phases, Flushes, Halves, Recoveries
  <1>5. PagesOK'
    <2> DEFINE p == rec.rid[1]
               s == rec.rid[2]
    <2>1. mem \in [Pages -> Page] /\ \A q \in Pages : RowsUpTo(mem[q], stmts)
      BY DEF IInv, PagesOK
    <2>2. rec.before \in Nat /\ rec.after \in Nat /\ rec.lsn \in Nat
      BY <1>3 DEF LogRecord
    <2>3. rec.type \in {"Insert", "Delete"} => p \in Pages /\ s \in Nat \ {0}
      BY <1>3, PlaceIsReal DEF LogRecord
    <2>4. \/ mem' = mem
          \/ rec.type \in {"Insert", "Delete"}
             /\ \E pg \in {RedoSet(mem[p], s, rec.after, rec.lsn), RedoClear(mem[p], s, rec.lsn),
                           RedoSet(mem[p], s, rec.before, 0), RedoClear(mem[p], s, 0)} :
                   mem' = [mem EXCEPT ![p] = pg]
      <3>1. CASE RedoRecord
        BY <3>1 DEF RedoRecord
      <3>2. CASE UndoRecord
        BY <3>2 DEF UndoRecord
      <3> QED BY <3>1, <3>2
    <2> HIDE DEF rec, p, s
    <2>5. ASSUME NEW pg, rec.type \in {"Insert", "Delete"},
                 pg \in {RedoSet(mem[p], s, rec.after, rec.lsn), RedoClear(mem[p], s, rec.lsn),
                         RedoSet(mem[p], s, rec.before, 0), RedoClear(mem[p], s, 0)}
          PROVE  pg \in Page /\ RowsUpTo(pg, stmts)
      <3>1. mem[p] \in Page /\ RowsUpTo(mem[p], stmts) /\ s \in Nat \ {0}
        BY <2>1, <2>3, <2>5
      <3> QED BY <1>3, <2>2, <2>5, <3>1, RedoPages, SMTT(30)
    <2>6. mem' \in [Pages -> Page] /\ \A q \in Pages : RowsUpTo(mem'[q], stmts)
      BY <2>1, <2>3, <2>4, <2>5
    <2> QED BY <1>1, <2>6, PagesRecovered DEF IInv, Recoveries
  <1>6. LogsOK'
    BY <1>1, LogKept DEF IInv, LogsOK, SessionOK
  <1>7. FlushComplete' /\ PagesSafe' /\ Prepared' /\ Unwritten'
    BY <1>1 DEF FlushComplete, PagesSafe, Prepared, Unwritten, Flushes, Halves
  <1> QED BY <1>4, <1>5, <1>6, <1>7, NoTransaction DEF IInv

----------------------------------------------------------------------------
(* The theorems.                                                           *)

LEMMA NextOK == ASSUME IInv, [Next]_vars PROVE IInv'
  <1>1. CASE UNCHANGED vars
    <2>1. UNCHANGED <<mem, os, platter, wal, walPlatter, nextLsn, txn, nextTxn, undo, pc, cur, left,
                      at, stmts, stops, scenario>>
      BY <1>1 DEF vars, pageVars, walVars, txnVars, flow, bounds
    <2>2. SessionOK' /\ PagesOK' /\ LogsOK'
      BY <2>1 DEF IInv, SessionOK, PagesOK, Chained, LogsOK
    <2>3. FlushComplete' /\ PagesSafe' /\ Logged' /\ Prepared' /\ Unwritten' /\ WriteAhead'
      BY <2>1 DEF IInv, FlushComplete, PagesSafe, Logged, Prepared, Unwritten, WriteAhead, InTxn
    <2> QED BY <2>2, <2>3 DEF IInv
  <1>2. CASE Statement
    <2>1. ASSUME NEW p \in Pages, TxnPut(p) \/ UndoStep(p) \/ Put(p) \/ PutReturning(p) PROVE IInv'
      BY <2>1, TxnPutStep, UndoOneStep, UnloggedStep, PutReturningStep
    <2>2. ASSUME NEW r \in LiveRids,
                 \/ TxnRemove(r) \/ Remove(r)
                 \/ \E to \in UpdateTargets(r) : TxnModify(r, to) \/ Modify(r, to)
          PROVE  IInv'
      BY <2>2, TxnRemoveStep, TxnModifyStep, UnloggedStep
    <2> QED BY <1>2, <2>1, <2>2, BeginStep, LogInsertStep, EraseStep, RecordStep, EndStep,
               RollbackStep
            DEF Statement
  <1>3. CASE Flush
    BY <1>3, FlushPageStep, SyncStep, ResetStep DEF Flush
  <1>4. CASE \E p \in Pages : Evict(p)
    BY <1>4, EvictStep
  <1>5. CASE ProcessCrash \/ PowerLoss \/ Close \/ Closed
    BY <1>5, ProcessStep, PowerLossStep, PassStep
  <1>6. CASE Recovery
    BY <1>6, RecordPassStep, PassStep, SyncStep DEF Recovery
  <1> QED BY <1>1, <1>2, <1>3, <1>4, <1>5, <1>6 DEF Next

\* Everything above, in every state of every scenario.
THEOREM Invariance == Spec => []IInv
  BY InitOK, NextOK, PTL DEF Spec

\* The write-ahead rule: no page version with an uncommitted change is on the
\* platter without the log that describes the change (Evict's hook syncs first).
THEOREM WriteAheadHolds == Spec => []WriteAhead
  <1>1. IInv => WriteAhead
    BY DEF IInv
  <1> QED BY <1>1, Invariance, PTL

\* WriteAheadLog::reset, at a checkpoint and after recovery, comes only when every
\* page on the platter is what the program sees.
THEOREM LogOutlives == Spec => LogOutlivesPages
  <1>1. ASSUME IInv, [Next]_vars, wal # << >>, wal' = << >>, stops' = stops
        PROVE  \A p \in Pages : platter[p] = {mem[p]}
    <2>1. ASSUME NEW rec PROVE Append(wal, rec) # << >>
      <3>1. wal \in Seq(LogRecord \cup {rec})
        BY <1>1 DEF IInv, LogsOK
      <3> QED BY <3>1, AppendProperties
    <2>2. \A rec : ~AppendLog(rec)
      BY <1>1, <2>1 DEF AppendLog
    <2>3. stops' # stops + 1 /\ \A pages, log : ~Restart(pages, log)
      BY <1>1 DEF IInv, SessionOK, Restart
    <2>4. ~Statement
      BY <1>1, <2>2
         DEF Statement, Begin, LogInsert, Erase, LogModifyDelete, LogModifyInsert, Commit,
             CommitSync, SyncLog, Rollback, Abort, AbortSync, TxnPut, UndoStep, Put, PutReturning,
             AutoCommit, TxnRemove, Remove, TxnModify, Modify, UpdateWrites, UndoneWrites,
             WrittenBetween, walVars
    <2>5. \A p \in Pages : ~FlushPage(p) /\ ~Evict(p)
      BY <1>1 DEF FlushPage, Evict, SyncLog, walVars
    <2>6. ~SyncPages /\ ~ResetSync /\ ~Close /\ ~Recovery /\ ~UNCHANGED vars
      BY <1>1 DEF SyncPages, ResetSync, Close, Recovery, RedoRecord, RedoDone, UndoRecord, UndoDone,
                  RecoverSync, walVars, vars
    <2>7. ~ProcessCrash /\ ~PowerLoss /\ ~Closed
      BY <2>3 DEF ProcessCrash, PowerLoss, Closed
    <2>8. Truncate
      BY <1>1, <2>4, <2>5, <2>6, <2>7 DEF Next, Flush
    <2> QED BY <1>1, <2>8 DEF Truncate, IInv, PagesSafe
  <1> QED BY <1>1, Invariance, PTL DEF Spec, LogOutlivesPages

=============================================================================
