-------------------------- MODULE CommittedProofs --------------------------
(***************************************************************************)
(* The promise of SAVE and of UNDO, CommittedExactly, proved for any       *)
(* number of pages and every scenario that Kept describes.                 *)
(*                                                                         *)
(* The argument is about layouts, which say what row is at which place.    *)
(* Whatever page versions and whatever log a stop finds, they lead         *)
(* recovery to one layout: for each place, a log and a page version        *)
(* determine the row (Leads), and during a transaction all of them lead to *)
(* the layout at its begin, until the commit record leads the whole log,   *)
(* and no part of it, to what the program sees.                            *)
(***************************************************************************)
EXTENDS DurabilityProofs, FiniteSetTheorems

----------------------------------------------------------------------------
(* Layouts: which row is where.                                            *)

Cell(pg, s) == IF s \in 1 .. Len(pg.slots) THEN pg.slots[s] ELSE Dead
Layout(pages) == [r \in Place |-> Cell(pages[r[1]], r[2])]
Layouts == [Place -> Nat]

With(lay, r, row) == [lay EXCEPT ![r] = row]

\* The rows of a layout are those of S, each at one place.
Exact(lay, S) ==
    /\ Dead \notin S
    /\ \A r \in Place : lay[r] # Dead => lay[r] \in S
    /\ \A row \in S : \E r \in Place : lay[r] = row
    /\ \A q, r \in Place : lay[q] = lay[r] /\ lay[r] # Dead => q = r

\* What the program sees once the removal it is in the middle of is done.
View == IF pc = "erase" THEN With(Layout(mem), cur.rid, Dead) ELSE Layout(mem)

----------------------------------------------------------------------------
(* What recovery makes of a page.                                          *)

Changes(rec, r) == rec.type \in {"Insert", "Delete"} /\ rec.rid = r
On(l, i, r) == i \in 1 .. Len(l) /\ Changes(l[i], r)
Won(l, i) == l[i].txn \in Committed(l)
FirstLost(l, i, r) ==
    On(l, i, r) /\ ~Won(l, i) /\ \A j \in 1 .. Len(l) : On(l, j, r) /\ j < i => Won(l, j)
LastWon(l, i, r) ==
    On(l, i, r) /\ \A j \in 1 .. Len(l) : On(l, j, r) => Won(l, j) /\ j <= i
Free(l, r) == \A i \in 1 .. Len(l) : ~On(l, i, r)

\* Recovery from page version v with log l leaves row g at place r: what was there
\* before the first change that is undone, else what the last change that is redone
\* put there unless the page has it, else what is there.
Leads(v, r, g, l) ==
    /\ \A i \in 1 .. Len(l) : FirstLost(l, i, r) => g = l[i].before
    /\ \A i \in 1 .. Len(l) :
          LastWon(l, i, r) => g = IF l[i].lsn > v.lsn THEN l[i].after ELSE Cell(v, r[2])
    /\ Free(l, r) => g = Cell(v, r[2])

LeadsPage(v, p, lay, l) == \A r \in Place : r[1] = p => Leads(v, r, lay[r], l)

WellFormed(l) ==
    \A i \in 1 .. Len(l) : /\ l[i].lsn = i
                           /\ l[i].type = "Insert" => l[i].before = Dead
                           /\ l[i].type = "Delete" => l[i].after = Dead

----------------------------------------------------------------------------
(* The inductive invariant.                                                *)

\* What the next stop may find.
MayStop == stops < scenario.stops
Versions(p) == IF "power" \in scenario.faults THEN platter[p] ELSE {os[p]}
Logs == IF "power" \in scenario.faults THEN walPlatter ELSE {wal}

Basics ==
    /\ Kept(scenario) /\ logs \in Nat \ {0} /\ stmts <= scenario.stmts
    /\ stable \subseteq 1 .. stmts /\ pending \subseteq 1 .. stmts
    /\ wal \in walPlatter /\ \A p \in Pages : os[p] \in platter[p]
    /\ pc \in {"erase", "commitSync", "undo", "abortSync"} \cup Halves => txn # 0

LogsGood ==
    MayStop => \A l \in Logs : /\ WellFormed(Readable(l))
                               /\ Readable(l) = << >> => l = << >>

\* A page has an LSN only after a recovery; from then on there is no log, or the
\* log being recovered from.
AllZero == \A p \in Pages : mem[p].lsn = 0 /\ \A v \in Versions(p) : v.lsn = 0
ZeroInv ==
    MayStop =>
       \/ AllZero
       \/ /\ pc \in Recoveries \cup {"truncate"} /\ stops > 0
          /\ Logs = {wal} /\ Readable(wal) # << >>
       \/ logs > scenario.logs /\ wal = << >> /\ txn = 0 /\ stops > 0

\* The log between recoveries.
HasSlot(r) == r[2] <= Len(mem[r[1]].slots)
Resets == {"truncate", "resetSync"}
KnownTxns ==
    /\ txn < nextTxn
    /\ \A k \in 1 .. Len(wal) : wal[k].txn # 0 /\ wal[k].txn < nextTxn
TxnIsLast ==
    txn # 0 => \A j, k \in 1 .. Len(wal) : wal[j].txn = txn /\ j <= k => wal[k].txn = txn
Uncommitted == txn # 0 /\ pc # "commitSync" => txn \notin Committed(wal)
SlotsLogged == \A r \in Place : ~Free(wal, r) => HasSlot(r)
InsertsOnly ==
    \A r \in Place, j, k \in 1 .. Len(wal) :
        On(wal, j, r) /\ On(wal, k, r) => j = k /\ wal[k].type = "Insert"
OthersCommitted ==
    \A k \in 1 .. Len(wal) :
        wal[k].txn \in Committed(wal) \/ (wal[k].txn = txn /\ pc # "commitSync")
LogShape ==
    /\ Readable(wal) = wal /\ nextLsn = Len(wal) + 1
    /\ KnownTxns /\ TxnIsLast /\ Uncommitted /\ SlotsLogged
    /\ IF "undo" \in scenario.work THEN InsertsOnly ELSE OthersCommitted
WalShape == MayStop /\ pc \notin Recoveries \cup Resets => LogShape

\* Between statements, outside a transaction.
Steady ==
    \A r \in Place : \A v \in Versions(r[1]) \cup {mem[r[1]]} :
        Leads(v, r, Layout(mem)[r], Readable(wal))
IdleInv ==
    pc \in {"ready", "closeFlush"} /\ txn = 0 =>
       /\ pending = stable /\ Exact(Layout(mem), stable)
       /\ MayStop => Logs = {wal} /\ Steady

\* Flushing: a row put outside a transaction may be on the platter or not.
Halfway(lay, one) ==
    /\ Exact(lay, stable)
    /\ \A r \in Place : r # one => lay[r] = Layout(mem)[r]
    /\ \A p \in Pages : LeadsPage(mem[p], p, Layout(mem), Readable(wal))
    /\ \A p \in Pages : \A v \in Versions(p) : \/ LeadsPage(v, p, Layout(mem), Readable(wal))
                                               \/ LeadsPage(v, p, lay, Readable(wal))
FlushInv ==
    pc = "flush" =>
       /\ Exact(Layout(mem), pending)
       /\ MayStop => Logs = {wal} /\ \E lay \in Layouts, one \in Place \cup {NoRid} : Halfway(lay, one)

\* Inside a transaction: the undo list leads back.
Olds(u) == {u[i].old : i \in 1 .. Len(u)} \ {Dead}
News(u) == {u[i].new : i \in 1 .. Len(u)} \ {Dead}
Undoable(u, lay) ==
    /\ Exact(lay, (stable \ Olds(u)) \cup News(u))
    /\ Olds(u) \subseteq stable /\ News(u) \cap stable = {}
    /\ \A i \in 1 .. Len(u) : /\ u[i].to # NoRid <=> u[i].new # Dead
                              /\ u[i].to # NoRid => lay[u[i].to] = u[i].new
    /\ \A i, j \in 1 .. Len(u) :
          i # j => /\ u[i].old # Dead => u[i].old # u[j].old
                   /\ u[i].new # Dead => u[i].new # u[j].new
Todo == IF pc \in Halves THEN Append(undo, cur) ELSE undo

Acting == {"ready", "erase", "commitSync"} \cup Halves
TxnInv ==
    txn # 0 =>
       /\ pc \in Acting => Exact(View, pending)
       /\ pc \in Halves => cur.new # Dead /\ Layout(mem)[cur.to] = cur.new
       /\ pc \in {"erase", "logModifyDelete", "logModifyInsert"} =>
             {"txnRemove", "txnModify"} \cap scenario.work # {}
       /\ pc \in {"undo", "abortSync"} => "undo" \in scenario.work
       /\ pc = "logModifyDelete" => HasSlot(cur.rid)
       /\ pc = "logInsert" => cur.rid = NoRid /\ cur.old = Dead
       /\ pc \in {"logModifyDelete", "logModifyInsert"} /\ cur.rid # cur.to =>
             Layout(mem)[cur.rid] = Dead
       /\ "undo" \in scenario.work /\ pc \in {"ready", "erase", "undo"} \cup Halves =>
             Undoable(Todo, View)
       /\ pc = "abortSync" => Exact(Layout(mem), stable)

\* Inside a transaction: every log and page version lead back to one layout, the one
\* at its begin, and the log tells where the program's view is another.
Own(i, r) == On(wal, i, r) /\ wal[i].txn = txn
NoOwn(r) == \A i \in 1 .. Len(wal) : ~Own(i, r)
OwnLast(i, r) == Own(i, r) /\ \A j \in 1 .. Len(wal) : Own(j, r) => j <= i
Unlogged ==
    CASE pc \in {"logInsert", "logModifyInsert"} -> {cur.to}
      [] pc = "logModifyDelete" -> {cur.rid, cur.to}
      [] OTHER -> {}
Explains(l, lay) ==
    \A r \in Place : \A v \in Versions(r[1]) : Leads(v, r, lay[r], Readable(l))
Shown(lay) ==
    \A r \in Place \ Unlogged :
       /\ NoOwn(r) => View[r] = lay[r]
       /\ \A i \in 1 .. Len(wal) : OwnLast(i, r) => View[r] = wal[i].after
Fresh(lay) ==
    /\ cur.to # cur.rid => NoOwn(cur.to) /\ lay[cur.to] = Dead
    /\ pc = "logInsert" => Free(wal, cur.to)
    /\ pc = "logModifyDelete" /\ NoOwn(cur.rid) => lay[cur.rid] = cur.old
    /\ pc = "logModifyInsert" /\ cur.to = cur.rid => ~NoOwn(cur.to)
Rolling(lay) ==
    /\ \A i \in 1 .. Len(undo) :
          undo[i].old = Dead /\ (undo[i].to # NoRid => ~NoOwn(undo[i].to))
    /\ \A r \in Place :
          ~NoOwn(r) => Layout(mem)[r] = Dead \/ \E i \in 1 .. Len(undo) : undo[i].to = r
    /\ pc = "undo" => \A r \in Place : NoOwn(r) => Layout(mem)[r] = lay[r]
Opened(lay) ==
    /\ Exact(lay, stable)
    /\ \A l \in Logs : pc # "commitSync" \/ l # wal => Explains(l, lay)
    /\ pc = "commitSync" => Explains(wal, Layout(mem))
    /\ pc \in {"ready", "erase"} \cup Halves => Shown(lay)
    /\ pc = "erase" => ~NoOwn(cur.rid)
    /\ pc \in Halves => Fresh(lay)
    /\ "undo" \in scenario.work /\ pc \in {"ready", "logInsert", "undo"} => Rolling(lay)
    /\ pc = "abortSync" => lay = Layout(mem)
OpenInv == txn # 0 /\ MayStop => \E lay \in Layouts : Opened(lay)

\* Recovery, the two passes.
Outcome(lay) == Exact(lay, stable) \/ Exact(lay, pending)
Recovering(lay, l) ==
    /\ Outcome(lay) /\ WellFormed(l)
    /\ \A r \in Place : Leads(mem[r[1]], r, lay[r], l)
    /\ MayStop => Explains(wal, lay)
    /\ \A i \in 1 .. Len(l), r \in Place :
          On(l, i, r) /\ Won(l, i) /\ (pc = "redo" => i < at) => i <= mem[r[1]].lsn
    /\ pc = "undoLosers" =>
          \A i \in 1 .. Len(l), r \in Place :
             FirstLost(l, i, r) /\ i > at => Layout(mem)[r] = lay[r]
RedoInv ==
    pc \in {"redo", "undoLosers"} =>
       /\ stops > 0
       /\ MayStop => Logs = {wal}
       /\ \E lay \in Layouts : Recovering(lay, Readable(wal))

\* From the end of recovery, or of a flush, until the log is reset.
ResetInv ==
    pc \in Resets \cup {"recoverFlush"} =>
       /\ Outcome(Layout(mem))
       /\ MayStop /\ pc = "recoverFlush" => Logs = {wal} /\ Steady
       /\ MayStop /\ pc \in Resets =>
             /\ \A p \in Pages : Versions(p) = {mem[p]}
             /\ \A l \in Logs, r \in Place : Leads(mem[r[1]], r, Layout(mem)[r], Readable(l))
       /\ MayStop /\ pc = "truncate" => Logs = {wal}
       /\ pc = "resetSync" => wal = << >>

CRest ==
    /\ Basics /\ LogsGood /\ ZeroInv /\ WalShape
    /\ IdleInv /\ FlushInv /\ TxnInv /\ OpenInv /\ RedoInv /\ ResetInv
CInv == IInv /\ CRest

----------------------------------------------------------------------------
(* Layouts.                                                                *)

LEMMA WithIs ==
    ASSUME NEW lay \in Layouts, NEW r \in Place, NEW row \in Nat
    PROVE  /\ With(lay, r, row) \in Layouts /\ With(lay, r, row)[r] = row
           /\ \A q \in Place : q # r => With(lay, r, row)[q] = lay[q]
  BY DEF Layouts, With

LEMMA ExactAdd ==
    ASSUME NEW lay \in Layouts, NEW S, Exact(lay, S), NEW r \in Place, lay[r] = Dead,
           NEW row \in Nat, row # Dead, row \notin S
    PROVE  Exact(With(lay, r, row), S \cup {row})
  <1> DEFINE new == With(lay, r, row)
  <1>1. new \in Layouts /\ new[r] = row /\ \A q \in Place : q # r => new[q] = lay[q]
    BY WithIs
  <1> HIDE DEF new
  <1>2. \A q \in Place : new[q] # Dead => new[q] \in S \cup {row}
    BY <1>1 DEF Exact
  <1>3. ASSUME NEW x \in S \cup {row} PROVE \E q \in Place : new[q] = x
    <2>1. CASE x = row
      BY <1>1, <2>1
    <2>2. CASE x \in S
      <3>1. PICK q \in Place : lay[q] = x
        BY <2>2 DEF Exact
      <3>2. q # r
        BY <2>2, <3>1 DEF Exact
      <3> QED BY <1>1, <3>1, <3>2
    <2> QED BY <2>1, <2>2
  <1>4. \A q1, q2 \in Place : new[q1] = new[q2] /\ new[q2] # Dead => q1 = q2
    BY <1>1 DEF Exact
  <1> QED BY <1>1, <1>2, <1>3, <1>4 DEF Exact, new

LEMMA ExactDrop ==
    ASSUME NEW lay \in Layouts, NEW S, Exact(lay, S), NEW r \in Place, lay[r] # Dead
    PROVE  Exact(With(lay, r, Dead), S \ {lay[r]})
  <1> DEFINE new == With(lay, r, Dead)
  <1>1. new \in Layouts /\ new[r] = Dead /\ \A q \in Place : q # r => new[q] = lay[q]
    BY WithIs DEF Dead
  <1> HIDE DEF new
  <1>2. \A q \in Place : new[q] # Dead => new[q] \in S \ {lay[r]}
    BY <1>1 DEF Exact
  <1>3. \A x \in S \ {lay[r]} : \E q \in Place : new[q] = x
    BY <1>1 DEF Exact
  <1>4. \A q1, q2 \in Place : new[q1] = new[q2] /\ new[q2] # Dead => q1 = q2
    BY <1>1 DEF Exact
  <1> QED BY <1>1, <1>2, <1>3, <1>4 DEF Exact, new

\* A layout tells which rows it is exact for.
LEMMA ExactSame ==
    ASSUME NEW lay, NEW S, NEW T, Exact(lay, S), Exact(lay, T)
    PROVE  S = T
  <1>1. \A x \in S : x \in T
    BY DEF Exact
  <1>2. \A x \in T : x \in S
    BY DEF Exact
  <1> QED BY <1>1, <1>2

\* What the scan counts.
LEMMA ExactIsExactly ==
    ASSUME NEW pages \in [Pages -> Page], NEW S, Exact(Layout(pages), S)
    PROVE  Exactly(pages, S)
  <1> DEFINE found(row) == {q \in Scanned(pages) : pages[q[1]].slots[q[2]] = row}
  <1>1. ASSUME NEW q \in Scanned(pages)
        PROVE  q \in Place /\ Layout(pages)[q] = pages[q[1]].slots[q[2]]
    <2>1. PICK p \in Pages : q \in {p} \X (1 .. Len(pages[p].slots))
      BY DEF Scanned
    <2>2. pages[p].slots \in Seq(Nat) /\ Len(pages[p].slots) \in Nat
      BY DEF Page
    <2>3. q \in Place /\ q[1] = p /\ q[2] \in 1 .. Len(pages[p].slots)
      BY <2>1, <2>2 DEF Place
    <2> QED BY <2>3 DEF Layout, Cell
  <1>2. ASSUME NEW q \in Place, Layout(pages)[q] # Dead
        PROVE  q \in Scanned(pages)
    <2>1. q[1] \in Pages /\ q[2] \in 1 .. Len(pages[q[1]].slots) /\ q = <<q[1], q[2]>>
      BY <1>2 DEF Place, Layout, Cell
    <2>2. q \in {q[1]} \X (1 .. Len(pages[q[1]].slots))
      BY <2>1
    <2> QED BY <2>1, <2>2 DEF Scanned
  <1>3. ASSUME NEW row \in Rows
        PROVE  Cardinality(found(row)) = IF row \in S THEN 1 ELSE 0
    <2>1. row # Dead
      BY DEF Rows, Dead
    <2>2. CASE row \in S
      <3>1. PICK q \in Place : Layout(pages)[q] = row
        BY <2>2 DEF Exact
      <3>2. q \in found(row)
        BY <1>1, <1>2, <2>1, <3>1
      <3>3. \A x \in found(row) : x = q
        BY <1>1, <2>1, <3>1 DEF Exact
      <3>4. found(row) = {q}
        BY <3>2, <3>3
      <3> HIDE DEF found
      <3> QED BY <2>2, <3>4, FS_Singleton
    <2>3. CASE row \notin S
      <3>1. \A x \in found(row) : FALSE
        BY <1>1, <2>1, <2>3 DEF Exact
      <3>2. found(row) = {}
        BY <3>1
      <3> HIDE DEF found
      <3> QED BY <2>3, <3>2, FS_EmptySet
    <2> QED BY <2>2, <2>3
  <1> QED BY <1>3 DEF Exactly

\* DB::DB and ResetSync: the outcome of what a stop interrupted is settled.
LEMMA Settled ==
    ASSUME NEW pages \in [Pages -> Page], SessionOK, stmts <= scenario.stmts,
           NEW old, NEW rows, old \subseteq 1 .. stmts, rows \subseteq 1 .. stmts,
           Exact(Layout(pages), old) \/ Exact(Layout(pages), rows),
           NEW now, now = IF Exactly(pages, rows) THEN rows ELSE old
    PROVE  Exact(Layout(pages), now)
  <1>1. CASE Exact(Layout(pages), rows)
    BY <1>1, ExactIsExactly
  <1>2. CASE Exact(Layout(pages), old) /\ Exactly(pages, rows)
    <2>1. Exactly(pages, old)
      BY <1>2, ExactIsExactly
    <2>2. old \subseteq Rows /\ rows \subseteq Rows
      <3>1. stmts \in Nat /\ scenario.stmts \in Nat
        BY DEF SessionOK, Scenario
      <3> QED BY <3>1 DEF Rows
    <2>3. ASSUME NEW row \in Rows PROVE row \in old <=> row \in rows
      <3>1. (IF row \in old THEN 1 ELSE 0) = (IF row \in rows THEN 1 ELSE 0)
        BY <1>2, <2>1 DEF Exactly
      <3> QED BY <3>1
    <2>4. old = rows
      BY <2>2, <2>3
    <2> QED BY <1>2, <2>4
  <1>3. CASE Exact(Layout(pages), old) /\ ~Exactly(pages, rows)
    BY <1>3
  <1> QED BY <1>1, <1>2, <1>3

LEMMA LayoutType ==
    ASSUME NEW pages \in [Pages -> Page]
    PROVE  /\ Layout(pages) \in Layouts
           /\ \A r \in Place : Layout(pages)[r] = Cell(pages[r[1]], r[2])
  <1>1. ASSUME NEW r \in Place PROVE Cell(pages[r[1]], r[2]) \in Nat
    <2>1. pages[r[1]].slots \in Seq(Nat)
      BY DEF Place, Page
    <2> QED BY <2>1, SMTT(30) DEF Cell, Dead
  <1> QED BY <1>1 DEF Layout, Layouts

LEMMA LayoutsEqual ==
    ASSUME NEW a \in Layouts, NEW b \in Layouts, \A r \in Place : a[r] = b[r]
    PROVE  a = b
  BY DEF Layouts

\* Statements leave the LSN of a page alone.
SameLsn(pages, new) == \A p \in Pages : new[p].lsn = pages[p].lsn

SameLens(pages, new) == \A p \in Pages : Len(new[p].slots) = Len(pages[p].slots)

\* One slot of one page gets another row.
SlotsAre(pages, new, p, x) == new = [pages EXCEPT ![p].slots = x]
OneSlot(x, pg, s, row) ==
    \A i \in Nat \ {0} : (IF i \in 1 .. Len(x) THEN x[i] ELSE Dead)
                             = IF i = s THEN row ELSE Cell(pg, i)
LEMMA LayoutSlot ==
    ASSUME NEW pages \in [Pages -> Page], NEW p \in Pages, NEW x \in Seq(Nat),
           NEW new, SlotsAre(pages, new, p, x), NEW s \in Nat \ {0}, NEW row \in Nat,
           OneSlot(x, pages[p], s, row)
    PROVE  /\ <<p, s>> \in Place /\ Layout(new) = With(Layout(pages), <<p, s>>, row)
           /\ SameLsn(pages, new)
  <1>1. /\ new \in [Pages -> Page] /\ new[p].slots = x
        /\ \A q \in Pages \ {p} : new[q] = pages[q]
    BY SlotsReplaced DEF SlotsAre
  <1>2. new[p].lsn = pages[p].lsn
    BY DEF Page, SlotsAre
  <1>3. <<p, s>> \in Place
    BY DEF Place
  <1>4. ASSUME NEW r \in Place
        PROVE  Cell(new[r[1]], r[2]) = IF r = <<p, s>> THEN row ELSE Cell(pages[r[1]], r[2])
    <2>1. r[1] \in Pages /\ r[2] \in Nat \ {0} /\ r = <<r[1], r[2]>>
      BY DEF Place
    <2>2. CASE r[1] = p
      <3>1. Cell(new[p], r[2]) = IF r[2] = s THEN row ELSE Cell(pages[p], r[2])
        BY <1>1, <2>1 DEF Cell, OneSlot
      <3> QED BY <2>1, <2>2, <3>1
    <2>3. CASE r[1] # p
      BY <1>1, <2>1, <2>3
    <2> QED BY <2>2, <2>3
  <1>5. Layout(new) = With(Layout(pages), <<p, s>>, row)
    BY <1>3, <1>4 DEF Layout, With
  <1> QED BY <1>1, <1>2, <1>3, <1>5 DEF SameLsn

LEMMA SeqExcept ==
    ASSUME NEW old \in Seq(Nat), NEW i \in Nat, NEW row \in Nat
    PROVE  /\ [old EXCEPT ![i] = row] \in Seq(Nat) /\ Len([old EXCEPT ![i] = row]) = Len(old)
           /\ \A j \in 1 .. Len(old) : [old EXCEPT ![i] = row][j] = IF j = i THEN row ELSE old[j]
  <1> DEFINE x == [old EXCEPT ![i] = row]
  <1>1. Len(old) \in Nat /\ old \in [1 .. Len(old) -> Nat]
    OBVIOUS
  <1>2. x \in [1 .. Len(old) -> Nat] /\ \A j \in 1 .. Len(old) : x[j] = IF j = i THEN row ELSE old[j]
    BY <1>1
  <1> HIDE DEF x
  <1>3. x \in Seq(Nat) /\ Len(x) = Len(old)
    BY <1>1, <1>2
  <1> QED BY <1>2, <1>3 DEF x

LEMMA LayoutInserted ==
    ASSUME NEW pages \in [Pages -> Page], NEW p \in Pages, NEW row \in Nat,
           NEW to, to = <<p, Len(pages[p].slots) + 1>>
    PROVE  /\ to \in Place /\ Layout(pages)[to] = Dead
           /\ Layout(Inserted(pages, p, row)) = With(Layout(pages), to, row)
           /\ SameLsn(pages, Inserted(pages, p, row))
  <1> DEFINE old == pages[p].slots
             n == Len(old) + 1
             x == Append(old, row)
  <1>1. old \in Seq(Nat) /\ Len(old) \in Nat
    BY DEF Page
  <1>2. x \in Seq(Nat) /\ Len(x) = n /\ x[n] = row /\ \A i \in 1 .. Len(old) : x[i] = old[i]
    BY <1>1
  <1>3. Inserted(pages, p, row) = [pages EXCEPT ![p].slots = x]
    BY DEF Inserted
  <1>4. n \in Nat \ {0} /\ Cell(pages[p], n) = Dead
    BY <1>1 DEF Cell
  <1> HIDE DEF x
  <1>5. OneSlot(x, pages[p], n, row)
    BY <1>1, <1>2 DEF Cell, OneSlot
  <1>6. to \in Place /\ Layout(Inserted(pages, p, row)) = With(Layout(pages), to, row)
        /\ SameLsn(pages, Inserted(pages, p, row))
    <2> DEFINE new == Inserted(pages, p, row)
    <2>1. to = <<p, n>>
      OBVIOUS
    <2>2. SlotsAre(pages, new, p, x)
      BY <1>3 DEF SlotsAre
    <2> HIDE DEF n, new
    <2>3. /\ <<p, n>> \in Place /\ Layout(new) = With(Layout(pages), <<p, n>>, row)
          /\ SameLsn(pages, new)
      BY <1>2, <1>4, <1>5, <2>2, LayoutSlot
    <2> QED BY <2>1, <2>3 DEF new
  <1>7. Layout(pages)[to] = Dead
    BY <1>4, <1>6, LayoutType
  <1> QED BY <1>6, <1>7

LEMMA LayoutOverwritten ==
    ASSUME NEW pages \in [Pages -> Page], NEW r \in Place, NEW row \in Nat,
           r[2] <= Len(pages[r[1]].slots) \/ row = Dead
    PROVE  /\ Layout(Overwritten(pages, r, row)) = With(Layout(pages), r, row)
           /\ SameLsn(pages, Overwritten(pages, r, row))
           /\ SameLens(pages, Overwritten(pages, r, row))
  <1> DEFINE old == pages[r[1]].slots
             x == [old EXCEPT ![r[2]] = row]
  <1>1. r[1] \in Pages /\ r[2] \in Nat \ {0} /\ r = <<r[1], r[2]>>
    BY DEF Place
  <1>2. old \in Seq(Nat) /\ Len(old) \in Nat /\ (r[2] \in 1 .. Len(old) \/ row = Dead)
    BY <1>1 DEF Page
  <1>3. x \in Seq(Nat) /\ Len(x) = Len(old)
        /\ \A i \in 1 .. Len(old) : x[i] = IF i = r[2] THEN row ELSE old[i]
    <2> HIDE DEF old
    <2> QED BY <1>1, <1>2, SeqExcept
  <1>4. Overwritten(pages, r, row) = [pages EXCEPT ![r[1]].slots = x]
    BY DEF Overwritten
  <1> HIDE DEF x
  <1>5. OneSlot(x, pages[r[1]], r[2], row)
    BY <1>2, <1>3 DEF Cell, OneSlot
  <1> DEFINE new == Overwritten(pages, r, row)
  <1>6. SlotsAre(pages, new, r[1], x) /\ row \in Nat
    BY <1>4 DEF Dead, SlotsAre
  <1> HIDE DEF new
  <1>7. /\ Layout(new) = With(Layout(pages), <<r[1], r[2]>>, row)
        /\ SameLsn(pages, new)
    <2>1. ASSUME NEW p \in Pages, NEW s \in Nat \ {0}, SlotsAre(pages, new, p, x),
                 OneSlot(x, pages[p], s, row)
          PROVE  Layout(new) = With(Layout(pages), <<p, s>>, row) /\ SameLsn(pages, new)
      BY <1>3, <1>6, <2>1, LayoutSlot
    <2> QED BY <1>1, <1>5, <1>6, <2>1
  <1>8. SameLens(pages, new)
    <2>1. new[r[1]].slots = x /\ \A q \in Pages \ {r[1]} : new[q] = pages[q]
      BY <1>1, <1>3, <1>6, SlotsReplaced DEF SlotsAre
    <2> QED BY <1>3, <2>1 DEF SameLens
  <1> QED BY <1>1, <1>7, <1>8 DEF new

LEMMA LayoutErased ==
    ASSUME NEW pages \in [Pages -> Page], NEW r \in Place
    PROVE  /\ Layout(Erased(pages, r)) = With(Layout(pages), r, Dead)
           /\ SameLsn(pages, Erased(pages, r)) /\ SameLens(pages, Erased(pages, r))
  <1>1. Erased(pages, r) = Overwritten(pages, r, Dead)
    BY DEF Erased, Overwritten
  <1> QED BY <1>1, LayoutOverwritten DEF Dead

\* updateTuple.
LEMMA LayoutUpdated ==
    ASSUME SessionOK, PagesOK, NEW r \in LiveRids, NEW to \in UpdateTargets(r), NEW row \in Nat
    PROVE  /\ With(Layout(mem), r, Dead)[to] = Dead
           /\ Layout(UpdateTuple(r, to, row)) = With(With(Layout(mem), r, Dead), to, row)
           /\ SameLsn(mem, UpdateTuple(r, to, row))
           /\ to # r => Layout(mem)[to] = Dead
  <1> DEFINE gone == Erased(mem, r)
  <1>1. mem \in [Pages -> Page] /\ r \in Place /\ r[2] <= Len(mem[r[1]].slots) /\ to \in Place
    BY LiveRow, Updated DEF PagesOK
  <1>2. /\ gone \in [Pages -> Page] /\ Layout(gone) = With(Layout(mem), r, Dead)
        /\ SameLsn(mem, gone) /\ SameLens(mem, gone)
    BY <1>1, LayoutErased, ErasedGrows DEF Grows
  <1>3. Layout(mem) \in Layouts /\ Layout(gone) \in Layouts
    BY <1>1, <1>2, LayoutType
  <1> HIDE DEF gone
  <1>4. CASE to = r
    <2>1. UpdateTuple(r, to, row) = Overwritten(mem, r, row)
      BY <1>4 DEF UpdateTuple
    <2>2. /\ Layout(UpdateTuple(r, to, row)) = With(Layout(mem), r, row)
          /\ SameLsn(mem, UpdateTuple(r, to, row))
      BY <1>1, <2>1, LayoutOverwritten
    <2>3. With(With(Layout(mem), r, Dead), r, row) = With(Layout(mem), r, row)
      BY <1>1, <1>3 DEF With, Layouts
    <2>4. With(Layout(mem), r, Dead)[r] = Dead
      BY <1>1, <1>3 DEF With, Layouts
    <2> QED BY <1>4, <2>2, <2>3, <2>4
  <1>5. CASE to # r
    <2>1. PICK p \in Pages : to = InsertAt(p)
      BY <1>5 DEF UpdateTargets
    <2>2. to = <<p, Len(mem[p].slots) + 1>> /\ to = <<p, Len(gone[p].slots) + 1>> /\ to[1] = p
      BY <1>2, <2>1 DEF InsertAt, SameLens
    <2>3. UpdateTuple(r, to, row) = Inserted(gone, p, row)
      BY <1>5, <2>2 DEF UpdateTuple, gone
    <2>4. /\ Layout(gone)[to] = Dead
          /\ Layout(Inserted(gone, p, row)) = With(Layout(gone), to, row)
          /\ SameLsn(gone, Inserted(gone, p, row))
      BY <1>2, <2>2, LayoutInserted
    <2>5. Layout(mem)[to] = Dead
      BY <1>1, <2>2, LayoutInserted
    <2>6. SameLsn(mem, UpdateTuple(r, to, row))
      BY <1>2, <2>3, <2>4 DEF SameLsn
    <2> QED BY <1>2, <2>3, <2>4, <2>5, <2>6
  <1> QED BY <1>4, <1>5

\* What a scan finds is in the layout.
LEMMA LiveCell ==
    ASSUME SessionOK, PagesOK, NEW r \in LiveRids
    PROVE  Layout(mem)[r] = RowAt(r) /\ RowAt(r) # Dead
  <1>1. r \in Place /\ r[1] \in Pages /\ r[2] \in Nat \ {0} /\ r[2] <= Len(mem[r[1]].slots)
    BY LiveRow, PlaceIsReal
  <1>2. Len(mem[r[1]].slots) \in Nat
    BY <1>1 DEF PagesOK, Page
  <1>3. Layout(mem)[r] = mem[r[1]].slots[r[2]]
    BY <1>1, <1>2 DEF Layout, Cell
  <1> QED BY <1>3, LiveRow DEF RowAt

\* A row that is somewhere is at a slot of its page.
LEMMA CellHasSlot ==
    ASSUME NEW pages \in [Pages -> Page], NEW r \in Place, Layout(pages)[r] # Dead
    PROVE  r[2] <= Len(pages[r[1]].slots)
  BY DEF Layout, Cell, Place, Page

\* No row is in the pages before the statement that writes it.
LEMMA NewRowIsNew ==
    ASSUME SessionOK, PagesOK, Basics
    PROVE  /\ NewRow \in Nat /\ NewRow # Dead /\ NewRow \notin stable /\ NewRow \notin pending
           /\ \A r \in Place : Layout(mem)[r] # NewRow
  <1>1. stmts \in Nat /\ NewRow = stmts + 1
    BY DEF SessionOK, NewRow
  <1>2. stable \subseteq 1 .. stmts /\ pending \subseteq 1 .. stmts
    BY DEF Basics
  <1>3. ASSUME NEW r \in Place PROVE Layout(mem)[r] <= stmts /\ Layout(mem)[r] \in Nat
    <2>1. mem[r[1]] \in Page /\ RowsUpTo(mem[r[1]], stmts)
      BY PlaceIsReal DEF PagesOK
    <2>2. mem[r[1]].slots \in Seq(Nat)
      BY <2>1 DEF Page
    <2> QED BY <1>1, <2>1, <2>2, SMTT(30) DEF Layout, Cell, RowsUpTo, Dead
  <1> QED BY <1>1, <1>2, <1>3 DEF Dead

----------------------------------------------------------------------------
(* The log.                                                                *)

\* readAll stops before the first torn record.
LEMMA ReadableIs ==
    ASSUME NEW l \in Seq(LogRecord)
    PROVE  /\ Readable(l) \in Seq(LogRecord) /\ Len(Readable(l)) <= Len(l)
           /\ \A i \in 1 .. Len(Readable(l)) : Readable(l)[i] = l[i] /\ l[i].type # "Torn"
           /\ Len(Readable(l)) < Len(l) => l[Len(Readable(l)) + 1].type = "Torn"
           /\ Len(Readable(l)) = Len(l) => Readable(l) = l
  <1> DEFINE torn == {i \in 1 .. Len(l) : l[i].type = "Torn"}
             first == CHOOSE i \in torn : \A j \in torn : i <= j
  <1>1. CASE torn = {}
    <2>1. Readable(l) = l
      BY <1>1 DEF Readable
    <2>2. \A i \in 1 .. Len(l) : l[i].type # "Torn"
      BY <1>1
    <2> QED BY <2>1, <2>2
  <1>2. CASE torn # {}
    <2>1. torn \in SUBSET Nat
      OBVIOUS
    <2>2. \E i \in torn : \A j \in torn : i <= j
      BY <1>2, <2>1, LeastNumber
    <2>3. first \in torn /\ \A j \in torn : first <= j
      BY <2>2
    <2>4. Readable(l) = SubSeq(l, 1, first - 1)
      BY <1>2 DEF Readable
    <2> HIDE DEF first
    <2>5. first \in 1 .. Len(l) /\ l[first].type = "Torn"
      BY <2>3
    <2>6. /\ Readable(l) \in Seq(LogRecord) /\ Len(Readable(l)) = first - 1
          /\ \A i \in 1 .. first - 1 : Readable(l)[i] = l[i]
      BY <2>4, <2>5
    <2>7. \A i \in 1 .. first - 1 : i \notin torn /\ i \in 1 .. Len(l)
      BY <2>3, <2>5
    <2>8. \A i \in 1 .. first - 1 : l[i].type # "Torn"
      BY <2>7
    <2> QED BY <2>5, <2>6, <2>8
  <1> QED BY <1>1, <1>2

\* A torn record at the end changes nothing.
LEMMA ReadableTorn ==
    ASSUME NEW l \in Seq(LogRecord)
    PROVE  Readable(Append(l, Torn)) = Readable(l)
  <1> DEFINE new == Append(l, Torn)
             n == Len(Readable(l))
             m == Len(Readable(new))
  <1>1. Torn \in LogRecord /\ Torn.type = "Torn"
    BY DEF Torn, LogRecord, RecordTypes, Dead
  <1>2. /\ new \in Seq(LogRecord) /\ Len(new) = Len(l) + 1 /\ new[Len(l) + 1] = Torn
        /\ \A i \in 1 .. Len(l) : new[i] = l[i]
    BY <1>1
  <1> HIDE DEF new
  <1>3. /\ Readable(l) \in Seq(LogRecord) /\ n \in Nat /\ n <= Len(l) /\ Len(l) \in Nat
        /\ \A i \in 1 .. n : Readable(l)[i] = l[i] /\ l[i].type # "Torn"
        /\ n < Len(l) => l[n + 1].type = "Torn"
    BY ReadableIs
  <1>4. /\ Readable(new) \in Seq(LogRecord) /\ m \in Nat /\ m <= Len(l) + 1
        /\ \A i \in 1 .. m : Readable(new)[i] = new[i] /\ new[i].type # "Torn"
        /\ m < Len(l) + 1 => new[m + 1].type = "Torn"
    BY <1>2, ReadableIs
  <1> HIDE DEF n, m
  <1>5. ~(m < n)
    <2>1. SUFFICES ASSUME m < n PROVE FALSE
      OBVIOUS
    <2>2. m + 1 \in 1 .. n /\ m + 1 \in 1 .. Len(l) /\ m < Len(l) + 1
      BY <1>3, <1>4, <2>1
    <2> QED BY <1>2, <1>3, <1>4, <2>2
  <1>6. ~(n < m)
    <2>1. SUFFICES ASSUME n < m PROVE FALSE
      OBVIOUS
    <2>2. n + 1 \in 1 .. m
      BY <1>3, <1>4, <2>1
    <2>3. new[n + 1].type = "Torn"
      <3>1. CASE n < Len(l)
        BY <1>2, <1>3, <3>1
      <3>2. CASE n = Len(l)
        BY <1>1, <1>2, <3>2
      <3> QED BY <1>3, <3>1, <3>2
    <2> QED BY <1>4, <2>2, <2>3
  <1>7. n = m
    BY <1>3, <1>4, <1>5, <1>6
  <1>8. \A i \in 1 .. n : Readable(new)[i] = Readable(l)[i]
    BY <1>2, <1>3, <1>4, <1>7
  <1> QED BY <1>3, <1>4, <1>7, <1>8 DEF new, n, m

\* What is appended to a log without a torn record can be read.
LEMMA ReadableAppend ==
    ASSUME NEW l \in Seq(LogRecord), Readable(l) = l, NEW rec \in LogRecord, rec.type # "Torn"
    PROVE  Readable(Append(l, rec)) = Append(l, rec)
  <1> DEFINE new == Append(l, rec)
             m == Len(Readable(new))
  <1>1. /\ new \in Seq(LogRecord) /\ Len(new) = Len(l) + 1 /\ new[Len(l) + 1] = rec
        /\ Len(l) \in Nat /\ \A i \in 1 .. Len(l) : new[i] = l[i]
    OBVIOUS
  <1> HIDE DEF new
  <1>2. \A i \in 1 .. Len(l) : l[i].type # "Torn"
    BY ReadableIs
  <1>3. /\ m \in Nat /\ m <= Len(new)
        /\ m < Len(new) => new[m + 1].type = "Torn"
        /\ m = Len(new) => Readable(new) = new
    BY <1>1, ReadableIs
  <1> HIDE DEF m
  <1>4. \A i \in 1 .. Len(l) + 1 : new[i].type # "Torn"
    BY <1>1, <1>2
  <1>5. m = Len(new)
    <2>1. SUFFICES ASSUME m < Len(new) PROVE FALSE
      BY <1>1, <1>3
    <2>2. m + 1 \in 1 .. Len(l) + 1
      BY <1>1, <1>3, <2>1
    <2> QED BY <1>3, <1>4, <2>1, <2>2
  <1> QED BY <1>3, <1>5 DEF new

LEMMA CommittedAppend ==
    ASSUME NEW l \in Seq(LogRecord), NEW rec \in LogRecord
    PROVE  /\ rec.type # "Commit" => Committed(Append(l, rec)) = Committed(l)
           /\ rec.type = "Commit" => Committed(Append(l, rec)) = Committed(l) \cup {rec.txn}
  <1> DEFINE new == Append(l, rec)
  <1>1. /\ Len(new) = Len(l) + 1 /\ new[Len(l) + 1] = rec
        /\ Len(l) \in Nat /\ \A i \in 1 .. Len(l) : new[i] = l[i]
    OBVIOUS
  <1> HIDE DEF new
  <1>2. \A t : t \in Committed(new)
                 <=> \E i \in 1 .. Len(l) + 1 : new[i].type = "Commit" /\ new[i].txn = t
    BY <1>1 DEF Committed
  <1>3. \A t : t \in Committed(l) <=> \E i \in 1 .. Len(l) : l[i].type = "Commit" /\ l[i].txn = t
    BY DEF Committed
  <1>4. \A t : t \in Committed(new) <=> t \in Committed(l) \/ (rec.type = "Commit" /\ rec.txn = t)
    <2>1. ASSUME NEW t, t \in Committed(new)
          PROVE  t \in Committed(l) \/ (rec.type = "Commit" /\ rec.txn = t)
      BY <1>1, <1>2, <1>3, <2>1
    <2>2. ASSUME NEW t, t \in Committed(l) PROVE t \in Committed(new)
      BY <1>1, <1>2, <1>3, <2>2
    <2>3. ASSUME NEW t, rec.type = "Commit", rec.txn = t PROVE t \in Committed(new)
      <3>1. Len(l) + 1 \in 1 .. Len(l) + 1
        BY <1>1
      <3> QED BY <1>1, <1>2, <2>3, <3>1
    <2> QED BY <2>1, <2>2, <2>3
  <1> QED BY <1>4 DEF new

LEMMA OnAppend ==
    ASSUME NEW l \in Seq(LogRecord), NEW rec \in LogRecord
    PROVE  /\ Len(Append(l, rec)) = Len(l) + 1 /\ Len(l) \in Nat
           /\ Append(l, rec)[Len(l) + 1] = rec
           /\ \A i \in 1 .. Len(l) : Append(l, rec)[i] = l[i]
           /\ \A i, r : On(Append(l, rec), i, r)
                           <=> On(l, i, r) \/ (i = Len(l) + 1 /\ Changes(rec, r))
  <1> DEFINE new == Append(l, rec)
  <1>1. /\ Len(new) = Len(l) + 1 /\ new[Len(l) + 1] = rec
        /\ Len(l) \in Nat /\ \A i \in 1 .. Len(l) : new[i] = l[i]
    OBVIOUS
  <1> HIDE DEF new
  <1>2. \A i, r : On(new, i, r) <=> On(l, i, r) \/ (i = Len(l) + 1 /\ Changes(rec, r))
    BY <1>1 DEF On
  <1> QED BY <1>1, <1>2 DEF new

\* A record that is not of this place changes nothing for it.
LEMMA LeadsOther ==
    ASSUME NEW l \in Seq(LogRecord), NEW rec \in LogRecord, rec.type # "Commit",
           NEW v, NEW r, NEW g, ~Changes(rec, r), Leads(v, r, g, l)
    PROVE  Leads(v, r, g, Append(l, rec))
  <1> DEFINE new == Append(l, rec)
  <1>1. /\ Len(new) = Len(l) + 1 /\ Len(l) \in Nat
        /\ \A i \in 1 .. Len(l) : new[i] = l[i]
        /\ \A i : On(new, i, r) <=> On(l, i, r)
        /\ Committed(new) = Committed(l)
    BY OnAppend, CommittedAppend
  <1> HIDE DEF new
  <1>2. \A i : On(l, i, r) => i \in 1 .. Len(l) /\ (Won(new, i) <=> Won(l, i))
    BY <1>1 DEF On, Won
  <1>3. \A i : FirstLost(new, i, r) => FirstLost(l, i, r) /\ i \in 1 .. Len(l)
    BY <1>1, <1>2 DEF FirstLost
  <1>4. \A i : LastWon(new, i, r) => LastWon(l, i, r) /\ i \in 1 .. Len(l)
    BY <1>1, <1>2 DEF LastWon
  <1>5. Free(new, r) => Free(l, r)
    BY <1>1 DEF Free
  <1>6. Leads(v, r, g, new)
    BY <1>1, <1>3, <1>4, <1>5 DEF Leads
  <1> QED BY <1>6 DEF new

\* A record of a transaction without a commit record changes nothing either, if it
\* is the first one and finds what recovery leaves.
LEMMA LeadsLost ==
    ASSUME NEW l \in Seq(LogRecord), NEW rec \in LogRecord, rec.txn \notin Committed(l),
           NEW v, NEW r, NEW g, Changes(rec, r), Leads(v, r, g, l),
           (\A i \in 1 .. Len(l) : On(l, i, r) => Won(l, i)) => rec.before = g
    PROVE  Leads(v, r, g, Append(l, rec))
  <1> DEFINE new == Append(l, rec)
             n == Len(l) + 1
  <1>1. /\ Len(new) = n /\ Len(l) \in Nat /\ new[n] = rec
        /\ \A i \in 1 .. Len(l) : new[i] = l[i]
        /\ \A i : On(new, i, r) <=> On(l, i, r) \/ i = n
        /\ Committed(new) = Committed(l)
    BY OnAppend, CommittedAppend DEF Changes
  <1> HIDE DEF new
  <1>2. \A i : On(l, i, r) => i \in 1 .. Len(l) /\ i < n /\ (Won(new, i) <=> Won(l, i))
    BY <1>1 DEF On, Won
  <1>3. ~Won(new, n) /\ On(new, n, r)
    BY <1>1 DEF Won
  <1>4. ASSUME NEW i \in 1 .. Len(new), FirstLost(new, i, r) PROVE g = new[i].before
    <2>1. CASE i = n
      <3>1. \A j \in 1 .. Len(l) : On(l, j, r) => Won(l, j)
        BY <1>1, <1>2, <1>4, <2>1 DEF FirstLost
      <3> QED BY <1>1, <2>1, <3>1
    <2>2. CASE i # n
      <3>1. On(l, i, r) /\ ~Won(l, i) /\ i \in 1 .. Len(l)
        BY <1>1, <1>2, <1>4, <2>2 DEF FirstLost
      <3>2. \A j \in 1 .. Len(l) : On(l, j, r) /\ j < i => Won(l, j)
        BY <1>1, <1>2, <1>4 DEF FirstLost
      <3>3. FirstLost(l, i, r)
        BY <3>1, <3>2 DEF FirstLost
      <3> QED BY <1>1, <3>1, <3>3 DEF Leads
    <2> QED BY <2>1, <2>2
  <1>5. \A i : ~LastWon(new, i, r)
    BY <1>1, <1>3 DEF LastWon
  <1>6. ~Free(new, r)
    BY <1>1, <1>3 DEF Free
  <1>7. Leads(v, r, g, new)
    BY <1>4, <1>5, <1>6 DEF Leads
  <1> QED BY <1>7 DEF new

\* What leads to a row leads to it from every page version with the same row there.
LEMMA LeadsAlike ==
    ASSUME NEW v, NEW w, NEW r, NEW g, NEW l, w.lsn = v.lsn, Cell(w, r[2]) = Cell(v, r[2]),
           Leads(v, r, g, l)
    PROVE  Leads(w, r, g, l)
  BY DEF Leads

\* Without a log, recovery leaves what is there.
LEMMA LeadsEmpty ==
    ASSUME NEW v, NEW r, NEW g
    PROVE  Leads(v, r, g, << >>) <=> g = Cell(v, r[2])
  <1>1. Free(<< >>, r) /\ Len(<< >>) = 0
    BY DEF Free
  <1>2. \A i \in 1 .. Len(<< >>) : FALSE
    BY <1>1
  <1> QED BY <1>1, <1>2 DEF Leads

\* A change is undone, or it is redone, or there is none.
LEMMA LostWonFree ==
    ASSUME NEW l \in Seq(LogRecord), NEW r
    PROVE  \/ \E i \in 1 .. Len(l) : FirstLost(l, i, r)
           \/ \E i \in 1 .. Len(l) : LastWon(l, i, r)
           \/ Free(l, r)
  <1> DEFINE lost == {i \in 1 .. Len(l) : On(l, i, r) /\ ~Won(l, i)}
             won == {i \in 1 .. Len(l) : On(l, i, r)}
  <1>1. CASE lost # {}
    <2>1. lost \in SUBSET Nat
      OBVIOUS
    <2>2. PICK i \in lost : \A j \in lost : i <= j
      BY <1>1, <2>1, LeastNumber
    <2>3. \A j \in 1 .. Len(l) : On(l, j, r) /\ j < i => j \notin lost
      BY <2>2
    <2> QED BY <2>2, <2>3 DEF FirstLost
  <1>2. CASE lost = {} /\ won # {}
    <2>1. Len(l) \in Nat /\ won \in SUBSET (1 .. Len(l))
      OBVIOUS
    <2>2. PICK i \in won : \A j \in won : j <= i
      BY <1>2, <2>1, GreatestNumber
    <2>3. \A j \in 1 .. Len(l) : On(l, j, r) => Won(l, j) /\ j <= i
      BY <1>2, <2>2
    <2> QED BY <2>2, <2>3 DEF LastWon
  <1>3. CASE won = {}
    BY <1>3 DEF Free
  <1> QED BY <1>1, <1>2, <1>3

----------------------------------------------------------------------------
(* What a stop may find, before and after a step.                          *)

LEMMA StopFrame ==
    ASSUME UNCHANGED <<os, platter, wal, walPlatter, scenario, stops>>
    PROVE  /\ MayStop' <=> MayStop
           /\ \A p : Versions(p)' = Versions(p)
           /\ Logs' = Logs
  BY DEF MayStop, Versions, Logs

LEMMA VersionsFrame ==
    ASSUME UNCHANGED <<os, platter, scenario, stops>>
    PROVE  /\ MayStop' <=> MayStop
           /\ \A p : Versions(p)' = Versions(p)
  BY DEF MayStop, Versions

\* The program's own copies are among what a stop may find.
LEMMA OwnCopies ==
    ASSUME Basics
    PROVE  wal \in Logs /\ \A p \in Pages : os[p] \in Versions(p)
  BY DEF Basics, Logs, Versions

\* WriteAheadLog::append between recoveries.
Appends(rec) ==
    /\ rec \in LogRecord /\ rec.lsn = nextLsn /\ rec.type # "Torn"
    /\ rec.type = "Insert" => rec.before = Dead
    /\ rec.type = "Delete" => rec.after = Dead
    /\ AppendLog(rec)

LEMMA Appended ==
    ASSUME CInv, MayStop, pc \notin Recoveries \cup Resets, NEW rec, Appends(rec),
           UNCHANGED <<scenario, stops>>
    PROVE  /\ wal \in Seq(LogRecord) /\ Readable(wal) = wal /\ wal' = Append(wal, rec)
           /\ Readable(wal') = wal' /\ nextLsn' = Len(wal') + 1
           /\ LogsGood' /\ Logs' \subseteq Logs \cup {wal'} /\ wal \in Logs
           /\ walPlatter' = walPlatter \cup {wal'}
  <1>1. wal \in Seq(LogRecord) /\ Len(wal) \in Nat
    BY DEF CInv, IInv, LogsOK
  <1>2. Readable(wal) = wal /\ nextLsn = Len(wal) + 1
    BY DEF CInv, CRest, WalShape, LogShape
  <1>3. /\ wal' = Append(wal, rec) /\ walPlatter' = walPlatter \cup {wal'}
        /\ nextLsn' = nextLsn + 1 /\ rec \in LogRecord
    BY DEF Appends, AppendLog
  <1>4. /\ Len(wal') = Len(wal) + 1 /\ wal'[Len(wal) + 1] = rec
        /\ \A i \in 1 .. Len(wal) : wal'[i] = wal[i]
    BY <1>1, <1>3
  <1>5. Readable(wal') = wal' /\ nextLsn' = Len(wal') + 1
    BY <1>1, <1>2, <1>3, <1>4, ReadableAppend DEF Appends
  <1>6. wal \in Logs /\ Logs' \subseteq Logs \cup {wal'}
    BY <1>3, OwnCopies DEF CInv, CRest, Logs
  <1>7. WellFormed(wal')
    <2>1. WellFormed(wal)
      BY <1>2, <1>6 DEF CInv, CRest, LogsGood
    <2>2. ASSUME NEW i \in 1 .. Len(wal')
          PROVE  /\ wal'[i].lsn = i
                 /\ wal'[i].type = "Insert" => wal'[i].before = Dead
                 /\ wal'[i].type = "Delete" => wal'[i].after = Dead
      <3>1. CASE i \in 1 .. Len(wal)
        BY <1>4, <2>1, <3>1 DEF WellFormed
      <3>2. CASE i = Len(wal) + 1
        BY <1>2, <1>4, <3>2 DEF Appends
      <3> QED BY <1>1, <1>4, <3>1, <3>2
    <2> QED BY <2>2 DEF WellFormed
  <1>8. LogsGood'
    <2>1. ASSUME NEW l \in Logs'
          PROVE  WellFormed(Readable(l)) /\ (Readable(l) = << >> => l = << >>)
      <3>1. CASE l \in Logs
        BY <3>1 DEF CInv, CRest, LogsGood
      <3>2. CASE l = wal'
        BY <1>5, <1>7, <3>2
      <3> QED BY <1>6, <3>1, <3>2
    <2> QED BY <2>1 DEF LogsGood
  <1> QED BY <1>1, <1>2, <1>3, <1>5, <1>6, <1>8

\* Recovery from the longer log leaves the layout as well, if a record that is the
\* first of its place to be undone names what the layout has there.
LEMMA ExplainsAppended ==
    ASSUME NEW l \in Seq(LogRecord), NEW rec \in LogRecord, Readable(l) = l,
           Readable(Append(l, rec)) = Append(l, rec),
           rec.type # "Commit", rec.txn \notin Committed(l),
           NEW lay \in Layouts, Explains(l, lay),
           \A r \in Place :
              /\ Changes(rec, r)
              /\ \A i \in 1 .. Len(l) : On(l, i, r) => Won(l, i)
              => rec.before = lay[r]
    PROVE  Explains(Append(l, rec), lay)
  <1>1. ASSUME NEW r \in Place, NEW v \in Versions(r[1])
        PROVE  Leads(v, r, lay[r], Append(l, rec))
    <2>1. Leads(v, r, lay[r], l)
      BY DEF Explains
    <2>2. CASE Changes(rec, r)
      BY <2>1, <2>2, LeadsLost
    <2>3. CASE ~Changes(rec, r)
      BY <2>1, <2>3, LeadsOther
    <2> QED BY <2>2, <2>3
  <1> QED BY <1>1 DEF Explains

----------------------------------------------------------------------------
(* Which parts of the invariant a step can disturb.                        *)

LEMMA Parts ==
    ASSUME CInv
    PROVE  /\ SessionOK /\ PagesOK /\ LogsOK /\ FlushComplete
           /\ Basics /\ LogsGood /\ ZeroInv /\ WalShape
           /\ IdleInv /\ FlushInv /\ TxnInv /\ OpenInv /\ RedoInv /\ ResetInv
  BY DEF CInv, CRest, IInv

\* In a transaction, the parts about its end, flushing and recovery say nothing.
LEMMA InsideTxn ==
    ASSUME SessionOK', txn' # 0
    PROVE  IdleInv' /\ FlushInv' /\ RedoInv' /\ ResetInv'
  BY DEF SessionOK, IdleInv, FlushInv, RedoInv, ResetInv, Flushes, Recoveries, Resets

LEMMA OutsideTxn ==
    ASSUME txn' = 0
    PROVE  TxnInv' /\ OpenInv'
  BY DEF TxnInv, OpenInv

LEMMA StopIsPossible ==
    ASSUME SessionOK, Basics, MayStop
    PROVE  /\ scenario.stops > 0 /\ scenario.stops \in Nat /\ stops \in Nat
           /\ ~scenario.smallPool /\ scenario.work \cap {"putReturning", "remove", "modify"} = {}
           /\ "undo" \in scenario.work => scenario.work \cap {"txnRemove", "txnModify"} = {}
           /\ stops > 0 => scenario.logs <= 1 /\ ~scenario.tornFirst
                           /\ ~({"process", "power"} \subseteq scenario.faults)
  <1>1. stops \in Nat /\ scenario.stops \in Nat
    BY DEF SessionOK, Scenario
  <1>2. stops < scenario.stops /\ Kept(scenario)
    BY DEF MayStop, Basics
  <1>3. scenario.stops > 0 /\ (stops > 0 => scenario.stops > 1)
    BY <1>1, <1>2
  <1> QED BY <1>1, <1>2, <1>3 DEF Kept

\* During a transaction pages have no LSN, and the log is whole.
LEMMA OpenIsZero ==
    ASSUME CInv, MayStop, txn # 0
    PROVE  AllZero /\ LogShape
  <1>1. pc \notin Recoveries \cup Resets
    BY Parts DEF SessionOK, Recoveries, Resets
  <1>2. "truncate" \in Resets
    BY DEF Resets
  <1> QED BY <1>1, <1>2, Parts DEF ZeroInv, WalShape

LEMMA ZeroKept ==
    ASSUME ZeroInv, SameLsn(mem, mem'),
           UNCHANGED <<os, platter, wal, walPlatter, scenario, stops, logs, txn>>,
           pc \in Recoveries \cup {"truncate"} => pc' \in Recoveries \cup {"truncate"}
    PROVE  ZeroInv'
  <1>1. (MayStop' <=> MayStop) /\ (\A p : Versions(p)' = Versions(p)) /\ Logs' = Logs
    BY StopFrame
  <1>2. AllZero => AllZero'
    BY <1>1 DEF AllZero, SameLsn
  <1> QED BY <1>1, <1>2 DEF ZeroInv

\* A page may be written when a row has half moved, but not where the program may stop.
LEMMA HalvesFrame ==
    ASSUME SessionOK, PagesOK, Basics, NEW row, HalfWritten(row), UNCHANGED <<scenario, stops>>
    PROVE  /\ MayStop' <=> MayStop
           /\ MayStop => UNCHANGED <<os, platter, walPlatter>> /\ Logs' = Logs
                         /\ \A p : Versions(p)' = Versions(p)
           /\ wal' = wal /\ nextLsn' = nextLsn
           /\ wal' \in walPlatter' /\ \A p \in Pages : os'[p] \in platter'[p]
  <1>1. wal' = wal /\ nextLsn' = nextLsn /\ (MayStop' <=> MayStop)
    BY DEF HalfWritten, MayStop
  <1>2. wal \in walPlatter /\ \A p \in Pages : os[p] \in platter[p]
    BY DEF Basics
  <1>3. CASE UNCHANGED <<os, platter, walPlatter>>
    BY <1>1, <1>2, <1>3, StopFrame
  <1>4. CASE ~UNCHANGED <<os, platter, walPlatter>>
    <2>1. /\ scenario.smallPool /\ walPlatter' = {wal}
          /\ \E mid : \E o \in Pages : /\ os' = [os EXCEPT ![o] = mid[o]]
                                      /\ platter' = [platter EXCEPT ![o] = @ \cup {mid[o]}]
      BY <1>4 DEF HalfWritten
    <2>2. ~MayStop
      BY <2>1, StopIsPossible
    <2>3. \A p \in Pages : os'[p] \in platter'[p]
      <3>1. PICK mid : \E o \in Pages : /\ os' = [os EXCEPT ![o] = mid[o]]
                                       /\ platter' = [platter EXCEPT ![o] = @ \cup {mid[o]}]
        BY <2>1
      <3>2. PICK o \in Pages : /\ os' = [os EXCEPT ![o] = mid[o]]
                               /\ platter' = [platter EXCEPT ![o] = @ \cup {mid[o]}]
        BY <3>1
      <3>3. os \in [Pages -> Page] /\ platter \in [Pages -> SUBSET Page]
        BY DEF PagesOK
      <3>4. ASSUME NEW p \in Pages PROVE os'[p] \in platter'[p]
        BY <1>2, <3>2, <3>3
      <3> QED BY <3>4
    <2> QED BY <1>1, <2>1, <2>2, <2>3
  <1> QED BY <1>3, <1>4

LEMMA HalvesKeepZero ==
    ASSUME SessionOK, PagesOK, Basics, LogsGood, ZeroInv, NEW row, HalfWritten(row),
           SameLsn(mem, mem'), UNCHANGED <<scenario, stops, logs, txn>>,
           pc \in Recoveries \cup {"truncate"} => pc' \in Recoveries \cup {"truncate"}
    PROVE  LogsGood' /\ ZeroInv'
  <1>1. CASE MayStop
    <2>1. UNCHANGED <<os, platter, wal, walPlatter>> /\ Logs' = Logs
      BY <1>1, HalvesFrame
    <2> QED BY <1>1, <2>1, ZeroKept, HalvesFrame DEF LogsGood
  <1>2. CASE ~MayStop
    <2>1. ~MayStop'
      BY <1>2, HalvesFrame
    <2> QED BY <2>1 DEF LogsGood, ZeroInv
  <1> QED BY <1>1, <1>2

LEMMA SlotsKept ==
    ASSUME SlotsLogged, wal' = wal, \A p \in Pages : Len(mem[p].slots) <= Len(mem'[p].slots),
           mem \in [Pages -> Page], mem' \in [Pages -> Page]
    PROVE  SlotsLogged'
  <1>1. ASSUME NEW r \in Place, HasSlot(r) PROVE HasSlot(r)'
    <2>1. r[1] \in Pages /\ r[2] \in Nat
      BY DEF Place
    <2>2. Len(mem[r[1]].slots) \in Nat /\ Len(mem'[r[1]].slots) \in Nat
      BY <2>1 DEF Page
    <2>3. Len(mem[r[1]].slots) <= Len(mem'[r[1]].slots)
      BY <2>1
    <2> QED BY <1>1, <2>1, <2>2, <2>3 DEF HasSlot
  <1> QED BY <1>1 DEF SlotsLogged, Free, On

LEMMA WalShapeKept ==
    ASSUME WalShape, pc \notin Recoveries \cup Resets, pc # "commitSync", pc' # "commitSync",
           UNCHANGED <<wal, nextLsn, txn, nextTxn, scenario, stops>>,
           \A p \in Pages : Len(mem[p].slots) <= Len(mem'[p].slots),
           mem \in [Pages -> Page], mem' \in [Pages -> Page]
    PROVE  WalShape'
  <1>1. ASSUME LogShape PROVE LogShape'
    <2>1. KnownTxns' /\ TxnIsLast' /\ Uncommitted' /\ Readable(wal)' = wal' /\ nextLsn' = Len(wal') + 1
      BY <1>1 DEF LogShape, KnownTxns, TxnIsLast, Uncommitted, Committed, Readable
    <2>2. SlotsLogged'
      BY <1>1, SlotsKept DEF LogShape
    <2>3. (InsertsOnly => InsertsOnly') /\ (OthersCommitted => OthersCommitted')
      BY DEF InsertsOnly, OthersCommitted, On, Committed
    <2> QED BY <1>1, <2>1, <2>2, <2>3 DEF LogShape
  <1>2. MayStop' <=> MayStop
    BY DEF MayStop
  <1> QED BY <1>1, <1>2 DEF WalShape

----------------------------------------------------------------------------
(* The initial state.                                                      *)

LEMMA CInitOK == ASSUME Init, Kept(scenario) PROVE CRest
  <1>1. /\ scenario \in Scenarios /\ scenario \in Scenario /\ Kept(scenario)
        /\ mem = [p \in Pages |-> [lsn |-> 0, slots |-> << >>]] /\ os = mem
        /\ platter = [p \in Pages |-> {os[p]}] /\ wal = << >> /\ walPlatter = {<< >>}
        /\ nextLsn = 1 /\ txn = 0 /\ nextTxn = 1 /\ undo = << >> /\ pc = "ready"
        /\ stable = {} /\ pending = {} /\ stmts = 0 /\ stops = 0 /\ logs = 1
    BY DurabilityAssumption DEF Init
  <1>2. \A p \in Pages : /\ mem[p] = [lsn |-> 0, slots |-> << >>] /\ platter[p] = {mem[p]}
                         /\ os[p] = mem[p]
    BY <1>1
  <1>3. Readable(<< >>) = << >>
    <2>1. {i \in 1 .. Len(<< >>) : << >>[i].type = "Torn"} = {}
      OBVIOUS
    <2> QED BY <2>1 DEF Readable
  <1>4. Logs = {<< >>} /\ \A p \in Pages : Versions(p) = {mem[p]}
    BY <1>1, <1>2 DEF Logs, Versions
  <1>5. \A r \in Place : r[1] \in Pages /\ Layout(mem)[r] = Dead /\ Cell(mem[r[1]], r[2]) = Dead
    BY <1>2 DEF Place, Layout, Cell
  <1>6. Basics
    BY <1>1, <1>2, SMTT(30) DEF Basics, Halves, Scenario
  <1>7. LogsGood /\ ZeroInv
    BY <1>1, <1>2, <1>3, <1>4 DEF LogsGood, WellFormed, ZeroInv, AllZero
  <1>8. LogShape
    BY <1>1, <1>3
       DEF LogShape, KnownTxns, TxnIsLast, Uncommitted, SlotsLogged, InsertsOnly, OthersCommitted,
           Free, On
  <1>9. IdleInv
    <2>1. Exact(Layout(mem), stable)
      BY <1>1, <1>5 DEF Exact
    <2>2. Steady
      BY <1>1, <1>3, <1>4, <1>5, LeadsEmpty DEF Steady
    <2> QED BY <1>1, <1>4, <2>1, <2>2 DEF IdleInv
  <1>10. FlushInv /\ TxnInv /\ OpenInv /\ RedoInv /\ ResetInv
    BY <1>1 DEF FlushInv, TxnInv, OpenInv, RedoInv, ResetInv, Resets
  <1> QED BY <1>6, <1>7, <1>8, <1>9, <1>10 DEF CRest, WalShape

----------------------------------------------------------------------------
(* Transactions: the log grows.                                            *)

\* The shape of the log survives a record of the transaction.
LEMMA ShapeAppended ==
    ASSUME CInv, MayStop, txn # 0, NEW rec, Appends(rec), rec.txn = txn,
           UNCHANGED <<scenario, stops, mem, txn, nextTxn>>,
           pc # "commitSync", pc' = "commitSync" <=> rec.type = "Commit",
           rec.type \in {"Insert", "Delete"} => HasSlot(rec.rid),
           "undo" \in scenario.work /\ rec.type \in {"Insert", "Delete"} =>
               rec.type = "Insert" /\ Free(wal, rec.rid)
    PROVE  LogShape'
  <1>1. pc \notin Recoveries \cup Resets /\ LogShape
    BY Parts, OpenIsZero DEF SessionOK, Recoveries, Resets
  <1>2. /\ wal \in Seq(LogRecord) /\ wal' = Append(wal, rec) /\ rec \in LogRecord
        /\ Readable(wal') = wal' /\ nextLsn' = Len(wal') + 1
    BY <1>1, Appended DEF Appends
  <1> DEFINE n == Len(wal) + 1
  <1>3. /\ Len(wal') = n /\ Len(wal) \in Nat /\ wal'[n] = rec
        /\ \A i \in 1 .. Len(wal) : wal'[i] = wal[i]
        /\ \A i, r : On(wal', i, r) <=> On(wal, i, r) \/ (i = n /\ Changes(rec, r))
    BY <1>2, OnAppend
  <1>4. /\ rec.type # "Commit" => Committed(wal') = Committed(wal)
        /\ rec.type = "Commit" => Committed(wal') = Committed(wal) \cup {txn}
    BY <1>2, CommittedAppend
  <1>5. txn \in Nat /\ nextTxn \in Nat
    BY Parts DEF SessionOK
  <1> HIDE DEF n
  <1>6. \A i \in 1 .. Len(wal') : i \in 1 .. Len(wal) \/ i = n
    BY <1>3 DEF n
  <1>7. KnownTxns'
    BY <1>1, <1>3, <1>5, <1>6 DEF LogShape, KnownTxns
  <1>8. TxnIsLast'
    <2>1. ASSUME NEW j \in 1 .. Len(wal'), NEW k \in 1 .. Len(wal'), wal'[j].txn = txn, j <= k
          PROVE  wal'[k].txn = txn
      <3>1. CASE k = n
        BY <1>3, <3>1
      <3>2. CASE k \in 1 .. Len(wal)
        <4>1. j \in 1 .. Len(wal)
          BY <1>3, <2>1, <3>2 DEF n
        <4> QED BY <1>1, <1>3, <2>1, <3>2, <4>1 DEF LogShape, TxnIsLast
      <3> QED BY <1>6, <3>1, <3>2
    <2> QED BY <2>1 DEF TxnIsLast
  <1>9. Uncommitted'
    BY <1>1, <1>4 DEF LogShape, Uncommitted
  <1>10. SlotsLogged'
    <2>1. ASSUME NEW r \in Place, NEW i \in 1 .. Len(wal'), On(wal', i, r) PROVE HasSlot(r)'
      <3>1. CASE On(wal, i, r)
        <4>1. i \in 1 .. Len(wal)
          BY <3>1 DEF On
        <4>2. HasSlot(r)
          BY <1>1, <3>1, <4>1 DEF LogShape, SlotsLogged, Free
        <4> QED BY <4>2 DEF HasSlot
      <3>2. CASE Changes(rec, r)
        BY <3>2 DEF Changes, HasSlot
      <3> QED BY <1>3, <2>1, <3>1, <3>2
    <2> QED BY <2>1 DEF SlotsLogged, Free
  <1>11. ASSUME "undo" \in scenario.work PROVE InsertsOnly'
    <2>1. InsertsOnly
      BY <1>1, <1>11 DEF LogShape
    <2>2. ASSUME NEW r \in Place, NEW j \in 1 .. Len(wal'), NEW k \in 1 .. Len(wal'),
                 On(wal', j, r), On(wal', k, r)
          PROVE  j = k /\ wal'[k].type = "Insert"
      <3>1. CASE On(wal, j, r) /\ On(wal, k, r)
        <4>1. j \in 1 .. Len(wal) /\ k \in 1 .. Len(wal)
          BY <3>1 DEF On
        <4> QED BY <1>3, <2>1, <3>1, <4>1 DEF InsertsOnly
      <3>2. CASE Changes(rec, r)
        <4>1. rec.type = "Insert" /\ rec.rid = r /\ Free(wal, r)
          BY <1>11, <3>2 DEF Changes
        <4>2. ~On(wal, j, r) /\ ~On(wal, k, r)
          BY <4>1 DEF Free, On
        <4> QED BY <1>3, <2>2, <4>1, <4>2
      <3> QED BY <1>3, <2>2, <3>1, <3>2
    <2> QED BY <2>2 DEF InsertsOnly
  <1>12. ASSUME "undo" \notin scenario.work PROVE OthersCommitted'
    <2>1. OthersCommitted
      BY <1>1, <1>12 DEF LogShape
    <2>2. ASSUME NEW k \in 1 .. Len(wal')
          PROVE  wal'[k].txn \in Committed(wal') \/ (wal'[k].txn = txn /\ pc' # "commitSync")
      <3>1. CASE k \in 1 .. Len(wal)
        BY <1>3, <1>4, <2>1, <3>1 DEF OthersCommitted
      <3>2. CASE k = n
        BY <1>3, <1>4, <3>2
      <3> QED BY <1>6, <3>1, <3>2
    <2> QED BY <2>2 DEF OthersCommitted
  <1> QED BY <1>2, <1>7, <1>8, <1>9, <1>10, <1>11, <1>12 DEF LogShape

\* What an appended record leaves of the own changes.
LEMMA OwnAppended ==
    ASSUME NEW rec, wal \in Seq(LogRecord), rec \in LogRecord, wal' = Append(wal, rec),
           rec.txn = txn, txn' = txn
    PROVE  /\ \A r : ~Changes(rec, r) => (NoOwn(r)' <=> NoOwn(r))
           /\ \A r : ~Changes(rec, r) =>
                 \A i : OwnLast(i, r)' => OwnLast(i, r) /\ wal'[i] = wal[i] /\ i \in 1 .. Len(wal)
           /\ \A r : Changes(rec, r) =>
                 /\ ~NoOwn(r)'
                 /\ \A i : OwnLast(i, r)' => i = Len(wal) + 1 /\ wal'[i] = rec
  <1> DEFINE n == Len(wal) + 1
  <1>1. /\ Len(wal') = n /\ Len(wal) \in Nat /\ wal'[n] = rec
        /\ \A i \in 1 .. Len(wal) : wal'[i] = wal[i]
        /\ \A i, r : On(wal', i, r) <=> On(wal, i, r) \/ (i = n /\ Changes(rec, r))
    BY OnAppend
  <1>2. n \in 1 .. Len(wal') /\ \A i \in 1 .. Len(wal') : i <= n /\ (i \in 1 .. Len(wal) \/ i = n)
    BY <1>1
  <1> HIDE DEF n
  <1>3. ASSUME NEW r, ~Changes(rec, r)
        PROVE  /\ NoOwn(r)' <=> NoOwn(r)
               /\ \A i : OwnLast(i, r)' =>
                     OwnLast(i, r) /\ wal'[i] = wal[i] /\ i \in 1 .. Len(wal)
    <2>1. \A i : Own(i, r)' <=> Own(i, r)
      <3>1. \A i : On(wal', i, r) <=> On(wal, i, r)
        BY <1>1, <1>3
      <3>2. \A i : On(wal, i, r) => wal'[i] = wal[i]
        BY <1>1 DEF On
      <3> QED BY <3>1, <3>2 DEF Own
    <2>2. \A i : Own(i, r) => i \in 1 .. Len(wal)
      BY DEF Own, On
    <2>3. \A i \in 1 .. Len(wal) : i \in 1 .. Len(wal')
      BY <1>1, <1>2 DEF n
    <2>4. \A i : Own(i, r)' => i \in 1 .. Len(wal')
      BY <2>1, <2>2, <2>3
    <2> QED BY <1>1, <2>1, <2>2, <2>3, <2>4 DEF NoOwn, OwnLast
  <1>4. ASSUME NEW r, Changes(rec, r), NEW k, k = n
        PROVE  /\ ~NoOwn(r)'
               /\ \A i : OwnLast(i, r)' => i = k /\ wal'[i] = rec
    <2>1. Own(k, r)'
      <3>1. On(wal', k, r)
        BY <1>1, <1>4
      <3>2. wal'[k].txn = txn'
        BY <1>1, <1>4
      <3> QED BY <3>1, <3>2 DEF Own
    <2>2. ASSUME NEW i, OwnLast(i, r)' PROVE i = k
      <3>1. i \in 1 .. Len(wal') /\ k \in 1 .. Len(wal')
        BY <1>2, <1>4, <2>2 DEF OwnLast, Own, On
      <3>2. k <= i
        BY <2>1, <2>2, <3>1 DEF OwnLast
      <3> QED BY <1>1, <1>2, <1>4, <3>1, <3>2 DEF n
    <2>3. ~NoOwn(r)'
      BY <1>2, <1>4, <2>1 DEF NoOwn
    <2> QED BY <1>1, <1>4, <2>2, <2>3
  <1> QED BY <1>3, <1>4 DEF n

\* A transaction begins.
LEMMA BeginKeeps == ASSUME CInv, IInv', Begin PROVE CRest'
  <1> DEFINE rec == Record(nextTxn, "Begin", NoRid, Dead, Dead)
  <1>1. /\ pc = "ready" /\ txn = 0 /\ logs <= scenario.logs
        /\ txn' = nextTxn /\ nextTxn' = nextTxn + 1 /\ undo' = << >> /\ AppendLog(rec)
        /\ UNCHANGED <<mem, os, platter, pc, cur, left, at, stable, pending, stmts, stops, logs,
                       scenario>>
    BY DEF Begin, Ready, InTxn, pageVars, flow, history, bounds
  <1>2. SessionOK /\ SessionOK' /\ LogsOK /\ PagesOK
    BY Parts DEF IInv
  <1>3. /\ Appends(rec) /\ rec.type = "Begin" /\ rec.txn = nextTxn /\ rec \in LogRecord
        /\ nextTxn \in Nat \ {0} /\ txn' # 0
    <2>1. nextTxn \in Nat \ {0} /\ nextLsn \in Nat
      BY <1>2 DEF SessionOK, LogsOK
    <2>2. rec \in LogRecord
      BY <2>1 DEF Record, LogRecord, RecordTypes, Dead
    <2> QED BY <1>1, <2>1, <2>2 DEF Appends, Record
  <1> HIDE DEF rec
  <1>4. Basics'
    BY <1>1, Parts DEF Basics, AppendLog, Halves
  <1>5. pc \notin Recoveries \cup Resets \cup {"truncate"} /\ pc' \notin Recoveries \cup Resets
    BY <1>1 DEF Recoveries, Resets
  <1>6. IdleInv' /\ FlushInv' /\ RedoInv' /\ ResetInv'
    BY <1>2, <1>3, InsideTxn
  <1>7. pending = stable /\ Exact(Layout(mem), stable) /\ (MayStop => Logs = {wal} /\ Steady)
    BY <1>1, Parts DEF IdleInv
  <1>8. TxnInv'
    <2>1. View' = Layout(mem) /\ Todo' = << >>
      BY <1>1 DEF View, Todo, Halves
    <2>2. Undoable(<< >>, Layout(mem))'
      <3>1. Olds(<< >>) = {} /\ News(<< >>) = {} /\ \A i \in 1 .. Len(<< >>) : FALSE
        BY DEF Olds, News
      <3>2. (stable \ {}) \cup {} = stable
        OBVIOUS
      <3>3. Exact(Layout(mem'), (stable' \ Olds(<< >>)) \cup News(<< >>))
        BY <1>1, <1>7, <3>1, <3>2
      <3> QED BY <3>1, <3>3 DEF Undoable
    <2> QED BY <1>1, <1>7, <2>1, <2>2 DEF TxnInv, Halves
  <1>9. ASSUME MayStop PROVE LogsGood' /\ ZeroInv' /\ LogShape' /\ OpenInv'
    <2>1. /\ wal \in Seq(LogRecord) /\ Readable(wal) = wal /\ wal' = Append(wal, rec)
          /\ Readable(wal') = wal' /\ nextLsn' = Len(wal') + 1
          /\ LogsGood' /\ Logs' \subseteq Logs \cup {wal'}
      BY <1>1, <1>3, <1>5, <1>9, Appended
    <2>2. \A p : Versions(p)' = Versions(p)
      BY <1>1, VersionsFrame
    <2>3. AllZero
      <3>1. ~(logs > scenario.logs)
        BY <1>1, <1>2, Parts DEF Basics, SessionOK, Scenario
      <3> QED BY <1>5, <1>9, <3>1, Parts DEF ZeroInv
    <2>4. ZeroInv'
      BY <1>1, <2>2, <2>3 DEF ZeroInv, AllZero
    <2>5. LogShape
      BY <1>5, <1>9, Parts DEF WalShape
    <2> DEFINE n == Len(wal) + 1
    <2>6. /\ Len(wal') = n /\ Len(wal) \in Nat /\ wal'[n] = rec
          /\ \A i \in 1 .. Len(wal) : wal'[i] = wal[i]
          /\ \A i, r : On(wal', i, r) <=> On(wal, i, r)
          /\ Committed(wal') = Committed(wal)
      BY <1>3, <2>1, OnAppend, CommittedAppend DEF Changes
    <2>7. \A k \in 1 .. Len(wal) : wal[k].txn # 0 /\ wal[k].txn < nextTxn /\ wal[k].txn \in Nat
      BY <2>1, <2>5, SMTT(30) DEF LogShape, KnownTxns, LogRecord
    <2>8. LogShape'
      <3> HIDE DEF n
      <3>1. \A i \in 1 .. Len(wal') : i \in 1 .. Len(wal) \/ i = n
        BY <2>6 DEF n
      <3>2. KnownTxns'
        BY <1>1, <1>3, <2>6, <2>7, <3>1 DEF KnownTxns
      <3>3. TxnIsLast'
        <4>1. \A j \in 1 .. Len(wal') : wal'[j].txn = txn' => j = n
          BY <1>1, <1>3, <2>6, <2>7, <3>1
        <4>2. \A k \in 1 .. Len(wal') : n <= k => k = n
          BY <2>6
        <4> QED BY <4>1, <4>2 DEF TxnIsLast
      <3>4. Uncommitted'
        <4>1. ASSUME nextTxn \in Committed(wal) PROVE FALSE
          <5>1. PICK i \in 1 .. Len(wal) : wal[i].txn = nextTxn
            BY <4>1 DEF Committed
          <5> QED BY <1>3, <2>7, <5>1
        <4> QED BY <1>1, <2>6, <4>1 DEF Uncommitted
      <3>5. SlotsLogged'
        BY <1>1, <2>5, <2>6 DEF LogShape, SlotsLogged, HasSlot, Free, On
      <3>6. InsertsOnly => InsertsOnly'
        <4>1. \A i, r : On(wal, i, r) => i \in 1 .. Len(wal)
          BY DEF On
        <4> QED BY <2>6, <4>1 DEF InsertsOnly
      <3>7. OthersCommitted => OthersCommitted'
        BY <1>1, <1>3, <2>6, <2>7, <3>1 DEF OthersCommitted
      <3> QED BY <1>1, <2>1, <2>5, <3>2, <3>3, <3>4, <3>5, <3>6, <3>7 DEF LogShape
    <2>9. Opened(Layout(mem))'
      <3>1. Explains(wal, Layout(mem))
        BY <1>7, <1>9 DEF Steady, Explains
      <3>2. Explains(wal', Layout(mem))
        <4>1. rec.txn \notin Committed(wal) /\ \A r : ~Changes(rec, r)
          <5>1. rec.txn \notin Committed(wal)
            BY <1>1, <1>3, <2>6, <2>8 DEF LogShape, Uncommitted
          <5> QED BY <1>3, <5>1 DEF Changes
        <4>2. Layout(mem) \in Layouts
          BY <1>2, LayoutType DEF PagesOK
        <4> QED BY <1>3, <2>1, <3>1, <4>1, <4>2, ExplainsAppended
      <3>3. ASSUME NEW l \in Logs' PROVE Explains(l, Layout(mem))'
        <4>1. Explains(l, Layout(mem))
          BY <1>7, <1>9, <2>1, <3>1, <3>2
        <4>2. Layout(mem') = Layout(mem)
          BY <1>1
        <4> QED BY <2>2, <4>1, <4>2 DEF Explains
      <3>4. \A r : NoOwn(r)'
        BY <1>1, <1>3, <2>6, <2>7, SMTT(30) DEF NoOwn, Own, On
      <3>5. View' = Layout(mem) /\ Layout(mem') = Layout(mem)
        BY <1>1, SMTT(30) DEF View
      <3>6. \A i, r : ~OwnLast(i, r)'
        BY <3>4 DEF OwnLast, NoOwn, Own, On
      <3>7. Shown(Layout(mem))'
        BY <3>4, <3>5, <3>6 DEF Shown
      <3>8. Rolling(Layout(mem))'
        BY <1>1, <3>4 DEF Rolling
      <3> QED BY <1>1, <1>7, <3>3, <3>7, <3>8 DEF Opened, Halves
    <2>10. Layout(mem) \in Layouts
      BY <1>2, LayoutType DEF PagesOK
    <2> QED BY <1>1, <2>1, <2>4, <2>8, <2>9, <2>10 DEF OpenInv
  <1>10. MayStop' <=> MayStop
    BY <1>1 DEF MayStop
  <1> QED BY <1>4, <1>6, <1>8, <1>9, <1>10 DEF CRest, LogsGood, ZeroInv, WalShape, OpenInv

\* A record of the transaction, its commit record excepted, leads back where the
\* others do.
LEMMA RecordLeads ==
    ASSUME CInv, MayStop, txn # 0, NEW rec, Appends(rec), rec.txn = txn,
           UNCHANGED <<scenario, stops, mem, os, platter, txn, nextTxn, logs>>,
           pc # "commitSync", pc' # "commitSync", rec.type # "Commit",
           rec.type \in {"Insert", "Delete"} => HasSlot(rec.rid),
           "undo" \in scenario.work /\ rec.type \in {"Insert", "Delete"} =>
               rec.type = "Insert" /\ Free(wal, rec.rid),
           NEW lay \in Layouts, Opened(lay),
           \A r \in Place : Changes(rec, r) /\ NoOwn(r) => rec.before = lay[r]
    PROVE  /\ LogsGood' /\ ZeroInv' /\ LogShape'
           /\ \A l \in Logs' : Explains(l, lay)'
           /\ wal \in Seq(LogRecord) /\ wal' = Append(wal, rec) /\ rec \in LogRecord
  <1>1. LogShape'
    BY ShapeAppended
  <1>2. pc \notin Recoveries \cup Resets /\ LogShape /\ AllZero
    BY Parts, OpenIsZero DEF SessionOK, Recoveries, Resets
  <1>3. /\ wal \in Seq(LogRecord) /\ Readable(wal) = wal /\ wal' = Append(wal, rec)
        /\ Readable(wal') = wal' /\ LogsGood' /\ Logs' \subseteq Logs \cup {wal'}
        /\ wal \in Logs /\ rec \in LogRecord
    BY <1>2, Appended DEF Appends
  <1>4. \A p : Versions(p)' = Versions(p)
    BY VersionsFrame
  <1>5. ZeroInv'
    BY <1>2, <1>4 DEF ZeroInv, AllZero
  <1>6. \A l \in Logs : Explains(l, lay)
    BY DEF Opened
  <1>7. txn \notin Committed(wal)
    BY <1>2 DEF LogShape, Uncommitted
  <1>8. ASSUME NEW r \in Place, Changes(rec, r),
               \A i \in 1 .. Len(wal) : On(wal, i, r) => Won(wal, i)
        PROVE  rec.before = lay[r]
    <2>1. NoOwn(r)
      BY <1>7, <1>8 DEF NoOwn, Own, Won
    <2> QED BY <1>8, <2>1
  <1>9. Explains(wal', lay)
    <2>1. rec.txn \notin Committed(wal) /\ Explains(wal, lay)
      BY <1>3, <1>6, <1>7
    <2> QED BY <1>3, <1>8, <2>1, ExplainsAppended
  <1>10. \A l \in Logs' : Explains(l, lay)
    BY <1>3, <1>6, <1>9
  <1>11. \A l \in Logs' : Explains(l, lay)'
    BY <1>4, <1>10 DEF Explains
  <1> QED BY <1>1, <1>3, <1>5, <1>11

LEMMA ShownAppended ==
    ASSUME NEW rec, wal \in Seq(LogRecord), rec \in LogRecord, wal' = Append(wal, rec),
           rec.txn = txn, txn' = txn, NEW lay, Shown(lay),
           \A r \in Place \ Unlogged' :
              IF Changes(rec, r) THEN View'[r] = rec.after
                                 ELSE r \notin Unlogged /\ View'[r] = View[r]
    PROVE  Shown(lay)'
  <1>1. ASSUME NEW r \in Place \ Unlogged'
        PROVE  /\ NoOwn(r)' => View'[r] = lay[r]
               /\ \A i \in 1 .. Len(wal') : OwnLast(i, r)' => View'[r] = wal'[i].after
    <2>1. CASE Changes(rec, r)
      BY <2>1, OwnAppended
    <2>2. CASE ~Changes(rec, r)
      <3>1. r \in Place \ Unlogged /\ View'[r] = View[r]
        BY <2>2
      <3>2. NoOwn(r) => View[r] = lay[r]
        BY <3>1 DEF Shown
      <3>3. \A i \in 1 .. Len(wal) : OwnLast(i, r) => View[r] = wal[i].after
        BY <3>1 DEF Shown
      <3>4. NoOwn(r)' <=> NoOwn(r)
        BY <2>2, OwnAppended
      <3>5. \A i : OwnLast(i, r)' => OwnLast(i, r) /\ wal'[i] = wal[i] /\ i \in 1 .. Len(wal)
        BY <2>2, OwnAppended
      <3> QED BY <3>1, <3>2, <3>3, <3>4, <3>5
    <2> QED BY <2>1, <2>2
  <1> QED BY <1>1 DEF Shown

\* What Record makes.
LEMMA RecordIs ==
    ASSUME SessionOK, LogsOK, NEW id \in Nat, NEW type \in RecordTypes \ {"Torn"}, NEW r,
           NEW before \in Nat, NEW after \in Nat, NEW rec, rec = Record(id, type, r, before, after),
           IF type \in {"Insert", "Delete"} THEN r \in Place ELSE r = NoRid,
           type = "Insert" => before = Dead, type = "Delete" => after = Dead, AppendLog(rec)
    PROVE  /\ Appends(rec) /\ rec \in LogRecord /\ rec.txn = id /\ rec.type = type /\ rec.rid = r
           /\ rec.before = before /\ rec.after = after
           /\ \A q : Changes(rec, q) <=> type \in {"Insert", "Delete"} /\ q = r
  <1>1. nextLsn \in Nat
    BY DEF LogsOK
  <1>2. rec \in LogRecord
    BY <1>1 DEF Record, LogRecord, RecordTypes
  <1>3. rec.txn = id /\ rec.type = type /\ rec.rid = r /\ rec.before = before /\ rec.after = after
        /\ rec.lsn = nextLsn
    BY DEF Record
  <1> QED BY <1>2, <1>3 DEF Appends, Changes

\* PUT in a transaction: the row is in the heap.
LEMMA UndoableAdded ==
    ASSUME NEW u \in Seq(Change), NEW c \in Change, NEW lay \in Layouts, NEW new,
           Undoable(u, lay), c.old = Dead, c.to \in Place, c.new # Dead, lay[c.to] = Dead,
           \A r \in Place : lay[r] # c.new, c.new \notin stable, new = With(lay, c.to, c.new)
    PROVE  Undoable(Append(u, c), new)
  <1> DEFINE n == Len(u) + 1
             v == Append(u, c)
  <1>1. /\ v \in Seq(Change) /\ Len(v) = n /\ Len(u) \in Nat /\ v[n] = c
        /\ \A i \in 1 .. Len(u) : v[i] = u[i] /\ u[i] \in Change
    OBVIOUS
  <1>2. \A i \in 1 .. Len(v) : i \in 1 .. Len(u) \/ i = n
    BY <1>1
  <1>3. n \in 1 .. Len(v) /\ \A i \in 1 .. Len(u) : i \in 1 .. Len(v) /\ i # n
    BY <1>1
  <1> HIDE DEF v, n
  <1>4. c.new \in Nat
    BY DEF Change
  <1>5. Olds(v) = Olds(u)
    <2>1. \A x : x \in Olds(v) <=> x # Dead /\ \E i \in 1 .. Len(v) : v[i].old = x
      BY DEF Olds
    <2>2. \A x : x \in Olds(u) <=> x # Dead /\ \E i \in 1 .. Len(u) : u[i].old = x
      BY DEF Olds
    <2>3. \A x : x \in Olds(v) <=> x \in Olds(u)
      BY <1>1, <1>2, <1>3, <2>1, <2>2
    <2> QED BY <2>3
  <1>6. News(v) = News(u) \cup {c.new}
    <2>1. \A x : x \in News(v) <=> x # Dead /\ \E i \in 1 .. Len(v) : v[i].new = x
      BY DEF News
    <2>2. \A x : x \in News(u) <=> x # Dead /\ \E i \in 1 .. Len(u) : u[i].new = x
      BY DEF News
    <2>3. \A x : x \in News(v) <=> x \in News(u) \/ x = c.new
      BY <1>1, <1>2, <1>3, <2>1, <2>2
    <2> QED BY <2>3
  <1> DEFINE S == (stable \ Olds(u)) \cup News(u)
  <1>7. Exact(lay, S)
    BY DEF Undoable
  <1>8. c.new \notin S
    BY <1>7 DEF Exact
  <1>9. Exact(new, S \cup {c.new})
    <2> HIDE DEF S
    <2> QED BY <1>4, <1>7, <1>8, ExactAdd
  <1>10. S \cup {c.new} = (stable \ Olds(v)) \cup News(v)
    BY <1>5, <1>6
  <1>11. c.new \notin News(u)
    BY <1>8
  <1>12. Olds(v) \subseteq stable /\ News(v) \cap stable = {}
    BY <1>5, <1>6 DEF Undoable
  <1>13. /\ new[c.to] = c.new
         /\ \A q \in Place : q # c.to => new[q] = lay[q]
    <2>1. ASSUME NEW r \in Place, NEW row \in Nat
          PROVE  With(lay, r, row)[r] = row /\ \A q \in Place : q # r => With(lay, r, row)[q] = lay[q]
      BY WithIs
    <2>2. With(lay, c.to, c.new)[c.to] = c.new
      BY <1>4, <2>1
    <2>3. \A q \in Place : q # c.to => With(lay, c.to, c.new)[q] = lay[q]
      BY <1>4, <2>1
    <2> QED BY <2>2, <2>3
  <1>14. ASSUME NEW i \in 1 .. Len(v)
         PROVE  /\ v[i].to # NoRid <=> v[i].new # Dead
                /\ v[i].to # NoRid => new[v[i].to] = v[i].new
    <2>1. CASE i = n
      <3>1. c.to # NoRid
        BY PlaceIsReal
      <3> QED BY <1>1, <1>13, <2>1, <3>1
    <2>2. CASE i \in 1 .. Len(u)
      <3>1. /\ u[i].to # NoRid <=> u[i].new # Dead
            /\ u[i].to # NoRid => lay[u[i].to] = u[i].new
        BY <2>2 DEF Undoable
      <3>2. u[i].to # NoRid => u[i].to \in Place /\ u[i].to # c.to
        BY <1>1, <2>2, <3>1 DEF Change
      <3> QED BY <1>1, <1>13, <2>2, <3>1, <3>2
    <2> QED BY <1>2, <2>1, <2>2
  <1>15. ASSUME NEW i \in 1 .. Len(v), NEW j \in 1 .. Len(v), i # j
         PROVE  /\ v[i].old # Dead => v[i].old # v[j].old
                /\ v[i].new # Dead => v[i].new # v[j].new
    <2>1. \A k \in 1 .. Len(u) : u[k].new # Dead => u[k].new \in News(u)
      BY DEF News
    <2>2. CASE i \in 1 .. Len(u) /\ j \in 1 .. Len(u)
      BY <1>1, <1>15, <2>2 DEF Undoable
    <2>3. CASE i = n /\ j \in 1 .. Len(u)
      BY <1>1, <1>11, <2>1, <2>3
    <2>4. CASE i \in 1 .. Len(u) /\ j = n
      BY <1>1, <1>11, <2>1, <2>4
    <2> QED BY <1>2, <1>15, <2>2, <2>3, <2>4
  <1>16. Undoable(v, new)
    BY <1>9, <1>10, <1>12, <1>14, <1>15 DEF Undoable
  <1> QED BY <1>16 DEF v

LEMMA TxnPutKeeps == ASSUME CInv, IInv', NEW p \in Pages, TxnPut(p) PROVE CRest'
  <1> DEFINE to == InsertAt(p)
  <1>1. /\ pc = "ready" /\ txn # 0 /\ stmts < scenario.stmts /\ "txnPut" \in scenario.work
        /\ mem' = Inserted(mem, p, NewRow)
        /\ cur' = [rid |-> NoRid, to |-> to, old |-> Dead, new |-> NewRow]
        /\ pending' = pending \cup {NewRow} /\ stmts' = stmts + 1 /\ pc' = "logInsert"
        /\ UNCHANGED <<os, platter, wal, walPlatter, nextLsn, appends, txn, nextTxn, undo, left, at,
                       stable, stops, logs, scenario>>
    BY DEF TxnPut, CanIssueInTxn, CanIssue, InTxn, Ready, walVars, txnVars
  <1>2. SessionOK /\ SessionOK' /\ PagesOK /\ Basics /\ TxnInv /\ OpenInv /\ WalShape
        /\ mem \in [Pages -> Page] /\ mem' \in [Pages -> Page]
    BY Parts DEF IInv, PagesOK
  <1>3. /\ NewRow \in Nat /\ NewRow # Dead /\ NewRow \notin stable /\ NewRow \notin pending
        /\ \A r \in Place : Layout(mem)[r] # NewRow
    BY <1>2, NewRowIsNew
  <1>4. to = <<p, Len(mem[p].slots) + 1>> /\ Len(mem[p].slots) \in Nat
    BY <1>2 DEF InsertAt, Page
  <1>5. /\ to \in Place /\ Layout(mem)[to] = Dead
        /\ Layout(mem') = With(Layout(mem), to, NewRow)
        /\ SameLsn(mem, mem')
    BY <1>1, <1>2, <1>3, <1>4, LayoutInserted
  <1>6. Layout(mem) \in Layouts
    BY <1>2, LayoutType
  <1>7. View = Layout(mem) /\ View' = Layout(mem') /\ Todo = undo /\ Todo' = Append(undo, cur')
    BY <1>1 DEF View, Todo, Halves
  <1> HIDE DEF to
  <1>8. Layout(mem')[to] = NewRow /\ \A r \in Place : r # to => Layout(mem')[r] = Layout(mem)[r]
    BY <1>3, <1>5, <1>6, WithIs
  <1>9. Basics'
    <2>1. stmts \in Nat /\ scenario.stmts \in Nat /\ NewRow = stmts + 1
      BY <1>2 DEF SessionOK, Scenario, NewRow
    <2>2. stmts' <= scenario.stmts /\ stable \subseteq 1 .. stmts' /\ pending' \subseteq 1 .. stmts'
      BY <1>1, <1>2, <2>1 DEF Basics
    <2> QED BY <1>1, <1>2, <2>2 DEF Basics
  <1>10. LogsGood' /\ ZeroInv' /\ (MayStop' <=> MayStop) /\ Logs' = Logs
         /\ (\A q : Versions(q)' = Versions(q))
    <2>1. (MayStop' <=> MayStop) /\ Logs' = Logs /\ (\A q : Versions(q)' = Versions(q))
      BY <1>1, StopFrame
    <2>2. ZeroInv'
      BY <1>1, <1>5, Parts, ZeroKept DEF Recoveries
    <2> QED BY <2>1, <2>2, Parts DEF LogsGood
  <1>11. WalShape'
    <2>1. \A q \in Pages : Len(mem[q].slots) <= Len(mem'[q].slots)
      BY <1>1, <1>2, <1>3, InsertedGrows DEF Grows, Prior
    <2> QED BY <1>1, <1>2, <2>1, WalShapeKept DEF Recoveries, Resets
  <1>12. Exact(Layout(mem), pending)
    BY <1>1, <1>2, <1>7 DEF TxnInv, Acting
  <1>13. TxnInv'
    <2>1. Exact(View', pending')
      BY <1>1, <1>3, <1>5, <1>6, <1>7, <1>12, ExactAdd
    <2>2. ASSUME "undo" \in scenario.work PROVE Undoable(Todo, View)'
      <3>1. Undoable(undo, Layout(mem))
        BY <1>1, <1>2, <1>7, <2>2 DEF TxnInv
      <3>2. /\ cur' \in Change /\ undo \in Seq(Change) /\ cur'.old = Dead /\ cur'.to = to
            /\ cur'.new = NewRow
        BY <1>1, <1>2 DEF SessionOK
      <3>3. Undoable(Append(undo, cur'), Layout(mem'))
        <4>1. ASSUME NEW c \in Change, c.old = Dead, c.to = to, c.new = NewRow
              PROVE  Undoable(Append(undo, c), Layout(mem'))
          BY <1>3, <1>5, <1>6, <3>1, <3>2, <4>1, UndoableAdded
        <4> QED BY <3>2, <4>1
      <3>4. Undoable(Todo', View')
        BY <1>7, <3>3
      <3> QED BY <1>1, <3>4 DEF Undoable
    <2> QED BY <1>1, <1>3, <1>7, <1>8, <2>1, <2>2 DEF TxnInv, Halves
  <1>14. OpenInv'
    <2>1. SUFFICES ASSUME MayStop PROVE OpenInv'
      BY <1>10 DEF OpenInv
    <2>2. PICK lay \in Layouts : Opened(lay)
      BY <1>1, <1>2, <2>1 DEF OpenInv
    <2>3. Free(wal, to)
      <3>1. SlotsLogged
        BY <1>1, <2>1, OpenIsZero DEF LogShape
      <3>2. ~HasSlot(to)
        BY <1>4 DEF HasSlot
      <3> QED BY <1>5, <3>1, <3>2 DEF SlotsLogged
    <2>4. \A r : NoOwn(r)' <=> NoOwn(r)
      BY <1>1 DEF NoOwn, Own, On
    <2>5. NoOwn(to)
      BY <2>3 DEF NoOwn, Own, Free
    <2>6. Shown(lay)
      BY <1>1, <2>2 DEF Opened
    <2>7. lay[to] = Dead
      BY <1>1, <1>5, <1>7, <2>5, <2>6 DEF Shown, Unlogged
    <2>8. Shown(lay)'
      <3>1. \A r \in Place \ {to} : View'[r] = View[r]
        BY <1>7, <1>8
      <3>2. Unlogged' = {to} /\ Unlogged = {}
        BY <1>1 DEF Unlogged
      <3>3. \A i, r : OwnLast(i, r)' <=> OwnLast(i, r)
        BY <1>1 DEF OwnLast, Own, On
      <3> QED BY <1>1, <2>4, <2>6, <3>1, <3>2, <3>3 DEF Shown
    <2>9. Fresh(lay)'
      <3>1. cur'.to = to /\ to # NoRid
        BY <1>1, <1>5, PlaceIsReal
      <3> QED BY <1>1, <2>3, <2>4, <2>5, <2>7, <3>1 DEF Fresh, Free, On
    <2>10. ASSUME "undo" \in scenario.work PROVE Rolling(lay)'
      <3>1. Rolling(lay)
        BY <1>1, <2>2, <2>10 DEF Opened
      <3> QED BY <1>1, <1>8, <2>4, <2>5, <3>1 DEF Rolling
    <2>11. \A l \in Logs' : Explains(l, lay)'
      BY <1>1, <1>10, <2>2 DEF Opened, Explains
    <2> QED BY <1>1, <2>2, <2>8, <2>9, <2>10, <2>11 DEF OpenInv, Opened, Halves
  <1> QED BY <1>1, <1>2, <1>9, <1>10, <1>11, <1>13, <1>14, InsideTxn DEF CRest

\* PUT and MODIFY: the record of the new row.
LEMMA LogInsertKeeps == ASSUME CInv, IInv', LogInsert \/ LogModifyInsert PROVE CRest'
  <1> DEFINE rec == Record(txn, "Insert", cur.to, Dead, cur.new)
  <1>0. rec = Record(txn, "Insert", cur.to, Dead, cur.new)
    OBVIOUS
  <1>1. /\ pc \in {"logInsert", "logModifyInsert"} /\ AppendLog(rec)
        /\ undo' = Append(undo, cur) /\ cur' = NoCur /\ pc' = "ready"
        /\ UNCHANGED <<mem, os, platter, txn, nextTxn, left, at, stable, pending, stmts, stops, logs,
                       scenario>>
    BY DEF LogInsert, LogModifyInsert, pageVars, history, bounds
  <1>2. /\ SessionOK /\ SessionOK' /\ LogsOK /\ PagesOK /\ Basics /\ TxnInv /\ OpenInv
        /\ txn # 0 /\ txn \in Nat /\ cur \in Change /\ cur.to \in Place /\ undo \in Seq(Change)
    BY <1>1, Parts DEF IInv, SessionOK, Basics, Halves
  <1> HIDE DEF rec
  <1>3. /\ Appends(rec) /\ rec \in LogRecord /\ rec.txn = txn /\ rec.type = "Insert"
        /\ rec.before = Dead /\ rec.after = cur.new /\ rec.rid = cur.to
        /\ \A q : Changes(rec, q) <=> q = cur.to
    <2>1. cur.new \in Nat /\ "Insert" \in RecordTypes \ {"Torn"} /\ Dead \in Nat
      BY <1>2 DEF Change, RecordTypes, Dead
    <2>2. "Insert" \in {"Insert", "Delete"} /\ AppendLog(rec)
      BY <1>1
    <2> QED BY ONLY <1>2, <2>1, <2>2, RecordIs, <1>0, SMTT(30)
  <1>4. /\ View = Layout(mem) /\ View' = View /\ Todo = Append(undo, cur) /\ Todo' = Todo
    BY <1>1 DEF View, Todo, Halves
  <1>5. /\ Layout(mem)[cur.to] = cur.new /\ cur.new # Dead
        /\ pc = "logInsert" => cur.rid = NoRid /\ cur.old = Dead
        /\ pc = "logModifyInsert" => {"txnRemove", "txnModify"} \cap scenario.work # {}
        /\ Exact(View, pending)
        /\ "undo" \in scenario.work => Undoable(Todo, View)
    BY <1>1, <1>2 DEF TxnInv, Halves, Acting
  <1>6. Basics'
    BY <1>1, <1>2 DEF Basics, AppendLog, Halves
  <1>7. TxnInv'
    <2>1. "undo" \in scenario.work => Undoable(Todo, View)'
      BY <1>1, <1>4, <1>5, SMTT(30) DEF Undoable
    <2> QED BY <1>1, <1>4, <1>5, <2>1 DEF TxnInv, Halves
  <1>8. ASSUME MayStop PROVE LogsGood' /\ ZeroInv' /\ LogShape' /\ OpenInv'
    <2>1. PICK lay \in Layouts : Opened(lay)
      BY <1>2, <1>8 DEF OpenInv
    <2>2. Fresh(lay) /\ Shown(lay)
      BY <1>1, <2>1 DEF Opened, Halves
    <2>3. HasSlot(cur.to)
      <3>1. mem \in [Pages -> Page]
        BY <1>2 DEF PagesOK
      <3> QED BY <1>2, <1>5, <3>1, CellHasSlot DEF HasSlot
    <2>4. "undo" \in scenario.work => Free(wal, cur.to) /\ pc = "logInsert"
      <3>1. "undo" \in scenario.work => pc = "logInsert"
        BY <1>1, <1>2, <1>5, <1>8, StopIsPossible
      <3> QED BY <2>2, <3>1 DEF Fresh
    <2>5. NoOwn(cur.to) => lay[cur.to] = Dead
      BY <1>1, <1>2, <1>5, <2>2, PlaceIsReal DEF Fresh
    <2>6. /\ LogsGood' /\ ZeroInv' /\ LogShape' /\ \A l \in Logs' : Explains(l, lay)'
          /\ wal \in Seq(LogRecord) /\ wal' = Append(wal, rec)
      BY <1>1, <1>2, <1>3, <1>8, <2>1, <2>3, <2>4, <2>5, RecordLeads
    <2>7. Shown(lay)'
      <3>1. Unlogged' = {} /\ Unlogged = {cur.to}
        BY <1>1 DEF Unlogged
      <3>2. \A r \in Place \ Unlogged' :
               IF Changes(rec, r) THEN View'[r] = rec.after
                                  ELSE r \notin Unlogged /\ View'[r] = View[r]
        BY <1>3, <1>4, <1>5, <3>1
      <3> QED BY <1>1, <1>3, <2>2, <2>6, <3>2, ShownAppended
    <2>8. ASSUME "undo" \in scenario.work PROVE Rolling(lay)'
      <3>1. Rolling(lay) /\ pc = "logInsert"
        BY <2>1, <2>4, <2>8 DEF Opened
      <3> DEFINE n == Len(undo) + 1
      <3>2. /\ Len(undo') = n /\ undo'[n] = cur /\ Len(undo) \in Nat
            /\ \A i \in 1 .. Len(undo) : undo'[i] = undo[i]
        BY <1>1, <1>2
      <3>3. \A i \in 1 .. Len(undo') : i \in 1 .. Len(undo) \/ i = n
        BY <3>2
      <3>4. n \in 1 .. Len(undo') /\ \A i \in 1 .. Len(undo) : i \in 1 .. Len(undo')
        BY <3>2
      <3> HIDE DEF n
      <3>5. \A r : IF r = cur.to THEN ~NoOwn(r)' ELSE NoOwn(r)' <=> NoOwn(r)
        <4>1. \A r : ~Changes(rec, r) => (NoOwn(r)' <=> NoOwn(r))
          BY <1>1, <1>3, <2>6, OwnAppended
        <4>2. \A r : Changes(rec, r) => ~NoOwn(r)'
          BY <1>1, <1>3, <2>6, OwnAppended
        <4>3. \A r : r = cur.to => ~NoOwn(r)'
          BY <1>3, <4>2
        <4> QED BY <1>3, <4>1, <4>3
      <3>6. ASSUME NEW i \in 1 .. Len(undo')
            PROVE  (undo[i].old = Dead /\ (undo[i].to # NoRid => ~NoOwn(undo[i].to)))'
        <4>1. undo'[i].old = Dead /\ (undo'[i].to # NoRid => undo'[i].to = cur.to \/ ~NoOwn(undo'[i].to))
          BY <1>5, <3>1, <3>2, <3>3 DEF Rolling
        <4>2. \A r : NoOwn(r)' => NoOwn(r) /\ r # cur.to
          BY <3>5
        <4> QED BY <4>1, <4>2
      <3>7. ASSUME NEW r \in Place, ~NoOwn(r)'
            PROVE  Layout(mem)[r] = Dead \/ \E i \in 1 .. Len(undo') : undo'[i].to = r
        <4>1. CASE r = cur.to
          BY <3>2, <3>4, <4>1
        <4>2. CASE r # cur.to
          BY <3>1, <3>2, <3>4, <3>5, <3>7, <4>2 DEF Rolling
        <4> QED BY <4>1, <4>2
      <3> QED BY <1>1, <3>6, <3>7 DEF Rolling
    <2> QED BY <1>1, <1>2, <2>1, <2>6, <2>7, <2>8 DEF OpenInv, Opened, Halves
  <1>9. MayStop' <=> MayStop
    BY <1>1 DEF MayStop
  <1> QED BY <1>1, <1>2, <1>6, <1>7, <1>8, <1>9, InsideTxn
          DEF CRest, LogsGood, ZeroInv, WalShape, OpenInv

\* MODIFY: the record of the old row.
LEMMA LogModifyDeleteKeeps == ASSUME CInv, IInv', LogModifyDelete PROVE CRest'
  <1> DEFINE rec == Record(txn, "Delete", cur.rid, cur.old, Dead)
  <1>0. rec = Record(txn, "Delete", cur.rid, cur.old, Dead)
    OBVIOUS
  <1>1. /\ pc = "logModifyDelete" /\ AppendLog(rec) /\ pc' = "logModifyInsert"
        /\ UNCHANGED <<mem, os, platter, txn, nextTxn, undo, cur, left, at, stable, pending, stmts,
                       stops, logs, scenario>>
    BY DEF LogModifyDelete, pageVars, txnVars, history, bounds
  <1>2. /\ SessionOK /\ SessionOK' /\ LogsOK /\ PagesOK /\ Basics /\ TxnInv /\ OpenInv
        /\ txn # 0 /\ txn \in Nat /\ cur \in Change /\ cur.to \in Place /\ cur.rid \in Place
    BY <1>1, Parts DEF IInv, SessionOK, Basics, Halves
  <1> HIDE DEF rec
  <1>3. /\ Appends(rec) /\ rec \in LogRecord /\ rec.txn = txn /\ rec.type = "Delete"
        /\ rec.before = cur.old /\ rec.after = Dead /\ rec.rid = cur.rid
        /\ \A q : Changes(rec, q) <=> q = cur.rid
    <2>1. cur.old \in Nat /\ "Delete" \in RecordTypes \ {"Torn"} /\ Dead \in Nat
      BY <1>2 DEF Change, RecordTypes, Dead
    <2>2. "Delete" \in {"Insert", "Delete"} /\ AppendLog(rec)
      BY <1>1
    <2> QED BY ONLY <1>2, <2>1, <2>2, RecordIs, <1>0, SMTT(30)
  <1>4. /\ View = Layout(mem) /\ View' = View /\ Todo' = Todo /\ Layout(mem') = Layout(mem)
    BY <1>1 DEF View, Todo, Halves
  <1>5. /\ Layout(mem)[cur.to] = cur.new /\ cur.new # Dead /\ HasSlot(cur.rid)
        /\ cur.rid # cur.to => Layout(mem)[cur.rid] = Dead
        /\ {"txnRemove", "txnModify"} \cap scenario.work # {}
        /\ Exact(View, pending)
        /\ "undo" \in scenario.work => Undoable(Todo, View)
    BY <1>1, <1>2 DEF TxnInv, Halves, Acting
  <1>6. Basics'
    BY <1>1, <1>2 DEF Basics, AppendLog, Halves
  <1>7. TxnInv'
    <2>1. "undo" \in scenario.work => Undoable(Todo, View)'
      BY <1>1, <1>4, <1>5 DEF Undoable
    <2> QED BY <1>1, <1>4, <1>5, <2>1 DEF TxnInv, Halves
  <1>8. ASSUME MayStop PROVE LogsGood' /\ ZeroInv' /\ LogShape' /\ OpenInv'
    <2>1. PICK lay \in Layouts : Opened(lay)
      BY <1>2, <1>8 DEF OpenInv
    <2>2. Fresh(lay) /\ Shown(lay)
      BY <1>1, <2>1 DEF Opened, Halves
    <2>3. "undo" \notin scenario.work
      BY <1>2, <1>5, <1>8, StopIsPossible
    <2>4. NoOwn(cur.rid) => lay[cur.rid] = cur.old
      BY <1>1, <2>2 DEF Fresh
    <2>5. /\ LogsGood' /\ ZeroInv' /\ LogShape' /\ \A l \in Logs' : Explains(l, lay)'
          /\ wal \in Seq(LogRecord) /\ wal' = Append(wal, rec)
      BY <1>1, <1>2, <1>3, <1>5, <1>8, <2>1, <2>3, <2>4, RecordLeads
    <2>6. Shown(lay)'
      <3>1. Unlogged' = {cur.to} /\ Unlogged = {cur.rid, cur.to}
        BY <1>1 DEF Unlogged
      <3>2. \A r \in Place \ Unlogged' :
               IF Changes(rec, r) THEN View'[r] = rec.after
                                  ELSE r \notin Unlogged /\ View'[r] = View[r]
        BY <1>3, <1>4, <1>5, <3>1
      <3> QED BY <1>1, <1>3, <2>2, <2>5, <3>2, ShownAppended
    <2>7. Fresh(lay)'
      <3>1. \A r : ~Changes(rec, r) => (NoOwn(r)' <=> NoOwn(r))
        BY <1>1, <1>3, <2>5, OwnAppended
      <3>2. \A r : Changes(rec, r) => ~NoOwn(r)'
        BY <1>1, <1>3, <2>5, OwnAppended
      <3>3. \A r : IF r = cur.rid THEN ~NoOwn(r)' ELSE NoOwn(r)' <=> NoOwn(r)
        BY <1>3, <3>1, <3>2
      <3> QED BY <1>1, <2>2, <3>3 DEF Fresh
    <2> QED BY <1>1, <1>2, <2>1, <2>3, <2>5, <2>6, <2>7 DEF OpenInv, Opened, Halves
  <1>9. MayStop' <=> MayStop
    BY <1>1 DEF MayStop
  <1> QED BY <1>1, <1>2, <1>6, <1>7, <1>8, <1>9, InsideTxn
          DEF CRest, LogsGood, ZeroInv, WalShape, OpenInv

\* A transaction that may be undone and changes rows that were there has only one
\* change.
LEMMA OneChange ==
    ASSUME SessionOK, Basics, "undo" \in scenario.work, Len(undo) < scenario.perTxn,
           {"txnRemove", "txnModify"} \cap scenario.work # {}
    PROVE  undo = << >>
  <1>1. scenario.perTxn <= 1 /\ scenario.perTxn \in Nat
    BY DEF Basics, Kept, SessionOK, Scenario
  <1>2. undo \in Seq(Change) /\ Len(undo) \in Nat
    BY DEF SessionOK
  <1>3. Len(undo) = 0
    BY <1>1, <1>2
  <1> QED BY <1>2, <1>3

LEMMA OldsNewsOne ==
    ASSUME NEW c \in Change
    PROVE  /\ Append(<< >>, c) = <<c>> /\ Len(<<c>>) = 1 /\ <<c>>[1] = c
           /\ Olds(<<c>>) = {c.old} \ {Dead} /\ News(<<c>>) = {c.new} \ {Dead}
           /\ Olds(<< >>) = {} /\ News(<< >>) = {}
  <1>1. \A i \in 1 .. Len(<<c>>) : i = 1 /\ <<c>>[i] = c
    OBVIOUS
  <1>2. 1 \in 1 .. Len(<<c>>)
    OBVIOUS
  <1>3. {<<c>>[i].old : i \in 1 .. Len(<<c>>)} = {c.old}
    BY <1>1, <1>2
  <1>4. {<<c>>[i].new : i \in 1 .. Len(<<c>>)} = {c.new}
    BY <1>1, <1>2
  <1>5. 1 .. Len(<< >>) = {}
    OBVIOUS
  <1> QED BY <1>3, <1>4, <1>5 DEF Olds, News

\* REMOVE: the record of the removal.
LEMMA TxnRemoveKeeps == ASSUME CInv, IInv', NEW r \in LiveRids, TxnRemove(r) PROVE CRest'
  <1> DEFINE rec == Record(txn, "Delete", r, RowAt(r), Dead)
  <1>0. rec = Record(txn, "Delete", r, RowAt(r), Dead)
    OBVIOUS
  <1>1. /\ pc = "ready" /\ txn # 0 /\ stmts < scenario.stmts /\ "txnRemove" \in scenario.work
        /\ Len(undo) < scenario.perTxn /\ AppendLog(rec)
        /\ cur' = [rid |-> r, to |-> NoRid, old |-> RowAt(r), new |-> Dead]
        /\ undo' = Append(undo, cur') /\ pending' = pending \ {RowAt(r)}
        /\ stmts' = stmts + 1 /\ pc' = "erase"
        /\ UNCHANGED <<mem, os, platter, txn, nextTxn, left, at, stable, stops, logs, scenario>>
    BY DEF TxnRemove, CanIssueInTxn, CanIssue, InTxn, Ready, pageVars
  <1>2. /\ SessionOK /\ SessionOK' /\ LogsOK /\ PagesOK /\ Basics /\ TxnInv /\ OpenInv
        /\ txn \in Nat /\ mem \in [Pages -> Page] /\ cur' \in Change
    BY Parts DEF IInv, SessionOK, PagesOK
  <1>3. r \in Place /\ HasSlot(r) /\ Layout(mem)[r] = RowAt(r) /\ RowAt(r) # Dead /\ RowAt(r) \in Nat
    BY <1>2, LiveRow, LiveCell DEF HasSlot
  <1> HIDE DEF rec
  <1>4. /\ Appends(rec) /\ rec \in LogRecord /\ rec.txn = txn /\ rec.type = "Delete"
        /\ rec.before = RowAt(r) /\ rec.after = Dead /\ rec.rid = r
        /\ \A q : Changes(rec, q) <=> q = r
    <2>1. "Delete" \in RecordTypes \ {"Torn"} /\ Dead \in Nat
      BY DEF RecordTypes, Dead
    <2>2. "Delete" \in {"Insert", "Delete"} /\ AppendLog(rec)
      BY <1>1
    <2> QED BY ONLY <1>2, <1>3, <2>1, <2>2, RecordIs, <1>0, SMTT(30)
  <1>5. Layout(mem) \in Layouts
    BY <1>2, LayoutType
  <1>6. /\ View = Layout(mem) /\ View' = With(Layout(mem), r, Dead) /\ Todo = undo /\ Todo' = undo'
    BY <1>1 DEF View, Todo, Halves
  <1>7. View'[r] = Dead /\ \A q \in Place : q # r => View'[q] = View[q]
    BY <1>3, <1>5, <1>6, WithIs DEF Dead
  <1>8. /\ Exact(Layout(mem), pending)
        /\ "undo" \in scenario.work => Undoable(undo, Layout(mem))
    BY <1>1, <1>2, <1>6 DEF TxnInv, Acting
  <1>9. Basics'
    <2>1. stmts \in Nat /\ scenario.stmts \in Nat
      BY <1>2 DEF SessionOK, Scenario
    <2>2. 1 .. stmts \subseteq 1 .. stmts' /\ stmts' <= scenario.stmts
      BY <1>1, <2>1
    <2>3. stable \subseteq 1 .. stmts' /\ pending' \subseteq 1 .. stmts'
      BY <1>1, <1>2, <2>2 DEF Basics
    <2> QED BY <1>1, <1>2, <2>2, <2>3 DEF Basics, AppendLog
  <1>10. Exact(View', pending')
    BY <1>1, <1>3, <1>5, <1>6, <1>8, ExactDrop
  <1>11. ASSUME "undo" \in scenario.work PROVE Undoable(Todo, View)'
    <2>1. undo = << >>
      BY <1>1, <1>2, <1>11, OneChange
    <2>2. ASSUME NEW c \in Change, c.to = NoRid, c.old = RowAt(r), c.new = Dead
          PROVE  /\ Exact(View', (stable \ Olds(Append(<< >>, c))) \cup News(Append(<< >>, c)))
                 /\ Olds(Append(<< >>, c)) \subseteq stable
                 /\ News(Append(<< >>, c)) \cap stable = {}
                 /\ \A i \in 1 .. Len(Append(<< >>, c)) : Append(<< >>, c)[i] = c /\ i = 1
      <3>1. /\ Append(<< >>, c) = <<c>> /\ Len(<<c>>) = 1 /\ <<c>>[1] = c
            /\ Olds(<<c>>) = {RowAt(r)} /\ News(<<c>>) = {}
            /\ Olds(<< >>) = {} /\ News(<< >>) = {}
        BY <1>3, <2>2, OldsNewsOne
      <3>2. Exact(Layout(mem), stable)
        <4>1. (stable \ {}) \cup {} = stable
          OBVIOUS
        <4> QED BY <1>8, <1>11, <2>1, <3>1, <4>1 DEF Undoable
      <3>3. RowAt(r) \in stable
        BY <1>3, <3>2 DEF Exact
      <3>4. Exact(View', stable \ {RowAt(r)})
        BY <1>3, <1>5, <1>6, <3>2, ExactDrop
      <3>5. (stable \ {RowAt(r)}) \cup {} = stable \ {RowAt(r)}
        OBVIOUS
      <3>6. \A i \in 1 .. Len(<<c>>) : i = 1 /\ <<c>>[i] = c
        OBVIOUS
      <3> QED BY <3>1, <3>3, <3>4, <3>5, <3>6
    <2>3. Todo' = Append(<< >>, cur')
      BY <1>1, <1>6, <2>1
    <2>4. /\ Exact(View', (stable \ Olds(Todo')) \cup News(Todo')) /\ Olds(Todo') \subseteq stable
          /\ News(Todo') \cap stable = {}
          /\ \A i \in 1 .. Len(Todo') : Todo'[i] = cur' /\ i = 1
      BY <1>1, <1>2, <2>2, <2>3
    <2> QED BY <1>1, <2>4 DEF Undoable
  <1>12. TxnInv'
    BY <1>1, <1>10, <1>11 DEF TxnInv, Halves
  <1>13. ASSUME MayStop PROVE LogsGood' /\ ZeroInv' /\ LogShape' /\ OpenInv'
    <2>1. PICK lay \in Layouts : Opened(lay)
      BY <1>1, <1>2, <1>13 DEF OpenInv
    <2>2. Shown(lay) /\ Unlogged = {} /\ Unlogged' = {}
      BY <1>1, <2>1 DEF Opened, Unlogged
    <2>3. "undo" \notin scenario.work
      BY <1>1, <1>2, <1>13, StopIsPossible
    <2>4. NoOwn(r) => lay[r] = RowAt(r)
      BY <1>3, <1>6, <2>2 DEF Shown
    <2>5. /\ LogsGood' /\ ZeroInv' /\ LogShape' /\ \A l \in Logs' : Explains(l, lay)'
          /\ wal \in Seq(LogRecord) /\ wal' = Append(wal, rec)
      BY <1>1, <1>2, <1>3, <1>4, <1>13, <2>1, <2>3, <2>4, RecordLeads
    <2>6. Shown(lay)'
      <3>1. \A q \in Place \ Unlogged' :
               IF Changes(rec, q) THEN View'[q] = rec.after
                                  ELSE q \notin Unlogged /\ View'[q] = View[q]
        BY <1>4, <1>7, <2>2
      <3> QED BY <1>1, <1>4, <2>2, <2>5, <3>1, ShownAppended
    <2>7. ~NoOwn(cur.rid)'
      <3>1. \A q : q = r => ~NoOwn(q)'
        BY <1>1, <1>4, <2>5, OwnAppended
      <3> QED BY <1>1, <3>1
    <2> QED BY <1>1, <1>2, <2>1, <2>3, <2>5, <2>6, <2>7 DEF OpenInv, Opened, Halves
  <1>14. MayStop' <=> MayStop
    BY <1>1 DEF MayStop
  <1> QED BY <1>1, <1>2, <1>9, <1>12, <1>13, <1>14, InsideTxn
          DEF CRest, LogsGood, ZeroInv, WalShape, OpenInv

\* REMOVE: the row leaves the heap, and the program sees what its log says.
LEMMA EraseKeeps == ASSUME CInv, IInv', Erase PROVE CRest'
  <1>1. /\ pc = "erase" /\ mem' = Erased(mem, cur.rid) /\ cur' = NoCur /\ pc' = "ready"
        /\ UNCHANGED <<os, platter, wal, walPlatter, nextLsn, appends, txn, nextTxn, undo, left, at,
                       stable, pending, stmts, stops, logs, scenario>>
    BY DEF Erase, walVars, txnVars, history, bounds
  <1>2. /\ SessionOK /\ SessionOK' /\ PagesOK /\ Basics /\ TxnInv /\ OpenInv /\ WalShape
        /\ mem \in [Pages -> Page] /\ mem' \in [Pages -> Page] /\ txn # 0 /\ cur.rid \in Place
    BY <1>1, Parts DEF IInv, PagesOK, Basics, SessionOK
  <1>3. /\ Layout(mem') = With(Layout(mem), cur.rid, Dead) /\ SameLsn(mem, mem')
        /\ SameLens(mem, mem')
    BY <1>1, <1>2, LayoutErased
  <1>4. View = With(Layout(mem), cur.rid, Dead) /\ View' = View /\ Todo' = Todo
        /\ Unlogged = {} /\ Unlogged' = {}
    BY <1>1, <1>3 DEF View, Todo, Halves, Unlogged
  <1>5. Basics'
    BY <1>1, <1>2 DEF Basics, Halves
  <1>6. LogsGood' /\ ZeroInv' /\ (MayStop' <=> MayStop) /\ Logs' = Logs
         /\ (\A q : Versions(q)' = Versions(q))
    <2>1. (MayStop' <=> MayStop) /\ Logs' = Logs /\ (\A q : Versions(q)' = Versions(q))
      BY <1>1, StopFrame
    <2>2. ZeroInv'
      BY <1>1, <1>3, Parts, ZeroKept DEF Recoveries
    <2> QED BY <2>1, <2>2, Parts DEF LogsGood
  <1>7. WalShape'
    <2>1. \A q \in Pages : Len(mem[q].slots) <= Len(mem'[q].slots)
      BY <1>2, <1>3 DEF SameLens, Page
    <2> QED BY <1>1, <1>2, <2>1, WalShapeKept DEF Recoveries, Resets
  <1>8. TxnInv'
    <2>1. Exact(View, pending) /\ ("undo" \in scenario.work => Undoable(Todo, View))
      BY <1>1, <1>2 DEF TxnInv, Acting
    <2>2. "undo" \in scenario.work => Undoable(Todo, View)'
      BY <1>1, <1>4, <2>1 DEF Undoable
    <2> QED BY <1>1, <1>4, <2>1, <2>2 DEF TxnInv, Halves
  <1>9. OpenInv'
    <2>1. SUFFICES ASSUME MayStop PROVE OpenInv'
      BY <1>6 DEF OpenInv
    <2>2. PICK lay \in Layouts : Opened(lay)
      BY <1>2, <2>1 DEF OpenInv
    <2>3. "undo" \notin scenario.work
      <3>1. {"txnRemove", "txnModify"} \cap scenario.work # {}
        BY <1>1, <1>2 DEF TxnInv
      <3> QED BY <1>2, <2>1, <3>1, StopIsPossible
    <2>4. Shown(lay)'
      <3>1. Shown(lay)
        BY <1>1, <2>2 DEF Opened
      <3>2. \A r : NoOwn(r)' <=> NoOwn(r)
        BY <1>1 DEF NoOwn, Own, On
      <3>3. \A i, r : OwnLast(i, r)' <=> OwnLast(i, r)
        BY <1>1 DEF OwnLast, Own, On
      <3> QED BY <1>1, <1>4, <3>1, <3>2, <3>3 DEF Shown
    <2>5. \A l \in Logs' : Explains(l, lay)'
      BY <1>1, <1>6, <2>2 DEF Opened, Explains
    <2> QED BY <1>1, <2>2, <2>3, <2>4, <2>5 DEF OpenInv, Opened, Halves
  <1> QED BY <1>1, <1>2, <1>5, <1>6, <1>7, <1>8, <1>9, InsideTxn DEF CRest

\* MODIFY: the new row is in the heap.
LEMMA TxnModifyKeeps ==
    ASSUME CInv, IInv', NEW r \in LiveRids, NEW to \in UpdateTargets(r), TxnModify(r, to)
    PROVE  CRest'
  <1>1. /\ pc = "ready" /\ txn # 0 /\ stmts < scenario.stmts /\ "txnModify" \in scenario.work
        /\ Len(undo) < scenario.perTxn /\ mem' = UpdateTuple(r, to, NewRow)
        /\ cur' = [rid |-> r, to |-> to, old |-> RowAt(r), new |-> NewRow]
        /\ pending' = (pending \ {RowAt(r)}) \cup {NewRow}
        /\ stmts' = stmts + 1 /\ pc' = "logModifyDelete"
        /\ UpdateWrites(r, to)
        /\ UNCHANGED <<txn, nextTxn, undo, left, at, stable, stops, logs, scenario>>
    BY DEF TxnModify, CanIssueInTxn, CanIssue, InTxn, Ready, txnVars
  <1>2. /\ SessionOK /\ SessionOK' /\ PagesOK /\ Basics /\ TxnInv /\ OpenInv /\ WalShape
        /\ mem \in [Pages -> Page] /\ mem' \in [Pages -> Page] /\ cur' \in Change
    BY Parts DEF IInv, SessionOK, PagesOK
  <1>3. /\ NewRow \in Nat /\ NewRow # Dead /\ NewRow \notin stable /\ NewRow \notin pending
        /\ \A q \in Place : Layout(mem)[q] # NewRow
    BY <1>2, NewRowIsNew
  <1>4. r \in Place /\ HasSlot(r) /\ Layout(mem)[r] = RowAt(r) /\ RowAt(r) # Dead /\ RowAt(r) \in Nat
    BY <1>2, LiveRow, LiveCell DEF HasSlot
  <1>5. to \in Place /\ Grows(mem, mem', NewRow)
    BY <1>1, <1>2, <1>3, Updated
  <1> DEFINE gone == With(Layout(mem), r, Dead)
  <1>6. /\ gone[to] = Dead /\ Layout(mem') = With(gone, to, NewRow) /\ SameLsn(mem, mem')
        /\ to # r => Layout(mem)[to] = Dead
    BY <1>1, <1>2, <1>3, LayoutUpdated
  <1>7. Layout(mem) \in Layouts
    BY <1>2, LayoutType
  <1>8. gone \in Layouts /\ gone[r] = Dead /\ \A q \in Place : q # r => gone[q] = Layout(mem)[q]
    BY <1>4, <1>7, WithIs DEF Dead
  <1>9. View = Layout(mem) /\ View' = Layout(mem') /\ Todo = undo /\ Todo' = Append(undo, cur')
    BY <1>1 DEF View, Todo, Halves
  <1>10. /\ Exact(Layout(mem), pending)
         /\ "undo" \in scenario.work => Undoable(undo, Layout(mem))
    BY <1>1, <1>2, <1>9 DEF TxnInv, Acting
  <1>11. \A S : Exact(Layout(mem), S) /\ NewRow \notin S =>
            Exact(Layout(mem'), (S \ {RowAt(r)}) \cup {NewRow})
    <2>1. ASSUME NEW S, Exact(Layout(mem), S), NewRow \notin S
          PROVE  Exact(Layout(mem'), (S \ {RowAt(r)}) \cup {NewRow})
      <3>1. Exact(gone, S \ {RowAt(r)})
        BY <1>4, <1>7, <2>1, ExactDrop
      <3> HIDE DEF gone
      <3>2. NewRow \notin S \ {RowAt(r)}
        BY <2>1
      <3> QED BY <1>3, <1>5, <1>6, <1>8, <3>1, <3>2, ExactAdd
    <2> QED BY <2>1
  <1> HIDE DEF gone
  <1>12. Layout(mem')[to] = NewRow /\ \A q \in Place : q # to => Layout(mem')[q] = gone[q]
    BY <1>3, <1>5, <1>6, <1>8, WithIs
  <1>13. HalfWritten(NewRow)
    BY <1>1, <1>2, <1>3, UpdatedInHalves
  <1>14. /\ MayStop' <=> MayStop
         /\ MayStop => Logs' = Logs /\ (\A q : Versions(q)' = Versions(q))
         /\ wal' = wal /\ nextLsn' = nextLsn
    BY <1>1, <1>2, <1>13, HalvesFrame
  <1>15. Basics'
    <2>1. stmts \in Nat /\ scenario.stmts \in Nat /\ NewRow = stmts + 1
      BY <1>2 DEF SessionOK, Scenario, NewRow
    <2>2. 1 .. stmts \subseteq 1 .. stmts' /\ stmts' <= scenario.stmts /\ NewRow \in 1 .. stmts'
      BY <1>1, <2>1
    <2>3. stable \subseteq 1 .. stmts' /\ pending' \subseteq 1 .. stmts'
      BY <1>1, <1>2, <2>2 DEF Basics
    <2>4. wal' \in walPlatter' /\ \A p \in Pages : os'[p] \in platter'[p]
      BY <1>1, <1>2, <1>13, HalvesFrame
    <2> QED BY <1>1, <1>2, <2>2, <2>3, <2>4 DEF Basics
  <1>16. LogsGood' /\ ZeroInv'
    BY <1>1, <1>2, <1>6, <1>13, Parts, HalvesKeepZero DEF Recoveries
  <1>17. \A q \in Pages : Len(mem[q].slots) <= Len(mem'[q].slots)
    BY <1>5 DEF Grows, Prior
  <1>18. WalShape'
    BY <1>1, <1>2, <1>17, <1>14, WalShapeKept DEF Recoveries, Resets
  <1>19. ASSUME "undo" \in scenario.work PROVE Undoable(Todo, View)'
    <2>1. undo = << >>
      BY <1>1, <1>2, <1>19, OneChange
    <2>2. ASSUME NEW c \in Change, c.to = to, c.old = RowAt(r), c.new = NewRow
          PROVE  /\ Exact(View', (stable \ Olds(Append(<< >>, c))) \cup News(Append(<< >>, c)))
                 /\ Olds(Append(<< >>, c)) \subseteq stable
                 /\ News(Append(<< >>, c)) \cap stable = {}
                 /\ \A i \in 1 .. Len(Append(<< >>, c)) : Append(<< >>, c)[i] = c /\ i = 1
      <3>1. /\ Append(<< >>, c) = <<c>> /\ Len(<<c>>) = 1 /\ <<c>>[1] = c
            /\ Olds(<<c>>) = {RowAt(r)} /\ News(<<c>>) = {NewRow}
            /\ Olds(<< >>) = {} /\ News(<< >>) = {}
        BY <1>3, <1>4, <2>2, OldsNewsOne
      <3>2. Exact(Layout(mem), stable)
        <4>1. (stable \ {}) \cup {} = stable
          OBVIOUS
        <4> QED BY <1>10, <1>19, <2>1, <3>1, <4>1 DEF Undoable
      <3>3. RowAt(r) \in stable
        BY <1>4, <3>2 DEF Exact
      <3>4. Exact(View', (stable \ {RowAt(r)}) \cup {NewRow})
        BY <1>3, <1>9, <1>11, <3>2
      <3>5. \A i \in 1 .. Len(<<c>>) : i = 1 /\ <<c>>[i] = c
        OBVIOUS
      <3>6. {RowAt(r)} \subseteq stable /\ {NewRow} \cap stable = {}
        BY <1>3, <3>3
      <3>7. Olds(Append(<< >>, c)) = {RowAt(r)} /\ News(Append(<< >>, c)) = {NewRow}
        BY ONLY <3>1, Zenon
      <3>8. \A i \in 1 .. Len(Append(<< >>, c)) : Append(<< >>, c)[i] = c /\ i = 1
        BY ONLY <3>1, <3>5, Zenon
      <3>9. Exact(View', (stable \ Olds(Append(<< >>, c))) \cup News(Append(<< >>, c)))
        BY ONLY <3>4, <3>7, Zenon
      <3> QED BY <3>6, <3>7, <3>8, <3>9
    <2>3. Todo' = Append(<< >>, cur')
      BY <1>9, <2>1
    <2>4. /\ Exact(View', (stable \ Olds(Todo')) \cup News(Todo')) /\ Olds(Todo') \subseteq stable
          /\ News(Todo') \cap stable = {}
          /\ \A i \in 1 .. Len(Todo') : Todo'[i] = cur' /\ i = 1
      BY <1>1, <1>2, <2>2, <2>3
    <2>5. to # NoRid
      BY <1>5, PlaceIsReal
    <2> QED BY <1>1, <1>3, <1>9, <1>12, <2>4, <2>5 DEF Undoable
  <1>20. TxnInv'
    <2>1. Exact(View', pending')
      BY <1>1, <1>3, <1>9, <1>10, <1>11
    <2>2. HasSlot(r)'
      <3>1. Len(mem[r[1]].slots) <= Len(mem'[r[1]].slots) /\ Len(mem[r[1]].slots) \in Nat
            /\ Len(mem'[r[1]].slots) \in Nat /\ r[2] \in Nat
        BY <1>2, <1>4, <1>17, PlaceIsReal DEF Page
      <3> QED BY <1>4, <3>1 DEF HasSlot
    <2>3. HasSlot(cur.rid)'
      BY <1>1, <2>2 DEF HasSlot
    <2>4. r # to => Layout(mem')[r] = Dead
      BY <1>4, <1>8, <1>12
    <2> QED BY <1>1, <1>3, <1>12, <1>19, <2>1, <2>3, <2>4 DEF TxnInv, Halves
  <1>21. OpenInv'
    <2>1. SUFFICES ASSUME MayStop PROVE OpenInv'
      BY <1>14 DEF OpenInv
    <2>2. PICK lay \in Layouts : Opened(lay)
      BY <1>1, <1>2, <2>1 DEF OpenInv
    <2>3. "undo" \notin scenario.work
      BY <1>1, <1>2, <2>1, StopIsPossible
    <2>4. \A q : NoOwn(q)' <=> NoOwn(q)
      BY <1>1, <1>14 DEF NoOwn, Own, On
    <2>5. Shown(lay) /\ Unlogged = {} /\ Unlogged' = {r, to}
      BY <1>1, <2>2 DEF Opened, Unlogged
    <2>6. Shown(lay)'
      <3>1. \A q \in Place \ {r, to} : View'[q] = View[q]
        BY <1>8, <1>9, <1>12
      <3>2. \A i, q : OwnLast(i, q)' <=> OwnLast(i, q)
        BY <1>1, <1>14 DEF OwnLast, Own, On
      <3> QED BY <1>1, <1>14, <2>4, <2>5, <3>1, <3>2 DEF Shown
    <2>7. to # r => NoOwn(to) /\ lay[to] = Dead
      <3>1. SUFFICES ASSUME to # r PROVE NoOwn(to) /\ lay[to] = Dead
        OBVIOUS
      <3>2. PICK p \in Pages : to = InsertAt(p)
        BY <3>1 DEF UpdateTargets
      <3>3. SlotsLogged
        BY <1>1, <2>1, OpenIsZero DEF LogShape
      <3>4. ~HasSlot(to)
        BY <1>2, <3>2 DEF HasSlot, InsertAt, Page
      <3>5. NoOwn(to)
        BY <1>5, <3>3, <3>4 DEF SlotsLogged, NoOwn, Own, Free
      <3> QED BY <1>5, <1>6, <1>9, <2>5, <3>1, <3>5 DEF Shown
    <2>8. NoOwn(r) => lay[r] = RowAt(r)
      BY <1>4, <1>9, <2>5 DEF Shown
    <2>9. Fresh(lay)'
      BY <1>1, <2>4, <2>7, <2>8 DEF Fresh
    <2>10. \A l \in Logs' : Explains(l, lay)'
      BY <1>1, <1>14, <2>1, <2>2 DEF Opened, Explains
    <2> QED BY <1>1, <2>2, <2>3, <2>6, <2>9, <2>10 DEF OpenInv, Opened, Halves
  <1> QED BY <1>1, <1>2, <1>15, <1>16, <1>18, <1>20, <1>21, InsideTxn DEF CRest

\* Without LSNs, the log leads to the same row from any page version, unless it has
\* nothing for the place.
LEMMA LeadsAtZero ==
    ASSUME NEW l \in Seq(LogRecord), WellFormed(l), NEW v, NEW w, v.lsn = 0, w.lsn = 0,
           NEW r, NEW g, Leads(v, r, g, l), Free(l, r) => g = Cell(w, r[2])
    PROVE  Leads(w, r, g, l)
  <1>1. \A i \in 1 .. Len(l) : LastWon(l, i, r) => g = l[i].after
    BY DEF Leads, WellFormed
  <1> QED BY <1>1 DEF Leads, WellFormed

\* SAVE: the commit record makes the log lead to what the program sees.
LEMMA CommitLeads ==
    ASSUME CInv, MayStop, txn # 0, pc = "ready", NEW rec, Appends(rec), rec.txn = txn,
           rec.type = "Commit", UNCHANGED <<scenario, stops, mem, os, platter, txn, nextTxn, logs>>,
           pc' = "commitSync", NEW lay \in Layouts, Opened(lay)
    PROVE  Explains(wal', Layout(mem))
  <1>1. pc \notin Recoveries \cup Resets /\ LogShape /\ AllZero
    BY Parts, OpenIsZero DEF Recoveries, Resets
  <1>2. /\ wal \in Seq(LogRecord) /\ Readable(wal) = wal /\ wal' = Append(wal, rec)
        /\ Readable(wal') = wal' /\ LogsGood' /\ wal \in Logs /\ rec \in LogRecord
        /\ walPlatter' = walPlatter \cup {wal'}
    BY <1>1, Appended DEF Appends
  <1>3. WellFormed(wal')
    <2>1. wal' \in Logs' /\ MayStop'
      BY <1>2 DEF Logs, MayStop
    <2> QED BY <1>2, <2>1 DEF LogsGood
  <1> DEFINE n == Len(wal) + 1
  <1>4. /\ Len(wal') = n /\ Len(wal) \in Nat /\ wal'[n] = rec
        /\ \A i \in 1 .. Len(wal) : wal'[i] = wal[i]
        /\ \A i, r : On(wal', i, r) <=> On(wal, i, r)
        /\ Committed(wal') = Committed(wal) \cup {txn}
    BY <1>2, OnAppend, CommittedAppend DEF Changes
  <1>5. \A i \in 1 .. Len(wal) : i \in 1 .. Len(wal')
    BY <1>4
  <1> HIDE DEF n
  <1>6. \A i, r : On(wal, i, r) => i \in 1 .. Len(wal)
    BY DEF On
  <1>7. Explains(wal, lay) /\ Shown(lay)
    BY <1>2 DEF Opened
  <1>8. View = Layout(mem) /\ Unlogged = {}
    BY DEF View, Unlogged
  <1>9. ASSUME NEW r \in Place, NEW v \in Versions(r[1])
        PROVE  Leads(v, r, Layout(mem)[r], wal')
    <2>1. Leads(v, r, lay[r], wal)
      BY <1>2, <1>7, <1>9 DEF Explains
    <2>2. v.lsn = 0
      BY <1>1, PlaceIsReal DEF AllZero
    <2>3. CASE NoOwn(r)
      <3>1. lay[r] = Layout(mem)[r]
        BY <1>7, <1>8, <2>3 DEF Shown
      <3>2. \A i : On(wal, i, r) => i \in 1 .. Len(wal) /\ (Won(wal', i) <=> Won(wal, i))
        BY <1>4, <1>6, <2>3 DEF Won, NoOwn, Own
      <3>3. \A i : FirstLost(wal', i, r) => FirstLost(wal, i, r) /\ i \in 1 .. Len(wal)
        BY <1>4, <1>5, <3>2 DEF FirstLost
      <3>4. \A i : LastWon(wal', i, r) => LastWon(wal, i, r) /\ i \in 1 .. Len(wal)
        BY <1>4, <1>5, <3>2 DEF LastWon
      <3>5. Free(wal', r) => Free(wal, r)
        BY <1>4, <1>5 DEF Free
      <3> QED BY <1>4, <2>1, <3>1, <3>3, <3>4, <3>5 DEF Leads
    <2>4. CASE ~NoOwn(r)
      <3>1. PICK k \in 1 .. Len(wal) : Own(k, r)
        BY <2>4 DEF NoOwn
      <3>2. \A i : On(wal, i, r) => Won(wal', i)
        <4>1. ASSUME NEW i, On(wal, i, r) PROVE Won(wal', i)
          <5>1. i \in 1 .. Len(wal) /\ wal'[i] = wal[i]
            BY <1>4, <4>1 DEF On
          <5>2. CASE "undo" \in scenario.work
            <6>1. i = k
              BY <1>1, <3>1, <4>1, <5>1, <5>2 DEF LogShape, InsertsOnly, Own
            <6> QED BY <1>4, <3>1, <5>1, <6>1 DEF Won, Own
          <5>3. CASE "undo" \notin scenario.work
            BY <1>1, <1>4, <5>1, <5>3 DEF LogShape, OthersCommitted, Won
          <5> QED BY <5>2, <5>3
        <4> QED BY <4>1
      <3>3. \A i : ~FirstLost(wal', i, r)
        BY <1>4, <3>2 DEF FirstLost
      <3>4. ~Free(wal', r)
        BY <1>4, <1>5, <3>1 DEF Free, Own
      <3>5. ASSUME NEW i \in 1 .. Len(wal'), LastWon(wal', i, r)
            PROVE  Layout(mem)[r] = wal'[i].after /\ wal'[i].lsn > v.lsn
        <4>1. On(wal, i, r) /\ i \in 1 .. Len(wal)
          BY <1>4, <1>6, <3>5 DEF LastWon
        <4>2. \A j \in 1 .. Len(wal) : On(wal, j, r) => j <= i
          BY <1>4, <1>5, <3>5 DEF LastWon
        <4>3. k <= i /\ On(wal, k, r) /\ wal[k].txn = txn
          BY <3>1, <4>2 DEF Own
        <4>4. wal[i].txn = txn
          BY <1>1, <4>1, <4>3 DEF LogShape, TxnIsLast
        <4>5. OwnLast(i, r)
          BY <4>1, <4>2, <4>4 DEF OwnLast, Own
        <4>6. View[r] = wal[i].after
          BY <1>7, <1>8, <4>1, <4>5 DEF Shown
        <4>7. wal'[i].lsn = i
          BY <1>3 DEF WellFormed
        <4> QED BY <1>4, <1>8, <2>2, <4>1, <4>6, <4>7
      <3> QED BY <3>3, <3>4, <3>5 DEF Leads
    <2> QED BY <2>3, <2>4
  <1> QED BY <1>2, <1>9 DEF Explains

LEMMA CommitKeeps == ASSUME CInv, IInv', Commit PROVE CRest'
  <1> DEFINE rec == Record(txn, "Commit", NoRid, Dead, Dead)
  <1>0. rec = Record(txn, "Commit", NoRid, Dead, Dead)
    OBVIOUS
  <1>1. /\ pc = "ready" /\ txn # 0 /\ AppendLog(rec) /\ pc' = "commitSync"
        /\ UNCHANGED <<mem, os, platter, txn, nextTxn, undo, cur, left, at, stable, pending, stmts,
                       stops, logs, scenario>>
    BY DEF Commit, Ready, InTxn, pageVars, txnVars, history, bounds
  <1>2. /\ SessionOK /\ SessionOK' /\ LogsOK /\ PagesOK /\ Basics /\ TxnInv /\ OpenInv
        /\ txn \in Nat
    BY <1>1, Parts DEF IInv, SessionOK
  <1> HIDE DEF rec
  <1>3. /\ Appends(rec) /\ rec \in LogRecord /\ rec.txn = txn /\ rec.type = "Commit"
    <2>1. "Commit" \in RecordTypes \ {"Torn"} /\ Dead \in Nat
      BY DEF RecordTypes, Dead
    <2>2. "Commit" \notin {"Insert", "Delete"} /\ AppendLog(rec)
      BY <1>1
    <2> QED BY ONLY <1>2, <2>1, <2>2, RecordIs, <1>0, SMTT(30)
  <1>4. View = Layout(mem) /\ View' = View /\ Layout(mem') = Layout(mem)
    BY <1>1 DEF View
  <1>5. Basics'
    BY <1>1, <1>2 DEF Basics, AppendLog, Halves
  <1>6. TxnInv'
    <2>1. Exact(View, pending)
      BY <1>1, <1>2 DEF TxnInv, Acting
    <2> QED BY <1>1, <1>4, <2>1 DEF TxnInv, Halves
  <1>7. ASSUME MayStop PROVE LogsGood' /\ ZeroInv' /\ LogShape' /\ OpenInv'
    <2>1. PICK lay \in Layouts : Opened(lay)
      BY <1>1, <1>2, <1>7 DEF OpenInv
    <2>2. LogShape'
      BY <1>1, <1>3, <1>7, ShapeAppended
    <2>3. /\ LogsGood' /\ Logs' \subseteq Logs \cup {wal'} /\ wal \in Logs
      BY <1>1, <1>3, <1>7, Appended DEF Recoveries, Resets
    <2>4. \A p : Versions(p)' = Versions(p)
      BY <1>1, VersionsFrame
    <2>5. ZeroInv'
      BY <1>1, <1>7, <2>4, OpenIsZero DEF ZeroInv, AllZero
    <2>6. Explains(wal', Layout(mem))
      BY <1>1, <1>3, <1>7, <2>1, CommitLeads
    <2>7. ASSUME NEW l \in Logs', l # wal' PROVE Explains(l, lay)'
      <3>1. Explains(l, lay)
        BY <1>1, <2>1, <2>3, <2>7 DEF Opened
      <3> QED BY <2>4, <3>1 DEF Explains
    <2>8. Explains(wal, Layout(mem))'
      BY <1>4, <2>4, <2>6 DEF Explains
    <2>9. Opened(lay)'
      BY <1>1, <2>1, <2>7, <2>8 DEF Opened, Halves
    <2> QED BY <2>1, <2>2, <2>3, <2>5, <2>9 DEF OpenInv
  <1>8. MayStop' <=> MayStop
    BY <1>1 DEF MayStop
  <1> QED BY <1>1, <1>2, <1>5, <1>6, <1>7, <1>8, InsideTxn
          DEF CRest, LogsGood, ZeroInv, WalShape, OpenInv

\* SAVE and UNDO: the log is synced, and the pool begins to be flushed.
LEMMA EndKeeps == ASSUME CInv, IInv', CommitSync \/ AbortSync PROVE CRest'
  <1>1. /\ pc \in {"commitSync", "abortSync"} /\ txn # 0 /\ txn' = 0 /\ pc' = "flush"
        /\ walPlatter' = {wal}
        /\ pc = "commitSync" => stable' = pending /\ pending' = pending
        /\ pc = "abortSync" => stable' = stable /\ pending' = stable
        /\ UNCHANGED <<mem, os, platter, wal, nextLsn, nextTxn, cur, at, stmts, stops, logs, scenario>>
    BY Parts DEF CommitSync, AbortSync, SyncLog, pageVars, bounds, Basics
  <1>2. /\ SessionOK /\ LogsOK /\ PagesOK /\ Basics /\ TxnInv /\ OpenInv
        /\ SessionOK' /\ mem \in [Pages -> Page]
    BY Parts DEF IInv, PagesOK
  <1>3. /\ Exact(Layout(mem), pending') /\ stable' = pending'
        /\ pc = "abortSync" => "undo" \in scenario.work
    <2>1. View = Layout(mem)
      BY <1>1 DEF View
    <2> QED BY <1>1, <1>2, <2>1 DEF TxnInv, Acting
  <1>4. Basics'
    BY <1>1, <1>2 DEF Basics, Halves
  <1>5. MayStop' <=> MayStop
    BY <1>1 DEF MayStop
  <1>6. \A p : Versions(p)' = Versions(p)
    BY <1>1, VersionsFrame
  <1>7. Layout(mem) \in Layouts /\ Layout(mem') = Layout(mem)
    BY <1>1, <1>2, LayoutType
  <1>8. ASSUME MayStop
        PROVE  /\ LogsGood' /\ ZeroInv' /\ LogShape' /\ Logs' = {wal'}
               /\ \E lay \in Layouts, one \in Place \cup {NoRid} : Halfway(lay, one)'
    <2>1. AllZero /\ LogShape
      BY <1>1, <1>8, OpenIsZero
    <2>2. Logs' = {wal'} /\ wal \in Logs
      BY <1>1, <1>2, OwnCopies DEF Logs
    <2>3. LogsGood'
      BY <1>1, <1>8, <2>2, Parts DEF LogsGood
    <2>4. ZeroInv'
      BY <1>1, <1>6, <2>1 DEF ZeroInv, AllZero
    <2>5. LogShape'
      <3>1. txn' < nextTxn' /\ KnownTxns' /\ TxnIsLast' /\ Uncommitted'
        BY <1>1, <1>2, <2>1 DEF LogShape, KnownTxns, TxnIsLast, Uncommitted, SessionOK
      <3>2. SlotsLogged'
        BY <1>1, <2>1 DEF LogShape, SlotsLogged, Free, On, HasSlot
      <3>3. "undo" \in scenario.work => InsertsOnly'
        BY <1>1, <2>1 DEF LogShape, InsertsOnly, On
      <3>4. "undo" \notin scenario.work => OthersCommitted'
        BY <1>1, <1>3, <2>1 DEF LogShape, OthersCommitted, Committed
      <3> QED BY <1>1, <2>1, <3>1, <3>2, <3>3, <3>4 DEF LogShape
    <2>6. Explains(wal, Layout(mem))
      <3>1. PICK lay \in Layouts : Opened(lay)
        BY <1>1, <1>2, <1>8 DEF OpenInv
      <3> QED BY <1>1, <2>2, <3>1 DEF Opened
    <2>7. wal \in Seq(LogRecord) /\ Readable(wal) = wal /\ WellFormed(wal)
      BY <1>2, <1>8, <2>1, <2>2, Parts DEF LogsOK, LogShape, LogsGood
    <2>8. ASSUME NEW r \in Place PROVE Leads(mem[r[1]], r, Layout(mem)[r], wal)
      <3>1. r[1] \in Pages
        BY PlaceIsReal
      <3>2. os[r[1]] \in Versions(r[1])
        BY <1>2, <3>1, OwnCopies
      <3>3. os[r[1]].lsn = 0 /\ mem[r[1]].lsn = 0
        BY <2>1, <3>1, <3>2 DEF AllZero
      <3>4. Leads(os[r[1]], r, Layout(mem)[r], wal)
        BY <2>6, <2>7, <3>2 DEF Explains
      <3>5. Layout(mem)[r] = Cell(mem[r[1]], r[2])
        BY DEF Layout
      <3> QED BY <2>7, <3>3, <3>4, <3>5, LeadsAtZero
    <2>9. \A p \in Pages : /\ LeadsPage(mem[p], p, Layout(mem), wal)
                           /\ \A v \in Versions(p) : LeadsPage(v, p, Layout(mem), wal)
      BY <2>6, <2>7, <2>8 DEF LeadsPage, Explains
    <2>10. Halfway(Layout(mem), NoRid)'
      BY <1>1, <1>3, <1>6, <1>7, <2>7, <2>9 DEF Halfway
    <2> QED BY <1>7, <2>2, <2>3, <2>4, <2>5, <2>10
  <1>9. FlushInv'
    BY <1>1, <1>3, <1>5, <1>7, <1>8 DEF FlushInv
  <1> QED BY <1>1, <1>4, <1>5, <1>8, <1>9, OutsideTxn
          DEF CRest, LogsGood, ZeroInv, WalShape, IdleInv, RedoInv, ResetInv, Resets

----------------------------------------------------------------------------
(* Transactions: UNDO.                                                     *)

LEMMA RollbackKeeps == ASSUME CInv, IInv', Rollback PROVE CRest'
  <1>1. /\ pc = "ready" /\ txn # 0 /\ "undo" \in scenario.work /\ pc' = "undo"
        /\ UNCHANGED <<mem, os, platter, wal, walPlatter, nextLsn, appends, txn, nextTxn, undo, cur,
                       left, at, stable, pending, stmts, stops, logs, scenario>>
    BY DEF Rollback, Ready, InTxn, pageVars, walVars, txnVars, history, bounds
  <1>2. /\ SessionOK /\ SessionOK' /\ PagesOK /\ Basics /\ TxnInv /\ OpenInv /\ WalShape
        /\ mem \in [Pages -> Page]
    BY Parts DEF IInv, PagesOK
  <1>3. View = Layout(mem) /\ View' = View /\ Todo = undo /\ Todo' = undo /\ Layout(mem') = Layout(mem)
        /\ Unlogged = {}
    BY <1>1 DEF View, Todo, Halves, Unlogged
  <1>4. Basics'
    BY <1>1, <1>2 DEF Basics, Halves
  <1>5. LogsGood' /\ ZeroInv' /\ (MayStop' <=> MayStop) /\ Logs' = Logs
         /\ (\A q : Versions(q)' = Versions(q))
    <2>1. (MayStop' <=> MayStop) /\ Logs' = Logs /\ (\A q : Versions(q)' = Versions(q))
      BY <1>1, StopFrame
    <2>2. ZeroInv'
      <3>1. SameLsn(mem, mem')
        BY <1>1 DEF SameLsn
      <3> QED BY <1>1, <3>1, Parts, ZeroKept DEF Recoveries
    <2> QED BY <2>1, <2>2, Parts DEF LogsGood
  <1>6. WalShape'
    <2>1. \A q \in Pages : Len(mem[q].slots) <= Len(mem'[q].slots)
      BY <1>1, <1>2 DEF Page
    <2> QED BY <1>1, <1>2, <2>1, WalShapeKept DEF Recoveries, Resets
  <1>7. TxnInv'
    <2>1. Undoable(Todo, View)
      BY <1>1, <1>2 DEF TxnInv
    <2>2. Undoable(Todo, View)'
      BY <1>1, <1>3, <2>1 DEF Undoable
    <2> QED BY <1>1, <2>2 DEF TxnInv, Acting, Halves
  <1>8. OpenInv'
    <2>1. SUFFICES ASSUME MayStop PROVE OpenInv'
      BY <1>5 DEF OpenInv
    <2>2. PICK lay \in Layouts : Opened(lay)
      BY <1>1, <1>2, <2>1 DEF OpenInv
    <2>3. Shown(lay) /\ Rolling(lay)
      BY <1>1, <2>2 DEF Opened
    <2>4. \A r : NoOwn(r)' <=> NoOwn(r)
      BY <1>1 DEF NoOwn, Own, On
    <2>5. \A r \in Place : NoOwn(r) => Layout(mem)[r] = lay[r]
      BY <1>3, <2>3 DEF Shown
    <2>6. Rolling(lay)'
      BY <1>1, <1>3, <2>3, <2>4, <2>5 DEF Rolling
    <2>7. \A l \in Logs' : Explains(l, lay)'
      BY <1>1, <1>5, <2>2 DEF Opened, Explains
    <2> QED BY <1>1, <2>2, <2>6, <2>7 DEF OpenInv, Opened, Halves
  <1> QED BY <1>1, <1>2, <1>4, <1>5, <1>6, <1>7, <1>8, InsideTxn DEF CRest

\* One undo closure takes its change back.
LEMMA UndoableTaken ==
    ASSUME NEW u \in Seq(Change), u # << >>, NEW c, c = u[Len(u)], NEW lay \in Layouts,
           Undoable(u, lay), NEW mid \in Layouts, NEW new, NEW q \in Place,
           mid = IF c.to # NoRid THEN With(lay, c.to, Dead) ELSE lay, mid[q] = Dead,
           new = IF c.old # Dead THEN With(mid, q, c.old) ELSE mid
    PROVE  Undoable(SubSeq(u, 1, Len(u) - 1), new)
  <1> DEFINE n == Len(u)
             v == SubSeq(u, 1, n - 1)
             S == (stable \ Olds(u)) \cup News(u)
  <1>1. /\ n \in Nat \ {0} /\ Len(v) = n - 1 /\ \A i \in 1 .. n - 1 : v[i] = u[i]
        /\ n \in 1 .. n /\ c \in Change /\ \A i \in 1 .. n - 1 : i \in 1 .. n /\ i # n
        /\ \A i \in 1 .. n : i \in 1 .. n - 1 \/ i = n
    <2>1. Len(u) \in Nat \ {0}
      OBVIOUS
    <2>2. Len(v) = n - 1 /\ \A i \in 1 .. n - 1 : v[i] = u[i]
      <3>1. \A s \in Seq(Change) : \A k \in 1 .. Len(s) :
               /\ Len(SubSeq(s, 1, k - 1)) = k - 1
               /\ \A i \in 1 .. k - 1 : SubSeq(s, 1, k - 1)[i] = s[i]
        OBVIOUS
      <3>2. u \in Seq(Change) /\ n \in 1 .. Len(u)
        BY <2>1
      <3> HIDE DEF n
      <3>3. Len(SubSeq(u, 1, n - 1)) = n - 1 /\ \A i \in 1 .. n - 1 : SubSeq(u, 1, n - 1)[i] = u[i]
        BY <3>1, <3>2
      <3> QED BY <3>3
    <2>3. c \in Change
      BY <2>1
    <2> QED BY <2>1, <2>2, <2>3
  <1>2. c.old \in Nat /\ c.to \in Place \cup {NoRid}
    BY <1>1 DEF Change
  <1> HIDE DEF n, v
  <1>3. /\ Exact(lay, S) /\ Olds(u) \subseteq stable /\ News(u) \cap stable = {}
        /\ \A i \in 1 .. n : /\ u[i].to # NoRid <=> u[i].new # Dead
                             /\ u[i].to # NoRid => lay[u[i].to] = u[i].new
        /\ \A i, j \in 1 .. n :
              i # j => /\ u[i].old # Dead => u[i].old # u[j].old
                       /\ u[i].new # Dead => u[i].new # u[j].new
    BY DEF Undoable, n
  <1>4. Olds(v) = Olds(u) \ {c.old}
    <2>1. \A x : x \in Olds(v) <=> x # Dead /\ \E i \in 1 .. n - 1 : u[i].old = x
      BY <1>1 DEF Olds
    <2>2. \A x : x \in Olds(u) <=> x # Dead /\ \E i \in 1 .. n : u[i].old = x
      BY DEF Olds, n
    <2>3. \A x : x \in Olds(v) => x \in Olds(u) /\ x # c.old
      BY <1>1, <1>3, <2>1, <2>2 DEF n
    <2>4. \A x : x \in Olds(u) /\ x # c.old => x \in Olds(v)
      BY <1>1, <2>1, <2>2 DEF n
    <2> QED BY <2>3, <2>4
  <1>5. News(v) = News(u) \ {c.new}
    <2>1. \A x : x \in News(v) <=> x # Dead /\ \E i \in 1 .. n - 1 : u[i].new = x
      BY <1>1 DEF News
    <2>2. \A x : x \in News(u) <=> x # Dead /\ \E i \in 1 .. n : u[i].new = x
      BY DEF News, n
    <2>3. \A x : x \in News(v) => x \in News(u) /\ x # c.new
      BY <1>1, <1>3, <2>1, <2>2 DEF n
    <2>4. \A x : x \in News(u) /\ x # c.new => x \in News(v)
      BY <1>1, <2>1, <2>2 DEF n
    <2> QED BY <2>3, <2>4
  <1>6. /\ c.old # Dead => c.old \in Olds(u)
        /\ c.new # Dead => c.new \in News(u)
        /\ Dead \notin Olds(u) /\ Dead \notin News(u) /\ Dead \notin S
        /\ c.to # NoRid <=> c.new # Dead
        /\ c.to # NoRid => lay[c.to] = c.new
    BY <1>1, <1>3 DEF Olds, News, Exact, n
  <1>7. Exact(mid, S \ {c.new})
    <2>1. CASE c.to # NoRid
      <3>1. c.to \in Place /\ lay[c.to] # Dead /\ lay[c.to] = c.new /\ mid = With(lay, c.to, Dead)
        BY <1>2, <1>6, <2>1
      <3> HIDE DEF S
      <3> QED BY <1>3, <3>1, ExactDrop
    <2>2. CASE c.to = NoRid
      <3>1. S \ {c.new} = S /\ mid = lay
        BY <1>6, <2>2
      <3> QED BY <1>3, <3>1
    <2> QED BY <2>1, <2>2
  <1>8. Exact(new, (stable \ Olds(v)) \cup News(v))
    <2>1. CASE c.old # Dead
      <3>1. c.old \notin S \ {c.new} /\ c.old \in stable
        BY <1>3, <1>6, <2>1
      <3>2. (S \ {c.new}) \cup {c.old} = (stable \ Olds(v)) \cup News(v)
        BY <1>3, <1>4, <1>5, <1>6, <2>1, <3>1
      <3>3. Exact(new, (S \ {c.new}) \cup {c.old})
        <4> HIDE DEF S
        <4> QED BY <1>2, <1>7, <2>1, <3>1, ExactAdd
      <3> QED BY <3>2, <3>3
    <2>2. CASE c.old = Dead
      <3>1. S \ {c.new} = (stable \ Olds(v)) \cup News(v)
        BY <1>3, <1>4, <1>5, <1>6, <2>2
      <3> QED BY <1>7, <2>2, <3>1
    <2> QED BY <2>1, <2>2
  <1>9. Olds(v) \subseteq stable /\ News(v) \cap stable = {}
    BY <1>3, <1>4, <1>5
  <1>10. ASSUME NEW i \in 1 .. n - 1, u[i].to # NoRid PROVE new[u[i].to] = u[i].new
    <2>1. u[i].to \in Place /\ lay[u[i].to] = u[i].new /\ u[i].new # Dead /\ u[i].new # c.new
      <3>1. i \in 1 .. n /\ n \in 1 .. n /\ i # n /\ u[i] \in Change /\ c = u[n]
        BY <1>1 DEF n
      <3>2. lay[u[i].to] = u[i].new /\ u[i].new # Dead /\ u[i].new # u[n].new
        BY <1>3, <1>10, <3>1
      <3> QED BY <1>10, <3>1, <3>2 DEF Change
    <2>2. u[i].to # c.to
      BY <1>6, <1>10, <2>1
    <2>3. mid[u[i].to] = u[i].new
      <3>1. \A r \in Place : \A x \in Place : x # r => With(lay, r, Dead)[x] = lay[x]
        BY WithIs DEF Dead
      <3> QED BY <1>2, <2>1, <2>2, <3>1
    <2>4. u[i].to # q
      BY <2>1, <2>3
    <2>5. \A x \in Place : x # q => With(mid, q, c.old)[x] = mid[x]
      BY <1>2, WithIs
    <2> QED BY <2>1, <2>3, <2>4, <2>5
  <1>11. Undoable(v, new)
    <2>1. \A i \in 1 .. Len(v) : /\ v[i].to # NoRid <=> v[i].new # Dead
                                 /\ v[i].to # NoRid => new[v[i].to] = v[i].new
      BY <1>1, <1>3, <1>10
    <2>2. \A i, j \in 1 .. Len(v) :
             i # j => /\ v[i].old # Dead => v[i].old # v[j].old
                      /\ v[i].new # Dead => v[i].new # v[j].new
      BY <1>1, <1>3
    <2> HIDE DEF S
    <2> QED BY <1>8, <1>9, <2>1, <2>2 DEF Undoable
  <1> QED BY <1>11 DEF v, n

LEMMA UndoStepKeeps == ASSUME CInv, IInv', NEW p \in Pages, UndoStep(p) PROVE CRest'
  <1> DEFINE n == Len(undo)
             c == undo[n]
             gone == IF c.to # NoRid THEN Erased(mem, c.to) ELSE mem
             mid == IF c.to # NoRid THEN With(Layout(mem), c.to, Dead) ELSE Layout(mem)
             q == <<p, Len(gone[p].slots) + 1>>
  <1>1. /\ pc = "undo" /\ undo # << >> /\ undo' = SubSeq(undo, 1, n - 1)
        /\ mem' = IF c.old # Dead THEN Inserted(gone, p, c.old) ELSE gone
        /\ mem' = Undone(c, p) /\ UndoneWrites(c)
        /\ UNCHANGED <<txn, nextTxn, pc, cur, left, at, stable, pending, stmts, stops, logs, scenario>>
    BY DEF UndoStep, Undone, flow, history, bounds
  <1>2. /\ SessionOK /\ SessionOK' /\ PagesOK /\ Basics /\ TxnInv /\ OpenInv /\ WalShape
        /\ mem \in [Pages -> Page] /\ mem' \in [Pages -> Page] /\ txn # 0 /\ undo \in Seq(Change)
        /\ "undo" \in scenario.work
    BY <1>1, Parts DEF IInv, PagesOK, Basics, SessionOK, TxnInv
  <1>3. /\ n \in Nat \ {0} /\ c \in Change /\ c.to \in Place \cup {NoRid} /\ c.old \in Nat
        /\ n \in 1 .. n
    <2>1. Len(undo) \in Nat \ {0}
      BY <1>1, <1>2
    <2>2. c \in Change
      BY <1>2, <2>1
    <2> HIDE DEF c
    <2> QED BY <2>1, <2>2 DEF Change
  <1> HIDE DEF c, n
  <1>4. /\ gone \in [Pages -> Page] /\ Layout(gone) = mid /\ SameLsn(mem, gone)
        /\ \A x \in Pages : Len(gone[x].slots) = Len(mem[x].slots) /\ Len(mem[x].slots) \in Nat
    <2>1. CASE c.to # NoRid
      <3>1. c.to \in Place /\ gone = Erased(mem, c.to)
        BY <1>3, <2>1
      <3>2. Erased(mem, c.to) \in [Pages -> Page]
        BY <1>2, <3>1, ErasedGrows DEF Grows
      <3>3. /\ Layout(Erased(mem, c.to)) = With(Layout(mem), c.to, Dead)
            /\ SameLsn(mem, Erased(mem, c.to)) /\ SameLens(mem, Erased(mem, c.to))
        BY <1>2, <3>1, LayoutErased
      <3> QED BY <1>2, <2>1, <3>1, <3>2, <3>3 DEF SameLens, Page
    <2>2. CASE c.to = NoRid
      BY <1>2, <2>2 DEF SameLsn, Page
    <2> QED BY <2>1, <2>2
  <1>5. Layout(mem) \in Layouts /\ mid \in Layouts
    BY <1>2, <1>4, LayoutType
  <1> HIDE DEF gone, mid
  <1>6. /\ q \in Place /\ mid[q] = Dead
        /\ Layout(Inserted(gone, p, c.old)) = With(mid, q, c.old)
        /\ SameLsn(gone, Inserted(gone, p, c.old))
    BY <1>3, <1>4, LayoutInserted
  <1> HIDE DEF q
  <1>7. Layout(mem') = (IF c.old # Dead THEN With(mid, q, c.old) ELSE mid) /\ SameLsn(mem, mem')
    BY <1>1, <1>4, <1>6 DEF SameLsn
  <1>8. \A x \in Pages : Len(mem[x].slots) <= Len(mem'[x].slots)
    <2>1. CASE c.old # Dead
      <3>1. Grows(gone, Inserted(gone, p, c.old), c.old)
        BY <1>3, <1>4, InsertedGrows
      <3> QED BY <1>1, <1>4, <2>1, <3>1 DEF Grows, Prior
    <2>2. CASE c.old = Dead
      BY <1>1, <1>4, <2>2
    <2> QED BY <2>1, <2>2
  <1>9. View = Layout(mem) /\ View' = Layout(mem') /\ Todo = undo /\ Todo' = undo'
    BY <1>1 DEF View, Todo, Halves
  <1>10. HalfWritten(c.old)
    BY <1>1, <1>2, <1>3, UndoneInHalves
  <1>11. /\ MayStop' <=> MayStop
         /\ MayStop => Logs' = Logs /\ (\A x : Versions(x)' = Versions(x))
         /\ wal' = wal /\ nextLsn' = nextLsn
         /\ wal' \in walPlatter' /\ \A x \in Pages : os'[x] \in platter'[x]
    BY <1>1, <1>2, <1>10, HalvesFrame
  <1>12. Basics'
    BY <1>1, <1>2, <1>11 DEF Basics, Halves
  <1>13. LogsGood' /\ ZeroInv'
    BY <1>1, <1>2, <1>7, <1>10, Parts, HalvesKeepZero DEF Recoveries
  <1>14. WalShape'
    BY <1>1, <1>2, <1>8, <1>11, WalShapeKept DEF Recoveries, Resets
  <1>15. Undoable(undo, Layout(mem))
    BY <1>1, <1>2, <1>9 DEF TxnInv
  <1>16. TxnInv'
    <2>1. Undoable(undo', Layout(mem'))
      <3>1. /\ mid = IF c.to # NoRid THEN With(Layout(mem), c.to, Dead) ELSE Layout(mem)
            /\ c = undo[Len(undo)]
        BY DEF mid, c, n
      <3> QED BY <1>1, <1>2, <1>5, <1>6, <1>7, <1>15, <3>1, UndoableTaken DEF n
    <2>2. Undoable(Todo', View')
      BY <1>9, <2>1
    <2>3. Undoable(Todo, View)'
      BY <1>1, <2>2 DEF Undoable
    <2> QED BY <1>1, <1>2, <2>3 DEF TxnInv, Acting, Halves
  <1>17. OpenInv'
    <2>1. SUFFICES ASSUME MayStop PROVE OpenInv'
      BY <1>11 DEF OpenInv
    <2>2. PICK lay \in Layouts : Opened(lay)
      BY <1>2, <2>1 DEF OpenInv
    <2>3. Rolling(lay)
      BY <1>1, <1>2, <2>2 DEF Opened
    <2>4. \A r : NoOwn(r)' <=> NoOwn(r)
      BY <1>1, <1>11 DEF NoOwn, Own, On
    <2>5. c.old = Dead /\ (c.to # NoRid => c.to \in Place /\ ~NoOwn(c.to)) /\ Layout(mem') = mid
      BY <1>3, <1>7, <2>3 DEF Rolling, c, n
    <2>6. /\ c.to # NoRid => mid[c.to] = Dead
          /\ \A r \in Place : r # c.to => mid[r] = Layout(mem)[r]
      <3>1. \A r \in Place : /\ With(Layout(mem), r, Dead)[r] = Dead
                             /\ \A x \in Place : x # r => With(Layout(mem), r, Dead)[x] = Layout(mem)[x]
        BY <1>5, WithIs DEF Dead
      <3> QED BY <2>5, <3>1 DEF mid
    <2>7. /\ Len(undo') = n - 1 /\ \A i \in 1 .. n - 1 : undo'[i] = undo[i]
          /\ \A i \in 1 .. n : i \in 1 .. n - 1 \/ i = n
      <3>1. \A u \in Seq(Change) : \A k \in 1 .. Len(u) :
               /\ Len(SubSeq(u, 1, k - 1)) = k - 1
               /\ \A i \in 1 .. k - 1 : SubSeq(u, 1, k - 1)[i] = u[i]
        OBVIOUS
      <3>2. Len(undo') = n - 1 /\ \A i \in 1 .. n - 1 : undo'[i] = undo[i]
        BY <1>1, <1>2, <1>3, <3>1 DEF n
      <3> QED BY <1>3, <3>2
    <2>8. ASSUME NEW r \in Place, ~NoOwn(r)
          PROVE  Layout(mem')[r] = Dead \/ \E i \in 1 .. Len(undo') : undo'[i].to = r
      <3>1. CASE r = c.to
        BY <1>3, <2>5, <2>6, <2>8, <3>1, PlaceIsReal
      <3>2. CASE r # c.to
        <4>1. Layout(mem)[r] = Dead \/ \E i \in 1 .. n : undo[i].to = r
          BY <2>3, <2>8 DEF Rolling, n
        <4> QED BY <2>5, <2>6, <2>7, <3>2, <4>1 DEF c
      <3> QED BY <3>1, <3>2
    <2>9. Rolling(lay)'
      <3>1. \A i \in 1 .. Len(undo') :
               undo'[i].old = Dead /\ (undo'[i].to # NoRid => ~NoOwn(undo'[i].to))
        BY <1>3, <2>3, <2>7 DEF Rolling, n
      <3>2. \A r \in Place : NoOwn(r) => Layout(mem')[r] = lay[r]
        <4>1. \A r \in Place : NoOwn(r) => r # c.to
          BY <2>5, PlaceIsReal
        <4> QED BY <1>1, <2>3, <2>5, <2>6, <4>1 DEF Rolling
      <3>3. (\A i \in 1 .. Len(undo) :
               undo[i].old = Dead /\ (undo[i].to # NoRid => ~NoOwn(undo[i].to)))'
        BY <2>4, <3>1
      <3> QED BY <2>4, <2>8, <3>2, <3>3 DEF Rolling
    <2>10. \A l \in Logs' : Explains(l, lay)'
      BY <1>1, <1>11, <2>1, <2>2 DEF Opened, Explains
    <2> QED BY <1>1, <2>2, <2>9, <2>10 DEF OpenInv, Opened, Halves
  <1> QED BY <1>1, <1>2, <1>12, <1>13, <1>14, <1>16, <1>17, InsideTxn DEF CRest

\* UNDO of inserts brings the pages back to the layout at the begin.
LEMMA AbortKeeps == ASSUME CInv, IInv', Abort PROVE CRest'
  <1> DEFINE rec == Record(txn, "Abort", NoRid, Dead, Dead)
  <1>0. rec = Record(txn, "Abort", NoRid, Dead, Dead)
    OBVIOUS
  <1>1. /\ pc = "undo" /\ undo = << >> /\ AppendLog(rec) /\ pc' = "abortSync"
        /\ UNCHANGED <<mem, os, platter, txn, nextTxn, undo, cur, left, at, stable, pending, stmts,
                       stops, logs, scenario>>
    BY DEF Abort, pageVars, txnVars, history, bounds
  <1>2. /\ SessionOK /\ SessionOK' /\ LogsOK /\ PagesOK /\ Basics /\ TxnInv /\ OpenInv
        /\ txn \in Nat /\ txn # 0 /\ mem \in [Pages -> Page] /\ "undo" \in scenario.work
    BY <1>1, Parts DEF IInv, SessionOK, PagesOK, Basics, TxnInv
  <1> HIDE DEF rec
  <1>3. /\ Appends(rec) /\ rec \in LogRecord /\ rec.txn = txn /\ rec.type = "Abort"
        /\ \A q : ~Changes(rec, q)
    <2>1. "Abort" \in RecordTypes \ {"Torn"} /\ Dead \in Nat
      BY DEF RecordTypes, Dead
    <2>2. /\ Appends(rec) /\ rec \in LogRecord /\ rec.txn = txn /\ rec.type = "Abort"
      <3>1. "Abort" \notin {"Insert", "Delete"}
        OBVIOUS
      <3>2. AppendLog(rec)
        BY <1>1
      <3> QED BY ONLY <1>2, <2>1, <3>1, <3>2, RecordIs, <1>0, SMTT(30)
    <2> QED BY <2>2 DEF Changes
  <1>4. View = Layout(mem) /\ Layout(mem') = Layout(mem) /\ Todo = << >>
    BY <1>1 DEF View, Todo, Halves
  <1>5. Basics'
    BY <1>1, <1>2 DEF Basics, AppendLog, Halves
  <1>6. TxnInv'
    <2>1. Undoable(<< >>, Layout(mem))
      BY <1>1, <1>2, <1>4 DEF TxnInv
    <2>2. Olds(<< >>) = {} /\ News(<< >>) = {} /\ (stable \ {}) \cup {} = stable
      <3>1. 1 .. Len(<< >>) = {}
        OBVIOUS
      <3> QED BY <3>1 DEF Olds, News
    <2>3. Exact(Layout(mem), stable)
      BY <2>1, <2>2 DEF Undoable
    <2> QED BY <1>1, <1>2, <1>4, <2>3 DEF TxnInv, Acting, Halves
  <1>7. ASSUME MayStop PROVE LogsGood' /\ ZeroInv' /\ LogShape' /\ OpenInv'
    <2>1. PICK lay \in Layouts : Opened(lay)
      BY <1>2, <1>7 DEF OpenInv
    <2>2. Rolling(lay)
      BY <1>1, <1>2, <2>1 DEF Opened
    <2>3. /\ LogsGood' /\ ZeroInv' /\ LogShape' /\ \A l \in Logs' : Explains(l, lay)'
      BY <1>1, <1>2, <1>3, <1>7, <2>1, RecordLeads
    <2>4. /\ wal \in Logs /\ wal \in Seq(LogRecord) /\ LogShape /\ Readable(wal) = wal
          /\ WellFormed(wal)
      BY <1>2, <1>7, Parts, OwnCopies, OpenIsZero DEF LogsOK, LogShape, LogsGood
    <2>5. ASSUME NEW r \in Place PROVE Layout(mem)[r] = lay[r]
      <3>1. CASE NoOwn(r)
        BY <1>1, <2>2, <3>1 DEF Rolling
      <3>2. CASE ~NoOwn(r)
        <4>1. Layout(mem)[r] = Dead
          BY <1>1, <2>2, <3>2 DEF Rolling
        <4>2. PICK i \in 1 .. Len(wal) : Own(i, r)
          BY <3>2 DEF NoOwn
        <4>3. \A j \in 1 .. Len(wal) : On(wal, j, r) => j = i
          BY <1>2, <2>4, <4>2 DEF LogShape, InsertsOnly, Own
        <4>4. wal[i].type = "Insert"
          BY <1>2, <2>4, <4>2 DEF LogShape, InsertsOnly, Own
        <4>5. FirstLost(wal, i, r)
          <5>1. ~Won(wal, i)
            BY <1>1, <1>2, <2>4, <4>2 DEF LogShape, Uncommitted, Won, Own
          <5>2. \A j \in 1 .. Len(wal) : ~(On(wal, j, r) /\ j < i)
            BY <4>3
          <5> QED BY <4>2, <5>1, <5>2 DEF FirstLost, Own
        <4>6. os[r[1]] \in Versions(r[1])
          BY <1>2, OwnCopies, PlaceIsReal
        <4>7. Leads(os[r[1]], r, lay[r], wal)
          BY <1>1, <2>1, <2>4, <4>6 DEF Opened, Explains
        <4>8. lay[r] = wal[i].before
          BY <4>5, <4>7 DEF Leads
        <4> QED BY <2>4, <4>1, <4>4, <4>8 DEF WellFormed
      <3> QED BY <3>1, <3>2
    <2>6. lay = Layout(mem)
      BY <1>2, <2>5, LayoutType, LayoutsEqual
    <2>7. Opened(lay)'
      BY <1>1, <1>4, <2>1, <2>3, <2>6 DEF Opened, Halves
    <2> QED BY <2>3, <2>7 DEF OpenInv
  <1>8. MayStop' <=> MayStop
    BY <1>1 DEF MayStop
  <1> QED BY <1>1, <1>2, <1>5, <1>6, <1>7, <1>8, InsideTxn
          DEF CRest, LogsGood, ZeroInv, WalShape, OpenInv

----------------------------------------------------------------------------
(* Statements outside a transaction.                                       *)

\* What is at hand between statements.
LEMMA Between ==
    ASSUME CInv, pc \in {"ready", "closeFlush"}, txn = 0
    PROVE  /\ SessionOK /\ PagesOK /\ LogsOK /\ Basics /\ mem \in [Pages -> Page]
           /\ Layout(mem) \in Layouts /\ pending = stable /\ Exact(Layout(mem), stable)
           /\ MayStop => /\ Logs = {wal} /\ Steady /\ LogShape /\ Readable(wal) = wal
  <1>1. pc \notin Recoveries \cup Resets
    BY DEF Recoveries, Resets
  <1>2. /\ SessionOK /\ PagesOK /\ LogsOK /\ Basics /\ mem \in [Pages -> Page]
        /\ pending = stable /\ Exact(Layout(mem), stable)
        /\ MayStop => Logs = {wal} /\ Steady /\ LogShape
    BY <1>1, Parts DEF PagesOK, IdleInv, WalShape
  <1> QED BY <1>2, LayoutType DEF LogShape

LEMMA PutKeeps == ASSUME CInv, IInv', NEW p \in Pages, Put(p) PROVE CRest'
  <1> DEFINE to == InsertAt(p)
  <1>1. /\ pc = "ready" /\ txn = 0 /\ stmts < scenario.stmts
        /\ mem' = Inserted(mem, p, NewRow) /\ pending' = stable \cup {NewRow}
        /\ stmts' = stmts + 1 /\ pc' = "flush"
        /\ UNCHANGED <<os, platter, wal, walPlatter, nextLsn, appends, txn, nextTxn, undo, cur, at,
                       stable, stops, logs, scenario>>
    BY DEF Put, AutoCommit, CanIssue, InTxn, Ready, walVars, txnVars
  <1>2. /\ SessionOK /\ PagesOK /\ Basics /\ mem \in [Pages -> Page] /\ mem' \in [Pages -> Page]
        /\ Layout(mem) \in Layouts /\ pending = stable /\ Exact(Layout(mem), stable)
        /\ MayStop => /\ Logs = {wal} /\ Steady /\ LogShape /\ Readable(wal) = wal
        /\ SessionOK'
    BY <1>1, Between DEF IInv, PagesOK
  <1>3. /\ NewRow \in Nat /\ NewRow # Dead /\ NewRow \notin stable
        /\ \A r \in Place : Layout(mem)[r] # NewRow
    BY <1>2, NewRowIsNew
  <1>4. to = <<p, Len(mem[p].slots) + 1>> /\ Len(mem[p].slots) \in Nat
    BY <1>2 DEF InsertAt, Page
  <1>5. /\ to \in Place /\ Layout(mem)[to] = Dead
        /\ Layout(mem') = With(Layout(mem), to, NewRow)
        /\ SameLsn(mem, mem')
    BY <1>1, <1>2, <1>3, <1>4, LayoutInserted
  <1> HIDE DEF to
  <1>6. \A r \in Place : r # to => Layout(mem')[r] = Layout(mem)[r]
    BY <1>2, <1>3, <1>5, WithIs
  <1>7. Basics'
    <2>1. stmts \in Nat /\ scenario.stmts \in Nat /\ NewRow = stmts + 1
      BY <1>2 DEF SessionOK, Scenario, NewRow
    <2>2. 1 .. stmts \subseteq 1 .. stmts' /\ stmts' <= scenario.stmts /\ NewRow \in 1 .. stmts'
      BY <1>1, <2>1
    <2>3. stable \subseteq 1 .. stmts' /\ pending' \subseteq 1 .. stmts'
      BY <1>1, <1>2, <2>2 DEF Basics
    <2> QED BY <1>1, <1>2, <2>2, <2>3 DEF Basics, Halves
  <1>8. LogsGood' /\ ZeroInv' /\ (MayStop' <=> MayStop) /\ Logs' = Logs
        /\ (\A q : Versions(q)' = Versions(q))
    <2>1. (MayStop' <=> MayStop) /\ Logs' = Logs /\ (\A q : Versions(q)' = Versions(q))
      BY <1>1, StopFrame
    <2>2. ZeroInv'
      BY <1>1, <1>5, Parts, ZeroKept DEF Recoveries
    <2> QED BY <2>1, <2>2, Parts DEF LogsGood
  <1>9. WalShape'
    <2>1. \A q \in Pages : Len(mem[q].slots) <= Len(mem'[q].slots)
      BY <1>1, <1>2, <1>3, InsertedGrows DEF Grows, Prior
    <2> QED BY <1>1, <1>2, <2>1, Parts, WalShapeKept DEF Recoveries, Resets
  <1>10. Exact(Layout(mem'), pending')
    BY <1>1, <1>2, <1>3, <1>5, ExactAdd
  <1>11. ASSUME MayStop PROVE \E lay \in Layouts, one \in Place \cup {NoRid} : Halfway(lay, one)'
    <2>1. Free(wal, to)
      <3>1. ~HasSlot(to)
        BY <1>4 DEF HasSlot
      <3> QED BY <1>2, <1>5, <1>11, <3>1 DEF LogShape, SlotsLogged
    <2>2. ASSUME NEW r \in Place
          PROVE  Leads(mem'[r[1]], r, Layout(mem')[r], wal)
      <3>1. Leads(mem[r[1]], r, Layout(mem)[r], wal)
        BY <1>2, <1>11 DEF Steady
      <3>2. /\ Layout(mem)[r] = Cell(mem[r[1]], r[2]) /\ Layout(mem')[r] = Cell(mem'[r[1]], r[2])
        BY DEF Layout
      <3>3. CASE r = to
        <4>1. \A i \in 1 .. Len(wal) : ~FirstLost(wal, i, r) /\ ~LastWon(wal, i, r)
          BY <2>1, <3>3 DEF Free, FirstLost, LastWon
        <4> QED BY <3>2, <4>1 DEF Leads
      <3>4. CASE r # to
        <4>1. mem'[r[1]].lsn = mem[r[1]].lsn
          BY <1>5, PlaceIsReal DEF SameLsn
        <4> QED BY <1>6, <3>1, <3>2, <3>4, <4>1, LeadsAlike
      <3> QED BY <3>3, <3>4
    <2>3. \A q \in Pages : LeadsPage(mem'[q], q, Layout(mem'), wal)
      BY <2>2 DEF LeadsPage
    <2>4. \A q \in Pages : \A v \in Versions(q) : LeadsPage(v, q, Layout(mem), wal)
      BY <1>2, <1>11 DEF LeadsPage, Steady
    <2>5. ASSUME NEW lay, lay = Layout(mem), NEW one, one = to PROVE Halfway(lay, one)'
      BY <1>1, <1>2, <1>6, <1>8, <1>11, <2>3, <2>4, <2>5 DEF Halfway
    <2> QED BY <1>2, <1>5, <2>5
  <1>12. FlushInv'
    BY <1>1, <1>2, <1>8, <1>10, <1>11 DEF FlushInv
  <1> QED BY <1>1, <1>7, <1>8, <1>9, <1>12, OutsideTxn
          DEF CRest, IdleInv, RedoInv, ResetInv, Resets

\* The other statements outside a transaction, when the program does not stop.
LEMMA UnloggedKeeps ==
    ASSUME CInv, IInv',
           \/ \E p \in Pages : PutReturning(p)
           \/ \E r \in LiveRids : Remove(r) \/ \E to \in UpdateTargets(r) : Modify(r, to)
    PROVE  CRest'
  <1>1. /\ pc = "ready" /\ txn = 0 /\ stmts < scenario.stmts /\ stmts' = stmts + 1
        /\ {"putReturning", "remove", "modify"} \cap scenario.work # {}
        /\ UNCHANGED <<txn, nextTxn, undo, cur, at, stops, logs, scenario>>
    BY DEF PutReturning, Remove, Modify, AutoCommit, CanIssue, InTxn, Ready, txnVars, flow
  <1>2. /\ SessionOK /\ PagesOK /\ Basics /\ mem \in [Pages -> Page]
        /\ Layout(mem) \in Layouts /\ pending = stable /\ Exact(Layout(mem), stable)
    BY <1>1, Between
  <1>3. /\ NewRow \in Nat /\ NewRow # Dead /\ NewRow \notin stable /\ NewRow = stmts + 1
        /\ \A r \in Place : Layout(mem)[r] # NewRow
    BY <1>2, NewRowIsNew DEF NewRow
  <1>4. ~MayStop /\ ~MayStop'
    <2>1. ~MayStop
      BY <1>1, <1>2, StopIsPossible
    <2> QED BY <1>1, <2>1 DEF MayStop
  <1>5. /\ 1 .. stmts \subseteq 1 .. stmts' /\ stmts' <= scenario.stmts /\ NewRow \in 1 .. stmts'
        /\ stable \subseteq 1 .. stmts'
    <2>1. stmts \in Nat /\ scenario.stmts \in Nat
      BY <1>2 DEF SessionOK, Scenario
    <2>2. 1 .. stmts \subseteq 1 .. stmts' /\ stmts' <= scenario.stmts /\ NewRow \in 1 .. stmts'
      BY <1>1, <1>3, <2>1
    <2> QED BY <1>2, <2>2 DEF Basics
  <1>6. wal' \in walPlatter' /\ \A p \in Pages : os'[p] \in platter'[p]
    <2>1. CASE UNCHANGED <<os, platter, wal, walPlatter>>
      BY <1>2, <2>1 DEF Basics
    <2>2. CASE \E r \in LiveRids : \E to \in UpdateTargets(r) : Modify(r, to)
      <3>1. PICK r \in LiveRids : \E to \in UpdateTargets(r) : Modify(r, to)
        BY <2>2
      <3>2. PICK to \in UpdateTargets(r) : Modify(r, to)
        BY <3>1
      <3>3. mem' = UpdateTuple(r, to, NewRow) /\ UpdateWrites(r, to)
        BY <3>2 DEF Modify, AutoCommit
      <3>4. HalfWritten(NewRow)
        BY <1>2, <1>3, <3>3, UpdatedInHalves
      <3> QED BY <1>1, <1>2, <3>4, HalvesFrame
    <2> QED BY <2>1, <2>2 DEF PutReturning, Remove, walVars
  <1>7. CASE \E p \in Pages : PutReturning(p)
    <2>1. PICK p \in Pages : PutReturning(p)
      BY <1>7
    <2>2. /\ mem' = Inserted(mem, p, NewRow) /\ stable' = stable \cup {NewRow}
          /\ pending' = stable' /\ pc' = "ready"
      BY <1>1, <2>1 DEF PutReturning, flow
    <2>3. Exact(Layout(mem'), stable')
      <3> DEFINE to == <<p, Len(mem[p].slots) + 1>>
      <3>1. to \in Place /\ Layout(mem)[to] = Dead /\ Layout(mem') = With(Layout(mem), to, NewRow)
        BY <1>2, <1>3, <2>2, LayoutInserted
      <3> HIDE DEF to
      <3> QED BY <1>2, <1>3, <2>2, <3>1, ExactAdd
    <2>4. Basics'
      BY <1>1, <1>2, <1>5, <1>6, <2>2 DEF Basics, Halves
    <2> QED BY <1>1, <1>4, <2>2, <2>3, <2>4, OutsideTxn
            DEF CRest, LogsGood, ZeroInv, WalShape, IdleInv, FlushInv, RedoInv, ResetInv, Resets
  <1>8. CASE \E r \in LiveRids : Remove(r) \/ \E to \in UpdateTargets(r) : Modify(r, to)
    <2>1. PICK r \in LiveRids : Remove(r) \/ \E to \in UpdateTargets(r) : Modify(r, to)
      BY <1>8
    <2>2. r \in Place /\ Layout(mem)[r] = RowAt(r) /\ RowAt(r) # Dead
      BY <1>2, LiveRow, LiveCell
    <2>3. stable' = stable /\ pc' = "flush"
      BY <2>1 DEF Remove, Modify, AutoCommit
    <2>4. Exact(With(Layout(mem), r, Dead), stable \ {RowAt(r)})
      BY <1>2, <2>2, ExactDrop
    <2>5. Exact(Layout(mem'), pending') /\ pending' \subseteq 1 .. stmts'
      <3>1. CASE Remove(r)
        <4>1. mem' = Erased(mem, r) /\ pending' = stable \ {RowAt(r)}
          BY <3>1 DEF Remove, AutoCommit
        <4>2. Layout(mem') = With(Layout(mem), r, Dead)
          BY <1>2, <2>2, <4>1, LayoutErased
        <4> QED BY <1>5, <2>4, <4>1, <4>2
      <3>2. CASE \E to \in UpdateTargets(r) : Modify(r, to)
        <4>1. PICK to \in UpdateTargets(r) : Modify(r, to)
          BY <3>2
        <4>2. mem' = UpdateTuple(r, to, NewRow) /\ pending' = (stable \ {RowAt(r)}) \cup {NewRow}
          BY <4>1 DEF Modify, AutoCommit
        <4> DEFINE gone == With(Layout(mem), r, Dead)
        <4>3. gone[to] = Dead /\ Layout(mem') = With(gone, to, NewRow)
          BY <1>2, <1>3, <4>2, LayoutUpdated
        <4>4. to \in Place /\ gone \in Layouts
          BY <1>2, <1>3, <2>2, Updated, WithIs DEF Dead
        <4>5. NewRow \notin stable \ {RowAt(r)}
          BY <1>3
        <4> HIDE DEF gone
        <4>6. Exact(With(gone, to, NewRow), (stable \ {RowAt(r)}) \cup {NewRow})
          BY <1>3, <2>4, <4>3, <4>4, <4>5, ExactAdd DEF gone
        <4> QED BY <1>5, <4>2, <4>3, <4>6
      <3> QED BY <2>1, <3>1, <3>2
    <2>6. Basics'
      BY <1>1, <1>2, <1>5, <1>6, <2>3, <2>5 DEF Basics, Halves
    <2> QED BY <1>1, <1>4, <2>3, <2>5, <2>6, OutsideTxn
            DEF CRest, LogsGood, ZeroInv, WalShape, IdleInv, FlushInv, RedoInv, ResetInv, Resets
  <1> QED BY <1>7, <1>8

----------------------------------------------------------------------------
(* Flush, checkpoint, eviction.                                            *)

\* A page reaches the file cache.
LEMMA VersionsWritten ==
    ASSUME PagesOK, NEW p \in Pages, os' = [os EXCEPT ![p] = mem[p]],
           platter' = [platter EXCEPT ![p] = @ \cup {mem[p]}], UNCHANGED <<mem, scenario, stops>>
    PROVE  /\ MayStop' <=> MayStop
           /\ \A q \in Pages : /\ Versions(q)' \subseteq Versions(q) \cup {mem[q]}
                               /\ q # p => Versions(q)' = Versions(q)
           /\ Basics => \A q \in Pages : os'[q] \in platter'[q]
  <1>1. os \in [Pages -> Page] /\ platter \in [Pages -> SUBSET Page]
    BY DEF PagesOK
  <1>2. \A q \in Pages : /\ os'[q] = IF q = p THEN mem[p] ELSE os[q]
                         /\ platter'[q] = IF q = p THEN platter[p] \cup {mem[p]} ELSE platter[q]
    BY <1>1
  <1>3. MayStop' <=> MayStop
    BY DEF MayStop
  <1>4. \A q \in Pages : /\ Versions(q)' \subseteq Versions(q) \cup {mem[q]}
                         /\ q # p => Versions(q)' = Versions(q)
    BY <1>2 DEF Versions
  <1>5. Basics => \A q \in Pages : os'[q] \in platter'[q]
    BY <1>2 DEF Basics
  <1> QED BY <1>3, <1>4, <1>5

\* The platter catches up with the file cache.
LEMMA VersionsSynced ==
    ASSUME PagesOK, FlushComplete, pc \in Flushes, left = {},
           platter' = [p \in Pages |-> {os[p]}], UNCHANGED <<mem, os, scenario, stops>>
    PROVE  /\ MayStop' <=> MayStop
           /\ \A p \in Pages : mem[p] = os[p] /\ Versions(p)' = {mem[p]} /\ os'[p] \in platter'[p]
           /\ Basics => \A p \in Pages : mem[p] \in Versions(p)
  <1>1. \A p \in Pages : mem[p] = os[p]
    BY DEF FlushComplete
  <1> QED BY <1>1, OwnCopies DEF MayStop, Versions

LEMMA FlushPageKeeps == ASSUME CInv, IInv', NEW p \in Pages, FlushPage(p) PROVE CRest'
  <1>1. /\ pc \in {"flush", "recoverFlush", "closeFlush"} /\ os' = [os EXCEPT ![p] = mem[p]]
        /\ platter' = [platter EXCEPT ![p] = @ \cup {mem[p]}]
        /\ UNCHANGED <<mem, wal, walPlatter, nextLsn, appends, txn, nextTxn, undo, pc, cur, at, stable,
                       pending, stmts, stops, logs, scenario>>
    BY DEF FlushPage, walVars, txnVars, history, bounds
  <1>2. /\ SessionOK /\ PagesOK /\ Basics /\ LogsGood /\ ZeroInv /\ WalShape /\ IdleInv /\ FlushInv
        /\ ResetInv /\ mem \in [Pages -> Page] /\ txn = 0
    BY <1>1, Parts DEF PagesOK, SessionOK, Flushes
  <1>3. /\ MayStop' <=> MayStop
        /\ \A q \in Pages : Versions(q)' \subseteq Versions(q) \cup {mem[q]}
        /\ \A q \in Pages : os'[q] \in platter'[q]
    BY <1>1, <1>2, VersionsWritten
  <1>4. Logs' = Logs
    BY <1>1 DEF Logs
  <1>5. Basics' /\ LogsGood'
    BY <1>1, <1>2, <1>3, <1>4 DEF Basics, LogsGood
  <1>6. ZeroInv'
    <2>1. AllZero => AllZero'
      BY <1>1, <1>3 DEF AllZero
    <2> QED BY <1>1, <1>2, <1>3, <1>4, <2>1 DEF ZeroInv
  <1>7. WalShape'
    <2>1. LogShape => LogShape'
      <3>1. KnownTxns' /\ TxnIsLast' /\ Uncommitted' <=> KnownTxns /\ TxnIsLast /\ Uncommitted
        BY <1>1 DEF KnownTxns, TxnIsLast, Uncommitted, Committed
      <3>2. SlotsLogged' <=> SlotsLogged
        BY <1>1 DEF SlotsLogged, Free, On, HasSlot
      <3>3. (InsertsOnly' <=> InsertsOnly) /\ (OthersCommitted' <=> OthersCommitted)
        BY <1>1 DEF InsertsOnly, OthersCommitted, On, Committed
      <3> QED BY <1>1, <3>1, <3>2, <3>3 DEF LogShape
    <2> QED BY <1>1, <1>2, <1>3, <2>1 DEF WalShape
  <1>8. Layout(mem') = Layout(mem)
    BY <1>1
  <1>9. Steady => Steady'
    <2>1. SUFFICES ASSUME Steady, NEW r \in Place, NEW v \in Versions(r[1])' \cup {mem[r[1]]}
                   PROVE  Leads(v, r, Layout(mem)[r], Readable(wal))
      BY <1>1, <1>8 DEF Steady
    <2>2. v \in Versions(r[1]) \cup {mem[r[1]]}
      BY <1>3, PlaceIsReal
    <2> QED BY <2>1, <2>2 DEF Steady
  <1>10. IdleInv' /\ ResetInv'
    <2>1. IdleInv'
      BY <1>1, <1>2, <1>3, <1>4, <1>8, <1>9 DEF IdleInv
    <2>2. pc \notin Resets /\ pc' \notin Resets
      BY <1>1 DEF Resets
    <2>3. Outcome(Layout(mem)) => Outcome(Layout(mem))'
      BY <1>1, <1>8 DEF Outcome
    <2>4. ResetInv'
      BY <1>1, <1>2, <1>3, <1>4, <1>9, <2>2, <2>3 DEF ResetInv, Resets
    <2> QED BY <2>1, <2>4
  <1>11. \A lay, one : Halfway(lay, one) => Halfway(lay, one)'
    BY <1>1, <1>3, <1>8 DEF Halfway
  <1>12. FlushInv'
    BY <1>1, <1>2, <1>3, <1>4, <1>8, <1>11 DEF FlushInv
  <1> QED BY <1>1, <1>2, <1>5, <1>6, <1>7, <1>10, <1>12, OutsideTxn DEF CRest, RedoInv

LEMMA SyncPagesKeeps == ASSUME CInv, IInv', SyncPages PROVE CRest'
  <1>1. /\ pc = "flush" /\ left = {} /\ platter' = [p \in Pages |-> {os[p]}] /\ stable' = pending
        /\ pc' \in {"truncate", "ready"}
        /\ UNCHANGED <<mem, os, wal, walPlatter, nextLsn, appends, txn, nextTxn, undo, cur, left, at,
                       pending, stmts, stops, logs, scenario>>
    BY DEF SyncPages, walVars, txnVars, bounds
  <1>2. /\ SessionOK /\ PagesOK /\ FlushComplete /\ Basics /\ LogsGood /\ ZeroInv /\ WalShape
        /\ FlushInv /\ mem \in [Pages -> Page] /\ txn = 0
    BY <1>1, Parts DEF PagesOK, SessionOK, Flushes
  <1>3. /\ MayStop' <=> MayStop
        /\ \A p \in Pages : Versions(p)' = {mem[p]} /\ os'[p] \in platter'[p] /\ mem[p] \in Versions(p)
    BY <1>1, <1>2, VersionsSynced DEF Flushes
  <1>4. Logs' = Logs /\ Layout(mem') = Layout(mem)
    BY <1>1 DEF Logs
  <1>5. Basics' /\ LogsGood'
    BY <1>1, <1>2, <1>3, <1>4 DEF Basics, LogsGood, Halves
  <1>6. ZeroInv'
    <2>1. AllZero => AllZero'
      BY <1>1, <1>3 DEF AllZero
    <2> QED BY <1>1, <1>2, <1>3, <1>4, <2>1 DEF ZeroInv, Recoveries
  <1>7. WalShape'
    <2>1. \A q \in Pages : Len(mem[q].slots) <= Len(mem'[q].slots)
      BY <1>1, <1>2 DEF Page
    <2> QED BY <1>1, <1>2, <2>1, WalShapeKept DEF Recoveries, Resets
  <1>8. Exact(Layout(mem), pending)
    BY <1>1, <1>2 DEF FlushInv
  <1>9. ASSUME MayStop
        PROVE  Logs = {wal} /\ \A r \in Place : Leads(mem[r[1]], r, Layout(mem)[r], Readable(wal))
    <2>1. PICK lay \in Layouts, one \in Place \cup {NoRid} : Halfway(lay, one)
      BY <1>1, <1>2, <1>9 DEF FlushInv
    <2>2. \A p \in Pages : LeadsPage(mem[p], p, Layout(mem), Readable(wal))
      BY <2>1 DEF Halfway
    <2>3. ASSUME NEW r \in Place PROVE Leads(mem[r[1]], r, Layout(mem)[r], Readable(wal))
      <3>1. r[1] \in Pages
        BY PlaceIsReal
      <3> QED BY <2>2, <3>1 DEF LeadsPage
    <2> QED BY <1>1, <1>2, <1>9, <2>3 DEF FlushInv
  <1>10. IdleInv'
    <2>1. MayStop => Logs' = {wal'} /\ Steady'
      <3>1. SUFFICES ASSUME MayStop PROVE Logs' = {wal'} /\ Steady'
        OBVIOUS
      <3>2. \A r \in Place : Versions(r[1])' \cup {mem'[r[1]]} = {mem[r[1]]}
        BY <1>1, <1>3, PlaceIsReal
      <3>3. Steady'
        BY <1>1, <1>4, <1>9, <3>1, <3>2 DEF Steady
      <3> QED BY <1>1, <1>4, <1>9, <3>1, <3>3
    <2> QED BY <1>1, <1>3, <1>4, <1>8, <2>1 DEF IdleInv
  <1>11. ResetInv'
    <2>1. Outcome(Layout(mem))'
      BY <1>1, <1>4, <1>8 DEF Outcome
    <2>2. MayStop => /\ \A p \in Pages : Versions(p)' = {mem'[p]}
                     /\ Logs' = {wal'}
                     /\ \A l \in Logs', r \in Place :
                           Leads(mem'[r[1]], r, Layout(mem')[r], Readable(l))
      BY <1>1, <1>3, <1>4, <1>9
    <2> QED BY <1>1, <1>3, <2>1, <2>2 DEF ResetInv
  <1> QED BY <1>1, <1>2, <1>5, <1>6, <1>7, <1>10, <1>11, OutsideTxn
          DEF CRest, FlushInv, RedoInv

\* Without records.
LEMMA ReadableEmpty == Readable(<< >>) = << >> /\ WellFormed(<< >>)
  <1>1. {i \in 1 .. Len(<< >>) : << >>[i].type = "Torn"} = {}
    OBVIOUS
  <1>2. \A i \in 1 .. Len(<< >>) : FALSE
    OBVIOUS
  <1> QED BY <1>1, <1>2 DEF Readable, WellFormed

LEMMA TruncateKeeps == ASSUME CInv, IInv', Truncate PROVE CRest'
  <1>1. /\ pc = "truncate" /\ wal' = << >> /\ walPlatter' = walPlatter \cup {<< >>}
        /\ logs' = logs + 1 /\ pc' = "resetSync"
        /\ UNCHANGED <<mem, os, platter, nextLsn, appends, txn, nextTxn, undo, cur, left, at, stable,
                       pending, stmts, stops, scenario>>
    BY DEF Truncate, pageVars, txnVars, history
  <1>2. /\ SessionOK /\ Basics /\ LogsGood /\ ZeroInv /\ ResetInv /\ txn = 0
    BY <1>1, Parts DEF SessionOK
  <1>3. (MayStop' <=> MayStop) /\ \A p : Versions(p)' = Versions(p)
    BY <1>1, VersionsFrame
  <1>4. Logs' \subseteq Logs \cup {<< >>} /\ Layout(mem') = Layout(mem)
    BY <1>1 DEF Logs
  <1>5. logs \in Nat \ {0} /\ logs' \in Nat \ {0} /\ logs' > 1 /\ logs' > logs
    BY <1>1, <1>2 DEF Basics
  <1>6. Basics'
    BY <1>1, <1>2, <1>5 DEF Basics, Halves
  <1>7. LogsGood'
    BY <1>2, <1>3, <1>4, ReadableEmpty DEF LogsGood
  <1>8. ZeroInv'
    <2>1. SUFFICES ASSUME MayStop PROVE ZeroInv'
      BY <1>3 DEF ZeroInv
    <2>2. scenario.logs \in Nat
      BY <1>2 DEF SessionOK, Scenario
    <2>3. CASE AllZero
      BY <1>1, <1>3, <2>3 DEF ZeroInv, AllZero
    <2>4. CASE stops > 0
      <3>1. scenario.logs <= 1
        BY <1>2, <2>1, <2>4, StopIsPossible
      <3>2. logs' > scenario.logs
        BY <1>5, <2>2, <3>1
      <3> QED BY <1>1, <1>2, <2>4, <3>2 DEF ZeroInv
    <2> QED BY <1>2, <2>1, <2>3, <2>4 DEF ZeroInv
  <1>9. ResetInv'
    <2>1. Outcome(Layout(mem))'
      BY <1>1, <1>2, <1>4 DEF Outcome, ResetInv, Resets
    <2>2. ASSUME MayStop, NEW l \in Logs', NEW r \in Place
          PROVE  Leads(mem[r[1]], r, Layout(mem)[r], Readable(l))
      <3>1. CASE l \in Logs
        BY <1>1, <1>2, <2>2, <3>1 DEF ResetInv, Resets
      <3>2. CASE l = << >>
        BY <3>2, ReadableEmpty, LeadsEmpty DEF Layout
      <3> QED BY <1>4, <3>1, <3>2
    <2>3. MayStop => \A p \in Pages : Versions(p) = {mem[p]}
      BY <1>1, <1>2 DEF ResetInv, Resets
    <2> QED BY <1>1, <1>3, <1>4, <2>1, <2>2, <2>3 DEF ResetInv
  <1> QED BY <1>1, <1>2, <1>6, <1>7, <1>8, <1>9, OutsideTxn
          DEF CRest, WalShape, Resets, IdleInv, FlushInv, RedoInv

LEMMA ResetSyncKeeps == ASSUME CInv, IInv', ResetSync PROVE CRest'
  <1>1. /\ pc = "resetSync" /\ walPlatter' = {<< >>} /\ nextLsn' = 1 /\ pc' = "ready"
        /\ stable' = (IF Exactly(mem, pending) THEN pending ELSE stable) /\ pending' = stable'
        /\ UNCHANGED <<mem, os, platter, wal, txn, nextTxn, undo, cur, left, at, stmts, stops, logs,
                       scenario>>
    BY DEF ResetSync, Settle, pageVars, txnVars, bounds
  <1>2. /\ SessionOK /\ Basics /\ LogsGood /\ ZeroInv /\ ResetInv /\ txn = 0 /\ wal = << >>
        /\ PagesOK /\ mem \in [Pages -> Page]
    <2>1. SessionOK /\ Basics /\ LogsGood /\ ZeroInv /\ ResetInv /\ PagesOK
      BY Parts
    <2>2. txn = 0
      BY <1>1, <2>1 DEF SessionOK
    <2>3. wal = << >>
      BY <1>1, <2>1 DEF ResetInv, Resets
    <2> QED BY <2>1, <2>2, <2>3 DEF PagesOK
  <1>3. (MayStop' <=> MayStop) /\ \A p : Versions(p)' = Versions(p)
    BY <1>1, VersionsFrame
  <1>4. Logs' = {<< >>} /\ wal' = << >> /\ Layout(mem') = Layout(mem)
    BY <1>1, <1>2 DEF Logs
  <1>5. Basics'
    BY <1>1, <1>2 DEF Basics, Halves
  <1>6. LogsGood'
    BY <1>4, ReadableEmpty DEF LogsGood
  <1>7. ZeroInv'
    <2>1. AllZero => AllZero'
      BY <1>1, <1>3 DEF AllZero
    <2>2. pc \notin Recoveries \cup {"truncate"}
      BY <1>1 DEF Recoveries
    <2> QED BY <1>1, <1>2, <1>3, <2>1, <2>2 DEF ZeroInv
  <1>8. LogShape'
    <2>1. \A i \in 1 .. Len(<< >>) : FALSE
      OBVIOUS
    <2>2. txn' < nextTxn'
      BY <1>1, <1>2 DEF SessionOK
    <2>3. \A i, r : ~On(<< >>, i, r)
      BY <2>1 DEF On
    <2>4. KnownTxns' /\ TxnIsLast' /\ Uncommitted' /\ SlotsLogged' /\ InsertsOnly' /\ OthersCommitted'
      BY <1>1, <1>2, <1>4, <2>1, <2>2, <2>3
         DEF KnownTxns, TxnIsLast, Uncommitted, SlotsLogged, InsertsOnly, OthersCommitted, Free
    <2> QED BY <1>1, <1>4, <2>4, ReadableEmpty DEF LogShape
  <1>9. IdleInv'
    <2>1. Outcome(Layout(mem))
      BY <1>1, <1>2 DEF ResetInv, Resets
    <2>2. Exact(Layout(mem), stable')
      BY <1>1, <1>2, <2>1, Settled DEF Outcome, Basics
    <2>3. MayStop => Steady'
      <3>1. SUFFICES ASSUME MayStop, NEW r \in Place, NEW v \in Versions(r[1]) \cup {mem[r[1]]}
                     PROVE  Leads(v, r, Layout(mem)[r], << >>)
        BY <1>1, <1>3, <1>4, ReadableEmpty DEF Steady
      <3>2. v = mem[r[1]]
        BY <1>1, <1>2, <3>1, PlaceIsReal DEF ResetInv, Resets
      <3> QED BY <3>2, LeadsEmpty DEF Layout
    <2> QED BY <1>1, <1>3, <1>4, <2>2, <2>3 DEF IdleInv
  <1> QED BY <1>1, <1>2, <1>5, <1>6, <1>7, <1>8, <1>9, OutsideTxn
          DEF CRest, WalShape, FlushInv, RedoInv, ResetInv, Resets

\* A page is evicted, and the log synced before it.
LEMMA EvictKeeps == ASSUME CInv, IInv', NEW p \in Pages, Evict(p) PROVE CRest'
  <1>1. /\ \/ pc \in {"ready", "erase", "undo", "redo", "undoLosers"}
           \/ scenario.smallPool /\ pc \in {"logInsert", "logModifyDelete"}
        /\ walPlatter' = {wal} /\ os' = [os EXCEPT ![p] = mem[p]]
        /\ platter' = [platter EXCEPT ![p] = @ \cup {mem[p]}]
        /\ UNCHANGED <<mem, wal, nextLsn, appends, txn, nextTxn, undo, pc, cur, left, at, stable,
                       pending, stmts, stops, logs, scenario>>
    BY DEF Evict, SyncLog, txnVars, flow, history, bounds
  <1>2. /\ SessionOK /\ PagesOK /\ LogsOK /\ Basics /\ LogsGood /\ ZeroInv /\ WalShape /\ IdleInv
        /\ TxnInv /\ OpenInv /\ RedoInv /\ mem \in [Pages -> Page] /\ SessionOK'
    BY Parts DEF IInv, PagesOK
  <1>3. /\ MayStop' <=> MayStop
        /\ \A q \in Pages : Versions(q)' \subseteq Versions(q) \cup {mem[q]}
        /\ \A q \in Pages : os'[q] \in platter'[q]
    BY <1>1, <1>2, VersionsWritten
  <1>4. wal \in Logs /\ Logs' = {wal} /\ Layout(mem') = Layout(mem)
    BY <1>1, <1>2, OwnCopies DEF Logs
  <1>5. Basics' /\ LogsGood'
    BY <1>1, <1>2, <1>3, <1>4 DEF Basics, LogsGood
  <1>6. ZeroInv'
    <2>1. AllZero => AllZero'
      BY <1>1, <1>3 DEF AllZero
    <2> QED BY <1>1, <1>2, <1>3, <1>4, <2>1 DEF ZeroInv
  <1>7. WalShape'
    <2>1. \A q \in Pages : Len(mem[q].slots) <= Len(mem'[q].slots)
      BY <1>1, <1>2 DEF Page
    <2>2. CASE pc \in Recoveries \cup Resets
      BY <1>1, <2>2 DEF WalShape
    <2>3. CASE pc \notin Recoveries \cup Resets
      BY <1>1, <1>2, <2>1, <2>3, WalShapeKept
    <2> QED BY <2>2, <2>3
  <1>8. IdleInv'
    <2>1. Steady => Steady'
      <3>1. SUFFICES ASSUME Steady, NEW r \in Place, NEW v \in Versions(r[1])' \cup {mem[r[1]]}
                     PROVE  Leads(v, r, Layout(mem)[r], Readable(wal))
        BY <1>1, <1>4 DEF Steady
      <3>2. v \in Versions(r[1]) \cup {mem[r[1]]}
        BY <1>3, PlaceIsReal
      <3> QED BY <3>1, <3>2 DEF Steady
    <2> QED BY <1>1, <1>2, <1>3, <1>4, <2>1 DEF IdleInv
  <1>9. View' = View /\ Todo' = Todo /\ Unlogged' = Unlogged
    BY <1>1, <1>4 DEF View, Todo, Unlogged
  <1>10. TxnInv'
    BY <1>1, <1>2, <1>4, <1>9 DEF TxnInv, Undoable, HasSlot
  <1>11. ASSUME NEW lay, Explains(wal, lay),
                \A r \in Place : Leads(mem[r[1]], r, lay[r], Readable(wal))
         PROVE  Explains(wal, lay)'
    <2>1. SUFFICES ASSUME NEW r \in Place, NEW v \in Versions(r[1])'
                   PROVE  Leads(v, r, lay[r], Readable(wal))
      BY <1>1 DEF Explains
    <2>2. v \in Versions(r[1]) \cup {mem[r[1]]}
      BY <1>3, PlaceIsReal
    <2> QED BY <1>11, <2>2 DEF Explains
  <1>12. OpenInv'
    <2>1. SUFFICES ASSUME txn # 0, MayStop PROVE OpenInv'
      BY <1>1, <1>3 DEF OpenInv
    <2>2. pc \in {"ready", "erase", "undo"} /\ AllZero /\ LogShape
      <3>1. ~scenario.smallPool
        BY <1>2, <2>1, StopIsPossible
      <3> QED BY <1>1, <1>2, <2>1, <3>1, OpenIsZero DEF SessionOK, Recoveries
    <2>3. PICK lay \in Layouts : Opened(lay)
      BY <1>2, <2>1 DEF OpenInv
    <2>4. Explains(wal, lay)
      BY <1>4, <2>2, <2>3 DEF Opened
    <2>5. /\ Readable(wal) = wal /\ wal \in Seq(LogRecord) /\ WellFormed(wal)
      BY <1>2, <1>4, <2>1, <2>2 DEF LogShape, LogsOK, LogsGood
    <2>6. ASSUME NEW r \in Place, Free(wal, r) PROVE lay[r] = Layout(mem)[r]
      <3>1. NoOwn(r)
        BY <2>6 DEF Free, NoOwn, Own
      <3>2. CASE pc = "undo"
        BY <1>2, <2>1, <2>3, <3>1, <3>2 DEF Opened, Rolling, TxnInv
      <3>3. CASE pc = "ready"
        BY <2>3, <3>1, <3>3 DEF Opened, Shown, View, Unlogged
      <3>4. CASE pc = "erase"
        <4>1. View[r] = lay[r] /\ r # cur.rid
          BY <2>3, <3>1, <3>4 DEF Opened, Shown, Unlogged
        <4>2. cur.rid \in Place /\ Layout(mem) \in Layouts
          BY <1>2, <3>4, LayoutType DEF SessionOK
        <4>3. \A q \in Place : \A x \in Place : x # q => With(Layout(mem), q, Dead)[x] = Layout(mem)[x]
          BY <4>2, WithIs DEF Dead
        <4> QED BY <3>4, <4>1, <4>2, <4>3 DEF View
      <3> QED BY <2>2, <3>2, <3>3, <3>4
    <2>7. ASSUME NEW r \in Place PROVE Leads(mem[r[1]], r, lay[r], wal)
      <3>1. /\ r[1] \in Pages /\ os[r[1]] \in Versions(r[1])
        BY <1>2, PlaceIsReal, OwnCopies
      <3>2. mem[r[1]].lsn = 0 /\ os[r[1]].lsn = 0
        BY <2>2, <3>1 DEF AllZero
      <3>3. Leads(os[r[1]], r, lay[r], wal)
        BY <2>4, <2>5, <3>1 DEF Explains
      <3>4. Free(wal, r) => lay[r] = Cell(mem[r[1]], r[2])
        BY <1>2, <2>6, LayoutType
      <3> QED BY <2>5, <3>2, <3>3, <3>4, LeadsAtZero
    <2>8. Explains(wal, lay)'
      BY <1>11, <2>4, <2>5, <2>7
    <2>9. \A r : NoOwn(r)' <=> NoOwn(r)
      BY <1>1 DEF NoOwn, Own, On
    <2>10. \A i, r : OwnLast(i, r)' <=> OwnLast(i, r)
      BY <1>1 DEF OwnLast, Own, On
    <2>11. Shown(lay) => Shown(lay)'
      BY <1>1, <1>9, <2>9, <2>10 DEF Shown
    <2>12. Rolling(lay) => Rolling(lay)'
      BY <1>1, <1>4, <2>9 DEF Rolling
    <2>13. Opened(lay)'
      BY <1>1, <1>4, <2>2, <2>3, <2>8, <2>9, <2>11, <2>12 DEF Opened, Halves
    <2> QED BY <2>13 DEF OpenInv
  <1>13. RedoInv'
    <2>1. SUFFICES ASSUME pc \in {"redo", "undoLosers"} PROVE RedoInv'
      BY <1>1 DEF RedoInv
    <2>2. PICK lay \in Layouts : Recovering(lay, Readable(wal))
      BY <1>2, <2>1 DEF RedoInv
    <2>3. MayStop => Explains(wal, lay)'
      BY <1>11, <2>2 DEF Recovering
    <2>4. Recovering(lay, Readable(wal))'
      BY <1>1, <1>3, <1>4, <2>2, <2>3 DEF Recovering, Outcome
    <2> QED BY <1>1, <1>2, <1>3, <1>4, <2>1, <2>4 DEF RedoInv
  <1>14. FlushInv' /\ ResetInv'
    BY <1>1 DEF FlushInv, ResetInv, Resets
  <1> QED BY <1>5, <1>6, <1>7, <1>8, <1>10, <1>12, <1>13, <1>14 DEF CRest

LEMMA CloseKeeps == ASSUME CInv, IInv', Close PROVE CRest'
  <1>1. /\ pc = "ready" /\ txn = 0 /\ pc' = "closeFlush"
        /\ UNCHANGED <<mem, os, platter, wal, walPlatter, nextLsn, appends, txn, nextTxn, undo, cur, at,
                       stable, pending, stmts, stops, logs, scenario>>
    BY DEF Close, Ready, InTxn, pageVars, walVars, txnVars, history, bounds
  <1>2. /\ SessionOK /\ PagesOK /\ Basics /\ LogsGood /\ ZeroInv /\ WalShape /\ IdleInv
        /\ mem \in [Pages -> Page]
    BY Parts DEF PagesOK
  <1>3. (MayStop' <=> MayStop) /\ Logs' = Logs /\ (\A q : Versions(q)' = Versions(q))
    BY <1>1, StopFrame
  <1>4. Basics' /\ LogsGood'
    BY <1>1, <1>2, <1>3 DEF Basics, LogsGood, Halves
  <1>5. ZeroInv'
    <2>1. SameLsn(mem, mem')
      BY <1>1 DEF SameLsn
    <2> QED BY <1>1, <1>2, <2>1, ZeroKept DEF Recoveries
  <1>6. WalShape'
    <2>1. \A q \in Pages : Len(mem[q].slots) <= Len(mem'[q].slots)
      BY <1>1, <1>2 DEF Page
    <2> QED BY <1>1, <1>2, <2>1, WalShapeKept DEF Recoveries, Resets
  <1>7. IdleInv'
    <2>1. Layout(mem') = Layout(mem)
      BY <1>1
    <2>2. Steady => Steady'
      BY <1>1, <1>3, <2>1 DEF Steady
    <2> QED BY <1>1, <1>2, <1>3, <2>1, <2>2 DEF IdleInv
  <1> QED BY <1>1, <1>4, <1>5, <1>6, <1>7, OutsideTxn
          DEF CRest, FlushInv, RedoInv, ResetInv, Resets

----------------------------------------------------------------------------
(* Stops.                                                                  *)

\* Whatever a stop finds leads recovery to a layout of the rows of the last
\* acknowledged state, or of what was in doubt.
Survives(lay) == Exact(lay, stable) \/ Exact(lay, InDoubt)

LEMMA StopLeads ==
    ASSUME CInv, MayStop, NEW l \in Logs, NEW found \in [Pages -> Page],
           \A p \in Pages : found[p] \in Versions(p)
    PROVE  \E lay \in Layouts :
              Survives(lay) /\ \A r \in Place : Leads(found[r[1]], r, lay[r], Readable(l))
  <1>1. /\ SessionOK /\ PagesOK /\ Basics /\ IdleInv /\ FlushInv /\ TxnInv /\ OpenInv /\ RedoInv
        /\ ResetInv /\ mem \in [Pages -> Page] /\ Layout(mem) \in Layouts
    BY Parts, LayoutType DEF PagesOK
  <1>2. \A r \in Place : r[1] \in Pages /\ found[r[1]] \in Versions(r[1])
    BY PlaceIsReal
  <1>3. ASSUME NEW lay \in Layouts, Survives(lay), Explains(l, lay)
        PROVE  \E x \in Layouts :
                  Survives(x) /\ \A r \in Place : Leads(found[r[1]], r, x[r], Readable(l))
    BY <1>2, <1>3 DEF Explains
  <1>4. ASSUME Steady, Logs = {wal}
        PROVE  Explains(l, Layout(mem))
    BY <1>4 DEF Steady, Explains
  <1>5. \A lay : Outcome(lay) /\ (txn = 0 \/ pc = "commitSync") => Survives(lay)
    BY DEF Outcome, Survives, InDoubt, InTxn
  <1>6. pc \in {"flush", "recoverFlush", "redo", "undoLosers"} \cup Resets => txn = 0
    BY <1>1 DEF SessionOK, Flushes, Recoveries, Resets
  <1>7. CASE txn # 0
    <2>1. PICK lay \in Layouts : Opened(lay)
      BY <1>1, <1>7 DEF OpenInv
    <2>2. CASE pc # "commitSync" \/ l # wal
      BY <1>3, <2>1, <2>2 DEF Opened, Survives
    <2>3. CASE pc = "commitSync" /\ l = wal
      <3>1. Exact(Layout(mem), pending)
        BY <1>1, <1>7, <2>3 DEF TxnInv, Acting, View
      <3> QED BY <1>1, <1>3, <1>5, <2>1, <2>3, <3>1 DEF Opened, Outcome
    <2> QED BY <2>2, <2>3
  <1>8. CASE txn = 0 /\ pc \in {"ready", "closeFlush"}
    BY <1>1, <1>3, <1>4, <1>8, <1>5 DEF IdleInv, Outcome
  <1>9. CASE pc = "recoverFlush"
    BY <1>1, <1>3, <1>4, <1>9, <1>5, <1>6 DEF ResetInv
  <1>10. CASE pc \in Resets
    <2>1. /\ Outcome(Layout(mem)) /\ \A p \in Pages : Versions(p) = {mem[p]}
          /\ \A r \in Place : Leads(mem[r[1]], r, Layout(mem)[r], Readable(l))
      BY <1>1, <1>10 DEF ResetInv
    <2>2. Explains(l, Layout(mem))
      BY <1>2, <2>1 DEF Explains
    <2> QED BY <1>1, <1>3, <1>10, <1>5, <1>6, <2>1, <2>2
  <1>11. CASE pc \in {"redo", "undoLosers"}
    <2>1. PICK lay \in Layouts : Recovering(lay, Readable(wal))
      BY <1>1, <1>11 DEF RedoInv
    <2>2. Outcome(lay) /\ Explains(wal, lay) /\ l = wal
      BY <1>1, <1>11, <2>1 DEF RedoInv, Recovering
    <2> QED BY <1>3, <1>11, <1>5, <1>6, <2>2
  <1>12. CASE pc = "flush"
    <2>1. Exact(Layout(mem), pending) /\ l = wal
      BY <1>1, <1>12 DEF FlushInv
    <2>2. PICK lay \in Layouts, one \in Place \cup {NoRid} : Halfway(lay, one)
      BY <1>1, <1>12 DEF FlushInv
    <2>3. ASSUME NEW r \in Place
          PROVE  \/ Leads(found[r[1]], r, Layout(mem)[r], Readable(l))
                 \/ Leads(found[r[1]], r, lay[r], Readable(l))
      BY <1>2, <2>1, <2>2 DEF Halfway, LeadsPage
    <2>4. \A r \in Place : r # one => lay[r] = Layout(mem)[r]
      BY <2>2 DEF Halfway
    <2>5. CASE one \in Place /\ Leads(found[one[1]], one, Layout(mem)[one], Readable(l))
      <3>1. \A r \in Place : Leads(found[r[1]], r, Layout(mem)[r], Readable(l))
        BY <2>3, <2>4, <2>5
      <3> QED BY <1>1, <1>12, <1>5, <1>6, <2>1, <3>1 DEF Outcome
    <2>6. CASE ~(one \in Place /\ Leads(found[one[1]], one, Layout(mem)[one], Readable(l)))
      <3>1. \A r \in Place : Leads(found[r[1]], r, lay[r], Readable(l))
        BY <2>3, <2>4, <2>6
      <3> QED BY <2>2, <3>1 DEF Survives, Halfway
    <2> QED BY <2>5, <2>6
  <1>13. txn # 0 \/ pc \in {"ready", "closeFlush", "flush", "recoverFlush", "redo", "undoLosers"} \cup Resets
    BY <1>1 DEF SessionOK, Phases, Recoveries, Flushes, Basics, Resets
  <1> QED BY <1>7, <1>8, <1>9, <1>10, <1>11, <1>12, <1>13

\* The shape of a log without records.
LEMMA EmptyShape ==
    ASSUME wal' = << >>, nextLsn' = 1, txn' = 0, nextTxn' \in Nat \ {0}
    PROVE  LogShape'
  <1>1. \A i \in 1 .. Len(<< >>) : FALSE
    OBVIOUS
  <1>2. txn' < nextTxn'
    OBVIOUS
  <1>3. \A i, r : ~On(<< >>, i, r)
    BY <1>1 DEF On
  <1>4. KnownTxns' /\ TxnIsLast' /\ Uncommitted' /\ SlotsLogged' /\ InsertsOnly' /\ OthersCommitted'
    BY <1>1, <1>2, <1>3
       DEF KnownTxns, TxnIsLast, Uncommitted, SlotsLogged, InsertsOnly, OthersCommitted, Free
  <1> QED BY <1>4, ReadableEmpty DEF LogShape

\* What the program finds when it starts again.
Finds(pages, log, found) ==
    /\ pages \in [Pages -> Page] /\ \A p \in Pages : pages[p] \in Versions(p)
    /\ log \in Logs
    /\ found = log \/ (found = Append(log, Torn) /\ (log # << >> \/ scenario.tornFirst))

LEMMA RestartKeeps ==
    ASSUME CInv, IInv', MayStop, NEW pages, NEW log, NEW found, Finds(pages, log, found),
           Restart(pages, found), found \in walPlatter', \A p \in Pages : pages[p] \in platter'[p],
           MayStop' => Logs' = {found} /\ \A p \in Pages : Versions(p)' = {pages[p]}
    PROVE  CRest'
  <1> DEFINE now == IF Exactly(pages, InDoubt) THEN InDoubt ELSE stable
  <1>1. /\ mem' = pages /\ os' = pages /\ wal' = found /\ txn' = 0 /\ nextTxn' = 1
        /\ stops' = stops + 1 /\ stmts' = stmts /\ logs' = logs /\ scenario' = scenario
        /\ IF Readable(found) = << >>
           THEN nextLsn' = 1 /\ pc' = "ready" /\ stable' = now /\ pending' = stable'
           ELSE pc' = "redo" /\ at' = 1 /\ stable' = stable /\ pending' = InDoubt
    BY DEF Restart
  <1>2. /\ SessionOK /\ PagesOK /\ Basics /\ LogsGood /\ ZeroInv
        /\ log \in Seq(LogRecord) /\ pages \in [Pages -> Page] /\ log \in Logs
    <2>1. LogsOK
      BY Parts
    <2> QED BY <2>1, Parts DEF Finds, Logs, LogsOK
  <1>3. Readable(found) = Readable(log)
    BY <1>2, ReadableTorn DEF Finds
  <1>4. stops \in Nat /\ stops' > 0
    BY <1>1, <1>2 DEF SessionOK
  <1>5. Basics'
    <2>1. stable' \subseteq 1 .. stmts /\ pending' \subseteq 1 .. stmts
      BY <1>1, <1>2 DEF Basics, InDoubt
    <2>2. pc' \in {"ready", "redo"}
      BY <1>1
    <2> QED BY <1>1, <1>2, <2>1, <2>2 DEF Basics, Halves
  <1>6. PICK lay \in Layouts :
           Survives(lay) /\ \A r \in Place : Leads(pages[r[1]], r, lay[r], Readable(log))
    BY <1>2, StopLeads DEF Finds
  <1>7. AllZero => \A p \in Pages : pages[p].lsn = 0
    BY DEF AllZero, Finds
  <1>8. WellFormed(Readable(log)) /\ (Readable(log) = << >> => log = << >>)
    BY <1>2 DEF LogsGood
  <1>9. CASE Readable(found) = << >>
    <2>1. log = << >>
      BY <1>3, <1>8, <1>9
    <2>2. MayStop' => found = << >>
      <3>1. SUFFICES ASSUME MayStop' PROVE ~scenario.tornFirst
        BY <2>1 DEF Finds
      <3>2. scenario.stops \in Nat /\ scenario.stops > 1
        BY <1>1, <1>2, <1>4, <3>1 DEF SessionOK, Scenario, MayStop
      <3> QED BY <1>2, <3>2 DEF Basics, Kept
    <2>3. lay = Layout(pages)
      <3>1. \A r \in Place : lay[r] = Layout(pages)[r]
        BY <1>2, <1>3, <1>6, <1>9, LeadsEmpty, LayoutType
      <3> QED BY <1>2, <3>1, LayoutType, LayoutsEqual
    <2>4. Exact(Layout(pages), stable')
      BY <1>1, <1>2, <1>6, <1>9, <2>3, Settled DEF Survives, Basics, InDoubt
    <2>5. LogsGood'
      BY <2>2, ReadableEmpty DEF LogsGood
    <2>6. ZeroInv'
      <3>1. SUFFICES ASSUME MayStop' PROVE ZeroInv'
        BY DEF ZeroInv
      <3>2. CASE AllZero
        <4>1. AllZero'
          BY <1>1, <1>7, <3>1, <3>2 DEF AllZero
        <4> QED BY <4>1 DEF ZeroInv
      <3>3. CASE Logs = {wal} /\ Readable(wal) # << >>
        BY <1>2, <1>3, <1>9, <3>3
      <3>4. CASE logs > scenario.logs
        BY <1>1, <1>4, <2>2, <3>1, <3>4 DEF ZeroInv
      <3> QED BY <1>2, <3>2, <3>3, <3>4 DEF ZeroInv
    <2>7. WalShape'
      <3>1. SUFFICES ASSUME MayStop' PROVE LogShape'
        BY DEF WalShape
      <3> QED BY <1>1, <1>9, <2>2, <3>1, EmptyShape
    <2>8. IdleInv'
      <3>1. MayStop' => Steady'
        <4>1. SUFFICES ASSUME MayStop', NEW r \in Place, NEW v \in Versions(r[1])' \cup {mem'[r[1]]}
                       PROVE  Leads(v, r, Layout(pages)[r], << >>)
          BY <1>1, <1>9 DEF Steady
        <4>2. v = pages[r[1]]
          BY <1>1, <4>1, PlaceIsReal
        <4> QED BY <1>2, <4>2, LeadsEmpty, LayoutType
      <3> QED BY <1>1, <1>9, <2>4, <3>1 DEF IdleInv
    <2> QED BY <1>1, <1>5, <1>9, <2>5, <2>6, <2>7, <2>8, OutsideTxn
            DEF CRest, FlushInv, RedoInv, ResetInv, Resets
  <1>10. CASE Readable(found) # << >>
    <2>1. LogsGood'
      BY <1>3, <1>8, <1>10 DEF LogsGood
    <2>2. ZeroInv'
      BY <1>1, <1>4, <1>10 DEF ZeroInv, Recoveries
    <2>3. RedoInv'
      <3>1. Outcome(lay)'
        BY <1>1, <1>6, <1>10 DEF Outcome, Survives
      <3>2. \A r \in Place : Leads(mem'[r[1]], r, lay[r], Readable(found))
        BY <1>1, <1>3, <1>6
      <3>3. MayStop' => Explains(wal, lay)'
        <4>1. SUFFICES ASSUME MayStop', NEW r \in Place, NEW v \in Versions(r[1])'
                       PROVE  Leads(v, r, lay[r], Readable(found))
          BY <1>1 DEF Explains
        <4>2. v = pages[r[1]]
          BY <4>1, PlaceIsReal
        <4> QED BY <1>3, <1>6, <4>2
      <3>4. \A i \in 1 .. Len(Readable(found)) : ~(i < at')
        BY <1>1, <1>10
      <3>5. Recovering(lay, Readable(wal))'
        BY <1>1, <1>3, <1>8, <1>10, <3>1, <3>2, <3>3, <3>4 DEF Recovering
      <3> QED BY <1>1, <1>4, <1>10, <3>5 DEF RedoInv
    <2> QED BY <1>1, <1>5, <1>10, <2>1, <2>2, <2>3, OutsideTxn
            DEF CRest, WalShape, IdleInv, FlushInv, ResetInv, Resets, Recoveries
  <1> QED BY <1>9, <1>10

\* The program dies, or ends.
LEMMA CrashKeeps == ASSUME CInv, IInv', ProcessCrash PROVE CRest'
  <1>1. /\ "process" \in scenario.faults /\ MayStop /\ Restart(os, wal)
        /\ UNCHANGED <<platter, walPlatter>>
    BY DEF ProcessCrash, CanStop, MayStop
  <1>2. os' = os /\ wal' = wal /\ stops' = stops + 1 /\ scenario' = scenario
    BY <1>1 DEF Restart
  <1>3. SessionOK /\ PagesOK /\ Basics
    BY Parts
  <1>4. Finds(os, wal, wal)
    BY <1>3, OwnCopies DEF Finds, PagesOK
  <1>5. ASSUME MayStop' PROVE Logs' = {wal} /\ \A p \in Pages : Versions(p)' = {os[p]}
    <2>1. stops \in Nat /\ scenario.stops \in Nat /\ scenario.stops > 1
      BY <1>2, <1>3, <1>5 DEF SessionOK, Scenario, MayStop
    <2>2. "power" \notin scenario.faults
      BY <1>1, <1>3, <2>1 DEF Basics, Kept
    <2> QED BY <1>2, <2>2 DEF Logs, Versions
  <1>6. wal \in walPlatter' /\ \A p \in Pages : os[p] \in platter'[p]
    BY <1>1, <1>3 DEF Basics
  <1> QED BY <1>1, <1>4, <1>5, <1>6, RestartKeeps

LEMMA ClosedKeeps == ASSUME CInv, IInv', Closed PROVE CRest'
  <1>1. /\ pc = "closeFlush" /\ platter' = [p \in Pages |-> {os[p]}] /\ MayStop
        /\ Restart(os, wal) /\ walPlatter' = walPlatter
    BY DEF Closed, MayStop
  <1>2. os' = os /\ wal' = wal /\ scenario' = scenario
    BY <1>1 DEF Restart
  <1>3. SessionOK /\ PagesOK /\ Basics /\ IdleInv /\ txn = 0
    BY <1>1, Parts DEF SessionOK, Flushes
  <1>4. Finds(os, wal, wal)
    BY <1>3, OwnCopies DEF Finds, PagesOK
  <1>5. Logs = {wal}
    BY <1>1, <1>3 DEF IdleInv
  <1>6. \A p \in Pages : platter'[p] = {os[p]}
    BY <1>1
  <1>7. Logs' = {wal} /\ \A p \in Pages : Versions(p)' = {os[p]}
    BY <1>1, <1>2, <1>5, <1>6 DEF Logs, Versions
  <1>8. wal \in walPlatter' /\ \A p \in Pages : os[p] \in platter'[p]
    BY <1>1, <1>3, <1>6 DEF Basics
  <1> QED BY <1>1, <1>4, <1>7, <1>8, RestartKeeps

LEMMA PowerLossKeeps == ASSUME CInv, IInv', PowerLoss PROVE CRest'
  <1>1. "power" \in scenario.faults /\ MayStop
    BY DEF PowerLoss, CanStop, MayStop
  <1>2. PagesOK
    BY Parts
  <1>3. PICK pages \in [Pages -> UNION {platter[p] : p \in Pages}], log \in walPlatter :
           /\ \A p \in Pages : pages[p] \in platter[p]
           /\ \E found \in Found(log) :
                /\ Restart(pages, found)
                /\ platter' = [p \in Pages |-> {pages[p]}]
                /\ walPlatter' = {found}
    BY DEF PowerLoss
  <1>4. PICK found \in Found(log) :
                /\ Restart(pages, found)
                /\ platter' = [p \in Pages |-> {pages[p]}]
                /\ walPlatter' = {found}
    BY <1>3
  <1>5. scenario' = scenario
    BY <1>4 DEF Restart
  <1>6. Finds(pages, log, found)
    <2>1. pages \in [Pages -> Page]
      <3>1. \A p \in Pages : platter[p] \in SUBSET Page
        BY <1>2 DEF PagesOK
      <3>2. \A p \in Pages : pages[p] \in Page
        BY <1>3, <3>1
      <3> QED BY <3>2
    <2>2. \A p \in Pages : Versions(p) = platter[p]
      BY <1>1 DEF Versions
    <2>3. log \in Logs
      BY <1>1 DEF Logs
    <2>4. found = log \/ (found = Append(log, Torn) /\ (log # << >> \/ scenario.tornFirst))
      BY DEF Found
    <2> QED BY <1>3, <2>1, <2>2, <2>3, <2>4 DEF Finds
  <1>7. \A p \in Pages : platter'[p] = {pages[p]}
    BY <1>4
  <1>8. Logs' = {found} /\ \A p \in Pages : Versions(p)' = {pages[p]}
    BY <1>1, <1>4, <1>5, <1>7 DEF Logs, Versions
  <1>9. found \in walPlatter' /\ \A p \in Pages : pages[p] \in platter'[p]
    BY <1>4, <1>7
  <1> QED BY <1>1, <1>4, <1>6, <1>8, <1>9, RestartKeeps

----------------------------------------------------------------------------
(* Recovery.                                                               *)

\* What one record does to its page: x is pg with another row at slot s.
Sets(pg, x, s, row, lsn) ==
    IF lsn # 0 /\ pg.lsn >= lsn THEN x = pg
    ELSE /\ x.lsn = IF lsn # 0 THEN lsn ELSE pg.lsn
         /\ Cell(x, s) = row
         /\ \A i \in Nat \ {0} : i # s => Cell(x, i) = Cell(pg, i)

LEMMA RecordSets ==
    ASSUME NEW pg \in Page, NEW s \in Nat \ {0}, NEW row \in Nat, NEW lsn \in Nat
    PROVE  /\ Sets(pg, RedoSet(pg, s, row, lsn), s, row, lsn)
           /\ Sets(pg, RedoClear(pg, s, lsn), s, Dead, lsn)
  <1> DEFINE n == IF s > Len(pg.slots) THEN s ELSE Len(pg.slots)
             set == [i \in 1 .. n |-> IF i = s THEN row
                                     ELSE IF i <= Len(pg.slots) THEN pg.slots[i] ELSE Dead]
             clear == [i \in 1 .. Len(pg.slots) |-> IF i = s THEN Dead ELSE pg.slots[i]]
             new == IF lsn # 0 THEN lsn ELSE pg.lsn
  <1>1. pg.slots \in Seq(Nat) /\ Len(pg.slots) \in Nat
    BY DEF Page
  <1>2. n \in Nat /\ s \in 1 .. n /\ n >= Len(pg.slots) /\ (n > Len(pg.slots) => n = s)
    BY <1>1
  <1> HIDE DEF n
  <1>3. /\ \A i \in 1 .. n : set[i] = IF i = s THEN row
                                     ELSE IF i <= Len(pg.slots) THEN pg.slots[i] ELSE Dead
        /\ set \in [1 .. n -> Nat]
        /\ \A i \in 1 .. Len(pg.slots) : clear[i] = IF i = s THEN Dead ELSE pg.slots[i]
        /\ clear \in [1 .. Len(pg.slots) -> Nat]
    <2>1. \A i \in 1 .. Len(pg.slots) : pg.slots[i] \in Nat
      BY <1>1
    <2> QED BY <1>1, <1>2, <2>1 DEF Dead
  <1> HIDE DEF set, clear
  <1>4. Len(set) = n /\ Len(clear) = Len(pg.slots)
    <2>1. \A k \in Nat : \A f \in [1 .. k -> Nat] : Len(f) = k
      OBVIOUS
    <2> QED BY <1>1, <1>2, <1>3, <2>1
  <1>5. ASSUME NEW i \in Nat \ {0}
        PROVE  /\ (IF i \in 1 .. Len(set) THEN set[i] ELSE Dead) = IF i = s THEN row ELSE Cell(pg, i)
               /\ (IF i \in 1 .. Len(clear) THEN clear[i] ELSE Dead) = IF i = s THEN Dead ELSE Cell(pg, i)
    BY <1>1, <1>2, <1>3, <1>4 DEF Cell
  <1>6. \A y : LET x == [lsn |-> new, slots |-> y] IN
           /\ x.lsn = new
           /\ \A i : Cell(x, i) = IF i \in 1 .. Len(y) THEN y[i] ELSE Dead
    BY DEF Cell
  <1>7. ASSUME ~(lsn # 0 /\ pg.lsn >= lsn)
        PROVE  /\ RedoSet(pg, s, row, lsn) = [lsn |-> new, slots |-> set]
               /\ RedoClear(pg, s, lsn) = [lsn |-> new, slots |-> clear]
    BY <1>7 DEF RedoSet, RedoClear, set, clear, n
  <1>8. ASSUME lsn # 0 /\ pg.lsn >= lsn
        PROVE  RedoSet(pg, s, row, lsn) = pg /\ RedoClear(pg, s, lsn) = pg
    BY <1>8 DEF RedoSet, RedoClear
  <1>9. CASE lsn # 0 /\ pg.lsn >= lsn
    BY <1>8, <1>9 DEF Sets
  <1>10. CASE ~(lsn # 0 /\ pg.lsn >= lsn)
    BY <1>5, <1>6, <1>7, <1>10, SMTT(30) DEF Sets
  <1> QED BY <1>9, <1>10

\* The step of a recovery pass that sets one slot.
SetAt(q, row, lsn) ==
    /\ q \in Place /\ \A p \in Pages : p # q[1] => mem'[p] = mem[p]
    /\ Sets(mem[q[1]], mem'[q[1]], q[2], row, lsn)

LEMMA RecordApplied ==
    ASSUME mem \in [Pages -> Page], NEW q \in Place, NEW row \in Nat, NEW lsn \in Nat,
           \/ mem' = [mem EXCEPT ![q[1]] = RedoSet(@, q[2], row, lsn)]
           \/ mem' = [mem EXCEPT ![q[1]] = RedoClear(@, q[2], lsn)] /\ row = Dead
    PROVE  SetAt(q, row, lsn)
  <1>1. q[1] \in Pages /\ q[2] \in Nat \ {0} /\ mem[q[1]] \in Page
    BY DEF Place
  <1>2. /\ Sets(mem[q[1]], RedoSet(mem[q[1]], q[2], row, lsn), q[2], row, lsn)
        /\ Sets(mem[q[1]], RedoClear(mem[q[1]], q[2], lsn), q[2], Dead, lsn)
    BY <1>1, RecordSets
  <1>3. \A x : mem' = [mem EXCEPT ![q[1]] = x] =>
                  mem'[q[1]] = x /\ \A p \in Pages : p # q[1] => mem'[p] = mem[p]
    BY <1>1
  <1>4. CASE mem' = [mem EXCEPT ![q[1]] = RedoSet(@, q[2], row, lsn)]
    BY <1>2, <1>3, <1>4 DEF SetAt
  <1>5. CASE mem' = [mem EXCEPT ![q[1]] = RedoClear(@, q[2], lsn)] /\ row = Dead
    BY <1>2, <1>3, <1>5 DEF SetAt
  <1> QED BY <1>4, <1>5

LEMMA SetAtPlace ==
    ASSUME mem \in [Pages -> Page], mem' \in [Pages -> Page], NEW q, NEW row, NEW lsn \in Nat,
           SetAt(q, row, lsn), NEW r \in Place
    PROVE  /\ mem[r[1]].lsn \in Nat /\ mem'[r[1]].lsn \in Nat
           /\ r # q => Cell(mem'[r[1]], r[2]) = Cell(mem[r[1]], r[2])
           /\ lsn = 0 => mem'[r[1]].lsn = mem[r[1]].lsn
           /\ lsn = 0 /\ r = q => Cell(mem'[r[1]], r[2]) = row
           /\ mem'[r[1]].lsn >= mem[r[1]].lsn /\ mem'[r[1]].lsn \in {mem[r[1]].lsn, lsn}
           /\ r = q => mem'[r[1]].lsn >= lsn
           /\ r = q /\ mem[r[1]].lsn < lsn => Cell(mem'[r[1]], r[2]) = row /\ mem'[r[1]].lsn = lsn
           /\ lsn # 0 /\ mem[r[1]].lsn >= lsn =>
                 mem'[r[1]].lsn = mem[r[1]].lsn /\ Cell(mem'[r[1]], r[2]) = Cell(mem[r[1]], r[2])
  <1>1. /\ r[1] \in Pages /\ r[2] \in Nat \ {0} /\ r = <<r[1], r[2]>>
        /\ q[1] \in Pages /\ q[2] \in Nat \ {0} /\ q = <<q[1], q[2]>> /\ q \in Place
    BY DEF Place, SetAt
  <1>2. mem[r[1]] \in Page /\ mem'[r[1]] \in Page
    BY <1>1
  <1>3. mem[r[1]].lsn \in Nat /\ mem'[r[1]].lsn \in Nat
    BY <1>2 DEF Page
  <1>4. CASE r[1] # q[1]
    BY <1>1, <1>3, <1>4 DEF SetAt
  <1>5. CASE r[1] = q[1]
    <2>1. Sets(mem[r[1]], mem'[r[1]], q[2], row, lsn)
      BY <1>5 DEF SetAt
    <2>2. r = q <=> r[2] = q[2]
      BY <1>1, <1>5
    <2> QED BY <1>1, <1>3, <2>1, <2>2 DEF Sets
  <1> QED BY <1>4, <1>5

\* The record the pass is at.
LEMMA RecordAt ==
    ASSUME LogsOK, at \in 1 .. Len(Readable(wal)), WellFormed(Readable(wal))
    PROVE  /\ wal[at] = Readable(wal)[at] /\ wal[at] \in LogRecord /\ wal[at].lsn = at
           /\ wal[at].type \in {"Insert", "Delete"} => wal[at].rid \in Place
           /\ wal[at].before \in Nat /\ wal[at].after \in Nat
           /\ \A r : On(Readable(wal), at, r) <=> Changes(wal[at], r)
           /\ Won(Readable(wal), at) <=> wal[at].txn \in Committed(Readable(wal))
  <1>1. wal \in Seq(LogRecord)
    BY DEF LogsOK
  <1>2. Readable(wal)[at] = wal[at] /\ Len(Readable(wal)) <= Len(wal) /\ Readable(wal) \in Seq(LogRecord)
    BY <1>1, ReadableIs
  <1>3. Readable(wal)[at] \in LogRecord
    BY <1>2
  <1>4. wal[at].lsn = at
    BY <1>2 DEF WellFormed
  <1>5. \A x \in LogRecord : /\ x.type \in {"Insert", "Delete"} => x.rid \in Place
                             /\ x.before \in Nat /\ x.after \in Nat
    BY DEF LogRecord
  <1> QED BY <1>2, <1>3, <1>4, <1>5 DEF On, Won

\* What a pass over the log leaves alone.
LEMMA PassFrame ==
    ASSUME CInv, SessionOK', pc \in Recoveries, pc' \in Recoveries,
           UNCHANGED <<os, platter, wal, walPlatter, nextLsn, appends, txn, nextTxn, undo, cur,
                       stable, pending, stmts, stops, logs, scenario>>,
           MayStop => Logs = {wal} /\ stops > 0
    PROVE  Basics' /\ LogsGood' /\ ZeroInv' /\ WalShape' /\ IdleInv' /\ FlushInv' /\ TxnInv' /\ OpenInv'
  <1>1. /\ SessionOK /\ Basics /\ LogsGood /\ Readable(wal) # << >> /\ txn = 0
        /\ pc' \notin {"ready", "closeFlush", "flush", "erase", "commitSync", "undo", "abortSync"} \cup Halves
    BY Parts DEF SessionOK, Recoveries, Halves
  <1>2. (MayStop' <=> MayStop) /\ Logs' = Logs
    BY StopFrame
  <1> QED BY <1>1, <1>2, OutsideTxn DEF Basics, LogsGood, ZeroInv, WalShape, IdleInv, FlushInv

LEMMA RedoRecordKeeps == ASSUME CInv, IInv', RedoRecord PROVE CRest'
  <1> DEFINE R == Readable(wal)
             rec == wal[at]
             wins == rec.txn \in Committed(R)
  <1>1. /\ pc = "redo" /\ pc' = "redo" /\ at <= Len(R) /\ at' = at + 1
        /\ mem' = CASE wins /\ rec.type = "Insert" ->
                          [mem EXCEPT ![rec.rid[1]] = RedoSet(@, rec.rid[2], rec.after, rec.lsn)]
                    [] wins /\ rec.type = "Delete" ->
                          [mem EXCEPT ![rec.rid[1]] = RedoClear(@, rec.rid[2], rec.lsn)]
                    [] OTHER -> mem
        /\ UNCHANGED <<os, platter, wal, walPlatter, nextLsn, appends, txn, nextTxn, undo, cur,
                       stable, pending, stmts, stops, logs, scenario>>
    BY DEF RedoRecord, walVars, txnVars, history, bounds
  <1>2. /\ SessionOK /\ SessionOK' /\ PagesOK /\ LogsOK /\ RedoInv /\ wal \in Seq(LogRecord)
        /\ mem \in [Pages -> Page] /\ mem' \in [Pages -> Page]
    BY Parts DEF IInv, PagesOK, LogsOK
  <1>3. /\ stops > 0 /\ (MayStop => Logs = {wal})
        /\ \E lay \in Layouts : Recovering(lay, R)
    BY <1>1, <1>2 DEF RedoInv
  <1>4. PICK lay \in Layouts : Recovering(lay, R)
    BY <1>3
  <1>5. R \in Seq(LogRecord) /\ Len(R) \in Nat /\ at \in 1 .. Len(R) /\ at \in Nat
    BY <1>1, <1>2, ReadableIs DEF SessionOK
  <1>6. /\ rec = R[at] /\ rec.lsn = at /\ rec.after \in Nat
        /\ rec.type \in {"Insert", "Delete"} => rec.rid \in Place
        /\ \A r : On(R, at, r) <=> Changes(rec, r)
        /\ Won(R, at) <=> wins
        /\ rec.type = "Delete" => rec.after = Dead
    <2>1. WellFormed(R)
      BY <1>4 DEF Recovering
    <2> QED BY <1>2, <1>5, <2>1, RecordAt DEF WellFormed
  <1> HIDE DEF R, rec, wins
  <1>7. \/ mem' = mem /\ \A r : ~(On(R, at, r) /\ Won(R, at))
        \/ rec.type \in {"Insert", "Delete"} /\ SetAt(rec.rid, rec.after, at)
    <2>1. CASE wins /\ rec.type = "Insert"
      BY <1>1, <1>2, <1>5, <1>6, <2>1, RecordApplied
    <2>2. CASE wins /\ rec.type = "Delete"
      BY <1>1, <1>2, <1>5, <1>6, <2>2, RecordApplied
    <2>3. CASE ~wins \/ rec.type \notin {"Insert", "Delete"}
      BY <1>1, <1>6, <2>3 DEF Changes
    <2> QED BY <2>1, <2>2, <2>3
  <1>8. \A r \in Place, i \in 1 .. Len(R) : On(R, i, r) /\ Won(R, i) /\ i < at => i <= mem[r[1]].lsn
    BY <1>1, <1>4 DEF Recovering
  <1>9. \A r \in Place : mem[r[1]].lsn \in Nat /\ Leads(mem[r[1]], r, lay[r], R)
    BY <1>2, <1>4, PlaceIsReal DEF Recovering, Page
  <1>10. ASSUME NEW r \in Place
         PROVE  /\ Leads(mem'[r[1]], r, lay[r], R)
                /\ \A i \in 1 .. Len(R) : On(R, i, r) /\ Won(R, i) /\ i < at + 1 => i <= mem'[r[1]].lsn
    <2>1. CASE mem' = mem /\ ~(On(R, at, r) /\ Won(R, at))
      <3>1. \A i \in 1 .. Len(R) : On(R, i, r) /\ Won(R, i) /\ i < at + 1 => i < at
        BY <1>5, <2>1
      <3> QED BY <1>8, <1>9, <2>1, <3>1
    <2>2. CASE rec.type \in {"Insert", "Delete"} /\ SetAt(rec.rid, rec.after, at)
      <3> DEFINE v == mem[r[1]]
                 w == mem'[r[1]]
      <3>1. /\ v.lsn \in Nat /\ w.lsn \in Nat
            /\ r # rec.rid => Cell(w, r[2]) = Cell(v, r[2])
            /\ w.lsn >= v.lsn /\ w.lsn \in {v.lsn, at}
            /\ r = rec.rid => w.lsn >= at
            /\ r = rec.rid /\ v.lsn < at => Cell(w, r[2]) = rec.after /\ w.lsn = at
            /\ v.lsn >= at => w.lsn = v.lsn /\ Cell(w, r[2]) = Cell(v, r[2])
        BY <1>2, <1>5, <2>2, SetAtPlace
      <3>2. Leads(v, r, lay[r], R) /\ \A i \in 1 .. Len(R) : On(R, i, r) /\ Won(R, i) /\ i < at => i <= v.lsn
        BY <1>8, <1>9
      <3>3. On(R, at, r) <=> r = rec.rid
        BY <1>6, <2>2 DEF Changes
      <3> HIDE DEF v, w
      <3>4. ASSUME NEW i \in 1 .. Len(R), On(R, i, r), Won(R, i), i < at + 1 PROVE i <= w.lsn
        <4>1. CASE i < at
          BY <3>1, <3>2, <3>4, <4>1
        <4>2. CASE i = at
          BY <3>1, <3>3, <3>4, <4>2
        <4> QED BY <1>5, <3>4, <4>1, <4>2
      <3>5. ASSUME NEW i \in 1 .. Len(R), LastWon(R, i, r)
            PROVE  lay[r] = IF R[i].lsn > w.lsn THEN R[i].after ELSE Cell(w, r[2])
        <4>1. lay[r] = (IF i > v.lsn THEN R[i].after ELSE Cell(v, r[2])) /\ R[i].lsn = i
          BY <1>4, <3>2, <3>5 DEF Leads, Recovering, WellFormed
        <4>2. r = rec.rid => at <= i
          BY <1>5, <3>3, <3>5 DEF LastWon
        <4>3. On(R, i, r) /\ Won(R, i)
          BY <3>5 DEF LastWon
        <4>4. i < at => i <= v.lsn
          BY <3>2, <4>3
        <4>5. i = at => r = rec.rid /\ R[i].after = rec.after
          BY <1>6, <3>3, <4>3
        <4>6. CASE i < at
          BY <1>5, <3>1, <4>1, <4>2, <4>4, <4>6
        <4>7. CASE i = at
          BY <1>5, <3>1, <4>1, <4>5, <4>7
        <4>8. CASE i > at
          BY <1>5, <3>1, <4>1, <4>8
        <4> QED BY <1>5, <4>6, <4>7, <4>8
      <3>6. Free(R, r) => lay[r] = Cell(w, r[2])
        <4>1. Free(R, r) => r # rec.rid
          BY <1>5, <3>3 DEF Free
        <4> QED BY <3>1, <3>2, <4>1 DEF Leads
      <3>7. Leads(w, r, lay[r], R)
        BY <3>2, <3>5, <3>6 DEF Leads
      <3> QED BY <3>4, <3>7 DEF w
    <2> QED BY <1>7, <2>1, <2>2
  <1>11. (MayStop' <=> MayStop) /\ (\A p : Versions(p)' = Versions(p)) /\ Logs' = Logs
    BY <1>1, StopFrame
  <1>12. RedoInv'
    <2>1. Outcome(lay)' /\ (MayStop' => Explains(wal, lay)')
      BY <1>1, <1>4, <1>11 DEF Recovering, Outcome, Explains
    <2>2. Readable(wal)' = R
      BY <1>1 DEF R
    <2>3. ASSUME NEW l, l = R PROVE Recovering(lay, l)'
      BY <1>1, <1>4, <1>10, <2>1, <2>3 DEF Recovering
    <2>4. Recovering(lay, Readable(wal))'
      BY <2>2, <2>3
    <2> QED BY <1>1, <1>3, <1>11, <2>4 DEF RedoInv
  <1>13. ResetInv'
    BY <1>1 DEF ResetInv, Resets
  <1> QED BY <1>1, <1>2, <1>3, <1>12, <1>13, PassFrame DEF CRest, Recoveries

LEMMA RedoDoneKeeps == ASSUME CInv, IInv', RedoDone PROVE CRest'
  <1>1. /\ pc = "redo" /\ at > Len(Readable(wal)) /\ pc' = "undoLosers" /\ at' = Len(Readable(wal))
        /\ UNCHANGED <<mem, os, platter, wal, walPlatter, nextLsn, appends, txn, nextTxn, undo, cur,
                       stable, pending, stmts, stops, logs, scenario>>
    BY DEF RedoDone, pageVars, walVars, txnVars, history, bounds
  <1>2. SessionOK /\ SessionOK' /\ LogsOK /\ RedoInv
    BY Parts DEF IInv
  <1>3. /\ stops > 0 /\ (MayStop => Logs = {wal})
        /\ \E lay \in Layouts : Recovering(lay, Readable(wal))
    BY <1>1, <1>2 DEF RedoInv
  <1>4. PICK lay \in Layouts : Recovering(lay, Readable(wal))
    BY <1>3
  <1>5. (MayStop' <=> MayStop) /\ (\A p : Versions(p)' = Versions(p)) /\ Logs' = Logs
    BY <1>1, StopFrame
  <1>6. Len(Readable(wal)) \in Nat /\ at \in Nat
    <2>1. wal \in Seq(LogRecord)
      BY <1>2 DEF LogsOK
    <2> QED BY <1>2, <2>1, ReadableIs DEF SessionOK
  <1>7. /\ \A i \in 1 .. Len(Readable(wal)) : i < at
        /\ \A i \in 1 .. Len(Readable(wal)) : ~(i > at')
    BY <1>1, <1>6
  <1>8. Outcome(lay)' /\ (MayStop' => Explains(wal, lay)')
    BY <1>1, <1>4, <1>5 DEF Recovering, Outcome, Explains
  <1>9. ASSUME NEW l, l = Readable(wal) PROVE Recovering(lay, l)'
    BY <1>1, <1>4, <1>7, <1>8, <1>9 DEF Recovering
  <1>10. Recovering(lay, Readable(wal))'
    BY <1>1, <1>9
  <1>11. RedoInv'
    BY <1>1, <1>3, <1>5, <1>10 DEF RedoInv
  <1>12. ResetInv'
    BY <1>1 DEF ResetInv, Resets
  <1> QED BY <1>1, <1>2, <1>3, <1>11, <1>12, PassFrame DEF CRest, Recoveries

LEMMA UndoRecordKeeps == ASSUME CInv, IInv', UndoRecord PROVE CRest'
  <1> DEFINE R == Readable(wal)
             rec == wal[at]
             loses == rec.txn \notin Committed(R)
  <1>1. /\ pc = "undoLosers" /\ pc' = "undoLosers" /\ at > 0 /\ at' = at - 1
        /\ mem' = CASE loses /\ rec.type = "Insert" ->
                          [mem EXCEPT ![rec.rid[1]] = RedoClear(@, rec.rid[2], 0)]
                    [] loses /\ rec.type = "Delete" ->
                          [mem EXCEPT ![rec.rid[1]] = RedoSet(@, rec.rid[2], rec.before, 0)]
                    [] OTHER -> mem
        /\ UNCHANGED <<os, platter, wal, walPlatter, nextLsn, appends, txn, nextTxn, undo, cur,
                       stable, pending, stmts, stops, logs, scenario>>
    BY DEF UndoRecord, walVars, txnVars, history, bounds
  <1>2. /\ SessionOK /\ SessionOK' /\ PagesOK /\ LogsOK /\ RedoInv /\ wal \in Seq(LogRecord)
        /\ mem \in [Pages -> Page] /\ mem' \in [Pages -> Page]
    BY Parts DEF IInv, PagesOK, LogsOK
  <1>3. /\ stops > 0 /\ (MayStop => Logs = {wal})
        /\ \E lay \in Layouts : Recovering(lay, R)
    BY <1>1, <1>2 DEF RedoInv
  <1>4. PICK lay \in Layouts : Recovering(lay, R)
    BY <1>3
  <1>5. R \in Seq(LogRecord) /\ Len(R) \in Nat /\ at \in 1 .. Len(R) /\ at \in Nat
    BY <1>1, <1>2, ReadableIs DEF SessionOK
  <1>6. /\ rec = R[at] /\ rec.before \in Nat
        /\ rec.type \in {"Insert", "Delete"} => rec.rid \in Place
        /\ \A r : On(R, at, r) <=> Changes(rec, r)
        /\ Won(R, at) <=> ~loses
        /\ rec.type = "Insert" => rec.before = Dead
    <2>1. WellFormed(R)
      BY <1>4 DEF Recovering
    <2> QED BY <1>2, <1>5, <2>1, RecordAt DEF WellFormed
  <1> HIDE DEF R, rec, loses
  <1>7. \/ mem' = mem /\ \A r : ~(On(R, at, r) /\ ~Won(R, at))
        \/ rec.type \in {"Insert", "Delete"} /\ loses /\ SetAt(rec.rid, rec.before, 0)
    <2>1. CASE loses /\ rec.type = "Insert"
      BY <1>1, <1>2, <1>5, <1>6, <2>1, RecordApplied
    <2>2. CASE loses /\ rec.type = "Delete"
      BY <1>1, <1>2, <1>5, <1>6, <2>2, RecordApplied
    <2>3. CASE ~loses \/ rec.type \notin {"Insert", "Delete"}
      BY <1>1, <1>6, <2>3 DEF Changes
    <2> QED BY <2>1, <2>2, <2>3
  <1>8. ASSUME NEW r \in Place
        PROVE  /\ Leads(mem[r[1]], r, lay[r], R)
               /\ \A i \in 1 .. Len(R) : On(R, i, r) /\ Won(R, i) => i <= mem[r[1]].lsn
               /\ \A i \in 1 .. Len(R) :
                     FirstLost(R, i, r) /\ i > at => Cell(mem[r[1]], r[2]) = lay[r]
    BY <1>1, <1>2, <1>4, LayoutType DEF Recovering
  <1>9. ASSUME NEW r \in Place
        PROVE  /\ Leads(mem'[r[1]], r, lay[r], R)
               /\ mem'[r[1]].lsn = mem[r[1]].lsn
               /\ \A i \in 1 .. Len(R) :
                     FirstLost(R, i, r) /\ i > at - 1 => Cell(mem'[r[1]], r[2]) = lay[r]
    <2>1. CASE mem' = mem /\ ~(On(R, at, r) /\ ~Won(R, at))
      <3>1. \A i \in 1 .. Len(R) : FirstLost(R, i, r) /\ i > at - 1 => i > at
        BY <1>5, <2>1 DEF FirstLost
      <3> QED BY <1>8, <2>1, <3>1
    <2>2. CASE rec.type \in {"Insert", "Delete"} /\ loses /\ SetAt(rec.rid, rec.before, 0)
      <3>1. /\ r # rec.rid => Cell(mem'[r[1]], r[2]) = Cell(mem[r[1]], r[2])
            /\ r = rec.rid => Cell(mem'[r[1]], r[2]) = rec.before
            /\ mem'[r[1]].lsn = mem[r[1]].lsn
        BY <1>2, <2>2, SetAtPlace
      <3>2. On(R, at, r) <=> r = rec.rid
        BY <1>6, <2>2 DEF Changes
      <3>3. ~Won(R, at)
        BY <1>6, <2>2
      <3>4. CASE r # rec.rid
        <4>1. \A i \in 1 .. Len(R) : FirstLost(R, i, r) /\ i > at - 1 => i > at
          BY <1>5, <3>2, <3>4 DEF FirstLost
        <4>2. Leads(mem'[r[1]], r, lay[r], R)
          BY <1>8, <3>1, <3>4, LeadsAlike
        <4> QED BY <1>8, <3>1, <3>4, <4>1, <4>2
      <3>5. CASE r = rec.rid
        <4>1. /\ \A i \in 1 .. Len(R) : ~LastWon(R, i, r)
              /\ ~Free(R, r)
          BY <1>5, <3>2, <3>3, <3>5 DEF LastWon, Free
        <4>2. Leads(mem'[r[1]], r, lay[r], R)
          BY <1>8, <4>1 DEF Leads
        <4>3. ASSUME NEW i \in 1 .. Len(R), FirstLost(R, i, r), i > at - 1
              PROVE  rec.before = lay[r]
          <5>1. i = at
            BY <1>5, <3>2, <3>3, <3>5, <4>3 DEF FirstLost
          <5> QED BY <1>6, <1>8, <4>3, <5>1 DEF Leads
        <4> QED BY <3>1, <3>5, <4>2, <4>3
      <3> QED BY <3>4, <3>5
    <2> QED BY <1>7, <2>1, <2>2
  <1>10. (MayStop' <=> MayStop) /\ (\A p : Versions(p)' = Versions(p)) /\ Logs' = Logs
    BY <1>1, StopFrame
  <1>11. RedoInv'
    <2>1. Outcome(lay)' /\ (MayStop' => Explains(wal, lay)')
      BY <1>1, <1>4, <1>10 DEF Recovering, Outcome, Explains
    <2>2. Readable(wal)' = R
      BY <1>1 DEF R
    <2>3. \A r \in Place : Layout(mem')[r] = Cell(mem'[r[1]], r[2])
      BY <1>2, LayoutType
    <2>4. ASSUME NEW l, l = R PROVE Recovering(lay, l)'
      <3>1. \A r \in Place : Leads(mem'[r[1]], r, lay[r], l)
        BY <1>9, <2>4
      <3>2. \A i \in 1 .. Len(l), r \in Place : On(l, i, r) /\ Won(l, i) => i <= mem'[r[1]].lsn
        BY <1>8, <1>9, <2>4
      <3>3. \A i \in 1 .. Len(l), r \in Place :
               FirstLost(l, i, r) /\ i > at' => Layout(mem')[r] = lay[r]
        BY <1>1, <1>9, <2>3, <2>4
      <3>4. WellFormed(l)
        BY <1>4, <2>4 DEF Recovering
      <3> QED BY <1>1, <2>1, <3>1, <3>2, <3>3, <3>4 DEF Recovering
    <2>5. Recovering(lay, Readable(wal))'
      BY <2>2, <2>4
    <2> QED BY <1>1, <1>3, <1>10, <2>5 DEF RedoInv
  <1>12. ResetInv'
    BY <1>1 DEF ResetInv, Resets
  <1> QED BY <1>1, <1>2, <1>3, <1>11, <1>12, PassFrame DEF CRest, Recoveries

LEMMA UndoDoneKeeps == ASSUME CInv, IInv', UndoDone PROVE CRest'
  <1>1. /\ pc = "undoLosers" /\ at = 0 /\ pc' = "recoverFlush"
        /\ UNCHANGED <<mem, os, platter, wal, walPlatter, nextLsn, appends, txn, nextTxn, undo, cur,
                       stable, pending, stmts, stops, logs, scenario>>
    BY DEF UndoDone, pageVars, walVars, txnVars, history, bounds
  <1>2. /\ SessionOK /\ SessionOK' /\ LogsOK /\ RedoInv /\ mem \in [Pages -> Page]
    BY Parts DEF IInv, PagesOK
  <1>3. /\ stops > 0 /\ (MayStop => Logs = {wal})
        /\ \E lay \in Layouts : Recovering(lay, Readable(wal))
    BY <1>1, <1>2 DEF RedoInv
  <1>4. PICK lay \in Layouts : Recovering(lay, Readable(wal))
    BY <1>3
  <1>5. (MayStop' <=> MayStop) /\ (\A p : Versions(p)' = Versions(p)) /\ Logs' = Logs
    BY <1>1, StopFrame
  <1>6. Readable(wal) \in Seq(LogRecord)
    <2>1. wal \in Seq(LogRecord)
      BY <1>2 DEF LogsOK
    <2> QED BY <2>1, ReadableIs
  <1>7. ASSUME NEW r \in Place PROVE Layout(mem)[r] = lay[r]
    <2> DEFINE R == Readable(wal)
    <2>1. /\ Leads(mem[r[1]], r, lay[r], R) /\ WellFormed(R)
          /\ \A i \in 1 .. Len(R) : On(R, i, r) /\ Won(R, i) => i <= mem[r[1]].lsn
          /\ \A i \in 1 .. Len(R) : FirstLost(R, i, r) /\ i > 0 => Layout(mem)[r] = lay[r]
      BY <1>1, <1>4 DEF Recovering
    <2>2. Layout(mem)[r] = Cell(mem[r[1]], r[2]) /\ mem[r[1]].lsn \in Nat
      BY <1>2, LayoutType, PlaceIsReal DEF Page
    <2>3. R \in Seq(LogRecord)
      BY <1>6
    <2> HIDE DEF R
    <2>4. CASE \E i \in 1 .. Len(R) : FirstLost(R, i, r)
      BY <2>1, <2>4
    <2>5. CASE \E i \in 1 .. Len(R) : LastWon(R, i, r)
      <3>1. PICK i \in 1 .. Len(R) : LastWon(R, i, r)
        BY <2>5
      <3>2. On(R, i, r) /\ Won(R, i)
        BY <3>1 DEF LastWon
      <3>3. R[i].lsn = i /\ i <= mem[r[1]].lsn
        BY <2>1, <3>2 DEF WellFormed
      <3>4. ~(R[i].lsn > mem[r[1]].lsn)
        BY <2>2, <3>3
      <3>5. lay[r] = IF R[i].lsn > mem[r[1]].lsn THEN R[i].after ELSE Cell(mem[r[1]], r[2])
        BY <2>1, <3>1 DEF Leads
      <3> QED BY <2>2, <3>4, <3>5
    <2>6. CASE Free(R, r)
      BY <2>1, <2>2, <2>6 DEF Leads
    <2> QED BY <2>3, <2>4, <2>5, <2>6, LostWonFree
  <1>8. lay = Layout(mem)
    BY <1>2, <1>7, LayoutType, LayoutsEqual
  <1>9. ResetInv'
    <2>1. Outcome(Layout(mem))'
      BY <1>1, <1>4, <1>8 DEF Outcome, Recovering
    <2>2. MayStop => Steady
      BY <1>4, <1>8 DEF Steady, Recovering, Explains
    <2>3. MayStop' => Steady'
      BY <1>1, <1>5, <2>2 DEF Steady
    <2> QED BY <1>1, <1>3, <1>5, <2>1, <2>3 DEF ResetInv, Resets
  <1>10. RedoInv'
    BY <1>1 DEF RedoInv
  <1> QED BY <1>1, <1>2, <1>3, <1>9, <1>10, PassFrame DEF CRest, Recoveries

LEMMA RecoverSyncKeeps == ASSUME CInv, IInv', RecoverSync PROVE CRest'
  <1>1. /\ pc = "recoverFlush" /\ left = {} /\ platter' = [p \in Pages |-> {os[p]}]
        /\ pc' = "truncate"
        /\ UNCHANGED <<mem, os, wal, walPlatter, nextLsn, appends, txn, nextTxn, undo, cur, left, at,
                       stable, pending, stmts, stops, logs, scenario>>
    BY DEF RecoverSync, walVars, txnVars, history, bounds
  <1>2. /\ SessionOK /\ PagesOK /\ FlushComplete /\ Basics /\ LogsGood /\ ZeroInv /\ ResetInv
        /\ mem \in [Pages -> Page] /\ txn = 0
    BY <1>1, Parts DEF PagesOK, SessionOK, Flushes
  <1>3. /\ MayStop' <=> MayStop
        /\ \A p \in Pages : Versions(p)' = {mem[p]} /\ os'[p] \in platter'[p] /\ mem[p] \in Versions(p)
    BY <1>1, <1>2, VersionsSynced DEF Flushes
  <1>4. Logs' = Logs /\ Layout(mem') = Layout(mem)
    BY <1>1 DEF Logs
  <1>5. Basics' /\ LogsGood'
    BY <1>1, <1>2, <1>3, <1>4 DEF Basics, LogsGood, Halves
  <1>6. ZeroInv'
    <2>1. AllZero => AllZero'
      BY <1>1, <1>3 DEF AllZero
    <2> QED BY <1>1, <1>2, <1>3, <1>4, <2>1 DEF ZeroInv, Recoveries
  <1>7. ResetInv'
    <2>1. Outcome(Layout(mem)) /\ (MayStop => Logs = {wal} /\ Steady)
      BY <1>1, <1>2 DEF ResetInv
    <2>2. Outcome(Layout(mem))'
      BY <1>1, <1>4, <2>1 DEF Outcome
    <2>3. MayStop => /\ \A p \in Pages : Versions(p)' = {mem'[p]}
                     /\ Logs' = {wal'}
                     /\ \A l \in Logs', r \in Place :
                           Leads(mem'[r[1]], r, Layout(mem')[r], Readable(l))
      BY <1>1, <1>3, <1>4, <2>1 DEF Steady
    <2> QED BY <1>1, <1>3, <2>2, <2>3 DEF ResetInv
  <1> QED BY <1>1, <1>2, <1>5, <1>6, <1>7, OutsideTxn
          DEF CRest, WalShape, IdleInv, FlushInv, RedoInv, Resets

\* Nothing happens.
LEMMA StutterKeeps == ASSUME CInv, UNCHANGED vars PROVE CRest'
  <1>1. UNCHANGED <<scenario, mem, os, platter, wal, walPlatter, nextLsn, appends, txn, nextTxn, undo,
                    pc, cur, left, at, stable, pending, stmts, stops, logs>>
    BY DEF vars, pageVars, walVars, txnVars, history, flow, bounds
  <1>2. (MayStop' <=> MayStop) /\ (\A p : Versions(p)' = Versions(p)) /\ Logs' = Logs
    BY <1>1, StopFrame
  <1>3. /\ Layout(mem)' = Layout(mem) /\ Readable(wal)' = Readable(wal) /\ View' = View /\ Todo' = Todo
        /\ Unlogged' = Unlogged
    BY <1>1 DEF View, Todo, Unlogged
  <1>4. Basics' /\ LogsGood' /\ ZeroInv'
    BY <1>1, <1>2, Parts DEF Basics, LogsGood, ZeroInv, AllZero
  <1>5. WalShape'
    <2>1. LogShape => LogShape'
      BY <1>1, <1>3 DEF LogShape, KnownTxns, TxnIsLast, Uncommitted, SlotsLogged, InsertsOnly,
                        OthersCommitted, HasSlot
    <2> QED BY <1>1, <1>2, <2>1, Parts DEF WalShape
  <1>6. Steady => Steady'
    BY <1>1, <1>2, <1>3 DEF Steady
  <1>7. IdleInv'
    BY <1>1, <1>2, <1>3, <1>6, Parts DEF IdleInv
  <1>8. FlushInv'
    <2>1. \A lay, one : Halfway(lay, one) => Halfway(lay, one)'
      BY <1>1, <1>2, <1>3 DEF Halfway
    <2> QED BY <1>1, <1>2, <1>3, <2>1, Parts DEF FlushInv
  <1>9. TxnInv'
    BY <1>1, <1>3, Parts DEF TxnInv, Undoable, HasSlot
  <1>10. \A l, lay : Explains(l, lay) => Explains(l, lay)'
    BY <1>1, <1>2 DEF Explains
  <1>11. OpenInv'
    <2>1. \A r : NoOwn(r)' <=> NoOwn(r)
      BY <1>1 DEF NoOwn, Own, On
    <2>2. \A i, r : OwnLast(i, r)' <=> OwnLast(i, r)
      BY <1>1 DEF OwnLast, Own, On
    <2>3. \A lay : Shown(lay) => Shown(lay)'
      BY <1>1, <1>3, <2>1, <2>2 DEF Shown
    <2>4. \A lay : Fresh(lay) => Fresh(lay)'
      BY <1>1, <2>1 DEF Fresh
    <2>5. \A lay : Rolling(lay) => Rolling(lay)'
      BY <1>1, <1>3, <2>1 DEF Rolling
    <2>6. \A lay : Opened(lay) => Opened(lay)'
      BY <1>1, <1>2, <1>3, <1>10, <2>1, <2>3, <2>4, <2>5 DEF Opened
    <2> QED BY <1>1, <1>2, <2>6, Parts DEF OpenInv
  <1>12. Outcome(Layout(mem)) => Outcome(Layout(mem))'
    BY <1>1, <1>3 DEF Outcome
  <1>13. RedoInv'
    <2>1. \A lay, l : Recovering(lay, l) => Recovering(lay, l)'
      BY <1>1, <1>2, <1>3, <1>10 DEF Recovering, Outcome
    <2> QED BY <1>1, <1>2, <1>3, <2>1, Parts DEF RedoInv
  <1>14. ResetInv'
    BY <1>1, <1>2, <1>3, <1>6, <1>12, Parts DEF ResetInv
  <1> QED BY <1>4, <1>5, <1>7, <1>8, <1>9, <1>11, <1>13, <1>14 DEF CRest

----------------------------------------------------------------------------
(* The theorem.                                                            *)

\* A scenario is chosen once.
LEMMA ScenarioFixed == ASSUME [Next]_vars PROVE scenario' = scenario
  <1>1. CASE UNCHANGED vars
    BY <1>1 DEF vars, bounds
  <1>2. CASE Statement
    <2>1. ASSUME NEW p \in Pages, TxnPut(p) \/ UndoStep(p) \/ Put(p) \/ PutReturning(p)
          PROVE  scenario' = scenario
      BY <2>1 DEF TxnPut, UndoStep, Put, PutReturning, AutoCommit, bounds
    <2>2. ASSUME NEW r \in LiveRids,
                 \/ TxnRemove(r) \/ Remove(r)
                 \/ \E to \in UpdateTargets(r) : TxnModify(r, to) \/ Modify(r, to)
          PROVE  scenario' = scenario
      BY <2>2 DEF TxnRemove, Remove, TxnModify, Modify, AutoCommit, bounds
    <2> QED BY <1>2, <2>1, <2>2
            DEF Statement, Begin, LogInsert, Erase, LogModifyDelete, LogModifyInsert, Commit,
                CommitSync, Rollback, Abort, AbortSync, bounds
  <1>3. CASE Flush \/ (\E p \in Pages : Evict(p))
    BY <1>3 DEF Flush, SyncPages, Truncate, ResetSync, FlushPage, Evict, bounds
  <1>4. CASE ProcessCrash \/ PowerLoss \/ Close \/ Closed
    BY <1>4 DEF ProcessCrash, PowerLoss, Close, Closed, Restart, bounds
  <1>5. CASE Recovery
    BY <1>5 DEF Recovery, RedoRecord, RedoDone, UndoRecord, UndoDone, RecoverSync, bounds
  <1> QED BY <1>1, <1>2, <1>3, <1>4, <1>5 DEF Next

LEMMA CNextOK == ASSUME CInv, [Next]_vars PROVE CInv'
  <1>1. IInv'
    BY NextOK DEF CInv
  <1> SUFFICES CRest'
    BY <1>1 DEF CInv
  <1>2. CASE UNCHANGED vars
    BY <1>2, StutterKeeps
  <1>3. CASE Statement
    <2>1. ASSUME NEW p \in Pages, TxnPut(p) \/ UndoStep(p) \/ Put(p) \/ PutReturning(p) PROVE CRest'
      BY <1>1, <2>1, TxnPutKeeps, UndoStepKeeps, PutKeeps, UnloggedKeeps
    <2>2. ASSUME NEW r \in LiveRids,
                 \/ TxnRemove(r) \/ Remove(r)
                 \/ \E to \in UpdateTargets(r) : TxnModify(r, to) \/ Modify(r, to)
          PROVE  CRest'
      <3>1. CASE TxnRemove(r)
        BY <1>1, <3>1, TxnRemoveKeeps
      <3>2. CASE Remove(r) \/ \E to \in UpdateTargets(r) : Modify(r, to)
        BY <1>1, <3>2, UnloggedKeeps
      <3>3. CASE \E to \in UpdateTargets(r) : TxnModify(r, to)
        BY <1>1, <3>3, TxnModifyKeeps
      <3> QED BY <2>2, <3>1, <3>2, <3>3
    <2> QED BY <1>1, <1>3, <2>1, <2>2, BeginKeeps, LogInsertKeeps, EraseKeeps, LogModifyDeleteKeeps,
               CommitKeeps, EndKeeps, RollbackKeeps, AbortKeeps
            DEF Statement
  <1>4. CASE Flush
    BY <1>1, <1>4, FlushPageKeeps, SyncPagesKeeps, TruncateKeeps, ResetSyncKeeps DEF Flush
  <1>5. CASE \E p \in Pages : Evict(p)
    BY <1>1, <1>5, EvictKeeps
  <1>6. CASE ProcessCrash \/ PowerLoss \/ Close \/ Closed
    BY <1>1, <1>6, CrashKeeps, PowerLossKeeps, CloseKeeps, ClosedKeeps
  <1>7. CASE Recovery
    BY <1>1, <1>7, RedoRecordKeeps, RedoDoneKeeps, UndoRecordKeeps, UndoDoneKeeps, RecoverSyncKeeps
       DEF Recovery
  <1> QED BY <1>2, <1>3, <1>4, <1>5, <1>6, <1>7 DEF Next

\* SAVE is durable and atomic, and so is UNDO, across any of the stops of a scenario
\* that Kept describes: between statements the heap has exactly the rows of the
\* acknowledged statements, each once, whatever DB::DB found and recovered.
THEOREM CommittedKept == Spec => [](Kept(scenario) => CommittedExactly)
  <1> DEFINE Inv == IInv /\ (Kept(scenario) => CRest)
  <1>1. Init => Inv
    BY InitOK, CInitOK
  <1>2. Inv /\ [Next]_vars => Inv'
    <2>1. SUFFICES ASSUME Inv, [Next]_vars, Kept(scenario') PROVE CRest'
      BY NextOK
    <2>2. CInv
      BY <2>1, ScenarioFixed DEF CInv
    <2> QED BY <2>1, <2>2, CNextOK DEF CInv
  <1>3. Inv => (Kept(scenario) => CommittedExactly)
    <2>1. SUFFICES ASSUME CRest, PagesOK, Ready, ~InTxn PROVE Exactly(mem, stable)
      BY DEF IInv, CommittedExactly
    <2>2. Exact(Layout(mem), stable)
      BY <2>1 DEF CRest, IdleInv, Ready, InTxn
    <2>3. mem \in [Pages -> Page]
      BY <2>1 DEF PagesOK
    <2> QED BY <2>2, <2>3, ExactIsExactly
  <1> QED BY <1>1, <1>2, <1>3, PTL DEF Spec

=============================================================================
