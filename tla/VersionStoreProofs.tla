------------------------- MODULE VersionStoreProofs -------------------------
(***************************************************************************)
(* Proofs about the multiversion store, for any number of sessions, rows   *)
(* and versions, and any setting of the garbage collector: for the         *)
(* workloads named by Sane, AS OF is exact from the horizon on, a          *)
(* transaction reads its snapshot and its own writes, and the newest       *)
(* version is the heap, until the program dies or a REMOVE of another      *)
(* table cascades here; the versions before that stay exact.               *)
(***************************************************************************)
EXTENDS VersionStore, LeastNumbers, SequenceTheorems, FiniteSetTheorems

----------------------------------------------------------------------------
(* Replaying changes over rows.                                            *)

\* A set of positions; the changes at the positions W say nothing of record id
\* r, or change i is the last one of r.
Bounded(W) == \E n \in Nat : W \in SUBSET (1 .. n)
NoneOf(l, W, r) == \A i \in W : l[i].rid # r
LastOf(l, W, r, i) == i \in W /\ l[i].rid = r /\ \A j \in W : l[j].rid = r => j <= i

RowAfter(rows, l, W, r) == Overlay(rows, l, W)[r]

\* The last change decides.
LEMMA OverlayLast ==
    ASSUME NEW W, Bounded(W), NEW rows, NEW l, NEW r \in Rids, NEW i, LastOf(l, W, r, i)
    PROVE  RowAfter(rows, l, W, r) = l[i].row
  <1> DEFINE mine == {j \in W : l[j].rid = r}
             last == CHOOSE j \in mine : \A k \in mine : k <= j
  <1>1. i \in mine /\ \A k \in mine : k <= i
    BY DEF LastOf
  <1>2. last \in mine /\ \A k \in mine : k <= last
    <2> HIDE DEF mine
    <2> QED BY <1>1
  <1>3. last = i
    <2>1. last <= i /\ i <= last
      BY <1>1, <1>2
    <2>2. last \in W /\ i \in W
      BY <1>1, <1>2
    <2> HIDE DEF last
    <2>3. last \in Nat /\ i \in Nat
      BY <2>2 DEF Bounded
    <2> QED BY <2>1, <2>3
  <1>4. Overlay(rows, l, W)[r] = IF mine = {} THEN rows[r] ELSE l[last].row
    BY DEF Overlay
  <1> QED BY <1>1, <1>3, <1>4 DEF RowAfter

\* A record id that no change names keeps its row.
LEMMA OverlayNone ==
    ASSUME NEW W, NEW rows, NEW l, NEW r \in Rids, NoneOf(l, W, r)
    PROVE  RowAfter(rows, l, W, r) = rows[r]
  BY DEF Overlay, RowAfter, NoneOf

LEMMA LastExists ==
    ASSUME NEW W, Bounded(W), NEW l, NEW r, ~NoneOf(l, W, r)
    PROVE  \E i : LastOf(l, W, r, i)
  <1> DEFINE mine == {j \in W : l[j].rid = r}
  <1>1. PICK n \in Nat : W \in SUBSET (1 .. n)
    BY DEF Bounded
  <1>2. mine \in SUBSET (1 .. n) /\ mine # {}
    BY <1>1 DEF NoneOf
  <1> HIDE DEF mine
  <1>3. \E i \in mine : \A j \in mine : j <= i
    BY <1>1, <1>2, GreatestNumber
  <1> QED BY <1>3 DEF mine, LastOf

LEMMA OverlayFunction ==
    ASSUME NEW W, NEW rows, NEW l
    PROVE  Overlay(rows, l, W) = [r \in Rids |-> RowAfter(rows, l, W, r)]
  BY DEF Overlay, RowAfter

\* Equal changes have equal effects.
LEMMA OverlaySame ==
    ASSUME NEW W, Bounded(W), NEW rows, NEW l, NEW m,
           \A i \in W : m[i].rid = l[i].rid /\ m[i].row = l[i].row
    PROVE  Overlay(rows, m, W) = Overlay(rows, l, W)
  <1>1. ASSUME NEW r \in Rids PROVE RowAfter(rows, m, W, r) = RowAfter(rows, l, W, r)
    <2>1. CASE ~NoneOf(l, W, r)
      <3>1. PICK i : LastOf(l, W, r, i)
        BY <2>1, LastExists
      <3>2. LastOf(m, W, r, i) /\ m[i].row = l[i].row
        BY <3>1 DEF LastOf
      <3> QED BY <3>1, <3>2, OverlayLast
    <2>2. CASE NoneOf(l, W, r)
      <3>1. NoneOf(m, W, r)
        BY <2>2 DEF NoneOf
      <3> QED BY <2>2, <3>1, OverlayNone
    <2> QED BY <2>1, <2>2
  <1> QED BY <1>1, OverlayFunction

\* Replaying a list in two parts is replaying it: the first k changes make the
\* rows that the others, m, are replayed over.
First(W, k) == {i \in W : i <= k}
Rest(W, k, n) == {j \in 1 .. n - k : k + j \in W}
Parts(l, k, n, m, W) ==
    /\ n \in Nat /\ k \in 0 .. n /\ W \in SUBSET (1 .. n)
    /\ \A j \in 1 .. n - k : m[j] = l[k + j]

LEMMA OverlaySplit ==
    ASSUME NEW n, NEW k, NEW W, NEW rows, NEW l, NEW m, Parts(l, k, n, m, W)
    PROVE  Overlay(Overlay(rows, l, First(W, k)), m, Rest(W, k, n)) = Overlay(rows, l, W)
  <1> DEFINE A == {i \in W : i <= k}
             B == {j \in 1 .. n - k : k + j \in W}
             first == Overlay(rows, l, A)
  <1> USE DEF Parts
  <1>1. Bounded(A) /\ Bounded(B) /\ Bounded(W)
    <2>1. n - k \in Nat
      OBVIOUS
    <2>2. B \in SUBSET (1 .. n - k)
      OBVIOUS
    <2>3. A \in SUBSET (1 .. n)
      OBVIOUS
    <2> HIDE DEF A, B
    <2> QED BY <2>1, <2>2, <2>3 DEF Bounded
  <1>2. ASSUME NEW r \in Rids PROVE RowAfter(first, m, B, r) = RowAfter(rows, l, W, r)
    <2>1. CASE ~NoneOf(m, B, r)
      <3>1. PICK j : LastOf(m, B, r, j)
        BY <1>1, <2>1, LastExists
      <3>2. j \in 1 .. n - k /\ k + j \in W /\ l[k + j] = m[j] /\ m[j].rid = r
        BY <3>1 DEF LastOf
      <3>3. ASSUME NEW i \in W, l[i].rid = r PROVE i <= k + j
        <4>1. CASE i <= k
          BY <3>2, <4>1
        <4>2. CASE ~(i <= k)
          <5>1. i - k \in 1 .. n - k /\ k + (i - k) = i
            BY <4>2
          <5>2. i - k \in B /\ m[i - k] = l[i]
            BY <5>1
          <5>3. i - k <= j
            BY <3>1, <3>3, <5>2 DEF LastOf
          <5> QED BY <3>2, <5>1, <5>3
        <4> QED BY <4>1, <4>2
      <3>4. LastOf(l, W, r, k + j)
        BY <3>2, <3>3 DEF LastOf
      <3> HIDE DEF B, first
      <3>5. RowAfter(first, m, B, r) = m[j].row
        BY <1>1, <3>1, OverlayLast
      <3>6. RowAfter(rows, l, W, r) = l[k + j].row
        BY <1>1, <3>4, OverlayLast
      <3> QED BY <3>2, <3>5, <3>6
    <2>2. CASE NoneOf(m, B, r)
      <3>1. ASSUME NEW i \in W, ~(i <= k) PROVE l[i].rid # r
        <4>1. i - k \in 1 .. n - k /\ k + (i - k) = i
          BY <3>1
        <4>2. i - k \in B /\ m[i - k] = l[i]
          BY <4>1
        <4> QED BY <2>2, <4>2 DEF NoneOf
      <3>2. \A i : LastOf(l, A, r, i) => LastOf(l, W, r, i)
        BY <3>1 DEF LastOf
      <3>3. NoneOf(l, A, r) => NoneOf(l, W, r)
        BY <3>1 DEF NoneOf
      <3>4. RowAfter(first, m, B, r) = first[r]
        <4> HIDE DEF B, first
        <4> QED BY <2>2, OverlayNone
      <3>5. first[r] = RowAfter(rows, l, A, r)
        BY DEF RowAfter
      <3> HIDE DEF A, B, first
      <3>6. RowAfter(rows, l, A, r) = RowAfter(rows, l, W, r)
        <4>1. CASE NoneOf(l, A, r)
          BY <3>3, <4>1, OverlayNone
        <4>2. CASE ~NoneOf(l, A, r)
          <5>1. PICK i : LastOf(l, A, r, i)
            BY <1>1, <4>2, LastExists
          <5> QED BY <1>1, <3>2, <5>1, OverlayLast
        <4> QED BY <4>1, <4>2
      <3> QED BY <3>4, <3>5, <3>6
    <2> QED BY <2>1, <2>2
  <1> HIDE DEF A, B, first
  <1>3. Overlay(first, m, B) = Overlay(rows, l, W)
    BY <1>2, OverlayFunction
  <1> QED BY <1>3 DEF A, B, first, First, Rest

----------------------------------------------------------------------------
(* The log in commit order, and what garbage collection keeps of it.       *)

Change == [version : Nat, isDelete : BOOLEAN, rid : Nat, row : Nat]

\* The changes of versions after lo up to hi, in commit order.
Ordered(l, lo, hi) ==
    /\ l \in Seq(Change)
    /\ \A i \in 1 .. Len(l) : l[i].version \in Nat /\ lo < l[i].version /\ l[i].version <= hi
    /\ \A i, j \in 1 .. Len(l) : i <= j => l[i].version <= l[j].version

Positions(l, v) == {i \in 1 .. Len(l) : l[i].version <= v}

LEMMA OrderedUpTo ==
    ASSUME NEW l, NEW hi, Ordered(l, baselineVersion, hi), NEW v \in Nat
    PROVE  UpTo(l, v) = Positions(l, v)
  <1>1. ASSUME NEW i \in 1 .. Len(l), l[i].version <= v, NEW j \in 1 .. i
        PROVE  l[j].version <= v
    <2>1. j \in 1 .. Len(l) /\ j <= i
      BY DEF Ordered
    <2>2. l[j].version <= l[i].version /\ l[j].version \in Nat /\ l[i].version \in Nat
      BY <2>1 DEF Ordered
    <2> QED BY <1>1, <2>2
  <1>2. \A i \in 1 .. Len(l) : i \in 1 .. i /\ l[i].version > baselineVersion
    BY DEF Ordered
  <1> QED BY <1>1, <1>2 DEF UpTo, Positions

\* The changes up to a version are a first part of the log.
LEMMA Cut ==
    ASSUME NEW l, NEW lo, NEW hi, Ordered(l, lo, hi), NEW h \in Nat
    PROVE  \E k \in 0 .. Len(l) : \A i \in 1 .. Len(l) : l[i].version <= h <=> i <= k
  <1> DEFINE early == Positions(l, h)
  <1>1. Len(l) \in Nat /\ early \in SUBSET (1 .. Len(l))
    BY DEF Ordered, Positions
  <1>2. CASE early = {}
    <2>1. \A i \in 1 .. Len(l) : ~(l[i].version <= h) /\ ~(i <= 0)
      BY <1>2 DEF Positions
    <2>2. 0 \in 0 .. Len(l)
      BY <1>1
    <2> QED BY <2>1, <2>2
  <1>3. CASE early # {}
    <2>1. PICK k \in early : \A j \in early : j <= k
      <3> HIDE DEF early
      <3> QED BY <1>1, <1>3, GreatestNumber
    <2>2. k \in 1 .. Len(l) /\ l[k].version <= h
      BY <2>1 DEF Positions
    <2>3. ASSUME NEW i \in 1 .. Len(l) PROVE l[i].version <= h <=> i <= k
      <3>1. l[i].version <= h => i <= k
        BY <2>1 DEF Positions
      <3>2. ASSUME i <= k PROVE l[i].version <= h
        <4>1. l[i].version <= l[k].version /\ l[i].version \in Nat /\ l[k].version \in Nat
          BY <2>2, <3>2 DEF Ordered
        <4> QED BY <2>2, <4>1
      <3> QED BY <3>1, <3>2
    <2>4. k \in 0 .. Len(l)
      BY <1>1, <2>2
    <2> QED BY <2>3, <2>4
  <1> QED BY <1>2, <1>3

\* gc's loop keeps the rest.
LEMMA LaterIs ==
    ASSUME NEW l, NEW lo, NEW hi, Ordered(l, lo, hi), NEW h \in Nat,
           NEW k \in 0 .. Len(l), \A i \in 1 .. Len(l) : l[i].version <= h <=> i <= k
    PROVE  /\ Later(l, h) \in Seq(Change) /\ Len(Later(l, h)) = Len(l) - k
           /\ \A j \in 1 .. Len(l) - k : Later(l, h)[j] = l[k + j]
  <1> DEFINE n == Len(l)
             Loop(f, i) == IF i = 0 THEN << >>
                           ELSE IF l[i].version > h THEN Append(f[i - 1], l[i]) ELSE f[i - 1]
             rest(i) == IF i <= k THEN << >> ELSE SubSeq(l, k + 1, i)
             g == [i \in 0 .. n |-> rest(i)]
             kept[i \in 0 .. n] == IF i = 0 THEN << >>
                                   ELSE IF l[i].version > h THEN Append(kept[i - 1], l[i])
                                        ELSE kept[i - 1]
  <1>1. l \in Seq(Change) /\ n \in Nat /\ k \in 0 .. n
    BY DEF Ordered
  <1>2. ASSUME NEW i \in 1 .. n PROVE l[i].version > h <=> ~(i <= k)
    <2>1. l[i].version \in Nat /\ (l[i].version <= h <=> i <= k)
      BY DEF Ordered
    <2> QED BY <2>1
  <1>3. ASSUME NEW i \in 1 .. n
        PROVE  rest(i) = IF l[i].version > h THEN Append(rest(i - 1), l[i]) ELSE rest(i - 1)
    <2>1. CASE i <= k
      <3>1. i - 1 <= k
        BY <1>1, <2>1
      <3> QED BY <1>2, <2>1, <3>1
    <2>2. CASE i = k + 1
      <3>1. ~(i <= k) /\ i - 1 <= k
        BY <1>1, <2>2
      <3>2. SubSeq(l, k + 1, i) = Append(<< >>, l[i])
        <4>1. /\ SubSeq(l, k + 1, i) \in Seq(Change) /\ Len(SubSeq(l, k + 1, i)) = 1
              /\ SubSeq(l, k + 1, i)[1] = l[i]
          BY <1>1, <2>2
        <4>2. /\ Append(<< >>, l[i]) \in Seq(Change) /\ Len(Append(<< >>, l[i])) = 1
              /\ Append(<< >>, l[i])[1] = l[i]
          BY <1>1
        <4>3. \A j \in 1 .. 1 : j = 1
          OBVIOUS
        <4> QED BY <4>1, <4>2, <4>3, SeqEqual
      <3> QED BY <1>2, <2>2, <3>1, <3>2
    <2>3. CASE ~(i <= k) /\ i # k + 1
      <3>1. ~(i - 1 <= k)
        BY <1>1, <2>3
      <3>2. SubSeq(l, k + 1, i) = Append(SubSeq(l, k + 1, i - 1), l[i])
        BY <1>1, <2>3
      <3> QED BY <1>2, <2>3, <3>1, <3>2
    <2> QED BY <2>1, <2>2, <2>3
  <1>4. rest(0) = << >>
    BY <1>1
  <1> HIDE DEF rest
  <1>5. \A i \in 0 .. n : g[i] = Loop(g, i)
    <2>1. ASSUME NEW i \in 0 .. n PROVE g[i] = Loop(g, i)
      <3>1. CASE i = 0
        BY <1>4, <3>1
      <3>2. CASE i # 0
        <4>1. i \in 1 .. n /\ i - 1 \in 0 .. n
          BY <3>2
        <4> QED BY <1>3, <3>2, <4>1
      <3> QED BY <3>1, <3>2
    <2> QED BY <2>1
  <1>6. g = [i \in 0 .. n |-> Loop(g, i)]
    BY <1>5
  <1>7. kept = [i \in 0 .. n |-> Loop(kept, i)]
    <2> HIDE DEF n, g
    <2> QED BY <1>6
  <1>8. Later(l, h) = kept[n]
    BY DEF Later
  <1> HIDE DEF kept
  <1>9. \A i \in 0 .. n : kept[i] = rest(i)
    <2> DEFINE bad == {i \in 0 .. n : kept[i] # rest(i)}
    <2>1. SUFFICES ASSUME bad # {} PROVE FALSE
      OBVIOUS
    <2>2. bad \in SUBSET Nat
      OBVIOUS
    <2>3. PICK i \in bad : \A j \in bad : i <= j
      <3> HIDE DEF bad
      <3> QED BY <2>1, <2>2, LeastNumber
    <2>4. i \in 0 .. n /\ kept[i] # rest(i)
      BY <2>3
    <2>5. CASE i = 0
      BY <1>4, <1>7, <2>4, <2>5
    <2>6. CASE i # 0
      <3>1. i \in 1 .. n /\ i - 1 \in 0 .. n /\ ~(i <= i - 1)
        BY <2>4, <2>6
      <3>2. kept[i - 1] = rest(i - 1)
        BY <2>3, <3>1
      <3>3. kept[i] = IF l[i].version > h THEN Append(kept[i - 1], l[i]) ELSE kept[i - 1]
        BY <1>7, <2>4, <2>6
      <3> QED BY <1>3, <2>4, <3>1, <3>2, <3>3
    <2> QED BY <2>5, <2>6
  <1>10. Later(l, h) = rest(n)
    BY <1>1, <1>8, <1>9
  <1>11. CASE n = k
    <2>1. Later(l, h) = << >>
      BY <1>1, <1>10, <1>11 DEF rest
    <2> QED BY <1>1, <1>11, <2>1
  <1>12. CASE n # k
    <2>1. Later(l, h) = SubSeq(l, k + 1, n)
      BY <1>1, <1>10, <1>12, SMTT(30) DEF rest
    <2> QED BY <1>1, <1>12, <2>1
  <1> QED BY <1>11, <1>12

\* What a record id can hold after a replay.
LEMMA OverlayRow ==
    ASSUME NEW W, Bounded(W), NEW rows, NEW l, NEW r \in Rids
    PROVE  \/ RowAfter(rows, l, W, r) = rows[r] /\ NoneOf(l, W, r)
           \/ \E i \in W : l[i].rid = r /\ RowAfter(rows, l, W, r) = l[i].row
  <1>1. CASE NoneOf(l, W, r)
    BY <1>1, OverlayNone
  <1>2. CASE ~NoneOf(l, W, r)
    <2>1. PICK i : LastOf(l, W, r, i)
      BY <1>2, LastExists
    <2>2. i \in W /\ l[i].rid = r
      BY <2>1 DEF LastOf
    <2> QED BY <2>1, <2>2, OverlayLast
  <1> QED BY <1>1, <1>2

\* The record ids from n on are free in the rows and in the changes.
Below(rows, l, n) ==
    /\ \A r \in Rids : rows[r] \in Nat /\ (r >= n => rows[r] = None)
    /\ \A i \in 1 .. Len(l) : l[i].rid < n

LEMMA OverlayBelow ==
    ASSUME NEW W, NEW rows, NEW l \in Seq(Change), NEW n \in Nat, Below(rows, l, n),
           W \in SUBSET (1 .. Len(l))
    PROVE  /\ \A r \in Rids : Overlay(rows, l, W)[r] \in Nat
           /\ \A r \in Rids : r >= n => Overlay(rows, l, W)[r] = None
  <1>1. Bounded(W) /\ \A i \in 1 .. Len(l) : l[i] \in Change
    <2>1. Len(l) \in Nat /\ \A i \in 1 .. Len(l) : l[i] \in Change
      OBVIOUS
    <2>2. Bounded(W)
      BY <2>1 DEF Bounded
    <2> QED BY <2>1, <2>2
  <1>2. ASSUME NEW r \in Rids
        PROVE  RowAfter(rows, l, W, r) \in Nat /\ (r >= n => RowAfter(rows, l, W, r) = None)
    <2>1. CASE RowAfter(rows, l, W, r) = rows[r]
      BY <2>1 DEF Below
    <2>2. ASSUME NEW i \in W, l[i].rid = r, RowAfter(rows, l, W, r) = l[i].row
          PROVE  RowAfter(rows, l, W, r) \in Nat /\ (r >= n => RowAfter(rows, l, W, r) = None)
      <3>1. i \in 1 .. Len(l)
        OBVIOUS
      <3>2. l[i].row \in Nat /\ l[i].rid < n
        BY <1>1, <3>1 DEF Change, Below
      <3>3. r \in Nat
        BY DEF Rids
      <3>4. ~(r >= n)
        BY <2>2, <3>2, <3>3
      <3> QED BY <2>2, <3>2, <3>4
    <2>3. \/ RowAfter(rows, l, W, r) = rows[r] /\ NoneOf(l, W, r)
          \/ \E i \in W : l[i].rid = r /\ RowAfter(rows, l, W, r) = l[i].row
      <3>1. Bounded(W) /\ r \in Rids
        BY <1>1
      <3> HIDE DEF Bounded
      <3> QED BY ONLY <3>1, OverlayRow
    <2> QED BY <2>1, <2>2, <2>3
  <1> QED BY <1>2 DEF RowAfter

\* gc changes no version from the horizon on.
LEMMA CompactExact ==
    ASSUME baselineVersion \in Nat, NEW l, NEW hi \in Nat, baselineVersion <= hi,
           Ordered(l, baselineVersion, hi), NEW h \in Nat, h <= hi, Compact(l, h),
           NEW n \in Nat, Below(baseline, l, n)
    PROVE  /\ baselineVersion' \in Nat /\ baselineVersion <= baselineVersion'
           /\ baselineVersion' <= hi /\ Ordered(log', baselineVersion', hi)
           /\ Below(baseline', log', n)
           /\ \A v \in Nat : baselineVersion' <= v =>
                 Overlay(baseline', log', Positions(log', v)) = Overlay(baseline, l, Positions(l, v))
  <1>1. CASE h <= baselineVersion
    BY <1>1 DEF Compact
  <1>2. CASE ~(h <= baselineVersion)
    <2>1. log' = Later(l, h) /\ baselineVersion' = h /\ baseline' = Overlay(baseline, l, Positions(l, h))
      BY <1>2, OrderedUpTo DEF Compact
    <2>2. PICK k \in 0 .. Len(l) : \A i \in 1 .. Len(l) : l[i].version <= h <=> i <= k
      BY Cut
    <2>3. /\ log' \in Seq(Change) /\ Len(log') = Len(l) - k
          /\ \A j \in 1 .. Len(l) - k : log'[j] = l[k + j]
      BY <2>1, <2>2, LaterIs
    <2>4. Len(l) \in Nat /\ k \in 0 .. Len(l) /\ l \in Seq(Change)
      BY DEF Ordered
    <2>5. \A j \in 1 .. Len(l) - k : k + j \in 1 .. Len(l) /\ ~(k + j <= k)
      BY <2>4
    <2>6. Ordered(log', h, hi)
      <3>1. ASSUME NEW j \in 1 .. Len(log')
            PROVE  log'[j].version \in Nat /\ h < log'[j].version /\ log'[j].version <= hi
        <4>1. log'[j] = l[k + j] /\ k + j \in 1 .. Len(l) /\ ~(l[k + j].version <= h)
          BY <2>2, <2>3, <2>5
        <4>2. l[k + j].version \in Nat /\ l[k + j].version <= hi
          BY <4>1 DEF Ordered
        <4> QED BY <4>1, <4>2
      <3>2. ASSUME NEW i \in 1 .. Len(log'), NEW j \in 1 .. Len(log'), i <= j
            PROVE  log'[i].version <= log'[j].version
        <4>1. /\ log'[i] = l[k + i] /\ k + i \in 1 .. Len(l)
              /\ log'[j] = l[k + j] /\ k + j \in 1 .. Len(l)
          BY <2>3, <2>5
        <4>2. k + i <= k + j
          BY <2>4, <3>2
        <4> QED BY <4>1, <4>2 DEF Ordered
      <3> QED BY <2>3, <3>1, <3>2 DEF Ordered
    <2>7. Below(baseline', log', n)
      <3>1. Positions(l, h) \in SUBSET (1 .. Len(l))
        BY DEF Positions
      <3>2. \A r \in Rids : baseline'[r] \in Nat /\ (r >= n => baseline'[r] = None)
        BY <2>1, <2>4, <3>1, OverlayBelow
      <3>3. \A j \in 1 .. Len(log') : log'[j].rid < n
        BY <2>3, <2>5 DEF Below
      <3> QED BY <3>2, <3>3 DEF Below
    <2>8. ASSUME NEW v \in Nat, h <= v
          PROVE  Overlay(baseline', log', Positions(log', v)) = Overlay(baseline, l, Positions(l, v))
      <3> DEFINE W == Positions(l, v)
      <3>1. W \in SUBSET (1 .. Len(l))
        BY DEF Positions
      <3>2. Positions(l, h) = {i \in W : i <= k}
        <4>1. ASSUME NEW i \in 1 .. Len(l), l[i].version <= h PROVE l[i].version <= v
          <5>1. l[i].version \in Nat
            BY DEF Ordered
          <5> QED BY <2>8, <4>1, <5>1
        <4> QED BY <2>2, <4>1 DEF Positions
      <3>3. Positions(log', v) = {j \in 1 .. Len(l) - k : k + j \in W}
        BY <2>3, <2>5 DEF Positions
      <3> HIDE DEF W
      <3>4. Parts(l, k, Len(l), log', W)
        BY <2>3, <2>4, <3>1 DEF Parts
      <3>5. Overlay(Overlay(baseline, l, First(W, k)), log', Rest(W, k, Len(l))) = Overlay(baseline, l, W)
        BY <3>4, OverlaySplit
      <3> QED BY <2>1, <3>2, <3>3, <3>5 DEF W, First, Rest
    <2> QED BY <1>2, <2>1, <2>6, <2>7, <2>8
  <1> QED BY <1>1, <1>2

----------------------------------------------------------------------------
(* Commits.                                                                *)

\* The rows at version v, and the rows after all the changes of a list.
At(v) == Overlay(baseline, log, Positions(log, v))
All(rows, l) == Overlay(rows, l, 1 .. Len(l))

\* Replaying one list after another is replaying both.
LEMMA Replay ==
    ASSUME NEW rows, NEW l \in Seq(Change), NEW m \in Seq(Change)
    PROVE  All(rows, l \o m) = All(All(rows, l), m)
  <1> DEFINE k == Len(l)
             n == Len(l \o m)
             W == 1 .. n
  <1>1. k \in Nat /\ Len(m) \in Nat /\ n = k + Len(m) /\ k \in 0 .. n /\ n \in Nat
    OBVIOUS
  <1>2. \A j \in 1 .. n - k : m[j] = (l \o m)[k + j]
    BY <1>1
  <1>3. Parts(l \o m, k, n, m, W)
    BY <1>1, <1>2 DEF Parts
  <1>4. First(W, k) = 1 .. k
    BY <1>1 DEF First
  <1>5. Rest(W, k, n) = 1 .. Len(m)
    BY <1>1 DEF Rest
  <1>6. Overlay(rows, l \o m, 1 .. k) = Overlay(rows, l, 1 .. k)
    <2>1. Bounded(1 .. k)
      BY <1>1 DEF Bounded
    <2>2. \A i \in 1 .. k : (l \o m)[i].rid = l[i].rid /\ (l \o m)[i].row = l[i].row
      OBVIOUS
    <2> HIDE DEF k
    <2> QED BY <2>1, <2>2, OverlaySame
  <1> HIDE DEF n, k, W
  <1>7. Overlay(Overlay(rows, l \o m, First(W, k)), m, Rest(W, k, n)) = Overlay(rows, l \o m, W)
    BY <1>3, OverlaySplit
  <1> QED BY <1>4, <1>5, <1>6, <1>7 DEF All, k, n, W

LEMMA StampedIs ==
    ASSUME NEW c \in Seq(Change), NEW v \in Nat
    PROVE  /\ Stamped(c, v) \in Seq(Change) /\ Len(Stamped(c, v)) = Len(c)
           /\ \A i \in 1 .. Len(c) : /\ Stamped(c, v)[i].version = v
                                     /\ Stamped(c, v)[i].rid = c[i].rid
                                     /\ Stamped(c, v)[i].row = c[i].row
  <1> DEFINE st(i) == [c[i] EXCEPT !.version = v]
  <1>1. ASSUME NEW i \in 1 .. Len(c)
        PROVE  st(i) \in Change /\ st(i).version = v /\ st(i).rid = c[i].rid /\ st(i).row = c[i].row
    <2>1. c[i] \in Change
      OBVIOUS
    <2> QED BY <2>1 DEF Change
  <1>2. Stamped(c, v) = [i \in 1 .. Len(c) |-> st(i)]
    BY DEF Stamped
  <1> HIDE DEF st
  <1> QED BY <1>1, <1>2

\* A commit appends a version and changes none before it that is kept.
LEMMA CommitExact ==
    ASSUME baselineVersion \in Nat, version \in Nat, baselineVersion <= version,
           scenario \in Scenario, scenario' = scenario, Ordered(log, baselineVersion, version),
           NEW c \in Seq(Change), NEW n \in Nat, Below(baseline, log, n),
           \A i \in 1 .. Len(c) : c[i].rid < n,
           Compact(log \o Stamped(c, version + 1),
                   Horizon(version + 1, log \o Stamped(c, version + 1)))
    PROVE  /\ baselineVersion' \in Nat /\ baselineVersion <= baselineVersion'
           /\ baselineVersion' <= version + 1
           /\ scenario.retain >= version + 1 => baselineVersion' = baselineVersion
           /\ Ordered(log', baselineVersion', version + 1)
           /\ Below(baseline', log', n)
           /\ \A v \in Nat : baselineVersion' <= v /\ v <= version => At(v)' = At(v)
           /\ All(baseline', log') = All(All(baseline, log), c)
           /\ c # << >> => log' # << >> \/ baselineVersion' > 0
  <1> DEFINE top == version + 1
             new == Stamped(c, top)
             l == log \o new
             h == Horizon(top, l)
  <1>1. /\ new \in Seq(Change) /\ Len(new) = Len(c)
        /\ \A i \in 1 .. Len(c) : /\ new[i].version = top /\ new[i].rid = c[i].rid
                                  /\ new[i].row = c[i].row
    <2>1. top \in Nat
      OBVIOUS
    <2> HIDE DEF top
    <2> QED BY <2>1, StampedIs
  <1> HIDE DEF new
  <1>2. /\ log \in Seq(Change) /\ l \in Seq(Change) /\ Len(log) \in Nat /\ Len(c) \in Nat
        /\ Len(l) = Len(log) + Len(c)
    <2>1. log \in Seq(Change)
      BY DEF Ordered
    <2>2. new \in Seq(Change) /\ Len(new) = Len(c)
      BY <1>1
    <2>3. l \in Seq(Change) /\ Len(l) = Len(log) + Len(new)
      BY <2>1, <2>2, ConcatProperties
    <2>4. Len(log) \in Nat /\ Len(c) \in Nat
      BY <2>1, LenProperties
    <2> QED BY <2>1, <2>2, <2>3, <2>4
  <1>3. ASSUME NEW i \in 1 .. Len(l)
        PROVE  \/ i \in 1 .. Len(log) /\ l[i] = log[i]
               \/ /\ ~(i <= Len(log)) /\ i - Len(log) \in 1 .. Len(c)
                  /\ l[i] = new[i - Len(log)] /\ l[i].version = top
    BY <1>1, <1>2
  <1>4. \A i \in 1 .. Len(log) : i \in 1 .. Len(l) /\ l[i] = log[i]
    BY <1>1, <1>2
  <1> HIDE DEF l
  <1>5. \A i \in 1 .. Len(log) : /\ log[i].version \in Nat /\ baselineVersion < log[i].version
                                 /\ log[i].version <= version
    BY DEF Ordered
  <1>6. ASSUME NEW i \in 1 .. Len(l)
        PROVE  l[i].version \in Nat /\ baselineVersion < l[i].version /\ l[i].version <= top
    <2>1. CASE i \in 1 .. Len(log) /\ l[i] = log[i]
      BY <1>5, <2>1
    <2>2. CASE l[i].version = top
      BY <2>2
    <2> QED BY <1>3, <2>1, <2>2
  <1>7. ASSUME NEW i \in 1 .. Len(l), NEW j \in 1 .. Len(l), i <= j
        PROVE  l[i].version <= l[j].version
    <2>1. CASE l[j].version = top
      BY <1>6, <2>1
    <2>2. CASE j \in 1 .. Len(log) /\ l[j] = log[j]
      <3>1. i \in 1 .. Len(log) /\ l[i] = log[i]
        BY <1>2, <1>4, <1>7, <2>2
      <3>2. log[i].version <= log[j].version
        BY <1>7, <2>2, <3>1 DEF Ordered
      <3> QED BY <2>2, <3>1, <3>2
    <2> QED BY <1>3, <2>1, <2>2
  <1>8. Ordered(l, baselineVersion, top)
    BY <1>2, <1>6, <1>7 DEF Ordered
  <1>9. Below(baseline, l, n)
    <2>1. ASSUME NEW i \in 1 .. Len(l) PROVE l[i].rid < n
      BY <1>1, <1>3 DEF Below
    <2> QED BY <2>1 DEF Below
  <1>10. h \in Nat /\ h <= top /\ (scenario.retain >= top => h = baselineVersion)
    <2>1. scenario.retain \in Nat
      BY DEF Scenario
    <2> QED BY <2>1 DEF Horizon
  <1>11. Compact(l, h)
    BY DEF l, new
  <1> HIDE DEF h
  <1>12. /\ baselineVersion' \in Nat /\ baselineVersion <= baselineVersion'
         /\ baselineVersion' <= top /\ Ordered(log', baselineVersion', top)
         /\ Below(baseline', log', n)
         /\ \A v \in Nat : baselineVersion' <= v =>
               Overlay(baseline', log', Positions(log', v)) = Overlay(baseline, l, Positions(l, v))
    <2>1. top \in Nat /\ baselineVersion <= top
      OBVIOUS
    <2> HIDE DEF top
    <2> QED BY <1>8, <1>9, <1>10, <1>11, <2>1, CompactExact
  <1>13. scenario.retain >= top => baselineVersion' = baselineVersion
    BY <1>10, <1>11 DEF Compact
  <1>14. ASSUME NEW v \in Nat, baselineVersion' <= v, v <= version
         PROVE  At(v)' = At(v)
    <2>1. Positions(l, v) = Positions(log, v)
      <3>1. ASSUME NEW i
            PROVE  i \in 1 .. Len(l) /\ l[i].version <= v <=> i \in 1 .. Len(log) /\ log[i].version <= v
        <4>1. ~(top <= v)
          BY <1>14
        <4> QED BY <1>3, <1>4, <4>1
      <3> QED BY <3>1 DEF Positions
    <2>2. Overlay(baseline, l, Positions(log, v)) = Overlay(baseline, log, Positions(log, v))
      <3>1. Bounded(Positions(log, v))
        BY <1>2 DEF Bounded, Positions
      <3>2. \A i \in Positions(log, v) : l[i] = log[i]
        BY <1>4 DEF Positions
      <3> QED BY <3>1, <3>2, OverlaySame
    <2>3. At(v)' = Overlay(baseline', log', Positions(log', v))
      BY DEF At, Overlay, Positions, Rids
    <2> QED BY <1>12, <1>14, <2>1, <2>2, <2>3 DEF At
  <1>15. All(baseline', log') = All(All(baseline, log), c)
    <2>1. Positions(log', top) = 1 .. Len(log')
      BY <1>12 DEF Ordered, Positions
    <2>2. Positions(l, top) = 1 .. Len(l)
      BY <1>8 DEF Ordered, Positions
    <2>3. All(baseline', log') = All(baseline, l)
      BY <1>12, <2>1, <2>2 DEF All
    <2>4. All(baseline, l) = All(All(baseline, log), new)
      BY <1>1, <1>2, Replay DEF l
    <2>5. \A rows : All(rows, new) = All(rows, c)
      <3>1. Bounded(1 .. Len(c))
        BY <1>2 DEF Bounded
      <3>2. \A rows : Overlay(rows, new, 1 .. Len(c)) = Overlay(rows, c, 1 .. Len(c))
        BY <1>1, <3>1, OverlaySame
      <3> QED BY <1>1, <3>2 DEF All
    <2> QED BY <2>3, <2>4, <2>5
  <1>16. ASSUME c # << >> PROVE log' # << >> \/ baselineVersion' > 0
    <2>1. Len(c) # 0
      BY <1>16
    <2>2. l # << >>
      BY <1>2, <2>1
    <2>3. CASE h <= baselineVersion
      BY <1>11, <2>2, <2>3 DEF Compact
    <2>4. CASE ~(h <= baselineVersion)
      BY <1>10, <1>11, <2>4 DEF Compact
    <2> QED BY <2>3, <2>4
  <1> QED BY <1>12, <1>13, <1>14, <1>15, <1>16

----------------------------------------------------------------------------
(* What a row statement does.                                              *)

\* The shape of a change c to the rows of the heap: the row it takes away, if
\* any, is the one at c.rid, the row it brings, if any, is new.
Write(c) ==
    /\ \/ c.rid = None /\ c.old = None
       \/ c.rid \in Rids /\ heap[c.rid] # None /\ c.old = heap[c.rid]
    /\ \/ c.to = None /\ c.new = None /\ c.rid # None
       \/ c.new = stmts + 1 /\ c.to \in Rids /\ c.to \in {c.rid, nextRid}

LEMMA WriteIs ==
    ASSUME scenario \in Scenario, stmts \in 0 .. scenario.stmts, stmts < scenario.stmts,
           nextRid \in 1 .. stmts + 1, NEW kind \in Kinds, NEW c \in Changes(kind), Possible(c)
    PROVE  Write(c) /\ (kind = "put" => c.old = None /\ c.to = nextRid /\ c.rid = None)
  <1>1. scenario.stmts \in Nat
    BY DEF Scenario
  <1>2. nextRid \in Rids /\ nextRid # None
    BY <1>1 DEF Rids, None
  <1>3. CASE kind = "put"
    <2>1. c = [rid |-> None, old |-> None, to |-> nextRid, new |-> stmts + 1]
      BY <1>3 DEF Changes
    <2> QED BY <1>2, <2>1 DEF Write
  <1>4. CASE kind = "remove"
    <2>1. PICK r \in Rids : heap[r] # None /\ c = [rid |-> r, old |-> heap[r], to |-> None, new |-> None]
      BY <1>4 DEF Changes
    <2>2. r # None
      BY DEF Rids, None
    <2> QED BY <1>4, <2>1, <2>2 DEF Write
  <1>5. CASE kind = "modify"
    <2>1. PICK r \in Rids, t \in Rids \cup {nextRid} :
             heap[r] # None /\ c = [rid |-> r, old |-> heap[r], to |-> t, new |-> stmts + 1]
      BY <1>5 DEF Changes
    <2>2. t \in Rids /\ r # None /\ t # None
      BY <1>2 DEF Rids, None
    <2>3. t \in {r, nextRid}
      BY <2>1, <2>2 DEF Possible
    <2> QED BY <1>5, <2>1, <2>2, <2>3 DEF Write
  <1> QED BY <1>3, <1>4, <1>5 DEF Kinds

RowsOf(rows) == {rows[r] : r \in Rids} \ {None}
Distinct(rows) == \A q, r \in Rids : rows[q] = rows[r] /\ rows[q] # None => q = r

LEMMA ShowsIs ==
    ASSUME NEW rows, NEW S
    PROVE  Shows(rows, S) <=> RowsOf(rows) = S /\ Distinct(rows)
  BY DEF Shows, RowsOf, Distinct

\* The heap after a change.
LEMMA HeapAfter ==
    ASSUME scenario \in Scenario, stmts \in Nat, heap \in [Rids -> 0 .. stmts],
           Distinct(heap), \A r \in Rids : r = nextRid => heap[r] = None,
           NEW c, Write(c), ApplyToHeap(c)
    PROVE  /\ heap' \in [Rids -> 0 .. stmts + 1] /\ Distinct(heap')
           /\ RowsOf(heap') = (RowsOf(heap) \ Removed(c)) \cup Added(c)
  <1> DEFINE new(r) == IF r = c.to THEN c.new ELSE IF r = c.rid THEN None ELSE heap[r]
  <1>1. heap' = [r \in Rids |-> new(r)]
    BY DEF ApplyToHeap
  <1>2. \A r \in Rids : heap[r] \in 0 .. stmts /\ r # None
    BY DEF Rids, None
  <1>3. c.new = stmts + 1 \/ c.new = None
    BY DEF Write
  <1>4. ASSUME NEW r \in Rids PROVE new(r) \in 0 .. stmts + 1
    BY <1>2, <1>3 DEF None
  <1>5. ASSUME NEW q \in Rids, NEW r \in Rids, new(q) = new(r), new(q) # None PROVE q = r
    <2>1. \A t \in Rids : heap[t] # stmts + 1
      BY <1>2
    <2>2. q # c.to /\ r # c.to => q = r
      BY <1>5 DEF Distinct
    <2>3. q = c.to => c.new = stmts + 1
      BY <1>3, <1>5
    <2>4. r = c.to => c.new = stmts + 1
      BY <1>3, <1>5
    <2>5. stmts + 1 # None
      BY DEF None
    <2> QED BY <1>5, <2>1, <2>2, <2>3, <2>4, <2>5
  <1>6. \A r \in Rids : r = c.rid => heap[r] = c.old /\ c.old # None
    BY <1>2 DEF Write
  <1>7. \A r \in Rids : r = c.to => c.new # None /\ (r = c.rid \/ heap[r] = None)
    BY <1>2 DEF Write, None
  <1>8. ASSUME NEW x, x # None
        PROVE  (\E r \in Rids : x = new(r)) <=> ((\E r \in Rids : x = heap[r]) /\ x # c.old) \/ x = c.new
    <2>1. ASSUME NEW r \in Rids, x = new(r), x # c.new
          PROVE  x = heap[r] /\ x # c.old
      <3>1. r # c.to /\ r # c.rid /\ x = heap[r]
        BY <1>8, <2>1
      <3>2. ASSUME x = c.old PROVE FALSE
        <4>1. c.rid \in Rids /\ c.old = heap[c.rid]
          BY <1>8, <3>2 DEF Write
        <4> QED BY <1>8, <3>1, <3>2, <4>1 DEF Distinct
      <3> QED BY <3>1, <3>2
    <2>2. ASSUME NEW r \in Rids, x = heap[r], x # c.old PROVE x = new(r)
      BY <1>6, <1>7, <1>8, <2>2
    <2>3. ASSUME x = c.new PROVE c.to \in Rids /\ x = new(c.to)
      BY <1>8, <2>3 DEF Write
    <2> QED BY <2>1, <2>2, <2>3
  <1>9. ASSUME NEW x
        PROVE  x \in RowsOf(heap') <=> x \in (RowsOf(heap) \ Removed(c)) \cup Added(c)
    <2>1. x \in RowsOf(heap') <=> x # None /\ \E r \in Rids : x = new(r)
      BY <1>1 DEF RowsOf
    <2>2. x \in RowsOf(heap) <=> x # None /\ \E r \in Rids : x = heap[r]
      BY DEF RowsOf
    <2> HIDE DEF new
    <2>3. x \in Removed(c) <=> x = c.old /\ x # None
      BY DEF Removed
    <2>4. x \in Added(c) <=> x = c.new /\ x # None
      BY DEF Added
    <2> QED BY <1>8, <2>1, <2>2, <2>3, <2>4
  <1>10. RowsOf(heap') = (RowsOf(heap) \ Removed(c)) \cup Added(c)
    BY <1>9
  <1>11. heap' \in [Rids -> 0 .. stmts + 1] /\ Distinct(heap')
    <2>1. \A q, r \in Rids : heap'[q] = heap'[r] /\ heap'[q] # None => q = r
      BY <1>1, <1>5
    <2> QED BY <1>1, <1>4, <2>1 DEF Distinct
  <1> QED BY <1>10, <1>11

\* What a change stages: a delete, an insert, or both in this order.
LEMMA StagedIs ==
    ASSUME scenario \in Scenario, stmts \in Nat, NEW c, Write(c)
    PROVE  /\ Staged(c) \in Seq(Change) /\ Staged(c) # << >>
           /\ \A i \in 1 .. Len(Staged(c)) : Staged(c)[i].rid \in {c.rid, c.to} \ {None}
           /\ \/ c.rid = None /\ c.to \in Rids /\ Len(Staged(c)) = 1
                 /\ Staged(c)[1].rid = c.to /\ Staged(c)[1].row = c.new
              \/ c.to = None /\ c.rid \in Rids /\ Len(Staged(c)) = 1
                 /\ Staged(c)[1].rid = c.rid /\ Staged(c)[1].row = None
              \/ c.rid \in Rids /\ c.to \in Rids /\ Len(Staged(c)) = 2
                 /\ Staged(c)[1].rid = c.rid /\ Staged(c)[1].row = None
                 /\ Staged(c)[2].rid = c.to /\ Staged(c)[2].row = c.new
  <1> DEFINE del == StageDelete(c.rid)
             ins == StageInsert(c.to, c.new)
  <1>1. \A r \in Rids : r # None /\ r \in Nat
    BY DEF Rids, None
  <1>2. c.rid \in Rids => del \in Change /\ del.rid = c.rid /\ del.row = None
    BY <1>1 DEF StageDelete, Change, None
  <1>3. c.to \in Rids => ins \in Change /\ ins.rid = c.to /\ ins.row = c.new
    <2>1. c.to \in Rids => c.new \in Nat
      BY <1>1 DEF Write
    <2> QED BY <1>1, <2>1 DEF StageInsert, Change
  <1> HIDE DEF del, ins
  <1>4. Staged(c) = (IF c.rid # None THEN <<del>> ELSE << >>) \o (IF c.to # None THEN <<ins>> ELSE << >>)
    BY DEF Staged, del, ins
  <1>5. CASE c.rid = None /\ c.to \in Rids
    <2>1. Staged(c) = << >> \o <<ins>>
      BY <1>1, <1>4, <1>5
    <2>2. Staged(c) = <<ins>>
      BY <1>3, <1>5, <2>1
    <2>3. /\ Staged(c) \in Seq(Change) /\ Staged(c) # << >> /\ Len(Staged(c)) = 1
          /\ Staged(c)[1] = ins /\ \A i \in 1 .. 1 : i = 1
      BY <1>3, <1>5, <2>2
    <2> HIDE DEF Staged
    <2> QED BY <1>1, <1>3, <1>5, <2>3
  <1>6. CASE c.to = None /\ c.rid \in Rids
    <2>1. Staged(c) = <<del>> \o << >>
      BY <1>1, <1>4, <1>6
    <2>2. Staged(c) = <<del>>
      BY <1>2, <1>6, <2>1
    <2>3. /\ Staged(c) \in Seq(Change) /\ Staged(c) # << >> /\ Len(Staged(c)) = 1
          /\ Staged(c)[1] = del /\ \A i \in 1 .. 1 : i = 1
      BY <1>2, <1>6, <2>2
    <2> HIDE DEF Staged
    <2> QED BY <1>1, <1>2, <1>6, <2>3
  <1>7. CASE c.rid \in Rids /\ c.to \in Rids
    <2>1. Staged(c) = <<del>> \o <<ins>>
      BY <1>1, <1>4, <1>7
    <2>2. /\ <<del>> \in Seq(Change) /\ Len(<<del>>) = 1 /\ <<del>>[1] = del
          /\ <<ins>> \in Seq(Change) /\ Len(<<ins>>) = 1 /\ <<ins>>[1] = ins
      BY <1>2, <1>3, <1>7
    <2>3. /\ Staged(c) \in Seq(Change) /\ Len(Staged(c)) = 2
          /\ Staged(c)[1] = del /\ Staged(c)[2] = ins
      BY <2>1, <2>2, ConcatProperties
    <2>4. \A i \in 1 .. 2 : i = 1 \/ i = 2
      OBVIOUS
    <2>5. Staged(c) # << >>
      BY <2>3
    <2> HIDE DEF Staged
    <2> QED BY <1>1, <1>2, <1>3, <1>7, <2>3, <2>4, <2>5
  <1> QED BY <1>5, <1>6, <1>7 DEF Write

\* Replaying what a change stages is what the change does to the heap.
LEMMA StagedExact ==
    ASSUME scenario \in Scenario, stmts \in Nat, NEW c, Write(c), ApplyToHeap(c)
    PROVE  All(heap, Staged(c)) = heap'
  <1> DEFINE s == Staged(c)
             W == 1 .. Len(s)
             new(r) == IF r = c.to THEN c.new ELSE IF r = c.rid THEN None ELSE heap[r]
  <1>1. heap' = [r \in Rids |-> new(r)]
    BY DEF ApplyToHeap
  <1>2. /\ \/ c.rid = None /\ c.to \in Rids /\ Len(s) = 1
              /\ s[1].rid = c.to /\ s[1].row = c.new
           \/ c.to = None /\ c.rid \in Rids /\ Len(s) = 1
              /\ s[1].rid = c.rid /\ s[1].row = None
           \/ c.rid \in Rids /\ c.to \in Rids /\ Len(s) = 2
              /\ s[1].rid = c.rid /\ s[1].row = None
              /\ s[2].rid = c.to /\ s[2].row = c.new
    BY StagedIs
  <1>3. \A r \in Rids : r # None
    BY DEF Rids, None
  <1> HIDE DEF s
  <1>4. Bounded(W)
    <2>1. Len(s) \in Nat
      BY <1>2
    <2> QED BY <2>1 DEF Bounded
  <1>5. ASSUME NEW r \in Rids PROVE RowAfter(heap, s, W, r) = new(r)
    <2>1. CASE r = c.to
      <3>1. LastOf(s, W, r, Len(s)) /\ s[Len(s)].row = c.new
        BY <1>2, <1>3, <2>1 DEF LastOf
      <3> QED BY <1>4, <2>1, <3>1, OverlayLast
    <2>2. CASE r # c.to /\ r = c.rid
      <3>1. LastOf(s, W, r, 1) /\ s[1].row = None
        BY <1>2, <1>3, <2>2 DEF LastOf
      <3> QED BY <1>4, <2>2, <3>1, OverlayLast
    <2>3. CASE r # c.to /\ r # c.rid
      <3>1. NoneOf(s, W, r)
        BY <1>2, <1>3, <2>3 DEF NoneOf
      <3> QED BY <2>3, <3>1, OverlayNone
    <2> QED BY <2>1, <2>2, <2>3
  <1> HIDE DEF W, new
  <1>6. Overlay(heap, s, W) = heap'
    BY <1>1, <1>5, OverlayFunction
  <1> QED BY <1>6 DEF All, s, W

----------------------------------------------------------------------------
(* The inductive invariant.                                                *)

\* Only one session works at a time.
Single(sc) == \A s, t \in sc.sessions : s = t

\* The workloads for which the store keeps its promises: a session that writes in
\* a transaction has the store for itself (discardPending and commitPending take
\* no session), and UNDO only ever takes inserts back (an old row is inserted
\* again at a record id the store never hears of).
Sane(sc) ==
    /\ sc.inTxn # {} => Single(sc)
    /\ sc.undo => sc.inTxn \subseteq {"put"}

Entry == [rid : Nat, old : Nat, to : Nat, new : Nat]

Types ==
    /\ scenario \in Scenario /\ Sane(scenario) /\ parted = FALSE
    /\ stmts \in 0 .. scenario.stmts /\ nextRid \in 1 .. stmts + 1
    /\ heap \in [Rids -> 0 .. stmts] /\ pending \in Seq(Change)
    /\ baselineVersion \in Nat /\ version \in Nat /\ baselineVersion <= version
    /\ snapshot \in [Sessions -> Nat] /\ undo \in [Sessions -> Seq(Entry)]
    /\ base \in [Sessions -> SUBSET Nat]
    /\ own \in [Sessions -> [added : SUBSET Nat, removed : SUBSET Nat]]

\* The log is in commit order, and no record id from nextRid on is in use.
LogInv ==
    /\ Ordered(log, baselineVersion, version) /\ Below(baseline, log, nextRid)
    /\ \A i \in 1 .. Len(pending) : pending[i].rid < nextRid

\* The heap is the newest version and the changes not committed yet.
HeapInv == heap = All(All(baseline, log), pending) /\ Distinct(heap)

\* Every version from the horizon on is what was committed.
HistoryInv ==
    /\ history \in Seq(SUBSET Nat) /\ Len(history) = version + 1
    /\ history[version + 1] = committed
    /\ \A v \in Nat : baselineVersion <= v /\ v <= version => Shows(At(v), history[v + 1])

\* What a session has written is all that distinguishes the heap from the rows
\* committed; a session outside a transaction has written nothing.
TxnInv ==
    /\ \A s \in scenario.sessions :
          RowsOf(heap) = (committed \ own[s].removed) \cup own[s].added
    /\ \A s \in Sessions : ~InTxn(s) => own[s] = NoOwn /\ undo[s] = << >>
    /\ \A s \in Sessions \ scenario.sessions : ~InTxn(s)
    /\ scenario.inTxn = {} => pending = << >> /\ \A s \in Sessions : undo[s] = << >>
    /\ Quiet => pending = << >>
    /\ pending = << >> => \A s \in Sessions : own[s] = NoOwn

\* UNDO has only inserts to take back, and every change staged is one of them.
UndoInv ==
    scenario.undo =>
        /\ \A s \in Sessions : \A i \in 1 .. Len(undo[s]) :
              /\ undo[s][i].old = None /\ undo[s][i].to \in Rids
              /\ All(baseline, log)[undo[s][i].to] = None
        /\ \A j \in 1 .. Len(pending) : \E s \in scenario.sessions :
              \E i \in 1 .. Len(undo[s]) : undo[s][i].to = pending[j].rid

IInv == Types /\ LogInv /\ HeapInv /\ HistoryInv /\ TxnInv /\ UndoInv

\* The workloads for which a transaction reads a snapshot: one session alone, or
\* readers beside statements outside transactions, before history is compacted.
Isolated(sc) == Single(sc) \/ (sc.inTxn = {} /\ sc.retain >= sc.stmts)

\* The version a transaction reads is still kept, and holds the rows it started
\* from.
SnapInv ==
    /\ \A s \in Sessions : InTxn(s) =>
          /\ baselineVersion <= snapshot[s] /\ snapshot[s] <= version
          /\ base[s] = history[snapshot[s] + 1]
          /\ Single(scenario) => snapshot[s] = version
    /\ scenario.inTxn = {} => version <= stmts

\* A table with a version is one the version file will name.
KnownInv == version > 0 => log # << >> \/ baselineVersion > 0

\* What a step adds to: no record id is taken back, no version is forgotten.
Grows ==
    /\ nextRid <= nextRid' /\ version <= version'
    /\ \A v \in Nat : v <= version => history'[v + 1] = history[v + 1]
    /\ KnownInv => KnownInv'

\* Record ids, and so changes, do not depend on anything that changes: each part
\* of the invariant holds after a step when it holds of the primed variables.
LEMMA LogPrimed ==
    ASSUME scenario' = scenario, Ordered(log', baselineVersion', version'),
           Below(baseline', log', nextRid'),
           \A i \in 1 .. Len(pending') : pending'[i].rid < nextRid'
    PROVE  LogInv'
  BY DEF LogInv, Ordered, Below, Change, Rids, None

LEMMA HeapPrimed ==
    ASSUME scenario' = scenario, heap' = All(All(baseline', log'), pending'), Distinct(heap')
    PROVE  HeapInv'
  <1>1. All(All(baseline, log), pending)' = All(All(baseline', log'), pending')
    BY DEF All, Overlay, Rids
  <1>2. Distinct(heap)'
    BY DEF Distinct, Rids, None
  <1> QED BY <1>1, <1>2 DEF HeapInv

LEMMA HistoryPrimed ==
    ASSUME scenario' = scenario,
           history' \in Seq(SUBSET Nat), Len(history') = version' + 1,
           history'[version' + 1] = committed',
           \A v \in Nat : baselineVersion' <= v /\ v <= version' => Shows(At(v)', history'[v + 1])
    PROVE  HistoryInv'
  <1>1. \A v : Shows(At(v), history[v + 1])' <=> Shows(At(v)', history'[v + 1])
    BY DEF Shows, Rids, None
  <1> QED BY <1>1 DEF HistoryInv

LEMMA TxnPrimed ==
    ASSUME scenario' = scenario,
           \A s \in scenario.sessions :
              RowsOf(heap') = (committed' \ own'[s].removed) \cup own'[s].added,
           \A s \in Sessions : snapshot'[s] = NoSnapshot => own'[s] = NoOwn /\ undo'[s] = << >>,
           \A s \in Sessions \ scenario.sessions : snapshot'[s] = NoSnapshot,
           scenario.inTxn = {} => pending' = << >> /\ \A s \in Sessions : undo'[s] = << >>,
           (\A s \in Sessions : snapshot'[s] = NoSnapshot) => pending' = << >>,
           pending' = << >> => \A s \in Sessions : own'[s] = NoOwn
    PROVE  TxnInv'
  <1>1. RowsOf(heap)' = RowsOf(heap')
    BY DEF RowsOf, Rids, None
  <1>2. NoSnapshot' = NoSnapshot /\ NoOwn' = NoOwn
    BY DEF NoSnapshot, NoOwn
  <1>3. \A s : InTxn(s)' <=> snapshot'[s] # NoSnapshot
    BY DEF InTxn, NoSnapshot
  <1>4. Quiet' <=> \A s \in Sessions : snapshot'[s] = NoSnapshot
    BY <1>3 DEF Quiet
  <1> HIDE DEF NoSnapshot, NoOwn
  <1> QED BY <1>1, <1>2, <1>3, <1>4 DEF TxnInv

LEMMA UndoPrimed ==
    ASSUME scenario' = scenario,
           scenario.undo =>
             /\ \A s \in Sessions : \A i \in 1 .. Len(undo'[s]) :
                   /\ undo'[s][i].old = None /\ undo'[s][i].to \in Rids
                   /\ All(baseline', log')[undo'[s][i].to] = None
             /\ \A j \in 1 .. Len(pending') : \E s \in scenario.sessions :
                   \E i \in 1 .. Len(undo'[s]) : undo'[s][i].to = pending'[j].rid
    PROVE  UndoInv'
  <1>1. All(baseline, log)' = All(baseline', log') /\ Rids' = Rids /\ None' = None
    BY DEF All, Overlay, Rids, None
  <1> HIDE DEF All, Rids, None
  <1> QED BY <1>1 DEF UndoInv

LEMMA TypesPrimed ==
    ASSUME scenario' = scenario, scenario \in Scenario, Sane(scenario), parted' = FALSE,
           stmts' \in 0 .. scenario.stmts, nextRid' \in 1 .. stmts' + 1,
           heap' \in [Rids -> 0 .. stmts'], pending' \in Seq(Change),
           baselineVersion' \in Nat, version' \in Nat, baselineVersion' <= version',
           snapshot' \in [Sessions -> Nat], undo' \in [Sessions -> Seq(Entry)],
           base' \in [Sessions -> SUBSET Nat],
           own' \in [Sessions -> [added : SUBSET Nat, removed : SUBSET Nat]]
    PROVE  Types'
  <1>1. Rids' = Rids /\ Change' = Change
    BY DEF Rids, Change
  <1> QED BY <1>1 DEF Types, Sane, Single

\* The rows of a store that does not change.
LEMMA StoreKept ==
    ASSUME UNCHANGED <<scenario, heap, nextRid, committed, history>>, UNCHANGED store,
           LogInv, HeapInv, HistoryInv
    PROVE  LogInv' /\ HeapInv' /\ HistoryInv'
  <1> USE DEF store
  <1>1. LogInv'
    BY LogPrimed DEF LogInv
  <1>2. HeapInv'
    BY HeapPrimed DEF HeapInv
  <1>3. \A v : At(v)' = At(v)
    BY DEF At, Overlay, Positions, Rids
  <1>4. HistoryInv'
    BY <1>3, HistoryPrimed DEF HistoryInv
  <1> QED BY <1>1, <1>2, <1>4

\* The newest version.
LEMMA NewestIs ==
    ASSUME IInv
    PROVE  /\ At(version) = All(baseline, log) /\ Shows(All(baseline, log), committed)
           /\ \A r \in Rids : r >= nextRid => All(baseline, log)[r] = None /\ heap[r] = None
           /\ pending = << >> => heap = All(baseline, log)
  <1> USE DEF IInv, Types
  <1>1. Positions(log, version) = 1 .. Len(log)
    BY DEF LogInv, Ordered, Positions
  <1>2. At(version) = All(baseline, log)
    BY <1>1 DEF At, All
  <1>3. Shows(At(version), committed)
    BY DEF HistoryInv
  <1>4. log \in Seq(Change) /\ Below(baseline, log, nextRid) /\ nextRid \in Nat
    BY DEF LogInv, Ordered
  <1>5. /\ \A r \in Rids : All(baseline, log)[r] \in Nat
        /\ \A r \in Rids : r >= nextRid => All(baseline, log)[r] = None
    <2>1. 1 .. Len(log) \in SUBSET (1 .. Len(log))
      OBVIOUS
    <2> QED BY <1>4, <2>1, OverlayBelow DEF All
  <1>6. \A r \in Rids : r >= nextRid => heap[r] = None
    <2>1. Below(All(baseline, log), pending, nextRid)
      BY <1>5 DEF Below, LogInv
    <2>2. 1 .. Len(pending) \in SUBSET (1 .. Len(pending))
      OBVIOUS
    <2>3. \A r \in Rids : r >= nextRid => All(All(baseline, log), pending)[r] = None
      <3> DEFINE rows == All(baseline, log)
      <3>1. All(rows, pending) = Overlay(rows, pending, 1 .. Len(pending))
        BY DEF All
      <3> HIDE DEF rows
      <3>2. Below(rows, pending, nextRid)
        BY <2>1 DEF rows
      <3>3. \A r \in Rids : r >= nextRid => Overlay(rows, pending, 1 .. Len(pending))[r] = None
        BY <1>4, <2>2, <3>2, OverlayBelow
      <3> QED BY <3>1, <3>3 DEF rows
    <2> QED BY <2>3 DEF HeapInv
  <1>7. ASSUME pending = << >> PROVE heap = All(baseline, log)
    <2> DEFINE rows == All(baseline, log)
    <2>1. rows = [r \in Rids |-> rows[r]]
      BY DEF All, Overlay
    <2>2. heap = All(rows, << >>)
      BY <1>7 DEF HeapInv
    <2> HIDE DEF rows
    <2>3. All(rows, << >>) = [r \in Rids |-> rows[r]]
      BY DEF All, Overlay
    <2> QED BY <2>1, <2>2, <2>3 DEF rows
  <1> QED BY <1>2, <1>3, <1>5, <1>6, <1>7

----------------------------------------------------------------------------
(* The initial states and the steps that write no row.                     *)

LEMMA InitHolds ==
    ASSUME Init, Sane(scenario)
    PROVE  IInv /\ SnapInv
  <1> USE VersionStoreAssumption DEF Init
  <1>1. scenario \in Scenario /\ scenario.stmts \in Nat
    BY DEF Scenario
  <1>2. \A r \in Rids : r # None
    BY DEF Rids, None
  <1>3. Types
    <2>1. heap \in [Rids -> 0 .. stmts]
      BY DEF NoRows, None
    <2>2. NoSnapshot \in Nat /\ NoOwn \in [added : SUBSET Nat, removed : SUBSET Nat]
      BY <1>1 DEF NoSnapshot, NoOwn
    <2>3. << >> \in Seq(Change) /\ << >> \in Seq(Entry)
      OBVIOUS
    <2>4. 0 \in 0 .. scenario.stmts /\ 1 \in 1 .. 0 + 1
      BY <1>1
    <2> QED BY <1>1, <2>1, <2>2, <2>3, <2>4 DEF Types
  <1>4. LogInv
    BY <1>2 DEF LogInv, Ordered, Below, NoRows, None
  <1>5. All(NoRows, << >>) = NoRows
    BY DEF All, Overlay, NoRows
  <1>6. Distinct(NoRows) /\ RowsOf(NoRows) = {}
    BY DEF Distinct, NoRows, RowsOf
  <1>7. HeapInv
    BY <1>5, <1>6 DEF HeapInv
  <1>8. \A v : At(v) = NoRows
    BY DEF At, Overlay, Positions, NoRows
  <1>9. HistoryInv
    <2>1. history \in Seq(SUBSET Nat) /\ Len(history) = version + 1 /\ history[version + 1] = committed
      <3>1. {} \in SUBSET Nat
        OBVIOUS
      <3> QED BY <3>1
    <2>2. ASSUME NEW v \in Nat, baselineVersion <= v, v <= version
          PROVE  Shows(At(v), history[v + 1])
      <3>1. v = 0
        BY <2>2
      <3>2. history[v + 1] = {}
        BY <3>1
      <3> QED BY <1>6, <1>8, <3>2, ShowsIs
    <2> QED BY <2>1, <2>2 DEF HistoryInv
  <1>10. \A s \in Sessions : snapshot[s] = NoSnapshot /\ undo[s] = << >> /\ own[s] = NoOwn
    OBVIOUS
  <1>11. TxnInv
    <2>1. NoOwn.added = {} /\ NoOwn.removed = {}
      BY DEF NoOwn
    <2>2. \A s \in scenario.sessions : s \in Sessions
      BY <1>1 DEF Scenario
    <2> QED BY <1>6, <1>10, <2>1, <2>2 DEF TxnInv, InTxn
  <1>12. UndoInv
    BY <1>10 DEF UndoInv
  <1>13. SnapInv
    BY <1>10 DEF SnapInv, InTxn
  <1> QED BY <1>3, <1>4, <1>7, <1>9, <1>11, <1>12, <1>13 DEF IInv

\* Steps that leave the store, the heap and the sessions alone.
LEMMA Kept ==
    ASSUME IInv, UNCHANGED <<scenario, heap, nextRid, snapshot, undo, parted, stmts>>,
           UNCHANGED store, UNCHANGED ghosts
    PROVE  IInv' /\ Grows /\ (SnapInv => SnapInv')
  <1> USE DEF IInv, store, ghosts
  <1>1. LogInv' /\ HeapInv' /\ HistoryInv'
    BY StoreKept
  <1>2. Types'
    BY TypesPrimed DEF Types
  <1>3. TxnInv'
    <2>1. Quiet <=> \A s \in Sessions : snapshot[s] = NoSnapshot
      BY DEF Quiet, InTxn
    <2> QED BY <2>1, TxnPrimed DEF TxnInv, InTxn
  <1>4. UndoInv'
    BY UndoPrimed DEF UndoInv
  <1>5. ASSUME SnapInv PROVE SnapInv'
    BY <1>5 DEF SnapInv, InTxn, NoSnapshot, Single
  <1>6. Grows
    BY DEF Grows, KnownInv, Types
  <1> QED BY <1>1, <1>2, <1>3, <1>4, <1>5, <1>6

\* START.
LEMMA StartKeeps ==
    ASSUME IInv, NEW s \in scenario.sessions, Start(s)
    PROVE  IInv' /\ Grows /\ (Isolated(scenario) /\ SnapInv => SnapInv')
  <1> USE DEF IInv, Start, store, parting, life
  <1>1. LogInv' /\ HeapInv' /\ HistoryInv'
    BY StoreKept
  <1>2. s \in Sessions
    BY DEF Types, Scenario
  <1>3. committed \in SUBSET Nat
    <2>1. version + 1 \in 1 .. Len(history) /\ history \in Seq(SUBSET Nat)
      BY DEF HistoryInv, Types
    <2>2. history[version + 1] \in SUBSET Nat
      BY <2>1, ElementOfSeq
    <2> QED BY <2>2 DEF HistoryInv
  <1>4. own[s] = NoOwn /\ undo[s] = << >>
    BY <1>2 DEF TxnInv
  <1>5. own' = own /\ undo' = undo
    BY <1>4 DEF Types
  <1>6. /\ \A t \in Sessions : t # s => snapshot'[t] = snapshot[t] /\ base'[t] = base[t]
        /\ snapshot'[s] = version /\ base'[s] = committed
    BY <1>2 DEF Types
  <1>7. Types'
    <2>1. snapshot' \in [Sessions -> Nat] /\ base' \in [Sessions -> SUBSET Nat]
      BY <1>2, <1>3 DEF Types
    <2> QED BY <1>5, <2>1, TypesPrimed DEF Types
  <1>8. TxnInv'
    <2>1. \A t \in Sessions : snapshot[t] = NoSnapshot => own[t] = NoOwn /\ undo[t] = << >>
      BY DEF TxnInv, InTxn
    <2>2. \A t \in Sessions : snapshot'[t] = NoSnapshot => own'[t] = NoOwn /\ undo'[t] = << >>
      BY <1>4, <1>5, <1>6, <2>1
    <2>3. (\A t \in Sessions : snapshot'[t] = NoSnapshot) => pending' = << >>
      BY <1>2, <1>6 DEF TxnInv, Quiet, InTxn
    <2>4. \A t \in Sessions \ scenario.sessions : snapshot'[t] = NoSnapshot
      BY <1>6 DEF TxnInv, InTxn
    <2> QED BY <1>5, <2>2, <2>3, <2>4, TxnPrimed DEF TxnInv
  <1>9. UndoInv'
    BY <1>5, UndoPrimed, SMTT(30) DEF UndoInv
  <1>10. ASSUME Isolated(scenario), SnapInv PROVE SnapInv'
    <2>1. ASSUME NEW t \in Sessions, InTxn(t)'
          PROVE  /\ baselineVersion <= snapshot'[t] /\ snapshot'[t] <= version
                 /\ base'[t] = history[snapshot'[t] + 1]
                 /\ Single(scenario) => snapshot'[t] = version
      <3>1. CASE t = s
        BY <1>6, <3>1 DEF Types, HistoryInv
      <3>2. CASE t # s
        <4>1. InTxn(t)
          BY <1>6, <2>1, <3>2 DEF InTxn, NoSnapshot
        <4> QED BY <1>6, <1>10, <3>2, <4>1 DEF SnapInv
      <3> QED BY <3>1, <3>2
    <2> QED BY <1>10, <2>1 DEF SnapInv, Single
  <1>11. Grows
    BY DEF Grows, KnownInv, Types
  <1> QED BY <1>1, <1>7, <1>8, <1>9, <1>10, <1>11

\* A clean restart loads what it has just saved: nothing is lost, and a table the
\* file does not name had no rows.
LEMMA CleanRestartKeeps ==
    ASSUME IInv, CleanRestart
    PROVE  IInv' /\ Grows /\ UNCHANGED store /\ (SnapInv => SnapInv')
  <1> USE DEF CleanRestart
  <1>1. pending = << >>
    BY DEF IInv, TxnInv
  <1>2. /\ log' = log /\ version' = version /\ baselineVersion' = baselineVersion
        /\ pending' = << >>
        /\ baseline' = IF log # << >> \/ baselineVersion > 0 \/ baseline # NoRows
                       THEN baseline ELSE heap
    BY DEF Load, Saved
  <1>3. ASSUME log = << >>, baseline = NoRows PROVE heap = baseline
    <2>1. All(NoRows, << >>) = NoRows
      BY DEF All, Overlay, NoRows
    <2> QED BY <1>1, <1>3, <2>1, NewestIs
  <1>4. UNCHANGED store
    BY <1>1, <1>2, <1>3 DEF store
  <1> QED BY <1>4, Kept DEF ghosts

----------------------------------------------------------------------------
(* The steps that write.                                                   *)

\* What a row statement asks for and stages is well typed, and names no record id
\* that is still free afterwards.
LEMMA WriteTyped ==
    ASSUME scenario \in Scenario, stmts \in 0 .. scenario.stmts, stmts < scenario.stmts,
           nextRid \in 1 .. stmts + 1, heap \in [Rids -> 0 .. stmts],
           \A r \in Rids : r >= nextRid => heap[r] = None,
           NEW kind \in Kinds, NEW c \in Changes(kind), Possible(c), ApplyToHeap(c)
    PROVE  /\ Write(c) /\ c \in Entry
           /\ kind = "put" => c.old = None /\ c.to = nextRid /\ c.rid = None /\ c.to \in Rids
           /\ heap' \in [Rids -> 0 .. stmts + 1] /\ \A r \in Rids : r >= nextRid' => heap'[r] = None
           /\ nextRid' \in 1 .. stmts + 2 /\ nextRid <= nextRid'
           /\ Staged(c) \in Seq(Change) /\ Staged(c) # << >>
           /\ \A i \in 1 .. Len(Staged(c)) : Staged(c)[i].rid < nextRid'
  <1>1. scenario.stmts \in Nat
    BY DEF Scenario
  <1>2. Write(c) /\ (kind = "put" => c.old = None /\ c.to = nextRid /\ c.rid = None)
    BY WriteIs
  <1>3. \A r \in Rids : r \in Nat /\ r # None /\ (r >= nextRid => heap[r] = None)
    BY DEF Rids, None
  <1>4. c \in Entry
    <2>1. c = [rid |-> c.rid, old |-> c.old, to |-> c.to, new |-> c.new]
      BY DEF Changes, Kinds
    <2>2. c.rid \in Nat /\ c.old \in Nat /\ c.to \in Nat /\ c.new \in Nat
      BY <1>1, <1>2, <1>3 DEF Write, None
    <2> QED BY <2>1, <2>2 DEF Entry
  <1>5. nextRid' \in 1 .. stmts + 2 /\ nextRid <= nextRid' /\ nextRid' \in Nat
    BY <1>1 DEF ApplyToHeap
  <1>6. /\ Staged(c) \in Seq(Change) /\ Staged(c) # << >>
        /\ \A i \in 1 .. Len(Staged(c)) : Staged(c)[i].rid \in {c.rid, c.to}
    BY <1>1, <1>2, StagedIs
  <1>7. c.rid < nextRid' /\ c.to < nextRid'
    <2>1. c.rid < nextRid
      BY <1>1, <1>2, <1>3 DEF Write, None
    <2>2. c.to = c.rid \/ c.to = None \/ (c.to = nextRid /\ nextRid' = nextRid + 1)
      BY <1>2 DEF Write, ApplyToHeap
    <2>3. c.rid \in Nat
      BY <1>4 DEF Entry
    <2> QED BY <1>1, <1>5, <2>1, <2>2, <2>3 DEF None
  <1>8. kind = "put" => c.to \in Rids
    BY <1>2, <1>3 DEF Write, None
  <1>9. heap' \in [Rids -> 0 .. stmts + 1] /\ \A r \in Rids : r >= nextRid' => heap'[r] = None
    <2> DEFINE new(r) == IF r = c.to THEN c.new ELSE IF r = c.rid THEN None ELSE heap[r]
    <2>1. heap' = [r \in Rids |-> new(r)]
      BY DEF ApplyToHeap
    <2>2. c.new = stmts + 1 \/ c.new = None
      BY <1>2 DEF Write
    <2>3. \A r \in Rids : new(r) \in 0 .. stmts + 1
      BY <2>2 DEF None
    <2>4. ASSUME NEW r \in Rids, r >= nextRid' PROVE new(r) = None
      <3>1. r # c.to /\ r >= nextRid
        BY <1>3, <1>4, <1>5, <1>7, <2>4 DEF Entry
      <3> QED BY <1>3, <3>1
    <2> QED BY <2>1, <2>3, <2>4
  <1> QED BY <1>2, <1>4, <1>5, <1>6, <1>7, <1>8, <1>9

\* What every row statement does, inside a transaction or outside.
LEMMA WriteFacts ==
    ASSUME IInv, stmts < scenario.stmts, NEW kind \in Kinds, NEW c \in Changes(kind),
           Possible(c), ApplyToHeap(c), scenario' = scenario
    PROVE  /\ Write(c) /\ c \in Entry
           /\ kind = "put" => c.old = None /\ c.to = nextRid /\ c.rid = None /\ c.to \in Rids
           /\ heap' \in [Rids -> 0 .. stmts + 1] /\ Distinct(heap')
           /\ RowsOf(heap') = (RowsOf(heap) \ Removed(c)) \cup Added(c)
           /\ nextRid' \in 1 .. stmts + 2 /\ nextRid <= nextRid'
           /\ Staged(c) \in Seq(Change) /\ Staged(c) # << >>
           /\ \A i \in 1 .. Len(Staged(c)) : Staged(c)[i].rid < nextRid'
           /\ All(heap, Staged(c)) = heap'
  <1>1. /\ scenario \in Scenario /\ stmts \in 0 .. scenario.stmts /\ nextRid \in 1 .. stmts + 1
        /\ heap \in [Rids -> 0 .. stmts] /\ scenario.stmts \in Nat
    BY DEF IInv, Types, Scenario
  <1>2. \A r \in Rids : r \in Nat /\ (r >= nextRid => heap[r] = None)
    BY NewestIs DEF Rids
  <1>3. /\ Write(c) /\ c \in Entry
        /\ kind = "put" => c.old = None /\ c.to = nextRid /\ c.rid = None /\ c.to \in Rids
        /\ heap' \in [Rids -> 0 .. stmts + 1]
        /\ nextRid' \in 1 .. stmts + 2 /\ nextRid <= nextRid'
        /\ Staged(c) \in Seq(Change) /\ Staged(c) # << >>
        /\ \A i \in 1 .. Len(Staged(c)) : Staged(c)[i].rid < nextRid'
    BY <1>1, <1>2, WriteTyped
  <1>4. Distinct(heap') /\ RowsOf(heap') = (RowsOf(heap) \ Removed(c)) \cup Added(c)
    <2>1. \A r \in Rids : r = nextRid => heap[r] = None
      BY <1>1, <1>2
    <2>2. Distinct(heap) /\ stmts \in Nat
      BY <1>1 DEF IInv, HeapInv
    <2> QED BY <1>1, <1>3, <2>1, <2>2, HeapAfter
  <1>5. All(heap, Staged(c)) = heap'
    BY <1>1, <1>3, StagedExact
  <1> QED BY <1>3, <1>4, <1>5

\* Record ids still free stay so when more are given out.
LEMMA BelowMore ==
    ASSUME NEW rows, NEW l \in Seq(Change), NEW n \in Nat, NEW m \in Nat, n <= m, Below(rows, l, n)
    PROVE  Below(rows, l, m)
  <1>1. \A r \in Rids : r \in Nat
    BY DEF Rids
  <1>2. \A i \in 1 .. Len(l) : l[i].rid \in Nat
    <2>1. \A i \in 1 .. Len(l) : l[i] \in Change
      OBVIOUS
    <2> QED BY <1>1, <2>1 DEF Change
  <1> QED BY <1>1, <1>2 DEF Below

\* A row statement inside a transaction.
LEMMA TxnWriteKeeps ==
    ASSUME IInv, NEW s \in scenario.sessions, NEW kind \in Kinds, NEW c \in Changes(kind),
           TxnWrite(s, kind, c)
    PROVE  IInv' /\ Grows /\ (SnapInv => SnapInv')
  <1> USE DEF TxnWrite, TxnChange, parting, life
  <1>1. s \in Sessions
    BY DEF IInv, Types, Scenario
  <1>2. /\ Write(c) /\ c \in Entry
        /\ kind = "put" => c.old = None /\ c.to = nextRid /\ c.rid = None /\ c.to \in Rids
        /\ heap' \in [Rids -> 0 .. stmts + 1] /\ Distinct(heap')
        /\ RowsOf(heap') = (RowsOf(heap) \ Removed(c)) \cup Added(c)
        /\ nextRid' \in 1 .. stmts + 2 /\ nextRid <= nextRid'
        /\ Staged(c) \in Seq(Change) /\ Staged(c) # << >>
        /\ \A i \in 1 .. Len(Staged(c)) : Staged(c)[i].rid < nextRid'
        /\ All(heap, Staged(c)) = heap'
    BY WriteFacts
  <1>3. /\ scenario \in Scenario /\ Sane(scenario) /\ stmts \in Nat /\ nextRid \in Nat
        /\ pending \in Seq(Change) /\ scenario.stmts \in Nat
    BY DEF IInv, Types, Scenario
  <1>4. scenario.inTxn # {} /\ \A t \in scenario.sessions : t = s
    BY <1>3 DEF Sane, Single
  <1>5. /\ pending' = pending \o Staged(c) /\ pending' \in Seq(Change) /\ pending' # << >>
        /\ \A i \in 1 .. Len(pending') :
              \/ i \in 1 .. Len(pending) /\ pending'[i] = pending[i]
              \/ i - Len(pending) \in 1 .. Len(Staged(c)) /\ pending'[i] = Staged(c)[i - Len(pending)]
    <2>1. /\ Staged(c) \in Seq(Change) /\ Len(Staged(c)) \in Nat /\ Len(Staged(c)) # 0
          /\ Len(pending) \in Nat
      BY <1>2, <1>3
    <2>2. /\ pending \o Staged(c) \in Seq(Change)
          /\ Len(pending \o Staged(c)) = Len(pending) + Len(Staged(c))
          /\ \A i \in 1 .. Len(pending) + Len(Staged(c)) : (pending \o Staged(c))[i] =
                IF i <= Len(pending) THEN pending[i] ELSE Staged(c)[i - Len(pending)]
      BY <1>3, <2>1, ConcatProperties
    <2>3. \A i \in 1 .. Len(pending) + Len(Staged(c)) :
             \/ i \in 1 .. Len(pending) /\ i <= Len(pending)
             \/ i - Len(pending) \in 1 .. Len(Staged(c)) /\ ~(i <= Len(pending))
      BY <2>1
    <2>4. pending \o Staged(c) # << >>
      BY <2>1, <2>2
    <2> HIDE DEF Staged
    <2> QED BY <2>2, <2>3, <2>4
  <1>6. own'[s] = [added |-> (own[s].added \ Removed(c)) \cup Added(c),
                   removed |-> own[s].removed \cup Removed(c)]
        /\ \A t \in Sessions : t # s => own'[t] = own[t]
    BY <1>1 DEF IInv, Types
  <1>7. undo'[s] = Append(undo[s], c) /\ \A t \in Sessions : t # s => undo'[t] = undo[t]
    BY <1>1 DEF IInv, Types
  <1> DEFINE rows == All(baseline, log)
  <1>8. Types'
    <2>1. Added(c) \in SUBSET Nat /\ Removed(c) \in SUBSET Nat
      BY <1>2 DEF Added, Removed, Entry
    <2>2. own' \in [Sessions -> [added : SUBSET Nat, removed : SUBSET Nat]]
      BY <1>1, <2>1 DEF IInv, Types
    <2>3. undo' \in [Sessions -> Seq(Entry)]
      <3>1. Append(undo[s], c) \in Seq(Entry)
        BY <1>1, <1>2 DEF IInv, Types
      <3> QED BY <3>1 DEF IInv, Types
    <2>4. nextRid' \in 1 .. stmts' + 1 /\ stmts' \in 0 .. scenario.stmts
      BY <1>2, <1>3 DEF IInv, Types
    <2>5. heap' \in [Rids -> 0 .. stmts']
      BY <1>2
    <2> QED BY <1>5, <2>2, <2>3, <2>4, <2>5, TypesPrimed DEF IInv, Types
  <1>9. LogInv'
    <2>1. nextRid' \in Nat
      BY <1>2, <1>3
    <2>2. Below(baseline, log, nextRid')
      <3>1. Below(baseline, log, nextRid) /\ log \in Seq(Change)
        BY DEF IInv, LogInv, Ordered
      <3> QED BY <1>2, <1>3, <2>1, <3>1, BelowMore
    <2>3. \A i \in 1 .. Len(pending) : pending[i].rid < nextRid'
      <3>1. \A i \in 1 .. Len(pending) : pending[i].rid < nextRid /\ pending[i] \in Change
        BY <1>3 DEF IInv, LogInv
      <3>2. \A i \in 1 .. Len(pending) : pending[i].rid \in Nat
        BY <3>1 DEF Change, Rids
      <3> QED BY <1>2, <1>3, <2>1, <3>1, <3>2
    <2>4. \A i \in 1 .. Len(pending') : pending'[i].rid < nextRid'
      BY <1>2, <1>5, <2>3
    <2> QED BY <2>2, <2>4, LogPrimed DEF IInv, LogInv
  <1>10. HeapInv'
    <2>1. All(rows, pending \o Staged(c)) = All(All(rows, pending), Staged(c))
      BY <1>2, <1>3, Replay
    <2>2. heap = All(rows, pending)
      BY DEF IInv, HeapInv
    <2> QED BY <1>2, <1>5, <2>1, <2>2, HeapPrimed
  <1>11. HistoryInv'
    <2>1. \A v : At(v)' = At(v)
      BY DEF At, Overlay, Positions, Rids
    <2> QED BY <2>1, HistoryPrimed DEF IInv, HistoryInv
  <1>12. TxnInv'
    <2>1. RowsOf(heap) = (committed \ own[s].removed) \cup own[s].added
      BY DEF IInv, TxnInv
    <2>2. RowsOf(heap') = (committed \ own'[s].removed) \cup own'[s].added
      BY <1>2, <1>6, <2>1
    <2>3. \A t \in Sessions : snapshot'[t] = NoSnapshot => own'[t] = NoOwn /\ undo'[t] = << >>
      BY <1>6, <1>7 DEF IInv, TxnInv, InTxn
    <2>4. \A t \in Sessions \ scenario.sessions : snapshot'[t] = NoSnapshot
      BY DEF IInv, TxnInv, InTxn
    <2>5. snapshot'[s] # NoSnapshot
      BY DEF InTxn
    <2> QED BY <1>1, <1>4, <1>5, <2>2, <2>3, <2>4, <2>5, TxnPrimed
  <1>13. UndoInv'
    <2>1. SUFFICES ASSUME scenario.undo
          PROVE  /\ \A t \in Sessions : \A i \in 1 .. Len(undo'[t]) :
                       /\ undo'[t][i].old = None /\ undo'[t][i].to \in Rids
                       /\ rows[undo'[t][i].to] = None
                 /\ \A j \in 1 .. Len(pending') : \E t \in scenario.sessions :
                       \E i \in 1 .. Len(undo'[t]) : undo'[t][i].to = pending'[j].rid
      BY UndoPrimed
    <2>2. c.old = None /\ c.to = nextRid /\ c.rid = None /\ c.to \in Rids
      BY <1>2, <1>3, <2>1 DEF Sane
    <2>3. rows[c.to] = None
      BY <1>3, <2>2, NewestIs
    <2> DEFINE u == undo[s]
    <2>4. u \in Seq(Entry) /\ Len(u) \in Nat
      BY <1>1 DEF IInv, Types
    <2> HIDE DEF rows, u
    <2>5. /\ Len(undo'[s]) = Len(u) + 1 /\ undo'[s][Len(u) + 1] = c
          /\ \A i \in 1 .. Len(u) : undo'[s][i] = u[i]
      BY <1>2, <1>7, <2>4 DEF u
    <2>6. \A t \in Sessions : \A i \in 1 .. Len(undo[t]) :
             undo[t][i].old = None /\ undo[t][i].to \in Rids /\ rows[undo[t][i].to] = None
      BY <2>1 DEF IInv, UndoInv, rows
    <2>7. ASSUME NEW t \in Sessions, NEW i \in 1 .. Len(undo'[t])
          PROVE  /\ undo'[t][i].old = None /\ undo'[t][i].to \in Rids
                 /\ rows[undo'[t][i].to] = None
      <3>1. CASE t # s
        BY <1>7, <2>6, <3>1
      <3>2. CASE t = s /\ i = Len(u) + 1
        BY <2>2, <2>3, <2>5, <3>2
      <3>3. CASE t = s /\ i # Len(u) + 1
        <4>1. i \in 1 .. Len(u) /\ undo'[t][i] = undo[s][i]
          BY <2>4, <2>5, <3>3 DEF u
        <4> QED BY <1>1, <2>6, <4>1 DEF u
      <3> QED BY <3>1, <3>2, <3>3
    <2>8. ASSUME NEW j \in 1 .. Len(pending')
          PROVE  \E i \in 1 .. Len(undo'[s]) : undo'[s][i].to = pending'[j].rid
      <3>1. CASE j \in 1 .. Len(pending) /\ pending'[j] = pending[j]
        <4>1. \E t \in scenario.sessions : \E i \in 1 .. Len(undo[t]) : undo[t][i].to = pending[j].rid
          BY <2>1, <3>1 DEF IInv, UndoInv
        <4>2. PICK i \in 1 .. Len(u) : u[i].to = pending'[j].rid
          BY <1>4, <3>1, <4>1 DEF u
        <4>3. i \in 1 .. Len(u) + 1
          BY <2>4, <4>2
        <4> QED BY <2>5, <4>2, <4>3
      <3>2. CASE j - Len(pending) \in 1 .. Len(Staged(c)) /\ pending'[j] = Staged(c)[j - Len(pending)]
        <4>1. pending'[j].rid \in {c.rid, c.to} /\ pending'[j].rid # None
          BY <1>2, <1>3, <3>2, StagedIs
        <4>2. Len(u) + 1 \in 1 .. Len(u) + 1
          BY <2>4
        <4> QED BY <2>2, <2>5, <4>1, <4>2
      <3> QED BY <1>5, <3>1, <3>2
    <2> QED BY <2>7, <2>8
  <1>14. ASSUME SnapInv PROVE SnapInv'
    <2>1. \A t \in Sessions : InTxn(t)' => InTxn(t)
      BY DEF InTxn, NoSnapshot
    <2> QED BY <1>4, <1>14, <2>1 DEF SnapInv, Single
  <1>15. Grows
    BY <1>2 DEF Grows, KnownInv, IInv, Types
  <1> QED BY <1>8, <1>9, <1>10, <1>11, <1>12, <1>13, <1>14, <1>15 DEF IInv

\* Outside transactions there is nothing to take back.
LEMMA Alone ==
    ASSUME IInv, NEW s \in scenario.sessions, ~InTxn(s)
    PROVE  /\ pending = << >> /\ heap = All(baseline, log)
           /\ \A t \in Sessions : undo[t] = << >> /\ own[t] = NoOwn
           /\ RowsOf(heap) = committed
           /\ Single(scenario) => Quiet
  <1>1. Single(scenario) => Quiet
    BY DEF Single, Quiet, IInv, TxnInv
  <1>2. scenario.inTxn # {} => Single(scenario)
    BY DEF IInv, Types, Sane
  <1>3. pending = << >>
    BY <1>1, <1>2 DEF IInv, TxnInv
  <1>4. \A t \in Sessions : undo[t] = << >> /\ own[t] = NoOwn
    <2>1. CASE scenario.inTxn = {}
      BY <1>3, <2>1 DEF IInv, TxnInv
    <2>2. CASE scenario.inTxn # {}
      BY <1>1, <1>2, <1>3, <2>2 DEF IInv, TxnInv, Quiet
    <2> QED BY <2>1, <2>2
  <1>5. RowsOf(heap) = committed
    <2>1. s \in Sessions
      BY DEF IInv, Types, Scenario
    <2>2. own[s].added = {} /\ own[s].removed = {}
      BY <1>4, <2>1 DEF NoOwn
    <2>3. RowsOf(heap) = (committed \ own[s].removed) \cup own[s].added
      BY DEF IInv, TxnInv
    <2> QED BY <2>2, <2>3
  <1> QED BY <1>1, <1>3, <1>4, <1>5, NewestIs

\* A version is appended to the history.
LEMMA HistoryGrows ==
    ASSUME IInv, scenario' = scenario, version' = version + 1, NEW rows,
           history' = Append(history, rows), committed' = rows, rows \in SUBSET Nat,
           baselineVersion' \in Nat, baselineVersion <= baselineVersion',
           Ordered(log', baselineVersion', version + 1),
           \A v \in Nat : baselineVersion' <= v /\ v <= version => At(v)' = At(v),
           Shows(All(baseline', log'), rows)
    PROVE  /\ HistoryInv'
           /\ \A v \in Nat : v <= version => history'[v + 1] = history[v + 1]
  <1>1. /\ history \in Seq(SUBSET Nat) /\ Len(history) = version + 1
        /\ version \in Nat /\ baselineVersion \in Nat
    BY DEF IInv, Types, HistoryInv
  <1>2. /\ history' \in Seq(SUBSET Nat) /\ Len(history') = version + 2
        /\ history'[version + 2] = rows
        /\ \A i \in 1 .. version + 1 : history'[i] = history[i]
    BY <1>1, AppendProperties
  <1>3. \A v \in Nat : v <= version => history'[v + 1] = history[v + 1]
    <2>1. \A v \in Nat : v <= version => v + 1 \in 1 .. version + 1
      BY <1>1
    <2> QED BY <1>2, <2>1
  <1>4. ASSUME NEW v, v = version + 1 PROVE At(v)' = All(baseline', log')
    <2>1. Positions(log', v) = 1 .. Len(log')
      BY <1>4 DEF Ordered, Positions
    <2>2. At(v)' = Overlay(baseline', log', Positions(log', v))
      BY DEF At, Overlay, Positions, Rids
    <2> QED BY <2>1, <2>2 DEF All
  <1>5. ASSUME NEW v \in Nat, baselineVersion' <= v, v <= version'
        PROVE  Shows(At(v)', history'[v + 1])
    <2>1. CASE v <= version
      <3>1. baselineVersion <= v
        BY <1>1, <1>5
      <3>2. Shows(At(v), history[v + 1])
        BY <2>1, <3>1 DEF IInv, HistoryInv
      <3> QED BY <1>3, <1>5, <2>1, <3>2
    <2>2. CASE ~(v <= version)
      <3>1. v = version + 1 /\ v + 1 = version + 2
        BY <1>1, <1>5, <2>2
      <3> QED BY <1>2, <1>4, <3>1
    <2> QED BY <2>1, <2>2
  <1>6. HistoryInv'
    <2>1. Len(history') = version' + 1 /\ history'[version' + 1] = committed'
      <3>1. version' + 1 = version + 2
        BY <1>1
      <3> QED BY <1>2, <3>1
    <2> QED BY <1>2, <1>5, <2>1, HistoryPrimed
  <1> QED BY <1>3, <1>6

\* A row statement outside a transaction.
LEMMA AutoWriteKeeps ==
    ASSUME IInv, NEW s \in scenario.sessions, NEW kind \in Kinds, NEW c \in Changes(kind),
           AutoWrite(s, kind, c)
    PROVE  IInv' /\ Grows /\ (Isolated(scenario) /\ SnapInv => SnapInv')
  <1> USE DEF AutoWrite, AutoChange, parting, life
  <1>1. /\ Write(c) /\ c \in Entry
        /\ heap' \in [Rids -> 0 .. stmts + 1] /\ Distinct(heap')
        /\ RowsOf(heap') = (RowsOf(heap) \ Removed(c)) \cup Added(c)
        /\ nextRid' \in 1 .. stmts + 2 /\ nextRid <= nextRid'
        /\ Staged(c) \in Seq(Change) /\ Staged(c) # << >>
        /\ \A i \in 1 .. Len(Staged(c)) : Staged(c)[i].rid < nextRid'
        /\ All(heap, Staged(c)) = heap'
    BY WriteFacts
  <1>2. /\ scenario \in Scenario /\ Sane(scenario) /\ stmts \in Nat /\ nextRid \in Nat
        /\ scenario.stmts \in Nat /\ baselineVersion \in Nat /\ version \in Nat
        /\ baselineVersion <= version
    BY DEF IInv, Types, Scenario
  <1>3. /\ pending = << >> /\ heap = All(baseline, log)
        /\ \A t \in Sessions : undo[t] = << >> /\ own[t] = NoOwn
        /\ RowsOf(heap) = committed
        /\ Single(scenario) => Quiet
    BY Alone
  <1>4. nextRid' \in Nat /\ version' = version + 1 /\ pending' = << >>
    BY <1>1, <1>2
  <1>5. /\ Ordered(log, baselineVersion, version) /\ log \in Seq(Change)
        /\ Below(baseline, log, nextRid)
    BY DEF IInv, LogInv, Ordered
  <1>6. Below(baseline, log, nextRid')
    BY <1>1, <1>2, <1>4, <1>5, BelowMore
  <1>7. /\ baselineVersion' \in Nat /\ baselineVersion <= baselineVersion'
        /\ baselineVersion' <= version + 1
        /\ scenario.retain >= version + 1 => baselineVersion' = baselineVersion
        /\ Ordered(log', baselineVersion', version + 1)
        /\ Below(baseline', log', nextRid')
        /\ \A v \in Nat : baselineVersion' <= v /\ v <= version => At(v)' = At(v)
        /\ All(baseline', log') = All(All(baseline, log), Staged(c))
        /\ log' # << >> \/ baselineVersion' > 0
    <2>1. Compact(log \o Stamped(Staged(c), version + 1),
                  Horizon(version + 1, log \o Stamped(Staged(c), version + 1)))
      OBVIOUS
    <2>2. scenario' = scenario
      OBVIOUS
    <2> HIDE DEF AutoWrite, AutoChange
    <2> QED BY <1>1, <1>2, <1>4, <1>5, <1>6, <2>1, <2>2, CommitExact
  <1>8. heap' = All(baseline', log')
    BY <1>1, <1>3, <1>7
  <1>9. committed' = RowsOf(heap') /\ history' = Append(history, committed')
    BY <1>1, <1>3
  <1>10. Types'
    <2>1. nextRid' \in 1 .. stmts' + 1 /\ stmts' \in 0 .. scenario.stmts
      BY <1>1, <1>2 DEF IInv, Types
    <2>2. heap' \in [Rids -> 0 .. stmts'] /\ pending' \in Seq(Change)
      BY <1>1
    <2>3. baselineVersion' \in Nat /\ version' \in Nat /\ baselineVersion' <= version'
      BY <1>2, <1>4, <1>7
    <2>4. /\ snapshot' \in [Sessions -> Nat] /\ undo' \in [Sessions -> Seq(Entry)]
          /\ base' \in [Sessions -> SUBSET Nat] /\ parted' = FALSE
          /\ own' \in [Sessions -> [added : SUBSET Nat, removed : SUBSET Nat]]
          /\ scenario' = scenario
      BY DEF IInv, Types
    <2> HIDE DEF AutoWrite, AutoChange
    <2> QED BY <1>2, <2>1, <2>2, <2>3, <2>4, TypesPrimed
  <1>11. LogInv'
    BY <1>4, <1>7, LogPrimed
  <1>12. HeapInv'
    <2> DEFINE rows == All(baseline', log')
    <2>1. rows = [r \in Rids |-> rows[r]]
      BY DEF All, Overlay
    <2> HIDE DEF rows
    <2>2. All(rows, << >>) = [r \in Rids |-> rows[r]]
      BY DEF All, Overlay
    <2> QED BY <1>1, <1>4, <1>8, <2>1, <2>2, HeapPrimed DEF rows
  <1>13. /\ HistoryInv'
         /\ \A v \in Nat : v <= version => history'[v + 1] = history[v + 1]
    <2>1. Shows(All(baseline', log'), committed')
      BY <1>1, <1>8, <1>9, ShowsIs
    <2>2. committed' \in SUBSET Nat
      BY <1>1, <1>2, <1>9 DEF RowsOf
    <2>3. scenario' = scenario
      OBVIOUS
    <2> HIDE DEF AutoWrite, AutoChange
    <2> QED BY <1>4, <1>7, <1>9, <2>1, <2>2, <2>3, HistoryGrows
  <1>14. TxnInv'
    <2>1. \A t \in scenario.sessions : own'[t] = NoOwn
      BY <1>2, <1>3 DEF Scenario
    <2>2. NoOwn.added = {} /\ NoOwn.removed = {}
      BY DEF NoOwn
    <2>3. \A t \in scenario.sessions :
             RowsOf(heap') = (committed' \ own'[t].removed) \cup own'[t].added
      BY <1>9, <2>1, <2>2
    <2>4. \A t \in Sessions \ scenario.sessions : snapshot'[t] = NoSnapshot
      BY DEF IInv, TxnInv, InTxn
    <2>5. undo' = undo /\ own' = own
      OBVIOUS
    <2> QED BY <1>3, <1>4, <2>3, <2>4, <2>5, TxnPrimed
  <1>15. UndoInv'
    BY <1>3, <1>4, UndoPrimed
  <1>16. ASSUME Isolated(scenario), SnapInv PROVE SnapInv'
    <2>1. ASSUME NEW t \in Sessions, InTxn(t)'
          PROVE  /\ baselineVersion' <= snapshot'[t] /\ snapshot'[t] <= version'
                 /\ base'[t] = history'[snapshot'[t] + 1]
                 /\ ~Single(scenario)
      <3>1. InTxn(t) /\ snapshot'[t] = snapshot[t] /\ base'[t] = base[t] /\ snapshot[t] \in Nat
        BY <2>1 DEF InTxn, NoSnapshot, IInv, Types
      <3>2. ~Single(scenario)
        BY <1>3, <3>1 DEF Quiet
      <3>3. /\ baselineVersion <= snapshot[t] /\ snapshot[t] <= version
            /\ base[t] = history[snapshot[t] + 1]
        BY <1>16, <3>1 DEF SnapInv
      <3>4. baselineVersion' = baselineVersion
        <4>1. scenario.retain \in Nat /\ scenario.retain >= scenario.stmts /\ version <= stmts
          BY <1>2, <1>16, <3>2 DEF Isolated, SnapInv, Scenario
        <4>2. scenario.retain >= version + 1
          BY <1>2, <4>1
        <4> QED BY <1>7, <4>2
      <3>5. history'[snapshot[t] + 1] = history[snapshot[t] + 1]
        BY <1>13, <3>1, <3>3
      <3>6. baselineVersion' <= snapshot[t] /\ snapshot[t] <= version'
        BY <1>2, <1>4, <3>1, <3>3, <3>4
      <3> QED BY <3>1, <3>2, <3>3, <3>5, <3>6
    <2>2. scenario.inTxn = {} => version' <= stmts'
      BY <1>2, <1>16 DEF SnapInv
    <2> QED BY <2>1, <2>2 DEF SnapInv, Single
  <1>17. Grows
    <2>1. version <= version' /\ KnownInv'
      BY <1>2, <1>4, <1>7 DEF KnownInv
    <2> HIDE DEF AutoWrite, AutoChange
    <2> QED BY <1>1, <1>13, <2>1 DEF Grows
  <1> QED BY <1>10, <1>11, <1>12, <1>13, <1>14, <1>15, <1>16, <1>17 DEF IInv

\* What SAVE and UNDO leave of the sessions: the one that ends its transaction
\* has written nothing any more, and nothing is staged.
LEMMA EndKeeps ==
    ASSUME IInv, NEW s \in scenario.sessions, EndTxn(s), scenario' = scenario,
           pending = << >> \/ Single(scenario), pending' = << >>,
           RowsOf(heap') = committed'
    PROVE  /\ TxnInv' /\ \A t \in Sessions : undo'[t] = << >> \/ undo'[t] = undo[t]
           /\ snapshot' \in [Sessions -> Nat] /\ undo' \in [Sessions -> Seq(Entry)]
           /\ base' \in [Sessions -> SUBSET Nat]
           /\ own' \in [Sessions -> [added : SUBSET Nat, removed : SUBSET Nat]]
           /\ \A t \in Sessions : own'[t] = NoOwn
           /\ Single(scenario) => \A t \in Sessions : undo'[t] = << >>
           /\ \A t \in Sessions : InTxn(t)' => /\ InTxn(t) /\ t # s
                                               /\ snapshot'[t] = snapshot[t] /\ base'[t] = base[t]
  <1> USE DEF EndTxn
  <1>1. /\ snapshot \in [Sessions -> Nat] /\ undo \in [Sessions -> Seq(Entry)]
        /\ base \in [Sessions -> SUBSET Nat]
        /\ own \in [Sessions -> [added : SUBSET Nat, removed : SUBSET Nat]]
        /\ s \in Sessions /\ scenario.sessions \in SUBSET Sessions
        /\ NoSnapshot \in Nat /\ NoOwn \in [added : SUBSET Nat, removed : SUBSET Nat]
    BY DEF IInv, Types, Scenario, NoSnapshot, NoOwn
  <1>2. /\ snapshot'[s] = NoSnapshot /\ undo'[s] = << >> /\ own'[s] = NoOwn
        /\ \A t \in Sessions : t # s => /\ snapshot'[t] = snapshot[t] /\ undo'[t] = undo[t]
                                        /\ own'[t] = own[t] /\ base'[t] = base[t]
    BY <1>1
  <1>3. /\ snapshot' \in [Sessions -> Nat] /\ undo' \in [Sessions -> Seq(Entry)]
        /\ base' \in [Sessions -> SUBSET Nat]
        /\ own' \in [Sessions -> [added : SUBSET Nat, removed : SUBSET Nat]]
    BY <1>1
  <1>4. Single(scenario) => \A t \in Sessions : t # s => ~InTxn(t)
    BY <1>1 DEF Single, IInv, TxnInv
  <1>5. \A t \in Sessions : t # s => own[t] = NoOwn
    <2>1. CASE pending = << >>
      BY <2>1 DEF IInv, TxnInv
    <2>2. CASE Single(scenario)
      BY <1>4, <2>2 DEF IInv, TxnInv
    <2> QED BY <2>1, <2>2
  <1>6. \A t \in Sessions : own'[t] = NoOwn
    BY <1>2, <1>5
  <1>7. Single(scenario) => \A t \in Sessions : undo'[t] = << >>
    BY <1>2, <1>4 DEF IInv, TxnInv
  <1>8. \A t \in Sessions : snapshot'[t] = NoSnapshot => undo'[t] = << >>
    BY <1>2 DEF IInv, TxnInv, InTxn
  <1>9. TxnInv'
    <2>1. NoOwn.added = {} /\ NoOwn.removed = {}
      BY DEF NoOwn
    <2>2. \A t \in scenario.sessions :
             RowsOf(heap') = (committed' \ own'[t].removed) \cup own'[t].added
      BY <1>1, <1>6, <2>1
    <2>3. \A t \in Sessions \ scenario.sessions : snapshot'[t] = NoSnapshot
      BY <1>2 DEF IInv, TxnInv, InTxn
    <2>4. scenario.inTxn = {} => \A t \in Sessions : undo'[t] = << >>
      BY <1>2 DEF IInv, TxnInv
    <2> HIDE DEF EndTxn
    <2> QED BY <1>6, <1>8, <2>2, <2>3, <2>4, TxnPrimed
  <1>10. \A t \in Sessions : InTxn(t)' => /\ InTxn(t) /\ t # s
                                          /\ snapshot'[t] = snapshot[t] /\ base'[t] = base[t]
    BY <1>2 DEF InTxn, NoSnapshot
  <1> HIDE DEF EndTxn
  <1> QED BY <1>2, <1>3, <1>6, <1>7, <1>9, <1>10

\* SAVE.
LEMMA SaveKeeps ==
    ASSUME IInv, NEW s \in scenario.sessions, Save(s)
    PROVE  IInv' /\ Grows /\ (SnapInv => SnapInv')
  <1>1. /\ InTxn(s) /\ committed' = (committed \ own[s].removed) \cup own[s].added
        /\ CommitPending(committed') /\ EndTxn(s)
        /\ UNCHANGED <<heap, nextRid, scenario, parted, stmts>>
    BY DEF Save, parting, life
  <1>2. /\ scenario \in Scenario /\ Sane(scenario) /\ nextRid \in Nat /\ pending \in Seq(Change)
        /\ baselineVersion \in Nat /\ version \in Nat /\ baselineVersion <= version
        /\ nextRid \in 1 .. stmts + 1 /\ stmts \in 0 .. scenario.stmts
        /\ heap \in [Rids -> 0 .. stmts] /\ parted = FALSE
    BY DEF IInv, Types
  <1>3. committed' = RowsOf(heap')
    BY <1>1 DEF IInv, TxnInv, RowsOf, Rids, None
  <1>4. pending = << >> \/ Single(scenario)
    BY <1>2 DEF Sane, IInv, TxnInv
  <1>5. pending' = << >>
    BY <1>1 DEF CommitPending, store
  <1>6. /\ TxnInv' /\ \A t \in Sessions : undo'[t] = << >> \/ undo'[t] = undo[t]
        /\ snapshot' \in [Sessions -> Nat] /\ undo' \in [Sessions -> Seq(Entry)]
        /\ base' \in [Sessions -> SUBSET Nat]
        /\ own' \in [Sessions -> [added : SUBSET Nat, removed : SUBSET Nat]]
        /\ \A t \in Sessions : own'[t] = NoOwn
        /\ Single(scenario) => \A t \in Sessions : undo'[t] = << >>
        /\ \A t \in Sessions : InTxn(t)' => /\ InTxn(t) /\ t # s
                                            /\ snapshot'[t] = snapshot[t] /\ base'[t] = base[t]
    BY <1>1, <1>3, <1>4, <1>5, EndKeeps
  <1>7. CASE pending = << >>
    <2>1. UNCHANGED store /\ history' = history
      BY <1>1, <1>7 DEF CommitPending
    <2>2. committed' = committed
      <3>1. own[s] = NoOwn
        BY <1>7 DEF IInv, TxnInv, Types, Scenario
      <3> QED BY <1>1, <3>1 DEF NoOwn
    <2>3. LogInv' /\ HeapInv' /\ HistoryInv'
      BY <1>1, <2>1, <2>2, StoreKept DEF IInv
    <2>4. Types'
      <3>1. baselineVersion' = baselineVersion /\ version' = version
        BY <2>1 DEF store
      <3>2. pending' \in Seq(Change)
        BY <1>5
      <3> QED BY <1>1, <1>2, <1>6, <3>1, <3>2, TypesPrimed
    <2>5. UndoInv'
      <3>1. baseline' = baseline /\ log' = log
        BY <2>1 DEF store
      <3> QED BY <1>1, <1>5, <1>6, <3>1, UndoPrimed DEF IInv, UndoInv
    <2>6. ASSUME SnapInv PROVE SnapInv'
      BY <1>1, <1>6, <2>1, <2>6 DEF SnapInv, store, Single
    <2>7. Grows
      BY <1>1, <1>2, <2>1 DEF Grows, KnownInv, store
    <2> QED BY <1>6, <2>3, <2>4, <2>5, <2>6, <2>7 DEF IInv
  <1>8. CASE pending # << >>
    <2>1. /\ version' = version + 1 /\ history' = Append(history, committed')
          /\ Compact(log \o Stamped(pending, version + 1),
                     Horizon(version + 1, log \o Stamped(pending, version + 1)))
      BY <1>1, <1>8 DEF CommitPending
    <2>2. /\ Ordered(log, baselineVersion, version) /\ Below(baseline, log, nextRid)
          /\ \A i \in 1 .. Len(pending) : pending[i].rid < nextRid
      BY DEF IInv, LogInv
    <2>3. /\ baselineVersion' \in Nat /\ baselineVersion <= baselineVersion'
          /\ baselineVersion' <= version + 1
          /\ Ordered(log', baselineVersion', version + 1)
          /\ Below(baseline', log', nextRid)
          /\ \A v \in Nat : baselineVersion' <= v /\ v <= version => At(v)' = At(v)
          /\ All(baseline', log') = All(All(baseline, log), pending)
          /\ log' # << >> \/ baselineVersion' > 0
      BY <1>1, <1>2, <1>8, <2>1, <2>2, CommitExact
    <2>4. heap = All(baseline', log') /\ heap' = heap /\ Distinct(heap')
      BY <1>1, <2>3 DEF IInv, HeapInv, Distinct, Rids, None
    <2>5. /\ Single(scenario) /\ scenario' = scenario /\ nextRid' = nextRid
          /\ \A t \in Sessions : undo'[t] = << >>
      BY <1>1, <1>4, <1>6, <1>8
    <2>6. Types'
      <3>1. version' \in Nat /\ baselineVersion' <= version'
        BY <1>2, <2>1, <2>3
      <3>2. pending' \in Seq(Change)
        BY <1>5
      <3> QED BY <1>1, <1>2, <1>6, <2>3, <3>1, <3>2, TypesPrimed
    <2>7. LogInv'
      BY <1>5, <2>1, <2>3, <2>5, LogPrimed
    <2>8. HeapInv'
      <3> DEFINE rows == All(baseline', log')
      <3>1. rows = [r \in Rids |-> rows[r]]
        BY DEF All, Overlay
      <3> HIDE DEF rows
      <3>2. All(rows, << >>) = [r \in Rids |-> rows[r]]
        BY DEF All, Overlay
      <3> QED BY <1>5, <2>4, <2>5, <3>1, <3>2, HeapPrimed DEF rows
    <2>9. HistoryInv' /\ \A v \in Nat : v <= version => history'[v + 1] = history[v + 1]
      <3>1. Shows(All(baseline', log'), committed')
        BY <1>3, <2>4, ShowsIs
      <3>2. committed' \in SUBSET Nat
        BY <1>2, <1>3, <2>4 DEF RowsOf
      <3> QED BY <2>1, <2>3, <2>5, <3>1, <3>2, HistoryGrows
    <2>10. UndoInv'
      BY <1>5, <2>5, UndoPrimed
    <2>11. ASSUME SnapInv PROVE SnapInv'
      <3>1. \A t \in Sessions : ~InTxn(t)'
        BY <1>6, <2>5 DEF Single, IInv, TxnInv
      <3>2. scenario.inTxn # {}
        BY <1>8 DEF IInv, TxnInv
      <3> QED BY <2>5, <3>1, <3>2 DEF SnapInv
    <2>12. Grows
      <3>1. version <= version' /\ KnownInv'
        BY <1>2, <2>1, <2>3 DEF KnownInv
      <3>2. nextRid <= nextRid'
        BY <1>2, <2>5
      <3> QED BY <2>9, <3>1, <3>2 DEF Grows
    <2> QED BY <1>6, <2>6, <2>7, <2>8, <2>9, <2>10, <2>11, <2>12 DEF IInv
  <1> QED BY <1>7, <1>8

\* UNDO: the inserts of the transaction are taken back, and the heap is again the
\* newest version.
LEMMA RollbackKeeps ==
    ASSUME IInv, NEW s \in scenario.sessions, Rollback(s)
    PROVE  IInv' /\ Grows /\ (SnapInv => SnapInv')
  <1>1. /\ InTxn(s) /\ scenario.undo /\ heap' = Restored(s) /\ nextRid' = nextRid + Reinserted(s)
        /\ pending' = << >> /\ EndTxn(s)
        /\ UNCHANGED <<scenario, log, baseline, baselineVersion, version, committed, history,
                       parted, stmts>>
    BY DEF Rollback, parting, life
  <1>2. /\ scenario \in Scenario /\ Sane(scenario) /\ nextRid \in Nat /\ pending \in Seq(Change)
        /\ baselineVersion \in Nat /\ version \in Nat /\ baselineVersion <= version
        /\ nextRid \in 1 .. stmts + 1 /\ stmts \in 0 .. scenario.stmts
        /\ heap \in [Rids -> 0 .. stmts] /\ parted = FALSE /\ s \in Sessions
        /\ undo[s] \in Seq(Entry)
    BY DEF IInv, Types, Scenario
  <1> DEFINE u == undo[s]
             rows == All(baseline, log)
             olds == {i \in 1 .. Len(u) : u[i].old # None}
  <1>3. \A i \in 1 .. Len(u) : u[i].old = None /\ u[i].to \in Rids /\ rows[u[i].to] = None
    BY <1>1, <1>2 DEF IInv, UndoInv
  <1>4. olds = {}
    BY <1>3
  <1>5. nextRid' = nextRid
    <2>1. Reinserted(s) = Cardinality(olds)
      BY DEF Reinserted
    <2> HIDE DEF olds
    <2>2. Reinserted(s) = 0
      BY <1>4, <2>1, FS_EmptySet
    <2> QED BY <1>1, <1>2, <2>2
  <1>6. heap' = [r \in Rids |-> IF \E i \in 1 .. Len(u) : u[i].to = r THEN None ELSE heap[r]]
    <2> DEFINE place(i) == nextRid + Cardinality({j \in olds : j > i})
    <2>1. heap' = [r \in Rids |-> IF \E i \in olds : r = place(i)
                                  THEN u[CHOOSE i \in olds : r = place(i)].old
                                  ELSE IF \E i \in 1 .. Len(u) : u[i].to = r THEN None
                                  ELSE heap[r]]
      BY <1>1 DEF Restored
    <2> HIDE DEF place, olds, u
    <2>2. \A r : ~ \E i \in olds : r = place(i)
      BY <1>4
    <2> QED BY <2>1, <2>2
  <1>7. pending = << >> \/ Single(scenario)
    BY <1>2 DEF Sane, IInv, TxnInv
  <1> HIDE DEF olds
  <1>8. ASSUME NEW r \in Rids, ~ \E i \in 1 .. Len(u) : u[i].to = r
        PROVE  heap[r] = rows[r]
    <2>1. CASE pending = << >>
      BY <2>1, NewestIs
    <2>2. CASE Single(scenario)
      <3>1. ASSUME NEW j \in 1 .. Len(pending) PROVE pending[j].rid # r
        <4>1. \E t \in scenario.sessions : \E i \in 1 .. Len(undo[t]) : undo[t][i].to = pending[j].rid
          BY <1>1 DEF IInv, UndoInv
        <4>2. \E i \in 1 .. Len(u) : u[i].to = pending[j].rid
          BY <2>2, <4>1 DEF Single
        <4> QED BY <1>8, <4>2
      <3>2. NoneOf(pending, 1 .. Len(pending), r)
        BY <3>1 DEF NoneOf
      <3> HIDE DEF rows
      <3>3. RowAfter(rows, pending, 1 .. Len(pending), r) = rows[r]
        BY <3>2, OverlayNone
      <3>4. heap = All(rows, pending)
        BY DEF IInv, HeapInv, rows
      <3> QED BY <3>3, <3>4 DEF All, RowAfter
    <2> QED BY <1>7, <2>1, <2>2
  <1>9. heap' = rows
    <2>1. rows = [r \in Rids |-> rows[r]]
      BY DEF All, Overlay
    <2> HIDE DEF rows, u
    <2>2. \A r \in Rids : heap'[r] = rows[r]
      BY <1>3, <1>6, <1>8
    <2> QED BY <1>6, <2>1, <2>2
  <1>10. Shows(rows, committed)
    BY NewestIs
  <1>11. RowsOf(heap') = committed' /\ Distinct(heap')
    BY <1>1, <1>9, <1>10, ShowsIs
  <1>12. /\ TxnInv' /\ \A t \in Sessions : undo'[t] = << >> \/ undo'[t] = undo[t]
         /\ snapshot' \in [Sessions -> Nat] /\ undo' \in [Sessions -> Seq(Entry)]
         /\ base' \in [Sessions -> SUBSET Nat]
         /\ own' \in [Sessions -> [added : SUBSET Nat, removed : SUBSET Nat]]
         /\ \A t \in Sessions : InTxn(t)' => /\ InTxn(t) /\ t # s
                                             /\ snapshot'[t] = snapshot[t] /\ base'[t] = base[t]
    BY <1>1, <1>7, <1>11, EndKeeps
  <1>13. Types'
    <2>1. heap' \in [Rids -> 0 .. stmts']
      BY <1>1, <1>2, <1>6 DEF None
    <2>2. pending' \in Seq(Change)
      BY <1>1
    <2> HIDE DEF u, rows
    <2> QED BY <1>1, <1>2, <1>5, <1>12, <2>1, <2>2, TypesPrimed
  <1>14. LogInv'
    BY <1>1, <1>5, LogPrimed DEF IInv, LogInv
  <1>15. HeapInv'
    <2>1. rows = [r \in Rids |-> rows[r]]
      BY DEF All, Overlay
    <2>2. rows = All(baseline', log')
      BY <1>1
    <2> HIDE DEF rows
    <2>3. All(rows, << >>) = [r \in Rids |-> rows[r]]
      BY DEF All, Overlay
    <2> QED BY <1>1, <1>9, <1>11, <2>1, <2>2, <2>3, HeapPrimed
  <1>16. HistoryInv'
    <2>1. \A v : At(v)' = At(v)
      BY <1>1 DEF At, Overlay, Positions, Rids
    <2> QED BY <1>1, <2>1, HistoryPrimed DEF IInv, HistoryInv
  <1>17. UndoInv'
    BY <1>1, <1>12, UndoPrimed DEF IInv, UndoInv
  <1>18. ASSUME SnapInv PROVE SnapInv'
    BY <1>1, <1>12, <1>18 DEF SnapInv, Single
  <1>19. Grows
    BY <1>1, <1>2, <1>5 DEF Grows, KnownInv
  <1> QED BY <1>12, <1>13, <1>14, <1>15, <1>16, <1>17, <1>18, <1>19 DEF IInv

----------------------------------------------------------------------------
(* The theorems.                                                           *)

LEMMA NextKeeps ==
    ASSUME IInv, [Next]_vars, ~parted'
    PROVE  IInv' /\ Grows /\ (Isolated(scenario) /\ SnapInv => SnapInv')
  <1>1. ASSUME NEW s \in scenario.sessions, Start(s)
        PROVE  IInv' /\ Grows /\ (Isolated(scenario) /\ SnapInv => SnapInv')
    BY <1>1, StartKeeps
  <1>2. ASSUME NEW s \in scenario.sessions, Save(s)
        PROVE  IInv' /\ Grows /\ (Isolated(scenario) /\ SnapInv => SnapInv')
    BY <1>2, SaveKeeps
  <1>3. ASSUME NEW s \in scenario.sessions, Rollback(s)
        PROVE  IInv' /\ Grows /\ (Isolated(scenario) /\ SnapInv => SnapInv')
    BY <1>3, RollbackKeeps
  <1>4. ASSUME NEW s \in scenario.sessions, NEW kind \in Kinds, NEW c \in Changes(kind),
               TxnWrite(s, kind, c)
        PROVE  IInv' /\ Grows /\ (Isolated(scenario) /\ SnapInv => SnapInv')
    BY <1>4, TxnWriteKeeps
  <1>5. ASSUME NEW s \in scenario.sessions, NEW kind \in Kinds, NEW c \in Changes(kind),
               AutoWrite(s, kind, c)
        PROVE  IInv' /\ Grows /\ (Isolated(scenario) /\ SnapInv => SnapInv')
    BY <1>5, AutoWriteKeeps
  <1>6. CASE Checkpoint
    BY <1>6, Kept DEF Checkpoint, parting, life
  <1>7. CASE CleanRestart
    BY <1>7, CleanRestartKeeps DEF CleanRestart
  <1>8. /\ ~CrashRestart
        /\ \A s, kind, c : ~TxnCascade(s, kind, c) /\ ~AutoCascade(s, kind, c)
    BY DEF CrashRestart, TxnCascade, AutoCascade, Diverge
  <1>9. CASE UNCHANGED vars
    BY <1>9, Kept DEF vars, store, ghosts, parting, life
  <1> QED BY <1>1, <1>2, <1>3, <1>4, <1>5, <1>6, <1>7, <1>8, <1>9 DEF Next

\* Once heap and store have parted, they stay so.
LEMMA PartedStays ==
    ASSUME [Next]_vars
    PROVE  scenario' = scenario /\ (parted => parted')
  BY DEF Next, Start, Save, Rollback, TxnWrite, AutoWrite, TxnChange, AutoChange, TxnCascade,
         AutoCascade, Diverge, Checkpoint, CleanRestart, CrashRestart, life, parting, vars

\* The inductive invariant holds of every such workload until the program dies or
\* a REMOVE of another table cascades to this one.
THEOREM StoreInvariant == Sane(scenario) /\ Spec => [](~parted => IInv)
  <1>1. Sane(scenario) /\ Init => (~parted => IInv)
    BY InitHolds
  <1>2. (~parted => IInv) /\ [Next]_vars => (~parted => IInv)'
    BY NextKeeps, PartedStays
  <1> QED BY <1>1, <1>2, PTL DEF Spec

\* AS OF any version from the garbage-collection horizon on shows the table as it
\* was committed at that version (VersionStore::snapshotAsOf, gc), until the
\* program dies or a REMOVE of another table cascades to this one.
THEOREM TimeTravel == Sane(scenario) /\ Spec => []AsOfExact
  <1>1. ASSUME IInv PROVE AsOfExact
    <2>1. ASSUME NEW v \in baselineVersion .. version
          PROVE  Shows(SnapshotAsOf(v), history[v + 1])
      <3>1. v \in Nat /\ baselineVersion <= v /\ v <= version
        BY <1>1 DEF IInv, Types
      <3>2. SnapshotAsOf(v) = At(v)
        <4>1. Clamp(v) = v
          BY <1>1, <3>1 DEF Clamp, IInv, Types
        <4>2. UpTo(log, v) = Positions(log, v)
          BY <1>1, <3>1, OrderedUpTo DEF IInv, LogInv
        <4> QED BY <4>1, <4>2 DEF SnapshotAsOf, Reconstruct, At
      <3> QED BY <1>1, <3>1, <3>2 DEF IInv, HistoryInv
    <2> QED BY <2>1 DEF AsOfExact
  <1>2. (~parted => IInv) => AsOfExact
    BY <1>1 DEF AsOfExact
  <1> QED BY <1>2, StoreInvariant, PTL

\* Between transactions the newest version shows the rows a scan of the heap finds,
\* as long as every row change is staged: until the program dies or a REMOVE of
\* another table cascades to this one (executor_engine.cpp:848-912).
THEOREM StoreFollowsHeap == Sane(scenario) /\ Spec => []NewestIsHeap
  <1>1. ASSUME IInv, Quiet PROVE Shows(SnapshotAsOf(version), {heap[r] : r \in Rids} \ {None})
    <2>1. version \in Nat /\ baselineVersion \in Nat /\ baselineVersion <= version
      BY <1>1 DEF IInv, Types
    <2>2. SnapshotAsOf(version) = At(version)
      <3>1. Clamp(version) = version
        BY <2>1 DEF Clamp
      <3>2. UpTo(log, version) = Positions(log, version)
        BY <1>1, <2>1, OrderedUpTo DEF IInv, LogInv
      <3> QED BY <3>1, <3>2 DEF SnapshotAsOf, Reconstruct, At
    <2>3. At(version) = heap
      BY <1>1, NewestIs DEF IInv, TxnInv
    <2>4. Shows(heap, RowsOf(heap))
      BY <1>1, ShowsIs DEF IInv, HeapInv
    <2> QED BY <2>2, <2>3, <2>4 DEF RowsOf
  <1>2. (~parted => IInv) => NewestIsHeap
    BY <1>1 DEF NewestIsHeap
  <1> QED BY <1>2, StoreInvariant, PTL

\* A transaction reads the rows committed when it started and its own writes
\* (VersionStore::snapshotForTxn), in the workloads named by Isolated, until the
\* program dies or a REMOVE of another table cascades to this one.
THEOREM SnapshotReads ==
    Sane(scenario) /\ Isolated(scenario) /\ Spec => []SnapshotExact
  <1> DEFINE Inv == Isolated(scenario) /\ (~parted => IInv /\ SnapInv)
  <1>1. Sane(scenario) /\ Isolated(scenario) /\ Init => Inv
    BY InitHolds
  <1>2. Inv /\ [Next]_vars => Inv'
    <2>1. scenario' = scenario => (Isolated(scenario) => Isolated(scenario)')
      BY DEF Isolated, Single
    <2> QED BY <2>1, NextKeeps, PartedStays
  <1>3. ASSUME IInv, Isolated(scenario), SnapInv PROVE SnapshotExact
    <2>1. ASSUME NEW s \in Sessions, InTxn(s)
          PROVE  Shows(SnapshotForTxn(snapshot[s]), (base[s] \ own[s].removed) \cup own[s].added)
      <3> DEFINE v == snapshot[s]
      <3>1. /\ v \in Nat /\ baselineVersion <= v /\ v <= version
            /\ base[s] = history[v + 1] /\ (Single(scenario) => v = version)
            /\ baselineVersion \in Nat /\ version \in Nat
        BY <1>3, <2>1 DEF IInv, Types, SnapInv
      <3> HIDE DEF v
      <3>2. SnapshotForTxn(v) = All(At(v), pending)
        <4>1. Clamp(v) = v
          BY <3>1 DEF Clamp
        <4>2. UpTo(log, v) = Positions(log, v)
          BY <1>3, <3>1, OrderedUpTo DEF IInv, LogInv
        <4> QED BY <4>1, <4>2 DEF SnapshotForTxn, Reconstruct, At, All
      <3>3. CASE Single(scenario)
        <4>1. SnapshotForTxn(v) = heap
          BY <1>3, <3>1, <3>2, <3>3, NewestIs DEF IInv, HeapInv
        <4>2. s \in scenario.sessions
          BY <1>3, <2>1 DEF IInv, TxnInv
        <4>3. RowsOf(heap) = (committed \ own[s].removed) \cup own[s].added
          BY <1>3, <4>2 DEF IInv, TxnInv
        <4>4. base[s] = committed
          BY <1>3, <3>1, <3>3 DEF IInv, HistoryInv
        <4>5. Distinct(heap)
          BY <1>3 DEF IInv, HeapInv
        <4> QED BY <4>1, <4>3, <4>4, <4>5, ShowsIs DEF v
      <3>4. CASE ~Single(scenario)
        <4>1. pending = << >> /\ own[s] = NoOwn
          BY <1>3, <3>4 DEF Isolated, IInv, TxnInv
        <4>2. All(At(v), << >>) = At(v)
          BY DEF All, At, Overlay
        <4>3. Shows(At(v), history[v + 1])
          BY <1>3, <3>1 DEF IInv, HistoryInv
        <4>4. (base[s] \ own[s].removed) \cup own[s].added = base[s]
          BY <4>1 DEF NoOwn
        <4> QED BY <3>1, <3>2, <4>1, <4>2, <4>3, <4>4 DEF v
      <3> QED BY <3>3, <3>4
    <2> QED BY <2>1 DEF SnapshotExact
  <1>4. Inv => SnapshotExact
    BY <1>3 DEF SnapshotExact
  <1> HIDE DEF Inv
  <1> QED BY <1>1, <1>2, <1>4, PTL DEF Spec

----------------------------------------------------------------------------
(* After a crash or a cascaded REMOVE.  The store goes back to the version *)
(* file, or misses a change, and the heap does not: only the versions up   *)
(* to one of them, n, are known to be exact.                               *)

\* The store in order, and exact up to version n.
Past(n) ==
    /\ scenario \in Scenario /\ Sane(scenario)
    /\ stmts \in 0 .. scenario.stmts /\ nextRid \in 1 .. stmts + 1
    /\ heap \in [Rids -> 0 .. stmts] /\ \A r \in Rids : r >= nextRid => heap[r] = None
    /\ baselineVersion \in Nat /\ version \in Nat /\ baselineVersion <= version
    /\ Ordered(log, baselineVersion, version) /\ Below(baseline, log, nextRid)
    /\ pending \in Seq(Change) /\ \A i \in 1 .. Len(pending) : pending[i].rid < nextRid
    /\ undo \in [Sessions -> Seq(Entry)]
    /\ scenario.undo => \A s \in Sessions : \A i \in 1 .. Len(undo[s]) : undo[s][i].old = None
    /\ committed \in SUBSET Nat
    /\ own \in [Sessions -> [added : SUBSET Nat, removed : SUBSET Nat]]
    /\ history \in Seq(SUBSET Nat) /\ Len(history) = version + 1
    /\ n <= version
    /\ \A v \in Nat : baselineVersion <= v /\ v <= n /\ v > 0 => Shows(At(v), history[v + 1])

\* The version file in order, exact up to version n, and naming the table if it
\* holds a version.
FileInv(n) ==
    /\ file.version \in Nat /\ file.version <= version
    /\ file.baselineVersion \in Nat /\ file.baselineVersion <= file.version
    /\ Ordered(file.log, file.baselineVersion, file.version)
    /\ IF file.known THEN Below(file.baseline, file.log, nextRid) ELSE file.version = 0
    /\ file.version > 0 => file.log # << >> \/ file.baselineVersion > 0
    /\ \A v \in Nat : file.baselineVersion <= v /\ v <= file.version /\ v <= n /\ v > 0 =>
          Shows(Overlay(file.baseline, file.log, Positions(file.log, v)), history[v + 1])

Filed(n) == KnownInv /\ FileInv(n)

\* What holds until the store and the heap part: of every version there is.
Before ==
    /\ IInv /\ Filed(version)
    /\ exactTo \in Nat /\ exactTo <= version

LEMMA PastPrimed ==
    ASSUME NEW n \in Nat, scenario' = scenario, scenario \in Scenario, Sane(scenario),
           stmts' \in 0 .. scenario.stmts, nextRid' \in 1 .. stmts' + 1,
           heap' \in [Rids -> 0 .. stmts'], \A r \in Rids : r >= nextRid' => heap'[r] = None,
           baselineVersion' \in Nat, version' \in Nat, baselineVersion' <= version',
           Ordered(log', baselineVersion', version'), Below(baseline', log', nextRid'),
           pending' \in Seq(Change), \A i \in 1 .. Len(pending') : pending'[i].rid < nextRid',
           undo' \in [Sessions -> Seq(Entry)],
           scenario.undo =>
              \A s \in Sessions : \A i \in 1 .. Len(undo'[s]) : undo'[s][i].old = None,
           committed' \in SUBSET Nat,
           own' \in [Sessions -> [added : SUBSET Nat, removed : SUBSET Nat]],
           history' \in Seq(SUBSET Nat), Len(history') = version' + 1, n <= version',
           \A v \in Nat : baselineVersion' <= v /\ v <= n /\ v > 0 =>
              Shows(At(v)', history'[v + 1])
    PROVE  Past(n)'
  <1>1. \A v : Shows(At(v), history[v + 1])' <=> Shows(At(v)', history'[v + 1])
    BY DEF Shows, Rids, None
  <1>2. Rids' = Rids /\ Change' = Change /\ None' = None /\ Sane(scenario)'
    BY DEF Rids, Change, None, Sane, Single
  <1>3. Ordered(log, baselineVersion, version)' /\ Below(baseline, log, nextRid)'
    BY <1>2 DEF Ordered, Below
  <1> HIDE DEF Rids, Change, None
  <1> QED BY <1>1, <1>2, <1>3 DEF Past

\* It holds of all versions before.
LEMMA BeforePast ==
    ASSUME Before, NEW n \in Nat, n = version
    PROVE  Past(n) /\ Filed(n)
  <1>1. /\ history \in Seq(SUBSET Nat) /\ Len(history) = version + 1
        /\ history[version + 1] = committed
    BY DEF Before, IInv, HistoryInv
  <1>2. committed \in SUBSET Nat
    <2>1. version + 1 \in 1 .. Len(history)
      BY <1>1
    <2> QED BY <1>1, <2>1, ElementOfSeq
  <1>3. \A r \in Rids : r >= nextRid => heap[r] = None
    BY NewestIs DEF Before
  <1>4. scenario.undo => \A s \in Sessions : \A i \in 1 .. Len(undo[s]) : undo[s][i].old = None
    BY DEF Before, IInv, UndoInv
  <1>5. \A v \in Nat : baselineVersion <= v /\ v <= n => Shows(At(v), history[v + 1])
    BY DEF Before, IInv, HistoryInv
  <1>6. IInv
    BY DEF Before
  <1> QED BY <1>1, <1>2, <1>3, <1>4, <1>5, <1>6 DEF Before, Past, IInv, Types, LogInv

\* What the file holds stays true of the versions committed.
LEMMA FiledKeeps ==
    ASSUME NEW n \in Nat, Past(n), Filed(n), Grows, version' \in Nat, nextRid' \in Nat,
           scenario' = scenario, file' = file \/ file' = Saved
    PROVE  Filed(n)' /\ file'.version <= version
  <1>1. /\ version \in Nat /\ nextRid \in Nat /\ n <= version
        /\ baselineVersion \in Nat /\ baselineVersion <= version
    BY DEF Past
  <1>2. /\ nextRid <= nextRid' /\ version <= version' /\ KnownInv'
        /\ \A v \in Nat : v <= version => history'[v + 1] = history[v + 1]
    BY DEF Grows, Filed
  <1>3. version' \in Nat /\ nextRid' \in Nat
    OBVIOUS
  <1> DEFINE Holds(f) ==
        /\ f.version \in Nat /\ f.version <= version
        /\ f.baselineVersion \in Nat /\ f.baselineVersion <= f.version
        /\ Ordered(f.log, f.baselineVersion, f.version)
        /\ IF f.known THEN Below(f.baseline, f.log, nextRid) ELSE f.version = 0
        /\ f.version > 0 => f.log # << >> \/ f.baselineVersion > 0
        /\ \A v \in Nat : f.baselineVersion <= v /\ v <= f.version /\ v <= n /\ v > 0 =>
              Shows(Overlay(f.baseline, f.log, Positions(f.log, v)), history[v + 1])
  <1>5. Holds(file)
    BY DEF Filed, FileInv
  <1>6. Holds(Saved)
    <2>1. /\ Saved.version = version /\ Saved.baselineVersion = baselineVersion
          /\ Saved.baseline = baseline /\ Saved.log = log
          /\ Saved.known = (log # << >> \/ baselineVersion > 0 \/ baseline # NoRows)
      BY DEF Saved
    <2>2. Ordered(log, baselineVersion, version) /\ Below(baseline, log, nextRid)
      BY DEF Past
    <2>3. version > 0 => log # << >> \/ baselineVersion > 0
      BY DEF Filed, KnownInv
    <2>4. \A v \in Nat : baselineVersion <= v /\ v <= n /\ v > 0 =>
             Shows(Overlay(baseline, log, Positions(log, v)), history[v + 1])
      BY DEF Past, At
    <2> HIDE DEF Saved
    <2>5. ~Saved.known => version = 0
      <3>1. ~Saved.known => ~(log # << >>) /\ ~(baselineVersion > 0)
        BY <2>1
      <3>2. ~Saved.known => ~(version > 0)
        BY <2>3, <3>1
      <3> QED BY <1>1, <3>2
    <2> QED BY <1>1, <2>1, <2>2, <2>3, <2>4, <2>5
  <1>7. PICK f : file' = f /\ Holds(f)
    BY <1>5, <1>6
  <1>8. FileInv(n)'
    <2>1. f.version <= version'
      BY <1>1, <1>2, <1>3, <1>7
    <2>2. f.known => Below(f.baseline, f.log, nextRid')
      <3>1. f.log \in Seq(Change)
        BY <1>7 DEF Ordered
      <3>2. nextRid' \in Nat
        BY <1>1, <1>2, <1>3
      <3> QED BY <1>1, <1>2, <1>7, <3>1, <3>2, BelowMore
    <2>3. \A v \in Nat : f.baselineVersion <= v /\ v <= f.version /\ v <= n /\ v > 0 =>
             Shows(Overlay(f.baseline, f.log, Positions(f.log, v)), history'[v + 1])
      <3>1. \A v \in Nat : v <= f.version => history'[v + 1] = history[v + 1]
        BY <1>1, <1>2, <1>7
      <3> QED BY <1>7, <3>1
    <2>4. \A v : Shows(Overlay(file.baseline, file.log, Positions(file.log, v)), history[v + 1])'
                 <=> Shows(Overlay(file'.baseline, file'.log, Positions(file'.log, v)), history'[v + 1])
      <3>1. \A v : Overlay(file.baseline, file.log, Positions(file.log, v))'
                   = Overlay(file'.baseline, file'.log, Positions(file'.log, v))
        BY DEF Overlay, Positions, Rids
      <3> QED BY <3>1 DEF Shows, Rids, None
    <2>5. Ordered(file.log, file.baselineVersion, file.version)'
      BY <1>7 DEF Ordered, Change
    <2>6. f.known => Below(file.baseline, file.log, nextRid)'
      BY <1>7, <2>2 DEF Below, Rids, None
    <2> QED BY <1>7, <2>1, <2>3, <2>4, <2>5, <2>6 DEF FileInv
  <1> QED BY <1>2, <1>7, <1>8 DEF Filed

\* How a step changes the file and the record of what is exact.
LEMMA StepOfFile ==
    ASSUME [Next]_vars, ~CrashRestart
    PROVE  /\ file' = file \/ file' = Saved
           /\ parted => exactTo' = exactTo
           /\ ~parted => exactTo' = version \/ (exactTo' = exactTo /\ ~parted')
  <1>1. ASSUME NEW s, Start(s) \/ Save(s) \/ Rollback(s)
        PROVE  file' = file /\ UNCHANGED parting
    BY <1>1 DEF Start, Save, Rollback
  <1>2. ASSUME NEW s, NEW kind, NEW c, TxnWrite(s, kind, c) \/ AutoWrite(s, kind, c)
        PROVE  file' = file /\ UNCHANGED parting
    BY <1>2 DEF TxnWrite, AutoWrite, TxnChange, AutoChange
  <1>3. ASSUME NEW s, NEW kind, NEW c, TxnCascade(s, kind, c) \/ AutoCascade(s, kind, c)
        PROVE  file' = file /\ Diverge
    BY <1>3 DEF TxnCascade, AutoCascade, TxnChange, AutoChange
  <1>4. Checkpoint => file' = Saved /\ UNCHANGED parting
    BY DEF Checkpoint
  <1>5. CleanRestart => file' = Saved /\ exactTo' = IF parted THEN exactTo ELSE version
    BY DEF CleanRestart
  <1>6. UNCHANGED vars => file' = file /\ UNCHANGED parting
    BY DEF vars
  <1>7. \/ file' = file /\ UNCHANGED parting
        \/ file' = file /\ Diverge
        \/ file' = Saved /\ UNCHANGED parting
        \/ file' = Saved /\ exactTo' = IF parted THEN exactTo ELSE version
    BY <1>1, <1>2, <1>3, <1>4, <1>5, <1>6 DEF Next
  <1> HIDE DEF Saved
  <1> QED BY <1>7 DEF parting, Diverge

\* Until the store and the heap part.
LEMMA BeforeKeeps ==
    ASSUME Before, [Next]_vars, ~parted'
    PROVE  Before'
  <1>1. IInv' /\ Grows /\ scenario' = scenario
    BY NextKeeps, PartedStays DEF Before
  <1>2. (file' = file \/ file' = Saved) /\ (exactTo' = exactTo \/ exactTo' = version)
    <2>1. ~CrashRestart
      BY DEF CrashRestart
    <2> QED BY <2>1, StepOfFile, PartedStays
  <1>3. version \in Nat /\ version' \in Nat /\ version <= version' /\ nextRid' \in Nat
    BY <1>1 DEF Before, IInv, Types, Grows
  <1>4. exactTo' \in Nat /\ exactTo' <= version'
    BY <1>2, <1>3 DEF Before
  <1>5. PICK n \in Nat : n = version
    BY <1>3
  <1>6. Past(n) /\ Filed(n)
    BY <1>5, BeforePast
  <1>7. Filed(n)' /\ file'.version <= n
    BY <1>1, <1>2, <1>3, <1>5, <1>6, FiledKeeps
  <1>8. FileInv(version)'
    <2>1. \A v \in Nat : v <= file'.version => v <= n
      BY <1>7 DEF Filed, FileInv
    <2> QED BY <1>7, <2>1 DEF Filed, FileInv
  <1> QED BY <1>1, <1>4, <1>7, <1>8 DEF Before, Filed

\* A step that leaves the store alone afterwards.
LEMMA PastSame ==
    ASSUME NEW n \in Nat, Past(n), scenario' = scenario, stmts' = stmts,
           UNCHANGED <<heap, nextRid, committed, history>>, UNCHANGED store,
           undo' \in [Sessions -> Seq(Entry)],
           \A s \in Sessions : undo'[s] = << >> \/ undo'[s] = undo[s],
           own' \in [Sessions -> [added : SUBSET Nat, removed : SUBSET Nat]]
    PROVE  Past(n)' /\ Grows
  <1> USE DEF Past, store
  <1>1. \A v : At(v)' = At(v)
    BY DEF At, Overlay, Positions, Rids
  <1>2. scenario.undo => \A s \in Sessions : \A i \in 1 .. Len(undo'[s]) : undo'[s][i].old = None
    OBVIOUS
  <1>3. Past(n)'
    BY <1>1, <1>2, PastPrimed
  <1>4. Grows
    BY DEF Grows, KnownInv
  <1> QED BY <1>3, <1>4

\* A commit afterwards appends a version and keeps those before it.
LEMMA PastCommit ==
    ASSUME NEW n \in Nat, Past(n), scenario' = scenario, NEW c \in Seq(Change), c # << >>,
           NEW b \in Nat, nextRid <= b, \A i \in 1 .. Len(c) : c[i].rid < b,
           Compact(log \o Stamped(c, version + 1),
                   Horizon(version + 1, log \o Stamped(c, version + 1))),
           version' = version + 1, NEW rows \in SUBSET Nat,
           history' = Append(history, rows)
    PROVE  /\ baselineVersion' \in Nat /\ version' \in Nat /\ baselineVersion' <= version'
           /\ Ordered(log', baselineVersion', version') /\ Below(baseline', log', b)
           /\ history' \in Seq(SUBSET Nat) /\ Len(history') = version' + 1
           /\ n <= version' /\ KnownInv'
           /\ \A v \in Nat : v <= version => history'[v + 1] = history[v + 1]
           /\ \A v \in Nat : baselineVersion' <= v /\ v <= n /\ v > 0 =>
                 Shows(At(v)', history'[v + 1])
  <1>1. /\ scenario \in Scenario /\ nextRid \in Nat /\ baselineVersion \in Nat /\ version \in Nat
        /\ baselineVersion <= version /\ n <= version
        /\ Ordered(log, baselineVersion, version) /\ Below(baseline, log, nextRid)
        /\ log \in Seq(Change) /\ history \in Seq(SUBSET Nat) /\ Len(history) = version + 1
    BY DEF Past, Ordered
  <1>2. Below(baseline, log, b)
    BY <1>1, BelowMore
  <1>3. /\ baselineVersion' \in Nat /\ baselineVersion <= baselineVersion'
        /\ baselineVersion' <= version + 1
        /\ Ordered(log', baselineVersion', version + 1) /\ Below(baseline', log', b)
        /\ \A v \in Nat : baselineVersion' <= v /\ v <= version => At(v)' = At(v)
        /\ log' # << >> \/ baselineVersion' > 0
    BY <1>1, <1>2, CommitExact
  <1>4. /\ history' \in Seq(SUBSET Nat) /\ Len(history') = version + 2
        /\ \A i \in 1 .. version + 1 : history'[i] = history[i]
    BY <1>1, AppendProperties
  <1>5. ASSUME NEW v \in Nat, baselineVersion' <= v, v <= n, v > 0
        PROVE  Shows(At(v)', history'[v + 1])
    <2>1. /\ baselineVersion <= v /\ v <= n /\ v <= version
          /\ v + 1 \in 1 .. version + 1
      BY <1>1, <1>3, <1>5
    <2>2. Shows(At(v), history[v + 1])
      BY <1>5, <2>1 DEF Past
    <2> QED BY <1>3, <1>4, <1>5, <2>1, <2>2
  <1>6. /\ version' \in Nat /\ baselineVersion' <= version' /\ Len(history') = version' + 1
        /\ n <= version'
    BY <1>1, <1>3, <1>4
  <1>7. KnownInv'
    BY <1>3 DEF KnownInv
  <1>8. \A v \in Nat : v <= version => history'[v + 1] = history[v + 1]
    <2>1. \A v \in Nat : v <= version => v + 1 \in 1 .. version + 1
      BY <1>1
    <2> QED BY <1>4, <2>1
  <1> QED BY <1>3, <1>4, <1>5, <1>6, <1>7, <1>8

\* What a row statement or a cascade stages names no record id that is still free.
LEMMA ChangeTyped ==
    ASSUME scenario \in Scenario, stmts \in 0 .. scenario.stmts, stmts < scenario.stmts,
           nextRid \in 1 .. stmts + 1, heap \in [Rids -> 0 .. stmts],
           \A r \in Rids : r >= nextRid => heap[r] = None,
           NEW kind \in Kinds, NEW c \in Changes(kind), Possible(c), ApplyToHeap(c),
           NEW changes, changes \in {Staged(c), CascadeStaged}
    PROVE  /\ c \in Entry /\ (kind = "put" => c.old = None)
           /\ heap' \in [Rids -> 0 .. stmts + 1] /\ \A r \in Rids : r >= nextRid' => heap'[r] = None
           /\ nextRid' \in 1 .. stmts + 2 /\ nextRid <= nextRid'
           /\ changes \in Seq(Change) /\ changes # << >>
           /\ \A i \in 1 .. Len(changes) : changes[i].rid < nextRid'
  <1>1. /\ c \in Entry /\ (kind = "put" => c.old = None)
        /\ heap' \in [Rids -> 0 .. stmts + 1] /\ \A r \in Rids : r >= nextRid' => heap'[r] = None
        /\ nextRid' \in 1 .. stmts + 2 /\ nextRid <= nextRid'
        /\ Staged(c) \in Seq(Change) /\ Staged(c) # << >>
        /\ \A i \in 1 .. Len(Staged(c)) : Staged(c)[i].rid < nextRid'
    BY WriteTyped
  <1>2. /\ CascadeStaged \in Seq(Change) /\ CascadeStaged # << >>
        /\ \A i \in 1 .. Len(CascadeStaged) : CascadeStaged[i].rid < nextRid'
    <2> DEFINE del == StageDelete(Elsewhere)
    <2>1. del \in Change /\ del.rid = 0
      BY DEF StageDelete, Change, Elsewhere, None
    <2> HIDE DEF del
    <2>2. CascadeStaged = <<del>>
      BY DEF CascadeStaged, del
    <2>3. /\ CascadeStaged \in Seq(Change) /\ CascadeStaged # << >> /\ Len(CascadeStaged) = 1
          /\ CascadeStaged[1].rid = 0 /\ \A i \in 1 .. 1 : i = 1
      BY <2>1, <2>2
    <2>4. 0 < nextRid'
      BY <1>1
    <2> HIDE DEF CascadeStaged
    <2> QED BY <2>3, <2>4
  <1> HIDE DEF Staged, CascadeStaged
  <1>3. CASE changes = Staged(c)
    BY <1>1, <1>3
  <1>4. CASE changes = CascadeStaged
    BY <1>1, <1>2, <1>4
  <1> QED BY <1>3, <1>4

\* A row change inside and outside a transaction.
LEMMA PastTxn ==
    ASSUME NEW n \in Nat, Past(n),
           NEW s \in scenario.sessions, NEW kind \in Kinds, NEW c \in Changes(kind),
           scenario.undo => kind = "put",
           NEW changes, changes \in {Staged(c), CascadeStaged}, TxnChange(s, c, changes)
    PROVE  Past(n)' /\ Grows
  <1>1. /\ stmts < scenario.stmts /\ Possible(c) /\ ApplyToHeap(c)
        /\ pending' = pending \o changes /\ stmts' = stmts + 1
        /\ undo' = [undo EXCEPT ![s] = Append(@, c)]
        /\ own' = [own EXCEPT ![s] = [added |-> (@.added \ Removed(c)) \cup Added(c),
                                      removed |-> @.removed \cup Removed(c)]]
        /\ UNCHANGED <<scenario, log, baseline, baselineVersion, version, committed, history>>
    BY DEF TxnChange, life
  <1>2. /\ scenario \in Scenario /\ Sane(scenario) /\ stmts \in 0 .. scenario.stmts
        /\ nextRid \in 1 .. stmts + 1 /\ heap \in [Rids -> 0 .. stmts]
        /\ \A r \in Rids : r >= nextRid => heap[r] = None
        /\ scenario.stmts \in Nat /\ s \in Sessions
    BY DEF Past, Scenario
  <1>3. /\ c \in Entry /\ (kind = "put" => c.old = None)
        /\ heap' \in [Rids -> 0 .. stmts + 1] /\ \A r \in Rids : r >= nextRid' => heap'[r] = None
        /\ nextRid' \in 1 .. stmts + 2 /\ nextRid <= nextRid'
        /\ changes \in Seq(Change)
        /\ \A i \in 1 .. Len(changes) : changes[i].rid < nextRid'
    BY <1>1, <1>2, ChangeTyped
  <1>4. /\ stmts' \in 0 .. scenario.stmts /\ nextRid' \in 1 .. stmts' + 1
        /\ heap' \in [Rids -> 0 .. stmts'] /\ nextRid \in Nat /\ nextRid' \in Nat
    BY <1>1, <1>2, <1>3
  <1>5. pending' \in Seq(Change) /\ \A i \in 1 .. Len(pending') : pending'[i].rid < nextRid'
    <2>1. pending \in Seq(Change) /\ \A i \in 1 .. Len(pending) : pending[i].rid < nextRid
      BY DEF Past
    <2>2. ASSUME NEW i \in 1 .. Len(pending) PROVE pending[i].rid < nextRid'
      <3>1. pending[i] \in Change
        BY <2>1
      <3>2. pending[i].rid \in Nat
        BY <3>1 DEF Change
      <3> QED BY <1>3, <1>4, <2>1, <3>2
    <2>3. /\ pending \o changes \in Seq(Change)
          /\ Len(pending \o changes) = Len(pending) + Len(changes)
          /\ \A i \in 1 .. Len(pending) + Len(changes) : (pending \o changes)[i] =
                IF i <= Len(pending) THEN pending[i] ELSE changes[i - Len(pending)]
      BY <1>3, <2>1, ConcatProperties
    <2>4. /\ Len(pending) \in Nat /\ Len(changes) \in Nat
      BY <1>3, <2>1
    <2>5. \A i \in 1 .. Len(pending) + Len(changes) :
             \/ i \in 1 .. Len(pending) /\ i <= Len(pending)
             \/ i - Len(pending) \in 1 .. Len(changes) /\ ~(i <= Len(pending))
      BY <2>4
    <2> QED BY <1>1, <1>3, <2>2, <2>3, <2>5
  <1>6. Below(baseline', log', nextRid')
    <2>1. Below(baseline, log, nextRid) /\ log \in Seq(Change)
      BY DEF Past, Ordered
    <2> QED BY <1>1, <1>3, <1>4, <2>1, BelowMore
  <1>7. undo' \in [Sessions -> Seq(Entry)]
    <2>1. undo \in [Sessions -> Seq(Entry)] /\ Append(undo[s], c) \in Seq(Entry)
      BY <1>2, <1>3 DEF Past
    <2> QED BY <1>1, <2>1
  <1>8. scenario.undo => \A t \in Sessions : \A i \in 1 .. Len(undo'[t]) : undo'[t][i].old = None
    <2>1. SUFFICES ASSUME scenario.undo, NEW t \in Sessions, NEW i \in 1 .. Len(undo'[t])
                   PROVE  undo'[t][i].old = None
      OBVIOUS
    <2>2. \A j \in 1 .. Len(undo[t]) : undo[t][j].old = None
      BY <2>1 DEF Past
    <2>3. CASE t # s
      BY <1>1, <2>2, <2>3 DEF Past
    <2>4. CASE t = s
      <3>1. c.old = None
        BY <1>3, <2>1
      <3>2. undo[t] \in Seq(Entry) /\ undo'[t] = Append(undo[t], c)
        BY <1>1, <2>4 DEF Past
      <3>3. undo'[t][i] = c \/ (i \in 1 .. Len(undo[t]) /\ undo'[t][i] = undo[t][i])
        BY <1>3, <3>2
      <3> QED BY <2>2, <3>1, <3>3
    <2> QED BY <2>3, <2>4
  <1>9. own' \in [Sessions -> [added : SUBSET Nat, removed : SUBSET Nat]]
    <2>1. Added(c) \in SUBSET Nat /\ Removed(c) \in SUBSET Nat
      BY <1>3 DEF Added, Removed, Entry
    <2> QED BY <1>1, <1>2, <2>1 DEF Past
  <1>10. \A v : At(v)' = At(v)
    BY <1>1 DEF At, Overlay, Positions, Rids
  <1>11. Past(n)'
    BY <1>1, <1>2, <1>3, <1>4, <1>5, <1>6, <1>7, <1>8, <1>9, <1>10, PastPrimed DEF Past
  <1>12. Grows
    BY <1>1, <1>3 DEF Grows, KnownInv, Past
  <1> QED BY <1>11, <1>12

LEMMA PastAuto ==
    ASSUME NEW n \in Nat, Past(n),
           NEW s \in scenario.sessions, NEW kind \in Kinds, NEW c \in Changes(kind),
           NEW changes, changes \in {Staged(c), CascadeStaged}, AutoChange(s, c, changes)
    PROVE  Past(n)' /\ Grows
  <1>1. /\ stmts < scenario.stmts /\ Possible(c) /\ ApplyToHeap(c)
        /\ Compact(log \o Stamped(changes, version + 1),
                   Horizon(version + 1, log \o Stamped(changes, version + 1)))
        /\ pending' = << >> /\ stmts' = stmts + 1 /\ version' = version + 1
        /\ committed' = (committed \ Removed(c)) \cup Added(c)
        /\ history' = Append(history, committed')
        /\ UNCHANGED <<scenario, undo, own>>
    BY DEF AutoChange, life
  <1>2. /\ scenario \in Scenario /\ Sane(scenario) /\ stmts \in 0 .. scenario.stmts
        /\ nextRid \in 1 .. stmts + 1 /\ heap \in [Rids -> 0 .. stmts]
        /\ \A r \in Rids : r >= nextRid => heap[r] = None
        /\ scenario.stmts \in Nat
    BY DEF Past, Scenario
  <1>3. /\ c \in Entry
        /\ heap' \in [Rids -> 0 .. stmts + 1] /\ \A r \in Rids : r >= nextRid' => heap'[r] = None
        /\ nextRid' \in 1 .. stmts + 2 /\ nextRid <= nextRid'
        /\ changes \in Seq(Change) /\ changes # << >>
        /\ \A i \in 1 .. Len(changes) : changes[i].rid < nextRid'
    BY <1>1, <1>2, ChangeTyped
  <1>4. /\ stmts' \in 0 .. scenario.stmts /\ nextRid' \in 1 .. stmts' + 1
        /\ heap' \in [Rids -> 0 .. stmts'] /\ nextRid' \in Nat
    BY <1>1, <1>2, <1>3
  <1>5. committed' \in SUBSET Nat
    BY <1>1, <1>3 DEF Past, Added, Entry
  <1>6. /\ baselineVersion' \in Nat /\ version' \in Nat /\ baselineVersion' <= version'
        /\ Ordered(log', baselineVersion', version') /\ Below(baseline', log', nextRid')
        /\ history' \in Seq(SUBSET Nat) /\ Len(history') = version' + 1
        /\ n <= version' /\ KnownInv'
        /\ \A v \in Nat : v <= version => history'[v + 1] = history[v + 1]
        /\ \A v \in Nat : baselineVersion' <= v /\ v <= n /\ v > 0 =>
              Shows(At(v)', history'[v + 1])
    BY <1>1, <1>3, <1>4, <1>5, PastCommit
  <1>7. pending' \in Seq(Change) /\ \A i \in 1 .. Len(pending') : pending'[i].rid < nextRid'
    BY <1>1
  <1>8. Past(n)'
    BY <1>1, <1>2, <1>3, <1>4, <1>5, <1>6, <1>7, PastPrimed DEF Past
  <1>9. Grows
    <2>1. version \in Nat /\ version <= version'
      BY <1>1 DEF Past
    <2> QED BY <1>3, <1>6, <2>1 DEF Grows
  <1> QED BY <1>8, <1>9

LEMMA PastSave ==
    ASSUME NEW n \in Nat, Past(n), NEW s \in scenario.sessions, Save(s)
    PROVE  Past(n)' /\ Grows
  <1>1. /\ CommitPending(committed') /\ EndTxn(s)
        /\ committed' = (committed \ own[s].removed) \cup own[s].added
        /\ UNCHANGED <<heap, nextRid, scenario, stmts>>
    BY DEF Save, life
  <1>2. s \in Sessions /\ NoOwn \in [added : SUBSET Nat, removed : SUBSET Nat]
    BY DEF Past, Scenario, NoOwn
  <1>3. /\ undo' \in [Sessions -> Seq(Entry)]
        /\ \A t \in Sessions : undo'[t] = << >> \/ undo'[t] = undo[t]
        /\ own' \in [Sessions -> [added : SUBSET Nat, removed : SUBSET Nat]]
    BY <1>1, <1>2 DEF EndTxn, Past
  <1>4. committed' \in SUBSET Nat
    BY <1>1, <1>2 DEF Past
  <1>5. pending' = << >>
    BY <1>1 DEF CommitPending, store
  <1>6. scenario.undo => \A t \in Sessions : \A i \in 1 .. Len(undo'[t]) : undo'[t][i].old = None
    BY <1>3 DEF Past
  <1>7. pending' \in Seq(Change) /\ \A i \in 1 .. Len(pending') : pending'[i].rid < nextRid'
    BY <1>5
  <1>8. CASE pending = << >>
    <2>1. UNCHANGED store /\ history' = history
      BY <1>1, <1>8 DEF CommitPending
    <2>2. \A v : At(v)' = At(v)
      BY <1>1, <2>1 DEF At, Overlay, Positions, Rids, store
    <2>3. UNCHANGED <<log, baseline, baselineVersion, version>>
      BY <2>1 DEF store
    <2>4. Past(n)'
      BY <1>1, <1>3, <1>4, <1>6, <1>7, <2>1, <2>2, <2>3, PastPrimed DEF Past
    <2>5. Grows
      BY <1>1, <2>1, <2>3 DEF Grows, KnownInv, Past
    <2> QED BY <2>4, <2>5
  <1>9. CASE pending # << >>
    <2>1. /\ version' = version + 1 /\ history' = Append(history, committed')
          /\ Compact(log \o Stamped(pending, version + 1),
                     Horizon(version + 1, log \o Stamped(pending, version + 1)))
      BY <1>1, <1>9 DEF CommitPending
    <2>2. /\ pending \in Seq(Change) /\ \A i \in 1 .. Len(pending) : pending[i].rid < nextRid
          /\ nextRid \in Nat
      BY DEF Past
    <2>3. nextRid <= nextRid
      BY <2>2
    <2>4. /\ baselineVersion' \in Nat /\ version' \in Nat /\ baselineVersion' <= version'
          /\ Ordered(log', baselineVersion', version') /\ Below(baseline', log', nextRid)
          /\ history' \in Seq(SUBSET Nat) /\ Len(history') = version' + 1
          /\ n <= version' /\ KnownInv'
          /\ \A v \in Nat : v <= version => history'[v + 1] = history[v + 1]
          /\ \A v \in Nat : baselineVersion' <= v /\ v <= n /\ v > 0 =>
                Shows(At(v)', history'[v + 1])
      BY <1>1, <1>4, <1>9, <2>1, <2>2, <2>3, PastCommit
    <2>5. Past(n)'
      BY <1>1, <1>3, <1>4, <1>6, <1>7, <2>4, PastPrimed DEF Past
    <2>6. Grows
      BY <1>1, <2>1, <2>2, <2>4 DEF Grows, Past
    <2> QED BY <2>5, <2>6
  <1> QED BY <1>8, <1>9

LEMMA PastRollback ==
    ASSUME NEW n \in Nat, Past(n), NEW s \in scenario.sessions, Rollback(s)
    PROVE  Past(n)' /\ Grows
  <1>1. /\ scenario.undo /\ heap' = Restored(s) /\ nextRid' = nextRid + Reinserted(s)
        /\ pending' = << >> /\ EndTxn(s)
        /\ UNCHANGED <<scenario, log, baseline, baselineVersion, version, committed, history,
                       stmts>>
    BY DEF Rollback, life
  <1>2. s \in Sessions /\ NoOwn \in [added : SUBSET Nat, removed : SUBSET Nat]
    BY DEF Past, Scenario, NoOwn
  <1> DEFINE u == undo[s]
             olds == {i \in 1 .. Len(u) : u[i].old # None}
             place(i) == nextRid + Cardinality({j \in olds : j > i})
  <1>3. olds = {}
    BY <1>1, <1>2 DEF Past
  <1>4. nextRid' = nextRid
    <2>1. Reinserted(s) = Cardinality(olds) /\ nextRid \in Nat
      BY DEF Reinserted, Past
    <2> HIDE DEF olds
    <2> QED BY <1>1, <1>3, <2>1, FS_EmptySet
  <1>5. heap' = [r \in Rids |-> IF \E i \in 1 .. Len(u) : u[i].to = r THEN None ELSE heap[r]]
    <2>1. heap' = [r \in Rids |-> IF \E i \in olds : r = place(i)
                                  THEN u[CHOOSE i \in olds : r = place(i)].old
                                  ELSE IF \E i \in 1 .. Len(u) : u[i].to = r THEN None
                                  ELSE heap[r]]
      BY <1>1 DEF Restored
    <2> HIDE DEF place, olds, u
    <2>2. \A r : ~ \E i \in olds : r = place(i)
      BY <1>3
    <2> QED BY <2>1, <2>2
  <1> HIDE DEF olds, place, u
  <1>6. heap' \in [Rids -> 0 .. stmts] /\ \A r \in Rids : r >= nextRid' => heap'[r] = None
    BY <1>4, <1>5 DEF Past, None
  <1>7. /\ undo' \in [Sessions -> Seq(Entry)]
        /\ \A t \in Sessions : undo'[t] = << >> \/ undo'[t] = undo[t]
        /\ own' \in [Sessions -> [added : SUBSET Nat, removed : SUBSET Nat]]
    BY <1>1, <1>2 DEF EndTxn, Past
  <1>8. scenario.undo => \A t \in Sessions : \A i \in 1 .. Len(undo'[t]) : undo'[t][i].old = None
    BY <1>7 DEF Past
  <1>9. pending' \in Seq(Change) /\ \A i \in 1 .. Len(pending') : pending'[i].rid < nextRid'
    BY <1>1
  <1>10. \A v : At(v)' = At(v)
    BY <1>1 DEF At, Overlay, Positions, Rids
  <1>11. Past(n)'
    BY <1>1, <1>4, <1>6, <1>7, <1>8, <1>9, <1>10, PastPrimed DEF Past
  <1>12. Grows
    BY <1>1, <1>4 DEF Grows, KnownInv, Past
  <1> QED BY <1>11, <1>12

\* A clean stop loads what it saved.
LEMMA PastClean ==
    ASSUME NEW n \in Nat, Past(n), KnownInv, CleanRestart
    PROVE  Past(n)' /\ Grows
  <1>1. /\ log' = log /\ version' = version /\ baselineVersion' = baselineVersion /\ pending' = << >>
        /\ baseline' = IF log # << >> \/ baselineVersion > 0 \/ baseline # NoRows
                       THEN baseline ELSE heap
        /\ UNCHANGED <<scenario, stmts, heap, nextRid, undo, own, committed, history>>
    BY DEF CleanRestart, Load, Saved, ghosts
  <1>2. Grows
    BY <1>1 DEF Grows, KnownInv, Past
  <1>3. \A v : baseline' = baseline => At(v)' = At(v)
    BY <1>1 DEF At, Overlay, Positions, Rids
  <1>4. /\ Below(baseline', log', nextRid')
        /\ \A v \in Nat : baselineVersion <= v /\ v <= n /\ v > 0 => Shows(At(v)', history'[v + 1])
    <2>1. CASE baseline' = baseline
      BY <1>1, <1>3, <2>1 DEF Past
    <2>2. CASE baseline' # baseline
      <3>1. baseline' = heap /\ log = << >> /\ ~(baselineVersion > 0)
        BY <1>1, <2>2
      <3>2. version = 0 /\ ~(0 > 0)
        BY <3>1 DEF KnownInv, Past
      <3>3. n = 0
        BY <3>2 DEF Past
      <3>4. \A r \in Rids : heap[r] \in Nat /\ (r >= nextRid => heap[r] = None)
        BY DEF Past
      <3>5. Below(baseline', log', nextRid')
        BY <1>1, <3>1, <3>4 DEF Below
      <3> QED BY <3>3, <3>5
    <2> QED BY <2>1, <2>2
  <1>5. pending' \in Seq(Change) /\ \A i \in 1 .. Len(pending') : pending'[i].rid < nextRid'
    BY <1>1
  <1>6. Past(n)'
    BY <1>1, <1>4, <1>5, PastPrimed DEF Past
  <1> QED BY <1>2, <1>6

\* A crash loads the file.
LEMMA PastCrash ==
    ASSUME NEW n \in Nat, Past(n), Filed(n), CrashRestart,
           NEW m \in Nat, m = IF n < file.version THEN n ELSE file.version
    PROVE  Past(m)' /\ Filed(m)'
  <1>1. /\ log' = file.log /\ version' = file.version /\ pending' = << >>
        /\ baselineVersion' = file.baselineVersion
        /\ baseline' = IF file.known THEN file.baseline ELSE heap
        /\ history' = SubSeq(history, 1, file.version + 1) /\ file' = file
        /\ UNCHANGED <<heap, nextRid, undo, committed, own, scenario, stmts>>
    BY DEF CrashRestart, Load
  <1>2. /\ scenario \in Scenario /\ Sane(scenario) /\ stmts \in 0 .. scenario.stmts
        /\ nextRid \in 1 .. stmts + 1 /\ heap \in [Rids -> 0 .. stmts]
        /\ \A r \in Rids : r >= nextRid => heap[r] = None
        /\ undo \in [Sessions -> Seq(Entry)] /\ version \in Nat /\ committed \in SUBSET Nat
        /\ own \in [Sessions -> [added : SUBSET Nat, removed : SUBSET Nat]]
        /\ scenario.undo =>
              \A s \in Sessions : \A i \in 1 .. Len(undo[s]) : undo[s][i].old = None
        /\ history \in Seq(SUBSET Nat) /\ Len(history) = version + 1
    BY DEF Past
  <1>3. /\ file.version \in Nat /\ file.version <= version
        /\ file.baselineVersion \in Nat /\ file.baselineVersion <= file.version
        /\ Ordered(file.log, file.baselineVersion, file.version)
        /\ file.known => Below(file.baseline, file.log, nextRid)
        /\ ~file.known => file.version = 0
        /\ file.version > 0 => file.log # << >> \/ file.baselineVersion > 0
        /\ m <= n /\ m <= file.version
    BY DEF Filed, FileInv
  <1>4. /\ history' \in Seq(SUBSET Nat) /\ Len(history') = file.version + 1
        /\ \A i \in 1 .. file.version + 1 : history'[i] = history[i]
    BY <1>1, <1>2, <1>3, SMTT(30)
  <1>5. \A v \in Nat : v <= file.version => history'[v + 1] = history[v + 1]
    <2>1. \A v \in Nat : v <= file.version => v + 1 \in 1 .. file.version + 1
      BY <1>3
    <2> QED BY <1>4, <2>1
  <1>6. ASSUME NEW v \in Nat, file.baselineVersion <= v, v <= m, v > 0
        PROVE  /\ v <= file.version
               /\ Shows(Overlay(file.baseline, file.log, Positions(file.log, v)), history[v + 1])
    <2>1. v <= file.version /\ v <= n
      BY <1>3, <1>6
    <2> QED BY <1>6, <2>1 DEF Filed, FileInv
  <1>7. Below(baseline', log', nextRid')
    <2>1. CASE file.known
      BY <1>1, <1>3, <2>1
    <2>2. CASE ~file.known
      <3>1. \A i \in 1 .. Len(file.log) : FALSE
        BY <1>3, <2>2 DEF Ordered
      <3> QED BY <1>1, <1>2, <2>2, <3>1 DEF Below
    <2> QED BY <2>1, <2>2
  <1>8. ASSUME NEW v \in Nat, baselineVersion' <= v, v <= m, v > 0
        PROVE  Shows(At(v)', history'[v + 1])
    <2>1. file.known
      BY <1>3, <1>8
    <2>2. At(v)' = Overlay(file.baseline, file.log, Positions(file.log, v))
      BY <1>1, <2>1 DEF At, Overlay, Positions, Rids
    <2> QED BY <1>1, <1>5, <1>6, <1>8, <2>2
  <1>9. pending' \in Seq(Change) /\ \A i \in 1 .. Len(pending') : pending'[i].rid < nextRid'
    BY <1>1
  <1>10. Past(m)'
    <2>1. /\ stmts' \in 0 .. scenario.stmts /\ nextRid' \in 1 .. stmts' + 1
          /\ heap' \in [Rids -> 0 .. stmts'] /\ \A r \in Rids : r >= nextRid' => heap'[r] = None
          /\ undo' \in [Sessions -> Seq(Entry)] /\ committed' \in SUBSET Nat
          /\ own' \in [Sessions -> [added : SUBSET Nat, removed : SUBSET Nat]]
          /\ scenario.undo =>
                \A s \in Sessions : \A i \in 1 .. Len(undo'[s]) : undo'[s][i].old = None
      BY <1>1, <1>2
    <2>2. /\ baselineVersion' \in Nat /\ version' \in Nat /\ baselineVersion' <= version'
          /\ Ordered(log', baselineVersion', version') /\ m <= version'
          /\ Len(history') = version' + 1
      BY <1>1, <1>3, <1>4
    <2> QED BY <1>1, <1>2, <1>4, <1>7, <1>8, <1>9, <2>1, <2>2, PastPrimed
  <1>11. Filed(m)'
    <2>1. KnownInv'
      BY <1>1, <1>3 DEF KnownInv
    <2>2. ASSUME NEW v \in Nat, file.baselineVersion <= v, v <= m, v > 0
          PROVE  Shows(Overlay(file.baseline, file.log, Positions(file.log, v)), history'[v + 1])
      BY <1>5, <1>6, <2>2
    <2>3. \A v : Shows(Overlay(file.baseline, file.log, Positions(file.log, v)), history[v + 1])'
                 <=> Shows(Overlay(file.baseline, file.log, Positions(file.log, v)), history'[v + 1])
      <3>1. \A v : Overlay(file.baseline, file.log, Positions(file.log, v))'
                   = Overlay(file.baseline, file.log, Positions(file.log, v))
        BY <1>1 DEF Overlay, Positions, Rids
      <3>2. Rids' = Rids /\ None' = None
        BY <1>1 DEF Rids, None
      <3> QED BY <3>1, <3>2 DEF Shows
    <2>4. Ordered(file.log, file.baselineVersion, file.version)'
      BY <1>1, <1>3 DEF Ordered, Change
    <2>5. file.known => Below(file.baseline, file.log, nextRid)'
      BY <1>1, <1>3 DEF Below, Rids, None
    <2>6. version' = file.version
      BY <1>1
    <2>7. FileInv(m)'
      <3>1. \A v \in Nat : file.baselineVersion <= v /\ v <= m /\ v > 0 =>
               Shows(Overlay(file.baseline, file.log, Positions(file.log, v)), history[v + 1])'
        BY <2>2, <2>3
      <3>2. /\ file'.version \in Nat /\ file'.version <= version'
            /\ file'.baselineVersion \in Nat /\ file'.baselineVersion <= file'.version
            /\ ~file'.known => file'.version = 0
            /\ file'.version > 0 => file'.log # << >> \/ file'.baselineVersion > 0
        BY <1>1, <1>3, <2>6
      <3>3. file' = file
        BY <1>1
      <3> QED BY <2>4, <2>5, <3>1, <3>2, <3>3 DEF FileInv
    <2> QED BY <2>1, <2>7 DEF Filed
  <1> QED BY <1>10, <1>11

\* Every other step.
LEMMA PastKeeps ==
    ASSUME NEW n \in Nat, Past(n), Filed(n), [Next]_vars, ~CrashRestart
    PROVE  Past(n)' /\ Filed(n)'
  <1>1. ASSUME NEW s \in scenario.sessions, Start(s) PROVE Past(n)' /\ Grows
    <2>1. s \in Sessions /\ NoOwn \in [added : SUBSET Nat, removed : SUBSET Nat]
      BY DEF Past, Scenario, NoOwn
    <2>2. /\ undo' \in [Sessions -> Seq(Entry)]
          /\ \A t \in Sessions : undo'[t] = << >> \/ undo'[t] = undo[t]
          /\ own' \in [Sessions -> [added : SUBSET Nat, removed : SUBSET Nat]]
      BY <1>1, <2>1 DEF Start, Past
    <2> QED BY <1>1, <2>2, PastSame DEF Start, life
  <1>2. ASSUME NEW s \in scenario.sessions, NEW kind \in Kinds, NEW c \in Changes(kind),
               TxnWrite(s, kind, c) \/ TxnCascade(s, kind, c)
        PROVE  Past(n)' /\ Grows
    <2>1. PICK changes \in {Staged(c), CascadeStaged} : TxnChange(s, c, changes)
      BY <1>2 DEF TxnWrite, TxnCascade
    <2>2. scenario.undo => kind = "put"
      BY <1>2 DEF TxnWrite, TxnCascade, Past, Sane
    <2> QED BY <2>1, <2>2, PastTxn
  <1>3. ASSUME NEW s \in scenario.sessions, NEW kind \in Kinds, NEW c \in Changes(kind),
               AutoWrite(s, kind, c) \/ AutoCascade(s, kind, c)
        PROVE  Past(n)' /\ Grows
    <2>1. PICK changes \in {Staged(c), CascadeStaged} : AutoChange(s, c, changes)
      BY <1>3 DEF AutoWrite, AutoCascade
    <2> QED BY <2>1, PastAuto
  <1>4. Checkpoint => Past(n)' /\ Grows
    BY PastSame DEF Checkpoint, Past, ghosts, life
  <1>5. UNCHANGED vars => Past(n)' /\ Grows
    BY PastSame DEF vars, Past, ghosts, life
  <1>6. CleanRestart => Past(n)' /\ Grows
    BY PastClean DEF Filed
  <1>7. \A s \in scenario.sessions : Save(s) \/ Rollback(s) => Past(n)' /\ Grows
    BY PastSave, PastRollback
  <1>8. Past(n)' /\ Grows
    BY <1>1, <1>2, <1>3, <1>4, <1>5, <1>6, <1>7 DEF Next
  <1>9. Filed(n)'
    <2>1. version' \in Nat /\ nextRid' \in Nat
      BY <1>8 DEF Past
    <2> QED BY <1>8, <2>1, StepOfFile, PartedStays, FiledKeeps
  <1> QED BY <1>8, <1>9

\* Versions that were in the file when the program died, and those that were there
\* when a REMOVE of another table first cascaded, stay exact through any number of
\* stops (VersionStore::deserialize, DB::loadVersions).
THEOREM FileSurvives == Sane(scenario) /\ Spec => []SavedVersionsSurvive
  <1> DEFINE Exact(n) == Past(n) /\ Filed(n)
             Inv == exactTo \in Nat /\ (IF parted THEN Exact(exactTo) ELSE Before)
  <1>1. Sane(scenario) /\ Init => Inv
    <2>1. ASSUME Init
          PROVE  KnownInv /\ FileInv(version) /\ version = 0 /\ exactTo = 0 /\ ~parted
      <3>1. /\ file.version = 0 /\ file.baselineVersion = 0 /\ file.log = << >> /\ ~file.known
            /\ version = 0
        BY <2>1 DEF Init, NoFile
      <3>2. Ordered(<< >>, 0, 0)
        BY DEF Ordered
      <3> QED BY <2>1, <3>1, <3>2 DEF Init, KnownInv, FileInv
    <2> QED BY <2>1, InitHolds DEF Before, Filed
  <1>2. Inv /\ [Next]_vars => Inv'
    <2>1. SUFFICES ASSUME Inv, [Next]_vars PROVE Inv'
      OBVIOUS
    <2>2. PICK n \in Nat : n = IF parted THEN exactTo ELSE version
      BY <2>1 DEF Before, IInv, Types
    <2>3. Past(n) /\ Filed(n)
      BY <2>1, <2>2, BeforePast
    <2>4. CASE ~parted'
      <3>1. Before
        BY <2>1, <2>4, PartedStays
      <3>2. Before'
        BY <2>1, <2>4, <3>1, BeforeKeeps
      <3> QED BY <2>4, <3>2 DEF Before
    <2>5. CASE parted' /\ ~CrashRestart
      <3>1. exactTo' = n
        BY <2>1, <2>2, <2>5, StepOfFile
      <3>2. Past(n)' /\ Filed(n)'
        BY <2>1, <2>3, <2>5, PastKeeps
      <3> QED BY <2>5, <3>1, <3>2
    <2>6. CASE CrashRestart
      <3>1. /\ parted' = TRUE
            /\ exactTo' = IF parted /\ exactTo < file.version THEN exactTo ELSE file.version
        BY <2>6 DEF CrashRestart
      <3>2. /\ file.version \in Nat /\ file.version <= version /\ version \in Nat
        BY <2>3 DEF Past, Filed, FileInv
      <3>3. PICK m \in Nat : m = IF n < file.version THEN n ELSE file.version
        BY <3>2
      <3>4. exactTo' = m
        BY <2>1, <2>2, <3>1, <3>2, <3>3
      <3>5. Past(m)' /\ Filed(m)'
        BY <2>3, <2>6, <3>3, PastCrash
      <3> QED BY <3>1, <3>4, <3>5
    <2> QED BY <2>4, <2>5, <2>6
  <1>3. Inv => SavedVersionsSurvive
    <2>1. ASSUME Inv, NEW v \in baselineVersion .. exactTo, v > 0
          PROVE  Shows(SnapshotAsOf(v), history[v + 1])
      <3>1. PICK n \in Nat : n = exactTo
        BY <2>1
      <3>2. /\ baselineVersion \in Nat /\ version \in Nat /\ n <= version
            /\ Ordered(log, baselineVersion, version)
            /\ \A u \in Nat : baselineVersion <= u /\ u <= n /\ u > 0 => Shows(At(u), history[u + 1])
        <4>1. CASE parted
          BY <2>1, <3>1, <4>1 DEF Past
        <4>2. CASE ~parted
          <5>1. PICK k \in Nat : k = version
            BY <2>1, <4>2 DEF Before, IInv, Types
          <5>2. Past(k) /\ n <= k
            BY <2>1, <3>1, <4>2, <5>1, BeforePast DEF Before
          <5> QED BY <5>1, <5>2 DEF Past
        <4> QED BY <4>1, <4>2
      <3>3. v \in Nat /\ baselineVersion <= v /\ v <= n /\ v <= version
        BY <2>1, <3>1, <3>2
      <3>4. SnapshotAsOf(v) = At(v)
        <4>1. Clamp(v) = v
          BY <3>2, <3>3 DEF Clamp
        <4>2. UpTo(log, v) = Positions(log, v)
          BY <3>2, <3>3, OrderedUpTo
        <4> QED BY <4>1, <4>2 DEF SnapshotAsOf, Reconstruct, At
      <3> QED BY <2>1, <3>2, <3>3, <3>4
    <2> QED BY <2>1 DEF SavedVersionsSurvive
  <1> HIDE DEF Inv
  <1> QED BY <1>1, <1>2, <1>3, PTL DEF Spec

=============================================================================
