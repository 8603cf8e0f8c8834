------------------------ MODULE IndexedColumnProofs ------------------------
(***************************************************************************)
(* Proofs about an indexed column, for any page size, values, record ids   *)
(* and scenarios: the tree is a search tree on pages that are long enough, *)
(* its scans find the rows of the heap, and a UNIQUE column has no         *)
(* duplicate.                                                              *)
(*                                                                         *)
(* The proof gives every page of the tree an interval of the order of      *)
(* entries and a level above the leaves.  The intervals are no part of the *)
(* program: they say what findLeaf relies on.  A split divides one in two, *)
(* and until the parent is told, the descent still takes both for one.     *)
(***************************************************************************)
EXTENDS IndexedColumn, LeastNumbers, SequenceTheorems

----------------------------------------------------------------------------
(* The order of entries.                                                   *)

\* A place in the order: those of the entries, and one above them all.
Bottom == [top |-> 0, rank |-> 0, rid |-> -1]
Top == [top |-> 1, rank |-> 0, rid |-> 0]
Bound == [top : {0}, rank : Nat, rid : Nat \cup {-1}] \cup {Top}

\* The place of an entry, and the order of places.
Pos(e) == [top |-> 0, rank |-> e.key.rank, rid |-> e.rid]

\* One place is before another.
Lt(p, q) ==
    \/ p.top < q.top
    \/ /\ p.top = q.top
       /\ p.rank < q.rank \/ (p.rank = q.rank /\ p.rid < q.rid)

\* What a descent looks for: an entry, or the place in front of a value.
Probe == [key : Values, rid : Rids \cup {-1}]

\* The order is total, and entryLess is the order of the places.
LEMMA Order ==
    /\ \A p, q \in Bound : p = q \/ Lt(p, q) \/ Lt(q, p)
    /\ \A p \in Bound : ~Lt(p, p)
    /\ \A p, q \in Bound : Lt(p, q) => ~Lt(q, p)
    /\ \A p, q, r \in Bound : Lt(p, q) /\ Lt(q, r) => Lt(p, r)
    /\ \A p, q, r \in Bound : Lt(p, q) /\ ~Lt(r, q) => Lt(p, r)
    /\ \A p, q, r \in Bound : ~Lt(q, p) /\ Lt(q, r) => Lt(p, r)
    /\ \A p, q, r \in Bound : ~Lt(q, p) /\ ~Lt(r, q) => ~Lt(r, p)
  <1>1. \A p, q \in Bound : p = q \/ Lt(p, q) \/ Lt(q, p)
    BY DEF Bound, Lt, Top
  <1>2. \A p \in Bound : ~Lt(p, p)
    BY DEF Bound, Lt, Top
  <1>3. \A p, q, r \in Bound : Lt(p, q) /\ Lt(q, r) => Lt(p, r)
    BY DEF Bound, Lt, Top
  <1> QED BY ONLY <1>1, <1>2, <1>3

\* Every entry and every probe has a place between Bottom and Top, and entryLess
\* is the order of the places.
LEMMA Places ==
    /\ Bottom \in Bound /\ Top \in Bound /\ Lt(Bottom, Top)
    /\ \A p \in Bound : ~Lt(p, Bottom) /\ ~Lt(Top, p)
    /\ Entry \subseteq Probe
    /\ \A e \in Probe : Pos(e) \in Bound /\ ~Lt(Pos(e), Bottom) /\ Lt(Pos(e), Top)
    /\ \A e \in Entry : Lt(Bottom, Pos(e))
    /\ \A e, f \in Probe : EntryLess(e, f) <=> Lt(Pos(e), Pos(f))
    /\ \A e, f \in Probe : SameEntry(e, f) <=> Pos(e) = Pos(f)
  <1>1. Bottom \in Bound /\ Top \in Bound /\ Lt(Bottom, Top)
    BY DEF Bound, Bottom, Top, Lt
  <1>9. \A p \in Bound : ~Lt(p, Bottom) /\ ~Lt(Top, p)
    BY DEF Bound, Bottom, Top, Lt
  <1>2. Entry \subseteq Probe
    BY DEF Entry, Probe
  <1>0. (\A v \in Values : v.rank \in Nat) /\ \A r \in Rids : r \in Int /\ r >= 0
    BY TreeAssumption DEF Value
  <1>3. \A e \in Probe : e.key.rank \in Nat /\ e.rid \in Int /\ e.rid >= -1
    BY <1>0 DEF Probe
  <1>4. \A e \in Entry : e.key.rank \in Nat /\ e.rid \in Int /\ e.rid >= 0
    BY <1>0 DEF Entry
  <1>5. \A e \in Probe : Pos(e) \in Bound /\ ~Lt(Pos(e), Bottom) /\ Lt(Pos(e), Top)
    BY <1>3 DEF Bound, Pos, Lt, Bottom, Top
  <1>6. \A e \in Entry : Lt(Bottom, Pos(e))
    BY <1>4 DEF Bound, Pos, Lt, Bottom
  <1>7. \A e, f \in Probe : EntryLess(e, f) <=> Lt(Pos(e), Pos(f))
    BY <1>3 DEF Pos, Lt, EntryLess
  <1>8. \A e, f \in Probe : SameEntry(e, f) <=> Pos(e) = Pos(f)
    BY <1>3 DEF Pos, SameEntry, KeyEqual
  <1> QED BY <1>1, <1>2, <1>5, <1>6, <1>7, <1>8, <1>9

----------------------------------------------------------------------------
(* Sequences.                                                              *)

\* m is s with e as its i-th element; with its i-th element gone.
IsInserted(m, s, i, e) ==
    /\ Len(m) = Len(s) + 1
    /\ \A j \in 1 .. Len(s) + 1 : m[j] = IF j < i THEN s[j] ELSE IF j = i THEN e ELSE s[j - 1]
IsRemoved(m, s, i) ==
    /\ Len(m) = Len(s) - 1
    /\ \A j \in 1 .. Len(s) - 1 : m[j] = IF j < i THEN s[j] ELSE s[j + 1]

\* std::vector::insert.
LEMMA Inserted ==
    ASSUME NEW S, NEW s \in Seq(S), NEW i \in 1 .. Len(s) + 1, NEW e \in S
    PROVE  InsertAt(s, i, e) \in Seq(S) /\ IsInserted(InsertAt(s, i, e), s, i, e)
  <1> DEFINE a == SubSeq(s, 1, i - 1)
             b == SubSeq(s, i, Len(s))
  <1>1. Len(s) \in Nat /\ \A j \in 1 .. Len(s) : s[j] \in S
    OBVIOUS
  <1>2. a \in Seq(S) /\ Len(a) = i - 1 /\ \A j \in 1 .. i - 1 : a[j] = s[j]
    BY <1>1, SubSeqProperties
  <1>3. b \in Seq(S) /\ Len(b) = Len(s) - i + 1 /\ \A j \in 1 .. Len(s) - i + 1 : b[j] = s[i + j - 1]
    BY <1>1, SubSeqProperties
  <1> HIDE DEF a, b
  <1>4. a \o <<e>> \in Seq(S) /\ Len(a \o <<e>>) = i
        /\ \A j \in 1 .. i : (a \o <<e>>)[j] = IF j < i THEN s[j] ELSE e
    BY <1>1, <1>2
  <1>5. InsertAt(s, i, e) = (a \o <<e>>) \o b
    BY DEF InsertAt, a, b
  <1> DEFINE c == a \o <<e>>
  <1>6. c \in Seq(S) /\ Len(c) = i /\ \A j \in 1 .. i : c[j] = IF j < i THEN s[j] ELSE e
    BY <1>4
  <1>7. InsertAt(s, i, e) = c \o b
    BY <1>5
  <1> HIDE DEF c
  <1>8. c \o b \in Seq(S) /\ Len(c \o b) = Len(s) + 1
    BY <1>1, <1>3, <1>6
  <1>9. ASSUME NEW j \in 1 .. Len(s) + 1
        PROVE  (c \o b)[j] = IF j < i THEN s[j] ELSE IF j = i THEN e ELSE s[j - 1]
    <2>1. CASE j <= i
      BY <1>1, <1>3, <1>6, <2>1
    <2>2. CASE j > i
      <3>1. (c \o b)[j] = b[j - i]
        BY <1>1, <1>3, <1>6, <2>2
      <3>2. j - i \in 1 .. Len(s) - i + 1 /\ i + (j - i) - 1 = j - 1
        BY <1>1, <2>2
      <3>3. b[j - i] = s[j - 1]
        BY <1>3, <3>2
      <3>4. ~(j < i) /\ j # i
        BY <2>2
      <3> QED BY <3>1, <3>3, <3>4
    <2>3. j <= i \/ j > i
      OBVIOUS
    <2> QED BY <2>1, <2>2, <2>3
  <1> QED BY <1>7, <1>8, <1>9 DEF IsInserted

\* std::vector::erase.
LEMMA Removed ==
    ASSUME NEW S, NEW s \in Seq(S), NEW i \in 1 .. Len(s)
    PROVE  RemoveAt(s, i) \in Seq(S) /\ IsRemoved(RemoveAt(s, i), s, i)
  <1> DEFINE a == SubSeq(s, 1, i - 1)
             b == SubSeq(s, i + 1, Len(s))
  <1>1. Len(s) \in Nat /\ \A j \in 1 .. Len(s) : s[j] \in S
    OBVIOUS
  <1>2. a \in Seq(S) /\ Len(a) = i - 1 /\ \A j \in 1 .. i - 1 : a[j] = s[j]
    BY <1>1, SubSeqProperties
  <1>3. b \in Seq(S) /\ Len(b) = Len(s) - i /\ \A j \in 1 .. Len(s) - i : b[j] = s[i + j]
    BY <1>1, SubSeqProperties
  <1>4. RemoveAt(s, i) = a \o b
    BY DEF RemoveAt
  <1> HIDE DEF a, b
  <1>5. a \o b \in Seq(S) /\ Len(a \o b) = Len(s) - 1
    <2>1. a \o b \in Seq(S) /\ Len(a \o b) = Len(a) + Len(b)
      BY <1>2, <1>3, ConcatProperties
    <2> QED BY <1>1, <1>2, <1>3, <2>1
  <1>6. ASSUME NEW j \in 1 .. Len(s) - 1
        PROVE  (a \o b)[j] = IF j < i THEN s[j] ELSE s[j + 1]
    <2>1. CASE j < i
      BY <1>1, <1>2, <1>3, <2>1
    <2>2. CASE ~(j < i)
      <3>1. (a \o b)[j] = b[j - (i - 1)]
        BY <1>1, <1>2, <1>3, <2>2
      <3>2. b[j - (i - 1)] = s[i + (j - (i - 1))]
        BY <1>1, <1>3, <2>2
      <3> QED BY <3>1, <3>2, <2>2
    <2> QED BY <2>1, <2>2
  <1> QED BY <1>4, <1>5, <1>6 DEF IsRemoved

\* A stretch of a sequence.
LEMMA Piece ==
    ASSUME NEW S, NEW s \in Seq(S), NEW m \in 1 .. Len(s) + 1, NEW n \in m - 1 .. Len(s)
    PROVE  /\ SubSeq(s, m, n) \in Seq(S)
           /\ Len(SubSeq(s, m, n)) = n - m + 1
           /\ \A j \in 1 .. n - m + 1 : SubSeq(s, m, n)[j] = s[m + j - 1]
  BY SubSeqProperties

----------------------------------------------------------------------------
(* The shape of a tree.  Every node stands for an interval of places: the  *)
(* ghost t says which, how far the node is above the leaves, and up to     *)
(* which place its parent takes it to reach (span, which differs from high *)
(* only for the left half of a split the parent has not heard of).         *)

\* A page.
NodeType == [leaf : BOOLEAN, next : Nat, entries : Seq(Entry), children : Seq(Nat)]

\* Strictly ascending entries.
Ascending(s) == \A i, j \in DOMAIN s : i < j => Lt(Pos(s[i]), Pos(s[j]))

\* The place is in the interval of page x.
Inside(t, x, p) == ~Lt(p, t.low[x]) /\ Lt(p, t.high[x])

\* The i-th border between the children of x, its ends included.
Edge(nd, t, x, i) ==
    IF i = 0 THEN t.low[x]
    ELSE IF i = Len(nd[x].entries) + 1 THEN t.high[x]
    ELSE Pos(nd[x].entries[i])

\* Pages, and for each a level and an interval.
Typed(nd, t) ==
    /\ nd \in Seq(NodeType)
    /\ t.lev \in [DOMAIN nd -> Nat]
    /\ t.low \in [DOMAIN nd -> Bound]
    /\ t.high \in [DOMAIN nd -> Bound]
    /\ t.span \in [DOMAIN nd -> Bound]

\* The entries of a page ascend inside its interval.
Sorted(nd, t, x) ==
    /\ Lt(t.low[x], t.high[x])
    /\ Ascending(nd[x].entries)
    /\ \A i \in DOMAIN nd[x].entries : Inside(t, x, Pos(nd[x].entries[i]))
    /\ nd[x].leaf <=> t.lev[x] = 0

\* Pages of one level have intervals that do not overlap.
Apart(nd, t) ==
    \A x, y \in DOMAIN nd :
       x # y /\ t.lev[x] = t.lev[y] => ~Lt(t.low[y], t.high[x]) \/ ~Lt(t.low[x], t.high[y])

\* The children of an inner node share out its interval.
Slots(nd, t, x) ==
    /\ Len(nd[x].children) = Len(nd[x].entries) + 1
    /\ nd[x].next = NoNode
    /\ \A i \in DOMAIN nd[x].entries : Lt(t.low[x], Pos(nd[x].entries[i]))
    /\ \A i \in DOMAIN nd[x].children :
          LET c == nd[x].children[i]
          IN  /\ c \in DOMAIN nd
              /\ t.lev[x] = t.lev[c] + 1
              /\ t.low[c] = Edge(nd, t, x, i - 1)
              /\ t.span[c] = Edge(nd, t, x, i)

\* The link of a leaf leads to the leaf that begins where it ends.
Linked(nd, t, x) ==
    /\ nd[x].children = << >>
    /\ \/ nd[x].next = NoNode /\ t.high[x] = Top
       \/ /\ nd[x].next \in DOMAIN nd
          /\ nd[nd[x].next].leaf
          /\ t.low[nd[x].next] = t.high[x]

\* The root is on top, and its interval is everything.
Rooted(nd, t, rt) ==
    /\ rt \in DOMAIN nd
    /\ t.low[rt] = Bottom
    /\ t.span[rt] = Top
    /\ \A x \in DOMAIN nd : t.lev[x] <= t.lev[rt]

\* The shape of a tree, a split under way or not.
Shape(nd, rt, t) ==
    /\ Typed(nd, t)
    /\ \A x \in DOMAIN nd : Sorted(nd, t, x)
    /\ Apart(nd, t)
    /\ \A x \in DOMAIN nd : ~nd[x].leaf => Slots(nd, t, x)
    /\ \A x \in DOMAIN nd : nd[x].leaf => Linked(nd, t, x)
    /\ Rooted(nd, t, rt)

\* Nobody waits for a parent.
Whole(nd, rt, t) == Shape(nd, rt, t) /\ t.span = t.high

\* A path from the root down, every node in the interval of the one before.
Trail(s, rt, nd, t) ==
    /\ s \in Seq(DOMAIN nd) /\ s # << >>
    /\ s[1] = rt
    /\ \A k \in 1 .. Len(s) : t.lev[s[k]] = t.lev[s[Len(s)]] + (Len(s) - k)
    /\ \A k \in 1 .. Len(s) - 1 : Inside(t, s[k], t.low[s[k + 1]])

\* l was split, its right half r is not in its parent yet, to which path leads.
Torn(nd, rt, t, l, r, sep, way) ==
    /\ Shape(nd, rt, t)
    /\ l \in DOMAIN nd /\ r \in DOMAIN nd /\ l # r
    /\ t.lev[l] = t.lev[r]
    /\ sep \in Entry
    /\ t.high[l] = Pos(sep) /\ t.low[r] = Pos(sep) /\ t.span[l] = t.high[r]
    /\ \A x \in DOMAIN nd : x # l => t.span[x] = t.high[x]
    /\ way \in Seq(DOMAIN nd)
    /\ Trail(Append(way, l), rt, nd, t)

----------------------------------------------------------------------------
(* Nodes and their borders.                                                *)

\* What the types say of one node.
LEMMA NodeFacts ==
    ASSUME NEW nd, NEW t, Typed(nd, t), NEW x \in DOMAIN nd
    PROVE  /\ nd[x] \in NodeType /\ x \in Nat \ {0} /\ x <= Len(nd) /\ Len(nd) \in Nat
           /\ DOMAIN nd = 1 .. Len(nd)
           /\ nd[x].entries \in Seq(Entry)
           /\ nd[x].children \in Seq(Nat)
           /\ Len(nd[x].entries) \in Nat /\ DOMAIN nd[x].entries = 1 .. Len(nd[x].entries)
           /\ DOMAIN nd[x].children = 1 .. Len(nd[x].children)
           /\ \A i \in DOMAIN nd[x].entries :
                 nd[x].entries[i] \in Entry /\ Pos(nd[x].entries[i]) \in Bound
           /\ t.low[x] \in Bound /\ t.high[x] \in Bound /\ t.span[x] \in Bound /\ t.lev[x] \in Nat
  <1>1. nd \in Seq(NodeType) /\ DOMAIN nd = 1 .. Len(nd) /\ Len(nd) \in Nat /\ nd[x] \in NodeType
    BY DEF Typed
  <1>2. nd[x].entries \in Seq(Entry) /\ nd[x].children \in Seq(Nat)
    BY <1>1 DEF NodeType
  <1>3. \A i \in DOMAIN nd[x].entries : nd[x].entries[i] \in Entry
    BY <1>2
  <1>4. \A e \in Entry : Pos(e) \in Bound
    BY Places
  <1>5. x \in Nat \ {0} /\ x <= Len(nd)
    BY <1>1
  <1>6. t.low[x] \in Bound /\ t.high[x] \in Bound /\ t.span[x] \in Bound /\ t.lev[x] \in Nat
    BY DEF Typed
  <1>7. Len(nd[x].entries) \in Nat /\ DOMAIN nd[x].entries = 1 .. Len(nd[x].entries)
        /\ DOMAIN nd[x].children = 1 .. Len(nd[x].children)
    BY <1>2
  <1> QED BY <1>1, <1>2, <1>3, <1>4, <1>5, <1>6, <1>7

\* Counting the entries before a place in an ascending sequence finds the place.
LEMMA Counted ==
    ASSUME NEW s \in Seq(Entry), Ascending(s), NEW p \in Bound
    PROVE  /\ LET k == Cardinality({i \in DOMAIN s : Lt(Pos(s[i]), p)})
              IN  k \in 0 .. Len(s) /\ \A i \in DOMAIN s : i <= k <=> Lt(Pos(s[i]), p)
           /\ LET k == Cardinality({i \in DOMAIN s : ~Lt(p, Pos(s[i]))})
              IN  k \in 0 .. Len(s) /\ \A i \in DOMAIN s : i <= k <=> ~Lt(p, Pos(s[i]))
  <1>1. Len(s) \in Nat /\ DOMAIN s = 1 .. Len(s) /\ \A i \in DOMAIN s : Pos(s[i]) \in Bound
    BY Places
  <1> DEFINE A == {i \in DOMAIN s : Lt(Pos(s[i]), p)}
             B == {i \in DOMAIN s : ~Lt(p, Pos(s[i]))}
  <1>2. \A i \in A, j \in 1 .. Len(s) : j <= i => j \in A
    <2>1. SUFFICES ASSUME NEW i \in A, NEW j \in 1 .. Len(s), j < i PROVE Lt(Pos(s[j]), p)
      BY <1>1
    <2>2. Lt(Pos(s[j]), Pos(s[i]))
      BY <1>1, <2>1 DEF Ascending
    <2> QED BY <1>1, <2>1, <2>2, Order
  <1>3. \A i \in B, j \in 1 .. Len(s) : j <= i => j \in B
    <2>1. SUFFICES ASSUME NEW i \in B, NEW j \in 1 .. Len(s), j < i PROVE ~Lt(p, Pos(s[j]))
      BY <1>1
    <2>2. Lt(Pos(s[j]), Pos(s[i]))
      BY <1>1, <2>1 DEF Ascending
    <2> QED BY <1>1, <2>1, <2>2, Order
  <1>4. A \in SUBSET (1 .. Len(s)) /\ B \in SUBSET (1 .. Len(s))
    BY <1>1
  <1>5. (\A i \in DOMAIN s : i \in A <=> Lt(Pos(s[i]), p))
        /\ (\A i \in DOMAIN s : i \in B <=> ~Lt(p, Pos(s[i])))
    OBVIOUS
  <1> HIDE DEF A, B
  <1>6. Cardinality(A) \in 0 .. Len(s) /\ A = 1 .. Cardinality(A)
    BY <1>1, <1>2, <1>4, InitialSegment
  <1>7. Cardinality(B) \in 0 .. Len(s) /\ B = 1 .. Cardinality(B)
    BY <1>1, <1>3, <1>4, InitialSegment
  <1>8. \A i \in DOMAIN s : i <= Cardinality(A) <=> Lt(Pos(s[i]), p)
    BY <1>1, <1>5, <1>6
  <1>9. \A i \in DOMAIN s : i <= Cardinality(B) <=> ~Lt(p, Pos(s[i]))
    BY <1>1, <1>5, <1>7
  <1> QED BY <1>6, <1>7, <1>8, <1>9 DEF A, B

\* The borders of an inner node ascend.
LEMMA Edges ==
    ASSUME NEW nd, NEW t, Typed(nd, t), NEW x \in DOMAIN nd, Sorted(nd, t, x), Slots(nd, t, x)
    PROVE  /\ \A i \in 0 .. Len(nd[x].entries) + 1 : Edge(nd, t, x, i) \in Bound
           /\ \A i, j \in 0 .. Len(nd[x].entries) + 1 :
                 i < j => Lt(Edge(nd, t, x, i), Edge(nd, t, x, j))
  <1> DEFINE n == Len(nd[x].entries)
  <1>1. n \in Nat /\ DOMAIN nd[x].entries = 1 .. n
        /\ \A i \in 1 .. n : Pos(nd[x].entries[i]) \in Bound
    BY NodeFacts
  <1>2. t.low[x] \in Bound /\ t.high[x] \in Bound /\ Lt(t.low[x], t.high[x])
    BY NodeFacts DEF Sorted
  <1>3. \A i, j \in 1 .. n : i < j => Lt(Pos(nd[x].entries[i]), Pos(nd[x].entries[j]))
    BY <1>1 DEF Sorted, Ascending
  <1>4. \A i \in 1 .. n : Lt(t.low[x], Pos(nd[x].entries[i])) /\ Lt(Pos(nd[x].entries[i]), t.high[x])
    BY <1>1 DEF Sorted, Slots, Inside
  <1>5. ASSUME NEW i \in 0 .. n + 1 PROVE Edge(nd, t, x, i) \in Bound
    BY <1>1, <1>2 DEF Edge
  <1>6. ASSUME NEW i \in 0 .. n + 1, NEW j \in 0 .. n + 1, i < j
        PROVE  Lt(Edge(nd, t, x, i), Edge(nd, t, x, j))
    <2> HIDE DEF n
    <2>1. Edge(nd, t, x, i) = IF i = 0 THEN t.low[x] ELSE Pos(nd[x].entries[i])
      BY <1>1, <1>6 DEF Edge, n
    <2>2. Edge(nd, t, x, j) = IF j = n + 1 THEN t.high[x] ELSE Pos(nd[x].entries[j])
      BY <1>1, <1>6 DEF Edge, n
    <2>3. i # 0 => i \in 1 .. n
      BY <1>1, <1>6
    <2>4. j # n + 1 => j \in 1 .. n
      BY <1>1, <1>6
    <2> QED BY <1>2, <1>3, <1>4, <1>6, <2>1, <2>2, <2>3, <2>4
  <1> QED BY <1>5, <1>6

\* A place inside an inner node is between two neighbouring borders, and counting
\* the separators up to it says which.
LEMMA Slot ==
    ASSUME NEW nd, NEW t, Typed(nd, t), NEW x \in DOMAIN nd, Sorted(nd, t, x), Slots(nd, t, x),
           NEW p \in Bound, Inside(t, x, p)
    PROVE  LET k == Cardinality({i \in DOMAIN nd[x].entries : ~Lt(p, Pos(nd[x].entries[i]))})
           IN  /\ k \in 0 .. Len(nd[x].entries)
               /\ ~Lt(p, Edge(nd, t, x, k)) /\ Lt(p, Edge(nd, t, x, k + 1))
               /\ k + 1 \in DOMAIN nd[x].children
  <1> DEFINE n == Len(nd[x].entries)
             k == Cardinality({i \in DOMAIN nd[x].entries : ~Lt(p, Pos(nd[x].entries[i]))})
  <1>1. n \in Nat /\ DOMAIN nd[x].entries = 1 .. n /\ nd[x].entries \in Seq(Entry)
        /\ DOMAIN nd[x].children = 1 .. n + 1
    BY NodeFacts DEF Slots
  <1>2. k \in 0 .. n /\ \A i \in 1 .. n : i <= k <=> ~Lt(p, Pos(nd[x].entries[i]))
    BY <1>1, Counted DEF Sorted
  <1> HIDE DEF k
  <1>3. ~Lt(p, Edge(nd, t, x, k))
    <2>1. CASE k = 0
      BY <1>1, <1>2, <2>1 DEF Edge, Inside
    <2>2. CASE k # 0
      <3>1. k \in 1 .. n /\ k # n + 1 /\ k <= k
        BY <1>1, <1>2, <2>2
      <3>2. Edge(nd, t, x, k) = Pos(nd[x].entries[k])
        BY <3>1, <2>2 DEF Edge
      <3> QED BY <1>2, <3>1, <3>2
    <2> QED BY <2>1, <2>2
  <1>4. Lt(p, Edge(nd, t, x, k + 1))
    <2>1. CASE k = n
      <3>1. k + 1 # 0 /\ k + 1 = n + 1
        BY <1>1, <2>1
      <3> QED BY <3>1 DEF Edge, Inside
    <2>2. CASE k # n
      <3>1. k + 1 \in 1 .. n /\ k + 1 # n + 1 /\ k + 1 # 0 /\ ~(k + 1 <= k)
        BY <1>1, <1>2, <2>2
      <3>2. Edge(nd, t, x, k + 1) = Pos(nd[x].entries[k + 1])
        BY <3>1 DEF Edge
      <3> QED BY <1>2, <3>1, <3>2
    <2> QED BY <2>1, <2>2
  <1>5. k + 1 \in 1 .. n + 1
    BY <1>1, <1>2
  <1> QED BY <1>1, <1>2, <1>3, <1>4, <1>5 DEF k

\* Two nodes of a level share no place.
LEMMA Alone ==
    ASSUME NEW nd, NEW t, Typed(nd, t), Apart(nd, t),
           NEW x \in DOMAIN nd, NEW y \in DOMAIN nd, t.lev[x] = t.lev[y],
           NEW p \in Bound, Inside(t, x, p), Inside(t, y, p)
    PROVE  x = y
  <1>1. t.low[x] \in Bound /\ t.high[x] \in Bound /\ t.low[y] \in Bound /\ t.high[y] \in Bound
    BY NodeFacts
  <1>2. Lt(t.low[y], t.high[x]) /\ Lt(t.low[x], t.high[y])
    BY <1>1, Order DEF Inside
  <1> QED BY <1>2 DEF Apart

----------------------------------------------------------------------------
(* A leaf is written in place.                                             *)

\* Page x written back with the entries s.
Rewritten(nd, x, s) == [nd EXCEPT ![x].entries = s]

\* m is nd but for the entries of x.
IsRewritten(m, nd, x, s) ==
    /\ m \in Seq(NodeType)
    /\ DOMAIN m = DOMAIN nd
    /\ m[x] = [nd[x] EXCEPT !.entries = s]
    /\ m[x].entries = s
    /\ \A y \in DOMAIN nd :
          /\ m[y].leaf = nd[y].leaf
          /\ m[y].next = nd[y].next
          /\ m[y].children = nd[y].children
          /\ y # x => m[y] = nd[y]

\* What writing back one page with other entries leaves as it was.
LEMMA RewrittenFacts ==
    ASSUME NEW nd \in Seq(NodeType), NEW x \in DOMAIN nd, NEW s \in Seq(Entry)
    PROVE  IsRewritten(Rewritten(nd, x, s), nd, x, s)
  <1>1. nd[x] \in NodeType
    OBVIOUS
  <1> DEFINE b == [nd[x] EXCEPT !.entries = s]
  <1>2. b \in NodeType /\ b.entries = s /\ b.leaf = nd[x].leaf /\ b.next = nd[x].next
        /\ b.children = nd[x].children
    BY <1>1 DEF NodeType
  <1>3. Rewritten(nd, x, s) = [nd EXCEPT ![x] = b]
    BY DEF Rewritten
  <1> HIDE DEF b
  <1>4. [nd EXCEPT ![x] = b] \in Seq(NodeType) /\ DOMAIN [nd EXCEPT ![x] = b] = DOMAIN nd
        /\ \A y \in DOMAIN nd : [nd EXCEPT ![x] = b][y] = IF y = x THEN b ELSE nd[y]
    BY <1>2, ExceptSeq
  <1> QED BY <1>2, <1>3, <1>4 DEF b, IsRewritten

\* A leaf may be given any ascending entries inside its interval: writing it
\* back keeps the shape.
LEMMA LeafWritten ==
    ASSUME NEW nd, NEW rt, NEW t, Whole(nd, rt, t),
           NEW x \in DOMAIN nd, nd[x].leaf, NEW s \in Seq(Entry), Ascending(s),
           \A i \in DOMAIN s : Inside(t, x, Pos(s[i]))
    PROVE  Whole(Rewritten(nd, x, s), rt, t)
  <1> DEFINE m == Rewritten(nd, x, s)
  <1>1. Shape(nd, rt, t) /\ Typed(nd, t) /\ t.span = t.high
    BY DEF Whole, Shape
  <1>2. /\ m \in Seq(NodeType)
        /\ DOMAIN m = DOMAIN nd
        /\ m[x].entries = s
        /\ \A y \in DOMAIN nd :
              /\ m[y].leaf = nd[y].leaf
              /\ m[y].next = nd[y].next
              /\ m[y].children = nd[y].children
              /\ y # x => m[y] = nd[y]
    <2>1. nd \in Seq(NodeType) /\ x \in DOMAIN nd /\ s \in Seq(Entry)
      BY <1>1 DEF Typed
    <2>2. IsRewritten(m, nd, x, s)
      BY <2>1, RewrittenFacts
    <2> HIDE DEF m
    <2> QED BY <2>2 DEF IsRewritten
  <1> HIDE DEF m
  <1>3. Typed(m, t)
    BY <1>1, <1>2 DEF Typed
  <1>4. ASSUME NEW y \in DOMAIN nd PROVE Sorted(m, t, y)
    <2>1. Sorted(nd, t, y)
      BY <1>1 DEF Shape
    <2>2. CASE y = x
      BY <1>2, <2>1, <2>2 DEF Sorted
    <2>3. CASE y # x
      BY <1>2, <2>1, <2>3 DEF Sorted
    <2> QED BY <2>2, <2>3
  <1>5. Apart(m, t)
    BY <1>1, <1>2 DEF Shape, Apart
  <1>6. ASSUME NEW y \in DOMAIN nd, ~nd[y].leaf PROVE Slots(m, t, y)
    <2>1. y # x /\ m[y] = nd[y] /\ Slots(nd, t, y)
      BY <1>1, <1>2, <1>6 DEF Shape
    <2> QED BY <1>2, <2>1 DEF Slots, Edge
  <1>7. ASSUME NEW y \in DOMAIN nd, nd[y].leaf PROVE Linked(m, t, y)
    <2>1. Linked(nd, t, y)
      BY <1>1, <1>7 DEF Shape
    <2> QED BY <1>2, <2>1 DEF Linked
  <1>8. Rooted(m, t, rt)
    BY <1>1, <1>2 DEF Shape, Rooted
  <1>9. Shape(m, rt, t)
    BY <1>2, <1>3, <1>4, <1>5, <1>6, <1>7, <1>8 DEF Shape
  <1> QED BY <1>1, <1>9 DEF Whole, m

----------------------------------------------------------------------------
(* A node is split.                                                        *)

\* x becomes a, and b is a new page.
Split(nd, x, a, b) == Append([nd EXCEPT ![x] = a], b)

\* The intervals after x was cut at p.
Cut(nd, t, x, p) ==
    LET r == Len(nd) + 1
    IN  [lev |-> [y \in 1 .. r |-> IF y = r THEN t.lev[x] ELSE t.lev[y]],
         low |-> [y \in 1 .. r |-> IF y = r THEN p ELSE t.low[y]],
         high |-> [y \in 1 .. r |-> IF y = r THEN t.high[x] ELSE IF y = x THEN p ELSE t.high[y]],
         span |-> [y \in 1 .. r |-> IF y = r THEN t.high[x] ELSE t.span[y]]]

\* m has one node more than nd, b, and a in place of x.
IsSplit(m, r, nd, x, a, b) ==
    /\ m \in Seq(NodeType)
    /\ r \in Nat \ {0} /\ r \in 1 .. r
    /\ DOMAIN m = 1 .. r
    /\ \A y \in DOMAIN nd : y \in 1 .. r /\ y # r
    /\ \A y \in 1 .. r : y = r \/ y \in DOMAIN nd
    /\ m[r] = b /\ m[x] = a
    /\ \A y \in DOMAIN nd : y # x => m[y] = nd[y]

\* What writing back one half and appending the other leaves as it was.
LEMMA SplitFacts ==
    ASSUME NEW nd \in Seq(NodeType), NEW x \in DOMAIN nd, NEW a \in NodeType, NEW b \in NodeType
    PROVE  IsSplit(Split(nd, x, a, b), Len(nd) + 1, nd, x, a, b)
  <1> DEFINE e == [nd EXCEPT ![x] = a]
  <1>1. e \in Seq(NodeType) /\ Len(e) = Len(nd) /\ e[x] = a
        /\ \A y \in DOMAIN nd : y # x => e[y] = nd[y]
    BY ExceptSeq
  <1> HIDE DEF e
  <1>2. Len(nd) \in Nat /\ DOMAIN nd = 1 .. Len(nd)
    OBVIOUS
  <1>3. Append(e, b) \in Seq(NodeType) /\ Len(Append(e, b)) = Len(e) + 1
        /\ (\A y \in 1 .. Len(e) : Append(e, b)[y] = e[y]) /\ Append(e, b)[Len(e) + 1] = b
    BY <1>1, AppendProperties
  <1>4. DOMAIN Append(e, b) = 1 .. Len(Append(e, b))
    BY <1>3, LenProperties
  <1>5. Split(nd, x, a, b) = Append(e, b)
    BY DEF Split, e
  <1> QED BY ONLY <1>1, <1>2, <1>3, <1>4, <1>5, x \in DOMAIN nd, SMT DEF IsSplit

\* c has one interval more than t, the upper part of what was x's.
IsCut(c, r, nd, t, x, p) ==
    /\ c.lev \in [1 .. r -> Nat]
    /\ c.low \in [1 .. r -> Bound] /\ c.high \in [1 .. r -> Bound]
    /\ c.span \in [1 .. r -> Bound]
    /\ c.lev[r] = t.lev[x] /\ c.low[r] = p
    /\ c.high[r] = t.high[x] /\ c.span[r] = t.high[x]
    /\ c.high[x] = p
    /\ \A y \in DOMAIN nd :
          /\ c.lev[y] = t.lev[y] /\ c.low[y] = t.low[y] /\ c.span[y] = t.span[y]
          /\ y # x => c.high[y] = t.high[y]

\* Cutting an interval at a separator leaves the other intervals as they were.
LEMMA CutFacts ==
    ASSUME NEW nd, NEW t, Typed(nd, t), NEW x \in DOMAIN nd, NEW p \in Bound
    PROVE  IsCut(Cut(nd, t, x, p), Len(nd) + 1, nd, t, x, p)
  <1> DEFINE r == Len(nd) + 1
  <1>1. r \in 1 .. r /\ \A y \in 1 .. r : y = r \/ y \in DOMAIN nd
    BY NodeFacts
  <1>2. \A y \in DOMAIN nd : y \in 1 .. r /\ y # r
    BY NodeFacts
  <1>3. \A y \in DOMAIN nd : t.lev[y] \in Nat /\ t.low[y] \in Bound /\ t.high[y] \in Bound
                             /\ t.span[y] \in Bound
    BY NodeFacts
  <1> HIDE DEF r
  <1> QED BY <1>1, <1>2, <1>3 DEF Cut, r, IsCut

\* What holds of a split whatever kind of node it is.
Splits(nd, t, x, a, b, sep) ==
    /\ x \in DOMAIN nd
    /\ a \in NodeType /\ b \in NodeType
    /\ a.leaf = nd[x].leaf /\ b.leaf = nd[x].leaf
    /\ sep \in Entry
    /\ Lt(t.low[x], Pos(sep)) /\ Lt(Pos(sep), t.high[x])
    /\ Ascending(a.entries) /\ Ascending(b.entries)
    /\ \A i \in DOMAIN a.entries :
          ~Lt(Pos(a.entries[i]), t.low[x]) /\ Lt(Pos(a.entries[i]), Pos(sep))
    /\ \A i \in DOMAIN b.entries :
          ~Lt(Pos(b.entries[i]), Pos(sep)) /\ Lt(Pos(b.entries[i]), t.high[x])

\* A split, of either kind of node, keeps the entries in order and the intervals
\* apart.
LEMMA SplitOrder ==
    ASSUME NEW nd, NEW rt, NEW t, Whole(nd, rt, t), NEW x, NEW a, NEW b, NEW sep,
           Splits(nd, t, x, a, b, sep)
    PROVE  LET m == Split(nd, x, a, b)
               c == Cut(nd, t, x, Pos(sep))
           IN  /\ Typed(m, c)
               /\ \A y \in DOMAIN m : Sorted(m, c, y)
               /\ Apart(m, c)
               /\ Rooted(m, c, rt)
  <1> DEFINE m == Split(nd, x, a, b)
             c == Cut(nd, t, x, Pos(sep))
             r == Len(nd) + 1
             p == Pos(sep)
  <1>1. Shape(nd, rt, t) /\ Typed(nd, t) /\ t.span = t.high /\ nd \in Seq(NodeType)
    BY DEF Whole, Shape, Typed
  <1>2. x \in DOMAIN nd /\ a \in NodeType /\ b \in NodeType /\ p \in Bound
    BY Places DEF Splits
  <1>3. IsSplit(m, r, nd, x, a, b)
    BY <1>1, <1>2, SplitFacts
  <1>4. IsCut(c, r, nd, t, x, p)
    BY <1>1, <1>2, CutFacts
  <1> HIDE DEF m, c, r
  <1>5. Typed(m, c)
    BY <1>3, <1>4 DEF Typed, IsSplit, IsCut
  <1>6. ASSUME NEW y \in DOMAIN nd, y # x PROVE Sorted(m, c, y)
    <2>1. Sorted(nd, t, y)
      BY <1>1 DEF Shape
    <2> QED BY <1>3, <1>4, <1>6, <2>1 DEF Sorted, Inside, IsSplit, IsCut
  <1>7. Sorted(nd, t, x)
    BY <1>1, <1>2 DEF Shape
  <1>8. Sorted(m, c, x)
    BY <1>2, <1>3, <1>4, <1>7 DEF Sorted, Inside, Splits, IsSplit, IsCut
  <1>9. Sorted(m, c, r)
    BY <1>2, <1>3, <1>4, <1>7 DEF Sorted, Inside, Splits, IsSplit, IsCut
  <1>10. \A y \in DOMAIN nd : t.low[y] \in Bound /\ t.high[y] \in Bound
    BY <1>1, NodeFacts
  <1>11. Lt(t.low[x], p) /\ Lt(p, t.high[x])
    BY DEF Splits
  <1> HIDE DEF p
  <1>12. ASSUME NEW y \in DOMAIN m, NEW z \in DOMAIN m, y # z, c.lev[y] = c.lev[z],
                Lt(c.low[y], c.high[z]), Lt(c.low[z], c.high[y])
         PROVE  FALSE
    <2> DEFINE o(w) == IF w = r THEN x ELSE w
    <2>1. ASSUME NEW w \in DOMAIN m
          PROVE  /\ o(w) \in DOMAIN nd /\ c.lev[w] = t.lev[o(w)]
                 /\ c.low[w] \in Bound /\ c.high[w] \in Bound
                 /\ ~Lt(c.low[w], t.low[o(w)]) /\ ~Lt(t.high[o(w)], c.high[w])
      <3>1. CASE w = r
        BY <1>2, <1>3, <1>4, <1>10, <1>11, <3>1, Order DEF IsSplit, IsCut
      <3>2. CASE w = x
        BY <1>2, <1>3, <1>4, <1>10, <1>11, <3>2, Order DEF IsSplit, IsCut
      <3>3. CASE w # r /\ w # x
        BY <1>2, <1>3, <1>4, <1>10, <3>3, Order DEF IsSplit, IsCut
      <3> QED BY <3>1, <3>2, <3>3
    <2>2. CASE o(y) # o(z)
      <3>1. t.low[o(y)] \in Bound /\ t.high[o(y)] \in Bound
            /\ t.low[o(z)] \in Bound /\ t.high[o(z)] \in Bound
        BY <1>10, <2>1
      <3>2. t.lev[o(y)] = t.lev[o(z)]
        BY <1>12, <2>1
      <3> HIDE DEF o
      <3>3. Lt(t.low[o(y)], c.high[z]) /\ Lt(t.low[o(z)], c.high[y])
        BY <1>12, <2>1, <3>1, Order
      <3>4. Lt(t.low[o(y)], t.high[o(z)]) /\ Lt(t.low[o(z)], t.high[o(y)])
        BY <2>1, <3>1, <3>3, Order
      <3> QED BY <1>1, <2>1, <2>2, <3>2, <3>4 DEF Shape, Apart
    <2>3. CASE o(y) = o(z)
      <3>1. (y = r /\ z = x) \/ (y = x /\ z = r)
        BY <1>12, <2>3
      <3>2. c.low[r] = c.high[x]
        BY <1>4 DEF IsSplit, IsCut
      <3>3. ~Lt(c.low[r], c.high[x])
        BY <1>2, <1>4, <3>2, Order DEF IsSplit, IsCut
      <3> QED BY <1>12, <3>1, <3>3
    <2> QED BY <2>2, <2>3
  <1>13. Apart(m, c)
    BY <1>12 DEF Apart
  <1>14. Rooted(m, c, rt)
    <2>1. Rooted(nd, t, rt)
      BY <1>1 DEF Shape
    <2> QED BY <1>2, <1>3, <1>4, <2>1 DEF Rooted, IsSplit, IsCut
  <1>15. \A y \in DOMAIN m : Sorted(m, c, y)
    BY <1>3, <1>6, <1>8, <1>9 DEF IsSplit, IsCut
  <1> QED BY <1>5, <1>13, <1>14, <1>15 DEF m, c, p

\* The path to a node is still one when the node has been cut.
LEMMA TrailKept ==
    ASSUME NEW nd, NEW rt, NEW t, Typed(nd, t), NEW x \in DOMAIN nd, NEW m, NEW c, NEW r, NEW p,
           NEW a, NEW b, IsSplit(m, r, nd, x, a, b), IsCut(c, r, nd, t, x, p),
           NEW way \in Seq(DOMAIN nd), Trail(Append(way, x), rt, nd, t)
    PROVE  way \in Seq(DOMAIN m) /\ Trail(Append(way, x), rt, m, c)
  <1> DEFINE s == Append(way, x)
  <1>1. DOMAIN nd \subseteq DOMAIN m
    BY DEF IsSplit
  <1>2. s \in Seq(DOMAIN nd) /\ Len(s) \in Nat \ {0} /\ s # << >> /\ s[Len(s)] = x
        /\ \A k \in 1 .. Len(s) : s[k] \in DOMAIN nd
    BY AppendProperties
  <1>3. s \in Seq(DOMAIN m) /\ way \in Seq(DOMAIN m)
    BY <1>1, <1>2, SeqMonotonic
  <1>4. Trail(s, rt, nd, t)
    OBVIOUS
  <1> HIDE DEF s
  <1>5. \A y \in DOMAIN nd : c.lev[y] = t.lev[y] /\ c.low[y] = t.low[y]
                             /\ (y # x => c.high[y] = t.high[y]) /\ t.lev[y] \in Nat
    BY NodeFacts DEF IsCut
  <1>6. \A k \in 1 .. Len(s) : c.lev[s[k]] = c.lev[s[Len(s)]] + (Len(s) - k)
    <2>1. Len(s) \in 1 .. Len(s)
      BY <1>2
    <2>2. \A k \in 1 .. Len(s) : c.lev[s[k]] = t.lev[s[k]]
      BY <1>2, <1>5
    <2> QED BY <1>4, <2>1, <2>2 DEF Trail
  <1>7. ASSUME NEW k \in 1 .. Len(s) - 1 PROVE Inside(c, s[k], c.low[s[k + 1]])
    <2>1. k \in 1 .. Len(s) /\ k + 1 \in 1 .. Len(s)
      BY <1>2
    <2>2. s[k] # x
      <3>1. t.lev[s[k]] = t.lev[x] + (Len(s) - k) /\ t.lev[x] \in Nat /\ Len(s) - k > 0
        BY <1>2, <1>4, <1>5, <2>1 DEF Trail
      <3> QED BY <3>1
    <2>3. s[k] \in DOMAIN nd /\ s[k + 1] \in DOMAIN nd
      BY <1>2, <2>1
    <2>4. Inside(t, s[k], t.low[s[k + 1]])
      BY <1>4 DEF Trail
    <2> QED BY <1>5, <2>2, <2>3, <2>4 DEF Inside
  <1>8. s[1] = rt
    BY <1>4 DEF Trail
  <1> QED BY <1>2, <1>3, <1>6, <1>7, <1>8 DEF Trail, s

\* The other inner nodes keep their children.
LEMMA SlotsKept ==
    ASSUME NEW nd, NEW t, NEW x, NEW m, NEW c, NEW r, NEW p, NEW a, NEW b,
           IsSplit(m, r, nd, x, a, b), IsCut(c, r, nd, t, x, p),
           NEW y \in DOMAIN nd, y # x, Slots(nd, t, y)
    PROVE  Slots(m, c, y)
  <1>1. m[y] = nd[y] /\ c.low[y] = t.low[y] /\ c.high[y] = t.high[y] /\ c.lev[y] = t.lev[y]
    BY DEF IsSplit, IsCut
  <1>2. \A i : Edge(m, c, y, i) = Edge(nd, t, y, i)
    BY <1>1 DEF Edge
  <1>3. ASSUME NEW i \in DOMAIN nd[y].children
        PROVE  /\ nd[y].children[i] \in DOMAIN m
               /\ c.lev[y] = c.lev[nd[y].children[i]] + 1
               /\ c.low[nd[y].children[i]] = Edge(m, c, y, i - 1)
               /\ c.span[nd[y].children[i]] = Edge(m, c, y, i)
    <2> DEFINE z == nd[y].children[i]
    <2>1. z \in DOMAIN nd /\ t.lev[y] = t.lev[z] + 1 /\ t.low[z] = Edge(nd, t, y, i - 1)
          /\ t.span[z] = Edge(nd, t, y, i)
      BY DEF Slots
    <2> HIDE DEF z
    <2>2. z \in DOMAIN m /\ c.lev[z] = t.lev[z] /\ c.low[z] = t.low[z] /\ c.span[z] = t.span[z]
      BY <2>1 DEF IsSplit, IsCut
    <2>3. z \in DOMAIN m /\ c.lev[y] = c.lev[z] + 1 /\ c.low[z] = Edge(m, c, y, i - 1)
          /\ c.span[z] = Edge(m, c, y, i)
      BY <1>1, <1>2, <2>1, <2>2
    <2> QED BY <2>3 DEF z
  <1> QED BY <1>1, <1>3 DEF Slots

\* What a split leaves to do, once the parts are known to keep to their intervals.
LEMMA SplitTears ==
    ASSUME NEW nd, NEW rt, NEW t, Whole(nd, rt, t), NEW x, NEW a, NEW b, NEW sep,
           Splits(nd, t, x, a, b, sep),
           NEW m, m = Split(nd, x, a, b), NEW c, c = Cut(nd, t, x, Pos(sep)),
           \A y \in DOMAIN m : ~m[y].leaf => Slots(m, c, y),
           \A y \in DOMAIN m : m[y].leaf => Linked(m, c, y),
           NEW way \in Seq(DOMAIN nd), Trail(Append(way, x), rt, nd, t)
    PROVE  Torn(m, rt, c, x, Len(nd) + 1, sep, way)
  <1> DEFINE r == Len(nd) + 1
  <1>1. Shape(nd, rt, t) /\ Typed(nd, t) /\ t.span = t.high /\ nd \in Seq(NodeType)
    BY DEF Whole, Shape, Typed
  <1>2. x \in DOMAIN nd /\ a \in NodeType /\ b \in NodeType /\ Pos(sep) \in Bound /\ sep \in Entry
    BY Places DEF Splits
  <1>3. IsSplit(m, r, nd, x, a, b)
    BY <1>1, <1>2, SplitFacts
  <1>4. IsCut(c, r, nd, t, x, Pos(sep))
    BY <1>1, <1>2, CutFacts
  <1>5. Typed(m, c) /\ (\A y \in DOMAIN m : Sorted(m, c, y)) /\ Apart(m, c) /\ Rooted(m, c, rt)
    BY SplitOrder
  <1>6. Shape(m, rt, c)
    BY <1>5 DEF Shape
  <1>7. way \in Seq(DOMAIN m) /\ Trail(Append(way, x), rt, m, c)
    BY <1>1, <1>2, <1>3, <1>4, TrailKept
  <1> HIDE DEF r
  <1>8. x \in DOMAIN m /\ r \in DOMAIN m /\ x # r
    BY <1>2, <1>3 DEF IsSplit
  <1>9. c.lev[x] = c.lev[r] /\ c.high[x] = Pos(sep) /\ c.low[r] = Pos(sep)
    BY <1>2, <1>4 DEF IsCut
  <1>10. c.span[x] = c.high[r]
    BY <1>1, <1>2, <1>4 DEF IsCut
  <1>11. ASSUME NEW y \in DOMAIN m, y # x PROVE c.span[y] = c.high[y]
    BY <1>1, <1>3, <1>4, <1>11, SMTT(40) DEF IsCut, IsSplit
  <1> QED BY <1>2, <1>6, <1>7, <1>8, <1>9, <1>10, <1>11 DEF Torn, r

\* insert() has split a leaf: the tree is whole but for the separator and the new
\* page, which the last page on the way back has still to be told of.
LEMMA LeafSplit ==
    ASSUME NEW nd, NEW rt, NEW t, Whole(nd, rt, t),
           NEW x \in DOMAIN nd, nd[x].leaf, Len(nd[x].entries) >= 2,
           NEW way \in Seq(DOMAIN nd), Trail(Append(way, x), rt, nd, t)
    PROVE  LET r == Len(nd) + 1
               b == RightLeaf(nd[x])
               sep == Head(b.entries)
           IN  Torn(Split(nd, x, LeftLeaf(nd[x], r), b), rt, Cut(nd, t, x, Pos(sep)), x, r, sep, way)
  <1> DEFINE r == Len(nd) + 1
             s == nd[x].entries
             h == Len(s) \div 2
             a == LeftLeaf(nd[x], r)
             b == RightLeaf(nd[x])
             sep == Head(b.entries)
             m == Split(nd, x, a, b)
             c == Cut(nd, t, x, Pos(sep))
  <1>1. Shape(nd, rt, t) /\ Typed(nd, t) /\ t.span = t.high /\ nd \in Seq(NodeType)
        /\ Sorted(nd, t, x) /\ Linked(nd, t, x)
    BY DEF Whole, Shape, Typed
  <1>2. s \in Seq(Entry) /\ Len(s) \in Nat /\ DOMAIN s = 1 .. Len(s) /\ nd[x] \in NodeType
        /\ t.low[x] \in Bound /\ t.high[x] \in Bound /\ r \in Nat
        /\ \A i \in 1 .. Len(s) : s[i] \in Entry /\ Pos(s[i]) \in Bound
    BY <1>1, NodeFacts
  <1>3. h \in 1 .. Len(s) - 1 /\ h \in Nat /\ h + 1 \in 1 .. Len(s)
    <2>1. \A n \in Nat : n >= 2 => n \div 2 \in 1 .. n - 1 /\ n \div 2 \in Nat
                                   /\ n \div 2 + 1 \in 1 .. n
      OBVIOUS
    <2>2. Len(s) \in Nat /\ Len(s) >= 2
      BY <1>2
    <2> QED BY ONLY <2>1, <2>2
  <1> HIDE DEF h
  <1> DEFINE sa == SubSeq(s, 1, h)
             sb == SubSeq(s, h + 1, Len(s))
  <1>4. sa \in Seq(Entry) /\ Len(sa) = h /\ \A j \in 1 .. h : sa[j] = s[j]
    <2>1. 1 \in 1 .. Len(s) + 1 /\ h \in 1 - 1 .. Len(s) /\ h - 1 + 1 = h
      BY <1>2, <1>3
    <2>2. sa \in Seq(Entry) /\ Len(sa) = h - 1 + 1 /\ \A j \in 1 .. h - 1 + 1 : sa[j] = s[1 + j - 1]
      BY ONLY <1>2, <2>1, Piece
    <2> HIDE DEF sa, s
    <2> QED BY <1>3, <2>2
  <1>5. sb \in Seq(Entry) /\ Len(sb) = Len(s) - h /\ \A j \in 1 .. Len(s) - h : sb[j] = s[h + j]
    <2>1. h + 1 \in 1 .. Len(s) + 1 /\ Len(s) \in h + 1 - 1 .. Len(s)
      BY <1>2, <1>3
    <2>2. sb \in Seq(Entry) /\ Len(sb) = Len(s) - (h + 1) + 1
          /\ \A j \in 1 .. Len(s) - (h + 1) + 1 : sb[j] = s[h + 1 + j - 1]
      BY ONLY <1>2, <2>1, Piece, SMTT(40)
    <2> HIDE DEF sb, s
    <2>3. Len(s) - (h + 1) + 1 = Len(s) - h
          /\ \A j \in 1 .. Len(s) - h : h + 1 + j - 1 = h + j
      BY <1>2, <1>3
    <2> QED BY <2>2, <2>3
  <1>6. /\ a.entries = sa /\ a.leaf = TRUE /\ a.children = << >> /\ a.next = r
        /\ b.entries = sb /\ b.leaf = TRUE /\ b.children = << >> /\ b.next = nd[x].next
    BY DEF LeftLeaf, RightLeaf, Leaf, h
  <1>7. a \in NodeType /\ b \in NodeType
    <2>1. nd[x].next \in Nat /\ << >> \in Seq(Nat)
      BY <1>2 DEF NodeType
    <2> HIDE DEF sa, sb
    <2>2. Leaf(sa, r) \in NodeType /\ Leaf(sb, nd[x].next) \in NodeType
      BY <1>2, <1>4, <1>5, <2>1 DEF Leaf, NodeType
    <2> QED BY <2>2 DEF LeftLeaf, RightLeaf, h, sa, sb
  <1>8. sep = s[h + 1] /\ sep \in Entry
    <2>1. 1 \in 1 .. Len(s) - h /\ sb # << >> /\ h + 1 \in 1 .. Len(s)
      <3> HIDE DEF sb, s
      <3>1. Len(s) - h \in Nat \ {0}
        <4>1. Len(s) \in Nat /\ h \in 1 .. Len(s) - 1
          BY <1>2, <1>3
        <4> QED BY ONLY <4>1
      <3>2. sb # << >>
        BY <1>5, <3>1
      <3> QED BY <1>3, <3>1, <3>2
    <2>2. Head(sb) = sb[1]
      BY <1>5, <2>1
    <2> HIDE DEF sb
    <2> QED BY <1>2, <1>5, <1>6, <2>1, <2>2
  <1> HIDE DEF a, b, sep, sa, sb, s
  <1>9. \A i, j \in 1 .. Len(s) : i < j => Lt(Pos(s[i]), Pos(s[j]))
    BY <1>1, <1>2 DEF Sorted, Ascending, s
  <1>10. \A i \in 1 .. Len(s) : ~Lt(Pos(s[i]), t.low[x]) /\ Lt(Pos(s[i]), t.high[x])
    BY <1>1, <1>2 DEF Sorted, Inside, s
  <1>11. Splits(nd, t, x, a, b, sep)
    <2>1. DOMAIN sa = 1 .. h /\ DOMAIN sb = 1 .. Len(s) - h
      BY <1>4, <1>5
    <2>2. Ascending(sa)
      <3>1. \A i \in 1 .. h : i \in 1 .. Len(s)
        BY <1>2, <1>3
      <3> QED BY <1>4, <1>9, <2>1, <3>1 DEF Ascending
    <2>3. \A i \in 1 .. Len(s) - h : h + i \in 1 .. Len(s)
      BY <1>2, <1>3
    <2>4. Ascending(sb)
      <3>1. \A i, j \in 1 .. Len(s) - h : i < j => h + i < h + j
        BY <1>2, <1>3
      <3> QED BY <1>5, <1>9, <2>1, <2>3, <3>1 DEF Ascending
    <2>5. \A i \in 1 .. h : i \in 1 .. Len(s) /\ i < h + 1
      BY <1>2, <1>3
    <2>6. \A i \in 1 .. h : ~Lt(Pos(sa[i]), t.low[x]) /\ Lt(Pos(sa[i]), Pos(sep))
      BY <1>3, <1>4, <1>8, <1>9, <1>10, <2>5
    <2>7. \A i \in 1 .. Len(s) - h : ~Lt(Pos(sb[i]), Pos(sep)) /\ Lt(Pos(sb[i]), t.high[x])
      <3>1. SUFFICES ASSUME NEW i \in 1 .. Len(s) - h
                     PROVE  ~Lt(Pos(sb[i]), Pos(sep)) /\ Lt(Pos(sb[i]), t.high[x])
        OBVIOUS
      <3>2. sb[i] = s[h + i] /\ h + i \in 1 .. Len(s)
        BY <1>5, <2>3
      <3>3. h + i = h + 1 \/ h + 1 < h + i
        BY <1>3, <2>3
      <3>4. Pos(s[h + i]) \in Bound /\ Pos(s[h + 1]) \in Bound
        BY <1>2, <1>3, <3>2
      <3>5. ~Lt(Pos(s[h + i]), Pos(s[h + 1]))
        BY <1>3, <1>9, <3>2, <3>3, <3>4, Order
      <3> QED BY <1>8, <1>10, <3>2, <3>5
    <2>8. Lt(t.low[x], Pos(sep)) /\ Lt(Pos(sep), t.high[x])
      <3>1. 1 \in 1 .. Len(s) /\ 1 < h + 1 /\ h + 1 \in 1 .. Len(s)
        BY <1>2, <1>3
      <3>2. ~Lt(Pos(s[1]), t.low[x]) /\ Lt(Pos(s[1]), Pos(s[h + 1])) /\ Lt(Pos(s[h + 1]), t.high[x])
        BY <1>9, <1>10, <3>1
      <3>3. Pos(s[1]) \in Bound /\ Pos(s[h + 1]) \in Bound
        BY <1>2, <3>1
      <3> QED BY <1>2, <1>8, <3>2, <3>3, Order
    <2> QED BY <1>6, <1>7, <1>8, <2>1, <2>2, <2>4, <2>6, <2>7, <2>8 DEF Splits
  <1>12. IsSplit(m, r, nd, x, a, b)
    BY <1>1, <1>7, SplitFacts
  <1>13. Pos(sep) \in Bound
    BY <1>8, Places
  <1>14. IsCut(c, r, nd, t, x, Pos(sep))
    BY <1>1, <1>13, CutFacts
  <1>15. m = Split(nd, x, a, b) /\ c = Cut(nd, t, x, Pos(sep))
    OBVIOUS
  <1> HIDE DEF m, c, r
  <1>16. ASSUME NEW y \in DOMAIN m, ~m[y].leaf PROVE Slots(m, c, y)
    <2>1. y \in DOMAIN nd /\ y # x /\ m[y] = nd[y]
      BY <1>6, <1>12, <1>16 DEF IsSplit
    <2>2. Slots(nd, t, y)
      BY <1>1, <1>16, <2>1 DEF Shape
    <2> QED BY <1>12, <1>14, <2>1, <2>2, SlotsKept
  <1>17. ASSUME NEW y \in DOMAIN m, m[y].leaf PROVE Linked(m, c, y)
    <2>1. CASE y = x
      BY <1>6, <1>12, <1>14, <2>1 DEF Linked, IsSplit, IsCut
    <2>2. ASSUME NEW z \in DOMAIN nd, nd[z].leaf PROVE z \in DOMAIN m /\ m[z].leaf /\ c.low[z] = t.low[z]
      BY <1>6, <1>12, <1>14, <2>2 DEF IsSplit, IsCut
    <2>3. CASE y = r
      <3>1. m[y] = b /\ c.high[y] = t.high[x]
        BY <1>12, <1>14, <2>3 DEF IsSplit, IsCut
      <3> QED BY <1>1, <1>6, <2>2, <3>1 DEF Linked
    <2>4. CASE y # x /\ y # r
      <3>1. y \in DOMAIN nd /\ m[y] = nd[y] /\ c.high[y] = t.high[y]
        BY <1>12, <1>14, <2>4 DEF IsSplit, IsCut
      <3>2. Linked(nd, t, y)
        BY <1>1, <1>17, <3>1 DEF Shape
      <3> QED BY <2>2, <3>1, <3>2 DEF Linked
    <2> QED BY <2>1, <2>3, <2>4
  <1>18. Torn(m, rt, c, x, Len(nd) + 1, sep, way)
    BY <1>11, <1>15, <1>16, <1>17, SplitTears
  <1> QED BY <1>18 DEF m, c, r, a, b, sep

\* The parts of an inner node that is split, and the entry between them.
IsHalved(a, b, n, h) ==
    /\ h \in Nat /\ h + 1 \in 1 .. Len(n.entries)
    /\ a \in NodeType /\ b \in NodeType /\ ~a.leaf /\ ~b.leaf
    /\ a.next = NoNode /\ b.next = NoNode
    /\ DOMAIN a.entries = 1 .. h /\ Len(a.entries) = h /\ Len(a.children) = h + 1
    /\ DOMAIN a.children = 1 .. h + 1
    /\ DOMAIN b.entries = 1 .. Len(n.entries) - (h + 1)
    /\ Len(b.entries) = Len(n.entries) - (h + 1)
    /\ Len(b.children) = Len(n.entries) - h
    /\ DOMAIN b.children = 1 .. Len(n.entries) - h
    /\ \A j \in 1 .. h : a.entries[j] = n.entries[j]
    /\ \A j \in 1 .. h + 1 : a.children[j] = n.children[j]
    /\ \A j \in 1 .. Len(n.entries) - (h + 1) : b.entries[j] = n.entries[h + 1 + j]
    /\ \A j \in 1 .. Len(n.entries) - h : b.children[j] = n.children[h + 1 + j]

\* What the two halves of an inner node have: the middle entry is in neither.
LEMMA Halved ==
    ASSUME NEW n \in NodeType, Len(n.entries) >= 1, Len(n.children) = Len(n.entries) + 1
    PROVE  IsHalved(LeftInner(n), RightInner(n), n, Len(n.entries) \div 2)
  <1> DEFINE s == n.entries
             ch == n.children
             h == Len(s) \div 2
             sa == SubSeq(s, 1, h)
             sb == SubSeq(s, h + 2, Len(s))
             ca == SubSeq(ch, 1, h + 1)
             cb == SubSeq(ch, h + 2, Len(ch))
  <1>1. s \in Seq(Entry) /\ ch \in Seq(Nat) /\ Len(s) \in Nat /\ Len(ch) = Len(s) + 1
        /\ (\A i \in 1 .. Len(s) : s[i] \in Entry) /\ \A i \in 1 .. Len(ch) : ch[i] \in Nat
    BY DEF NodeType
  <1>2. h \in Nat /\ h + 1 \in 1 .. Len(s)
    <2>1. \A k \in Nat : k >= 1 => k \div 2 \in Nat /\ k \div 2 + 1 \in 1 .. k
      OBVIOUS
    <2>2. Len(s) \in Nat /\ Len(s) >= 1
      BY <1>1
    <2> QED BY ONLY <2>1, <2>2
  <1>3. LeftInner(n) = Inner(sa, ca) /\ RightInner(n) = Inner(sb, cb)
    BY DEF LeftInner, RightInner
  <1>4. Len(n.entries) \div 2 = h /\ n.entries = s /\ n.children = ch
    OBVIOUS
  <1> HIDE DEF h
  <1>5. h <= Len(s) - 1 /\ h + 1 <= Len(ch) /\ Len(ch) = Len(s) + 1 /\ Len(s) \in Nat /\ h \in Nat
    BY <1>1, <1>2
  <1>6. sa \in Seq(Entry) /\ Len(sa) = h /\ \A j \in 1 .. h : sa[j] = s[j]
    <2>1. 1 \in 1 .. Len(s) + 1 /\ h \in 1 - 1 .. Len(s) /\ h - 1 + 1 = h
          /\ \A j \in 1 .. h : 1 + j - 1 = j
      BY ONLY <1>5
    <2>2. sa \in Seq(Entry) /\ Len(sa) = h - 1 + 1 /\ \A j \in 1 .. h - 1 + 1 : sa[j] = s[1 + j - 1]
      BY ONLY <1>1, <2>1, Piece
    <2> HIDE DEF sa, s
    <2> QED BY ONLY <2>1, <2>2
  <1>7. sb \in Seq(Entry) /\ Len(sb) = Len(s) - (h + 1)
        /\ \A j \in 1 .. Len(s) - (h + 1) : sb[j] = s[h + 1 + j]
    <2> DEFINE k == h + 2
    <2>1. k \in 1 .. Len(s) + 1 /\ Len(s) \in k - 1 .. Len(s)
          /\ Len(s) - k + 1 = Len(s) - (h + 1)
          /\ \A j \in 1 .. Len(s) - (h + 1) : k + j - 1 = h + 1 + j
      BY ONLY <1>5
    <2>2. sb = SubSeq(s, k, Len(s))
      OBVIOUS
    <2> HIDE DEF k
    <2>3. SubSeq(s, k, Len(s)) \in Seq(Entry) /\ Len(SubSeq(s, k, Len(s))) = Len(s) - k + 1
          /\ \A j \in 1 .. Len(s) - k + 1 : SubSeq(s, k, Len(s))[j] = s[k + j - 1]
      BY ONLY <1>1, <2>1, Piece
    <2> HIDE DEF sb, s
    <2> QED BY ONLY <2>1, <2>2, <2>3
  <1>8. ca \in Seq(Nat) /\ Len(ca) = h + 1 /\ \A j \in 1 .. h + 1 : ca[j] = ch[j]
    <2>1. 1 \in 1 .. Len(ch) + 1 /\ h + 1 \in 1 - 1 .. Len(ch) /\ h + 1 - 1 + 1 = h + 1
          /\ \A j \in 1 .. h + 1 : 1 + j - 1 = j
      BY ONLY <1>5
    <2>2. ca \in Seq(Nat) /\ Len(ca) = h + 1 - 1 + 1
          /\ \A j \in 1 .. h + 1 - 1 + 1 : ca[j] = ch[1 + j - 1]
      BY ONLY <1>1, <2>1, Piece
    <2> HIDE DEF ca, ch
    <2> QED BY ONLY <2>1, <2>2
  <1>9. cb \in Seq(Nat) /\ Len(cb) = Len(s) - h
        /\ \A j \in 1 .. Len(s) - h : cb[j] = ch[h + 1 + j]
    <2> DEFINE k == h + 2
    <2>1. k \in 1 .. Len(ch) + 1 /\ Len(ch) \in k - 1 .. Len(ch)
          /\ Len(ch) - k + 1 = Len(s) - h
          /\ \A j \in 1 .. Len(s) - h : k + j - 1 = h + 1 + j
      BY ONLY <1>5
    <2>2. cb = SubSeq(ch, k, Len(ch))
      OBVIOUS
    <2> HIDE DEF k
    <2>3. SubSeq(ch, k, Len(ch)) \in Seq(Nat) /\ Len(SubSeq(ch, k, Len(ch))) = Len(ch) - k + 1
          /\ \A j \in 1 .. Len(ch) - k + 1 : SubSeq(ch, k, Len(ch))[j] = ch[k + j - 1]
      BY ONLY <1>1, <2>1, Piece
    <2> HIDE DEF cb, ch, s
    <2> QED BY ONLY <2>1, <2>2, <2>3
  <1> HIDE DEF s, ch, sa, sb, ca, cb
  <1>10. Inner(sa, ca) \in NodeType /\ Inner(sb, cb) \in NodeType
    BY <1>6, <1>7, <1>8, <1>9 DEF Inner, NodeType, NoNode
  <1>11. DOMAIN sa = 1 .. h /\ DOMAIN ca = 1 .. h + 1
         /\ DOMAIN sb = 1 .. Len(s) - (h + 1) /\ DOMAIN cb = 1 .. Len(s) - h
    BY <1>6, <1>7, <1>8, <1>9
  <1>12. IsHalved(Inner(sa, ca), Inner(sb, cb), n, h)
    <2>1. /\ Inner(sa, ca).entries = sa /\ Inner(sa, ca).children = ca
          /\ Inner(sa, ca).leaf = FALSE /\ Inner(sa, ca).next = NoNode
          /\ Inner(sb, cb).entries = sb /\ Inner(sb, cb).children = cb
          /\ Inner(sb, cb).leaf = FALSE /\ Inner(sb, cb).next = NoNode
      BY DEF Inner
    <2> QED BY <1>2, <1>4, <1>6, <1>7, <1>8, <1>9, <1>10, <1>11, <2>1 DEF IsHalved
  <1> QED BY <1>3, <1>4, <1>12

\* insert() has split an inner node: as for a leaf, one level up.
LEMMA InnerSplit ==
    ASSUME NEW nd, NEW rt, NEW t, Whole(nd, rt, t),
           NEW x \in DOMAIN nd, ~nd[x].leaf, Len(nd[x].entries) >= 1,
           NEW way \in Seq(DOMAIN nd), Trail(Append(way, x), rt, nd, t)
    PROVE  LET r == Len(nd) + 1
               sep == nd[x].entries[Len(nd[x].entries) \div 2 + 1]
           IN  Torn(Split(nd, x, LeftInner(nd[x]), RightInner(nd[x])), rt,
                    Cut(nd, t, x, Pos(sep)), x, r, sep, way)
  <1> DEFINE r == Len(nd) + 1
             s == nd[x].entries
             ch == nd[x].children
             h == Len(s) \div 2
             a == LeftInner(nd[x])
             b == RightInner(nd[x])
             sep == s[h + 1]
             m == Split(nd, x, a, b)
             c == Cut(nd, t, x, Pos(sep))
  <1>1. Shape(nd, rt, t) /\ Typed(nd, t) /\ t.span = t.high /\ nd \in Seq(NodeType)
        /\ Sorted(nd, t, x) /\ Slots(nd, t, x)
    BY DEF Whole, Shape, Typed
  <1>2. s \in Seq(Entry) /\ Len(s) \in Nat /\ DOMAIN s = 1 .. Len(s) /\ nd[x] \in NodeType
        /\ t.low[x] \in Bound /\ t.high[x] \in Bound
        /\ Len(ch) = Len(s) + 1 /\ DOMAIN ch = 1 .. Len(s) + 1
        /\ \A i \in 1 .. Len(s) : s[i] \in Entry /\ Pos(s[i]) \in Bound
    BY <1>1, NodeFacts DEF Slots
  <1>3. IsHalved(a, b, nd[x], h)
    BY <1>2, Halved
  <1>4. Len(s) \in Nat /\ h \in Nat /\ h + 1 \in 1 .. Len(s)
    BY <1>2, <1>3 DEF IsHalved
  <1> HIDE DEF a, b, h, s, ch
  <1>5. /\ \A i, j \in 1 .. Len(s) : i < j => Lt(Pos(s[i]), Pos(s[j]))
        /\ \A i \in 1 .. Len(s) : ~Lt(Pos(s[i]), t.low[x]) /\ Lt(Pos(s[i]), t.high[x])
        /\ \A i \in 1 .. Len(s) : Lt(t.low[x], Pos(s[i]))
    BY <1>1, <1>2 DEF Sorted, Ascending, s, Slots, Inside
  <1>6. /\ a \in NodeType /\ b \in NodeType /\ ~a.leaf /\ ~b.leaf
        /\ DOMAIN a.entries = 1 .. h /\ DOMAIN b.entries = 1 .. Len(s) - (h + 1)
        /\ \A j \in 1 .. h : a.entries[j] = s[j]
        /\ \A j \in 1 .. Len(s) - (h + 1) : b.entries[j] = s[h + 1 + j]
    BY <1>3 DEF IsHalved, s
  <1>7. \A j \in 1 .. h : j \in 1 .. Len(s) /\ j < h + 1
    BY ONLY <1>4
  <1>8. \A j \in 1 .. Len(s) - (h + 1) : h + 1 + j \in 1 .. Len(s) /\ h + 1 < h + 1 + j
    BY ONLY <1>4
  <1>9. sep \in Entry /\ Pos(sep) \in Bound /\ Lt(t.low[x], Pos(sep)) /\ Lt(Pos(sep), t.high[x])
    BY <1>2, <1>4, <1>5
  <1>10. \A j \in 1 .. h : ~Lt(Pos(a.entries[j]), t.low[x]) /\ Lt(Pos(a.entries[j]), Pos(sep))
    BY <1>4, <1>5, <1>6, <1>7
  <1>11. ASSUME NEW j \in 1 .. Len(s) - (h + 1)
         PROVE  /\ Lt(Pos(sep), Pos(b.entries[j])) /\ ~Lt(Pos(b.entries[j]), Pos(sep))
                /\ Lt(Pos(b.entries[j]), t.high[x])
    <2>1. b.entries[j] = s[h + 1 + j] /\ h + 1 + j \in 1 .. Len(s) /\ h + 1 < h + 1 + j
      BY <1>6, <1>8
    <2>2. Lt(Pos(sep), Pos(b.entries[j])) /\ Lt(Pos(b.entries[j]), t.high[x])
          /\ Pos(b.entries[j]) \in Bound
      BY <1>2, <1>4, <1>5, <2>1
    <2> QED BY <1>9, <2>2, Order
  <1>12. Ascending(a.entries)
    BY <1>5, <1>6, <1>7 DEF Ascending
  <1>13. Ascending(b.entries)
    <2>1. \A i, j \in 1 .. Len(s) - (h + 1) : i < j => h + 1 + i < h + 1 + j
      BY ONLY <1>4
    <2> QED BY <1>5, <1>6, <1>8, <2>1 DEF Ascending
  <1>14. Splits(nd, t, x, a, b, sep)
    <2>1. a.leaf = FALSE /\ b.leaf = FALSE /\ nd[x].leaf = FALSE
      BY <1>2, <1>6 DEF NodeType
    <2> HIDE DEF sep
    <2> QED BY <1>6, <1>9, <1>10, <1>11, <1>12, <1>13, <2>1 DEF Splits
  <1>15. IsSplit(m, r, nd, x, a, b)
    BY <1>1, <1>6, SplitFacts
  <1>16. IsCut(c, r, nd, t, x, Pos(sep))
    BY <1>1, <1>9, CutFacts
  <1>17. m = Split(nd, x, a, b) /\ c = Cut(nd, t, x, Pos(sep))
    OBVIOUS
  <1> HIDE DEF m, c, r
  <1>18. \A i \in 1 .. Len(s) + 1 :
            /\ ch[i] \in DOMAIN nd /\ ch[i] \in DOMAIN m
            /\ t.lev[x] = c.lev[ch[i]] + 1
            /\ c.low[ch[i]] = Edge(nd, t, x, i - 1)
            /\ c.span[ch[i]] = Edge(nd, t, x, i)
    <2>1. \A i \in 1 .. Len(s) + 1 :
            /\ ch[i] \in DOMAIN nd
            /\ t.lev[x] = t.lev[ch[i]] + 1
            /\ t.low[ch[i]] = Edge(nd, t, x, i - 1)
            /\ t.span[ch[i]] = Edge(nd, t, x, i)
      BY <1>1, <1>2 DEF Slots, ch
    <2>2. \A z \in DOMAIN nd : z \in DOMAIN m /\ c.lev[z] = t.lev[z] /\ c.low[z] = t.low[z]
                               /\ c.span[z] = t.span[z]
      BY <1>15, <1>16 DEF IsSplit, IsCut
    <2> QED BY <2>1, <2>2
  <1>19. \A i \in 0 .. Len(s) + 1 :
            Edge(nd, t, x, i) = IF i = 0 THEN t.low[x]
                                ELSE IF i = Len(s) + 1 THEN t.high[x] ELSE Pos(s[i])
    BY DEF Edge, s
  <1>20. Slots(m, c, x)
    <2>1. m[x] = a /\ c.low[x] = t.low[x] /\ c.high[x] = Pos(sep) /\ c.lev[x] = t.lev[x]
      BY <1>15, <1>16 DEF IsSplit, IsCut
    <2>2. ASSUME NEW i \in 0 .. h + 1 PROVE Edge(m, c, x, i) = Edge(nd, t, x, i)
      <3>1. i \in 0 .. Len(s) + 1 /\ i # Len(s) + 1
        BY ONLY <1>4, <2>2
      <3>2. Len(m[x].entries) = h
        BY <1>3, <2>1 DEF IsHalved
      <3>3. Edge(m, c, x, i) = IF i = 0 THEN t.low[x] ELSE IF i = h + 1 THEN Pos(sep) ELSE Pos(a.entries[i])
        BY <2>1, <3>2 DEF Edge
      <3>4. i # 0 /\ i # h + 1 => a.entries[i] = s[i]
        <4>1. i # 0 /\ i # h + 1 => i \in 1 .. h
          BY ONLY <1>4, <2>2
        <4> QED BY <1>6, <4>1
      <3> QED BY <1>19, <3>1, <3>3, <3>4
    <2>3. \A i \in 1 .. h + 1 : i \in 1 .. Len(s) + 1 /\ i \in 0 .. h + 1 /\ i - 1 \in 0 .. h + 1
      BY ONLY <1>4
    <2>4. Len(a.children) = Len(a.entries) + 1 /\ a.next = NoNode
          /\ DOMAIN a.children = 1 .. h + 1 /\ \A i \in 1 .. h + 1 : a.children[i] = ch[i]
      BY <1>3 DEF IsHalved, ch
    <2>5. \A i \in 1 .. h : Lt(t.low[x], Pos(a.entries[i]))
      BY <1>5, <1>6, <1>7
    <2>6. \A i \in 1 .. h + 1 :
            /\ a.children[i] \in DOMAIN m
            /\ c.lev[x] = c.lev[a.children[i]] + 1
            /\ c.low[a.children[i]] = Edge(m, c, x, i - 1)
            /\ c.span[a.children[i]] = Edge(m, c, x, i)
      BY <1>18, <2>1, <2>2, <2>3, <2>4
    <2> QED BY <1>6, <2>1, <2>4, <2>5, <2>6 DEF Slots
  <1>21. Slots(m, c, r)
    <2>1. m[r] = b /\ c.low[r] = Pos(sep) /\ c.high[r] = t.high[x] /\ c.lev[r] = t.lev[x]
      BY <1>15, <1>16 DEF IsSplit, IsCut
    <2>2. ASSUME NEW i \in 0 .. Len(s) - h PROVE Edge(m, c, r, i) = Edge(nd, t, x, h + 1 + i)
      <3>1. h + 1 + i \in 0 .. Len(s) + 1 /\ h + 1 + i # 0
            /\ (h + 1 + i = Len(s) + 1 <=> i = Len(s) - h)
            /\ (i = Len(s) - (h + 1) + 1 <=> i = Len(s) - h)
        BY ONLY <1>4, <2>2
      <3>2. Len(m[r].entries) = Len(s) - (h + 1)
        BY <1>3, <2>1 DEF IsHalved, s
      <3>3. Edge(m, c, r, i) = IF i = 0 THEN Pos(sep) ELSE IF i = Len(s) - h THEN t.high[x]
                               ELSE Pos(b.entries[i])
        BY <2>1, <3>1, <3>2 DEF Edge
      <3>4. i # 0 /\ i # Len(s) - h => b.entries[i] = s[h + 1 + i]
        <4>1. i # 0 /\ i # Len(s) - h => i \in 1 .. Len(s) - (h + 1)
          BY ONLY <1>4, <2>2
        <4> QED BY <1>6, <4>1
      <3>5. i = 0 => h + 1 + i = h + 1 /\ i # Len(s) - h
        BY ONLY <1>4
      <3> QED BY <1>19, <3>1, <3>3, <3>4, <3>5
    <2>3. \A i \in 1 .. Len(s) - h :
            /\ h + 1 + i \in 1 .. Len(s) + 1 /\ i \in 0 .. Len(s) - h /\ i - 1 \in 0 .. Len(s) - h
            /\ h + 1 + (i - 1) = h + 1 + i - 1
      BY ONLY <1>4
    <2>4. Len(b.entries) = Len(s) - (h + 1) /\ Len(b.children) = Len(s) - h /\ b.next = NoNode
          /\ DOMAIN b.children = 1 .. Len(s) - h
          /\ \A i \in 1 .. Len(s) - h : b.children[i] = ch[h + 1 + i]
      BY <1>3 DEF IsHalved, ch, s
    <2>5. Len(s) - h = Len(s) - (h + 1) + 1
      BY ONLY <1>4
    <2>6. ASSUME NEW i \in 1 .. Len(s) - h
          PROVE  /\ b.children[i] \in DOMAIN m
                 /\ c.lev[r] = c.lev[b.children[i]] + 1
                 /\ c.low[b.children[i]] = Edge(m, c, r, i - 1)
                 /\ c.span[b.children[i]] = Edge(m, c, r, i)
      <3> DEFINE j == h + 1 + i
      <3>1. j \in 1 .. Len(s) + 1 /\ i \in 0 .. Len(s) - h /\ i - 1 \in 0 .. Len(s) - h
            /\ h + 1 + (i - 1) = j - 1
        BY ONLY <1>4, <2>6 DEF j
      <3>2. b.children[i] = ch[j]
        BY <2>4
      <3>3. Edge(m, c, r, i) = Edge(nd, t, x, j)
        BY <2>2, <3>1
      <3>4. Edge(m, c, r, i - 1) = Edge(nd, t, x, h + 1 + (i - 1))
        BY <2>2, <3>1
      <3> HIDE DEF j
      <3>5. ch[j] \in DOMAIN m /\ t.lev[x] = c.lev[ch[j]] + 1
            /\ c.low[ch[j]] = Edge(nd, t, x, j - 1) /\ c.span[ch[j]] = Edge(nd, t, x, j)
        BY <1>18, <3>1
      <3> QED BY <2>1, <3>1, <3>2, <3>3, <3>4, <3>5
    <2> QED BY <1>6, <1>11, <2>1, <2>4, <2>5, <2>6 DEF Slots
  <1>22. ASSUME NEW y \in DOMAIN m, ~m[y].leaf PROVE Slots(m, c, y)
    <2>1. CASE y # x /\ y # r
      <3>1. y \in DOMAIN nd /\ m[y] = nd[y]
        BY <1>15, <2>1 DEF IsSplit
      <3>2. Slots(nd, t, y)
        BY <1>1, <1>22, <3>1 DEF Shape
      <3> QED BY <1>15, <1>16, <2>1, <3>1, <3>2, SlotsKept
    <2> QED BY <1>20, <1>21, <2>1
  <1>23. ASSUME NEW y \in DOMAIN m, m[y].leaf PROVE Linked(m, c, y)
    <2>1. y \in DOMAIN nd /\ y # x /\ m[y] = nd[y]
      BY <1>6, <1>15, <1>23 DEF IsSplit
    <2>2. Linked(nd, t, y) /\ c.high[y] = t.high[y]
      BY <1>1, <1>16, <1>23, <2>1 DEF Shape, IsCut
    <2>3. ASSUME NEW z \in DOMAIN nd, nd[z].leaf PROVE z \in DOMAIN m /\ m[z].leaf /\ c.low[z] = t.low[z]
      BY <1>15, <1>16, <2>3 DEF IsSplit, IsCut
    <2> QED BY <2>1, <2>2, <2>3 DEF Linked
  <1>24. Torn(m, rt, c, x, Len(nd) + 1, sep, way)
    BY <1>14, <1>17, <1>22, <1>23, SplitTears
  <1> QED BY <1>24 DEF m, c, r, a, b, s, h

----------------------------------------------------------------------------
(* The parent of a split node is told of it.                               *)

\* Every node is known for what it is.
Healed(t) == [lev |-> t.lev, low |-> t.low, high |-> t.high, span |-> t.high]

\* A node with one more separator and one more child, the (k + 1)-st and (k + 2)-nd.
IsWidened(n, o, k, sep, r) ==
    /\ n \in NodeType /\ n.leaf = FALSE /\ n.next = NoNode
    /\ Len(n.entries) = Len(o.entries) + 1 /\ DOMAIN n.entries = 1 .. Len(o.entries) + 1
    /\ Len(n.children) = Len(o.entries) + 2 /\ DOMAIN n.children = 1 .. Len(o.entries) + 2
    /\ \A j \in 1 .. Len(o.entries) + 1 :
          n.entries[j] = IF j < k + 1 THEN o.entries[j] ELSE IF j = k + 1 THEN sep ELSE o.entries[j - 1]
    /\ \A j \in 1 .. Len(o.entries) + 2 :
          n.children[j] = IF j < k + 2 THEN o.children[j] ELSE IF j = k + 2 THEN r ELSE o.children[j - 1]

\* What a parent has once the separator and the page behind it were put in.
LEMMA Widened ==
    ASSUME NEW o \in NodeType, Len(o.children) = Len(o.entries) + 1,
           NEW k \in 0 .. Len(o.entries), NEW sep \in Entry, NEW r \in Nat
    PROVE  IsWidened(Inner(InsertAt(o.entries, k + 1, sep), InsertAt(o.children, k + 2, r)),
                     o, k, sep, r)
  <1> DEFINE s == o.entries
             ch == o.children
             e == InsertAt(s, k + 1, sep)
             c == InsertAt(ch, k + 2, r)
  <1>1. s \in Seq(Entry) /\ ch \in Seq(Nat) /\ Len(s) \in Nat /\ Len(ch) = Len(s) + 1
        /\ k \in 0 .. Len(s)
    BY DEF NodeType
  <1>2. k + 1 \in 1 .. Len(s) + 1 /\ k + 2 \in 1 .. Len(ch) + 1 /\ Len(ch) + 1 = Len(s) + 2
    BY ONLY <1>1
  <1>3. e \in Seq(Entry) /\ Len(e) = Len(s) + 1
        /\ \A j \in 1 .. Len(s) + 1 :
              e[j] = IF j < k + 1 THEN s[j] ELSE IF j = k + 1 THEN sep ELSE s[j - 1]
    <2>1. e \in Seq(Entry) /\ IsInserted(e, s, k + 1, sep)
      BY <1>1, <1>2, Inserted
    <2> HIDE DEF e, s
    <2> QED BY ONLY <2>1 DEF IsInserted
  <1>4. c \in Seq(Nat) /\ Len(c) = Len(ch) + 1
        /\ \A j \in 1 .. Len(ch) + 1 :
              c[j] = IF j < k + 2 THEN ch[j] ELSE IF j = k + 2 THEN r ELSE ch[j - 1]
    <2>1. c \in Seq(Nat) /\ IsInserted(c, ch, k + 2, r)
      BY <1>1, <1>2, Inserted
    <2> HIDE DEF c, ch
    <2> QED BY ONLY <2>1 DEF IsInserted
  <1> HIDE DEF e, c
  <1>5. Inner(e, c) \in NodeType
    BY <1>3, <1>4 DEF Inner, NodeType, NoNode
  <1>6. Inner(e, c).entries = e /\ Inner(e, c).children = c /\ Inner(e, c).leaf = FALSE
        /\ Inner(e, c).next = NoNode
    BY DEF Inner
  <1>7. DOMAIN e = 1 .. Len(s) + 1 /\ DOMAIN c = 1 .. Len(s) + 2
    BY <1>2, <1>3, <1>4
  <1>8. IsWidened(Inner(e, c), o, k, sep, r)
    BY <1>2, <1>3, <1>4, <1>5, <1>6, <1>7 DEF IsWidened
  <1> QED BY <1>8 DEF e, c

\* The slot of the parent that the two halves share.
LEMMA SlotOfHalves ==
    ASSUME NEW nd, NEW rt, NEW t, NEW l, NEW r, NEW sep, NEW way,
           Torn(nd, rt, t, l, r, sep, way), way # << >>
    PROVE  LET p == Last(way)
               k == Before(nd[p].entries, sep)
           IN  /\ p \in DOMAIN nd /\ ~nd[p].leaf /\ Slots(nd, t, p) /\ Sorted(nd, t, p)
               /\ t.lev[p] = t.lev[l] + 1 /\ Inside(t, p, t.low[l])
               /\ Trail(way, rt, nd, t)
               /\ k \in 0 .. Len(nd[p].entries)
               /\ nd[p].children[k + 1] = l
               /\ t.low[l] = Edge(nd, t, p, k)
               /\ t.span[l] = Edge(nd, t, p, k + 1)
  <1> DEFINE p == Last(way)
             s == Append(way, l)
             n == Len(nd[p].entries)
             k == Before(nd[p].entries, sep)
  <1>1. Shape(nd, rt, t) /\ Typed(nd, t) /\ Apart(nd, t) /\ l \in DOMAIN nd /\ r \in DOMAIN nd
        /\ sep \in Entry /\ way \in Seq(DOMAIN nd) /\ Trail(s, rt, nd, t) /\ t.lev[l] = t.lev[r]
    BY DEF Torn, Shape
  <1>2. Len(way) \in Nat \ {0} /\ Len(s) = Len(way) + 1 /\ s[Len(way) + 1] = l
        /\ (\A j \in 1 .. Len(way) : s[j] = way[j] /\ way[j] \in DOMAIN nd)
        /\ p = way[Len(way)] /\ p \in DOMAIN nd
    <2>1. Len(way) \in Nat \ {0} /\ p = way[Len(way)]
      BY <1>1 DEF Last
    <2>2. Len(s) = Len(way) + 1 /\ (\A j \in 1 .. Len(way) : s[j] = way[j]) /\ s[Len(way) + 1] = l
      BY <1>1, AppendProperties
    <2>3. \A j \in 1 .. Len(way) : way[j] \in DOMAIN nd
      BY <1>1
    <2> QED BY <2>1, <2>2, <2>3
  <1> HIDE DEF s, p
  <1>3. t.lev[p] = t.lev[l] + 1 /\ Inside(t, p, t.low[l])
    <2>1. Len(way) \in 1 .. Len(s) /\ Len(way) \in 1 .. Len(s) - 1 /\ Len(s) - Len(way) = 1
      BY <1>2
    <2>2. s[Len(way)] = p /\ s[Len(s)] = l /\ s[Len(way) + 1] = l
      BY <1>2
    <2> QED BY <1>1, <2>1, <2>2 DEF Trail
  <1>4. Trail(way, rt, nd, t)
    <2>1. \A j \in 1 .. Len(way) : j \in 1 .. Len(s)
      BY <1>2
    <2>2. \A j \in 1 .. Len(way) : t.lev[way[j]] = t.lev[l] + (Len(s) - j)
      BY <1>1, <1>2, <2>1 DEF Trail
    <2>3. ASSUME NEW j \in 1 .. Len(way)
          PROVE  t.lev[way[j]] = t.lev[way[Len(way)]] + (Len(way) - j)
      <3>1. t.lev[l] \in Nat /\ Len(s) = Len(way) + 1 /\ Len(way) \in Nat /\ j \in Nat
        BY <1>1, <1>2, NodeFacts
      <3>2. t.lev[l] + (Len(s) - j) = t.lev[l] + 1 + (Len(way) - j)
        BY ONLY <3>1
      <3> QED BY <1>2, <1>3, <2>2, <3>2
    <2>4. ASSUME NEW j \in 1 .. Len(way) - 1 PROVE Inside(t, way[j], t.low[way[j + 1]])
      <3>1. j \in 1 .. Len(s) - 1 /\ j \in 1 .. Len(way) /\ j + 1 \in 1 .. Len(way)
        BY <1>2
      <3> QED BY <1>1, <1>2, <3>1 DEF Trail
    <2>5. way[1] = rt
      <3>1. 1 \in 1 .. Len(way)
        BY <1>2
      <3> QED BY <1>1, <1>2, <3>1 DEF Trail
    <2> QED BY <1>1, <1>2, <2>3, <2>4, <2>5 DEF Trail
  <1>5. Sorted(nd, t, p) /\ Sorted(nd, t, l) /\ Sorted(nd, t, r)
    BY <1>1, <1>2 DEF Shape
  <1>6. ~nd[p].leaf
    <2>1. t.lev[l] \in Nat
      BY <1>1, NodeFacts
    <2> QED BY <1>3, <1>5, <2>1 DEF Sorted
  <1>7. Slots(nd, t, p)
    BY <1>1, <1>2, <1>6 DEF Shape
  <1>8. t.low[l] \in Bound /\ t.high[l] \in Bound /\ t.high[r] \in Bound /\ Pos(sep) \in Bound
        /\ nd[p].entries \in Seq(Entry) /\ DOMAIN nd[p].entries = 1 .. n /\ n \in Nat
        /\ DOMAIN nd[p].children = 1 .. n + 1
        /\ \A i \in 1 .. n : Pos(nd[p].entries[i]) \in Bound /\ nd[p].entries[i] \in Entry
    BY <1>1, <1>2, <1>7, NodeFacts, Places, SMTT(40) DEF Slots
  <1>9. PICK q \in 0 .. n : /\ ~Lt(t.low[l], Edge(nd, t, p, q)) /\ Lt(t.low[l], Edge(nd, t, p, q + 1))
                            /\ q + 1 \in DOMAIN nd[p].children
    BY <1>1, <1>2, <1>3, <1>5, <1>7, <1>8, Slot
  <1> DEFINE c == nd[p].children[q + 1]
  <1>10. c \in DOMAIN nd /\ t.lev[p] = t.lev[c] + 1 /\ t.low[c] = Edge(nd, t, p, q)
         /\ t.span[c] = Edge(nd, t, p, q + 1)
    <2>1. q + 1 - 1 = q
      BY <1>8
    <2> QED BY <1>7, <1>9, <2>1 DEF Slots
  <1> HIDE DEF c
  <1>11. c = l
    <2>1. SUFFICES ASSUME c # l PROVE FALSE
      OBVIOUS
    <2>2. t.span[c] = t.high[c]
      BY <1>10, <2>1 DEF Torn
    <2>3. Inside(t, c, t.low[l])
      BY <1>9, <1>10, <2>2 DEF Inside
    <2>4. Inside(t, l, t.low[l])
      BY <1>5, <1>8, Order DEF Inside, Sorted
    <2>5. t.lev[c] = t.lev[l]
      <3>1. t.lev[c] \in Nat /\ t.lev[l] \in Nat
        BY <1>1, <1>10, NodeFacts
      <3> QED BY <1>3, <1>10, <3>1
    <2> QED BY <1>1, <1>8, <1>10, <2>1, <2>3, <2>4, <2>5, Alone
  <1>12. t.low[l] = Edge(nd, t, p, q) /\ t.high[r] = Edge(nd, t, p, q + 1)
         /\ t.span[l] = Edge(nd, t, p, q + 1)
    BY <1>10, <1>11 DEF Torn
  <1>13. Lt(t.low[l], Pos(sep)) /\ Lt(Pos(sep), t.high[r])
    BY <1>5 DEF Sorted, Torn
  <1>14. \A i, j \in 0 .. n + 1 : i < j => Lt(Edge(nd, t, p, i), Edge(nd, t, p, j))
    BY <1>1, <1>2, <1>5, <1>7, Edges
  <1>15. \A i \in 0 .. n + 1 : Edge(nd, t, p, i) \in Bound
    BY <1>1, <1>2, <1>5, <1>7, Edges
  <1>16. \A i \in 1 .. n : Edge(nd, t, p, i) = Pos(nd[p].entries[i])
    BY <1>8 DEF Edge
  <1>17. ASSUME NEW i \in 1 .. n PROVE i <= q <=> Lt(Pos(nd[p].entries[i]), Pos(sep))
    <2>0. i \in 0 .. n + 1 /\ q \in 0 .. n + 1 /\ q + 1 \in 0 .. n + 1 /\ i \in Int /\ q \in Int
      BY ONLY <1>8, <1>9, <1>17
    <2>1. CASE i <= q
      <3>1. i = q \/ i < q
        BY <2>0, <2>1
      <3>2. ~Lt(t.low[l], Edge(nd, t, p, i))
        BY <1>12, <1>14, <1>15, <2>0, <3>1, Order
      <3>3. Lt(Edge(nd, t, p, i), Pos(sep))
        BY <1>8, <1>13, <1>15, <2>0, <3>2, Order
      <3> QED BY <1>16, <2>1, <3>3
    <2>2. CASE ~(i <= q)
      <3>1. i = q + 1 \/ q + 1 < i
        BY <2>0, <2>2
      <3>2. ~Lt(Edge(nd, t, p, i), t.high[r])
        BY <1>12, <1>14, <1>15, <2>0, <3>1, Order
      <3>3. ~Lt(Edge(nd, t, p, i), Pos(sep))
        BY <1>8, <1>13, <1>15, <2>0, <3>2, Order
      <3> QED BY <1>16, <2>2, <3>3
    <2> QED BY <2>1, <2>2
  <1>18. k \in 0 .. n /\ \A i \in 1 .. n : i <= k <=> Lt(Pos(nd[p].entries[i]), Pos(sep))
    <2>1. {i \in DOMAIN nd[p].entries : EntryLess(nd[p].entries[i], sep)}
            = {i \in DOMAIN nd[p].entries : Lt(Pos(nd[p].entries[i]), Pos(sep))}
      BY <1>1, <1>8, Places
    <2>2. Ascending(nd[p].entries)
      BY <1>5 DEF Sorted
    <2>3. k = Cardinality({i \in DOMAIN nd[p].entries : Lt(Pos(nd[p].entries[i]), Pos(sep))})
      BY <2>1 DEF Before
    <2> HIDE DEF k
    <2> QED BY <1>8, <2>2, <2>3, Counted
  <1> HIDE DEF k
  <1>19. k = q
    <2>1. \A i \in 1 .. n : i <= k <=> i <= q
      BY <1>17, <1>18
    <2>2. k \in 0 .. n /\ q \in 0 .. n /\ n \in Nat
      BY <1>8, <1>9, <1>18
    <2>3. (k > 0 => k <= q) /\ (q > 0 => q <= k)
      BY <2>1, <2>2
    <2> QED BY <2>2, <2>3
  <1>20. c = nd[p].children[k + 1]
    BY <1>19 DEF c
  <1> QED BY <1>2, <1>3, <1>4, <1>5, <1>6, <1>7, <1>11, <1>12, <1>18, <1>19, <1>20 DEF k, p

\* The parent as ParentExtended has it.
Extension(n, sep, r) ==
    Inner(InsertAt(n.entries, Before(n.entries, sep) + 1, sep),
          InsertAt(n.children, Before(n.entries, sep) + 2, r))

\* The parent has been told of the new page: the tree is whole again.
LEMMA ParentTold ==
    ASSUME NEW nd, NEW rt, NEW t, NEW l, NEW r, NEW sep, NEW way,
           Torn(nd, rt, t, l, r, sep, way), way # << >>
    PROVE  LET p == Last(way)
               m == [nd EXCEPT ![p] = Extension(nd[p], sep, r)]
           IN  /\ Whole(m, rt, Healed(t))
               /\ p \in DOMAIN m /\ ~m[p].leaf /\ DOMAIN m = DOMAIN nd
               /\ m[p] = Extension(nd[p], sep, r) /\ Len(m[p].entries) = Len(nd[p].entries) + 1
               /\ Trail(way, rt, m, Healed(t))
  <1> DEFINE p == Last(way)
             o == nd[p]
             n == Len(o.entries)
             k == Before(o.entries, sep)
             q == Extension(o, sep, r)
             m == [nd EXCEPT ![p] = q]
             g == Healed(t)
  <1>1. Shape(nd, rt, t) /\ Typed(nd, t) /\ Apart(nd, t) /\ l \in DOMAIN nd /\ r \in DOMAIN nd
        /\ sep \in Entry /\ way \in Seq(DOMAIN nd) /\ t.lev[l] = t.lev[r]
        /\ nd \in Seq(NodeType) /\ l # r
    BY DEF Torn, Shape, Typed
  <1>2. /\ p \in DOMAIN nd /\ o.leaf = FALSE /\ Slots(nd, t, p) /\ Sorted(nd, t, p)
        /\ t.lev[p] = t.lev[l] + 1 /\ Inside(t, p, t.low[l])
        /\ Trail(way, rt, nd, t)
        /\ k \in 0 .. n
        /\ o.children[k + 1] = l
        /\ t.low[l] = Edge(nd, t, p, k)
        /\ t.span[l] = Edge(nd, t, p, k + 1)
    <2>1. /\ p \in DOMAIN nd /\ ~o.leaf /\ Slots(nd, t, p) /\ Sorted(nd, t, p)
          /\ t.lev[p] = t.lev[l] + 1 /\ Inside(t, p, t.low[l])
          /\ Trail(way, rt, nd, t)
          /\ k \in 0 .. n
          /\ o.children[k + 1] = l
          /\ t.low[l] = Edge(nd, t, p, k)
          /\ t.span[l] = Edge(nd, t, p, k + 1)
      BY SlotOfHalves
    <2>2. o \in NodeType
      BY <1>1, <2>1
    <2> QED BY <2>1, <2>2 DEF NodeType
  <1> HIDE DEF p, k
  <1>3. /\ o \in NodeType /\ n \in Nat /\ DOMAIN o.entries = 1 .. n
        /\ Len(o.children) = n + 1 /\ DOMAIN o.children = 1 .. n + 1
        /\ (\A i \in 1 .. n : Pos(o.entries[i]) \in Bound)
        /\ Pos(sep) \in Bound /\ r \in Nat
        /\ t.low[l] \in Bound /\ t.high[l] \in Bound /\ t.high[r] \in Bound
        /\ t.low[p] \in Bound /\ t.high[p] \in Bound /\ t.lev[l] \in Nat
    BY <1>1, <1>2, NodeFacts, Places, SMTT(40) DEF Slots
  <1>4. IsWidened(q, o, k, sep, r)
    <2>1. q = Inner(InsertAt(o.entries, k + 1, sep), InsertAt(o.children, k + 2, r))
      BY DEF Extension, k
    <2> HIDE DEF q, o
    <2> QED BY ONLY <1>1, <1>2, <1>3, <2>1, Widened
  <1>5. q \in NodeType /\ q.leaf = FALSE /\ q.next = NoNode /\ Len(q.entries) = n + 1
        /\ Len(q.children) = n + 2
    BY <1>4 DEF IsWidened
  <1> HIDE DEF q
  <1>6. m \in Seq(NodeType) /\ DOMAIN m = DOMAIN nd /\ m[p] = q
        /\ \A y \in DOMAIN nd : y # p => m[y] = nd[y]
    BY <1>1, <1>2, <1>5, ExceptSeq
  <1>7. g.lev = t.lev /\ g.low = t.low /\ g.high = t.high /\ g.span = t.high
    BY DEF Healed
  <1> HIDE DEF m, g, o, n
  <1>8. Typed(m, g)
    BY <1>1, <1>6, <1>7 DEF Typed
  <1>9. /\ t.high[l] = Pos(sep) /\ t.low[r] = Pos(sep) /\ t.span[l] = t.high[r]
        /\ \A x \in DOMAIN nd : x # l => t.span[x] = t.high[x]
    BY DEF Torn
  <1>10. Sorted(nd, t, l) /\ Sorted(nd, t, r)
    BY <1>1 DEF Shape
  <1>11. Lt(t.low[l], Pos(sep)) /\ Lt(Pos(sep), t.high[r])
    BY <1>9, <1>10 DEF Sorted
  <1>12. (\A i, j \in 0 .. n + 1 : i < j => Lt(Edge(nd, t, p, i), Edge(nd, t, p, j)))
         /\ \A i \in 0 .. n + 1 : Edge(nd, t, p, i) \in Bound
    BY <1>1, <1>2, Edges DEF n, o
  <1>13. /\ Edge(nd, t, p, 0) = t.low[p] /\ Edge(nd, t, p, n + 1) = t.high[p]
         /\ \A i \in 1 .. n : Edge(nd, t, p, i) = Pos(o.entries[i])
    BY <1>3 DEF Edge, n, o
  \* The borders with the new one among them.
  <1> DEFINE F(i) == IF i <= k THEN Edge(nd, t, p, i) ELSE IF i = k + 1 THEN Pos(sep)
                     ELSE Edge(nd, t, p, i - 1)
  <1>14. ASSUME NEW i \in 0 .. n + 2 PROVE Edge(m, g, p, i) = F(i)
    <2>1. Edge(m, g, p, i) = IF i = 0 THEN t.low[p] ELSE IF i = n + 2 THEN t.high[p]
                             ELSE Pos(q.entries[i])
      <3>1. Len(m[p].entries) + 1 = n + 2
        BY <1>3, <1>5, <1>6
      <3> QED BY <1>6, <1>7, <3>1 DEF Edge
    <2>2. CASE i = 0
      <3>1. i <= k
        BY <1>2, <1>3, <2>2
      <3> QED BY <1>13, <2>1, <2>2, <3>1
    <2>3. CASE i = n + 2
      <3>1. ~(i <= k) /\ i # k + 1 /\ i - 1 = n + 1 /\ i # 0
        BY <1>2, <1>3, <2>3
      <3> QED BY <1>13, <2>1, <2>3, <3>1
    <2>4. CASE i # 0 /\ i # n + 2
      <3>1. i \in 1 .. n + 1
        BY <1>3, <2>4
      <3>2. q.entries[i] = IF i < k + 1 THEN o.entries[i] ELSE IF i = k + 1 THEN sep ELSE o.entries[i - 1]
        BY <1>4, <3>1 DEF IsWidened, n
      <3>3. (i < k + 1 <=> i <= k) /\ (i < k + 1 => i \in 1 .. n)
            /\ (~(i < k + 1) /\ i # k + 1 => i - 1 \in 1 .. n)
        BY <1>2, <1>3, <3>1
      <3> QED BY <1>13, <2>1, <2>4, <3>2, <3>3
    <2> QED BY <2>2, <2>3, <2>4
  <1>15. \A i \in 0 .. n + 2 :
            /\ i <= k => i \in 0 .. n + 1 /\ i # n + 1
            /\ ~(i <= k) /\ i # k + 1 => i - 1 \in 0 .. n + 1 /\ i - 1 >= k + 1 /\ i - 1 # 0
    BY <1>2, <1>3
  <1>16. \A i \in 0 .. n + 2 : F(i) \in Bound
    BY <1>3, <1>12, <1>15
  <1>17. k \in 0 .. n + 1 /\ k + 1 \in 0 .. n + 1 /\ k \in Nat /\ n \in Nat
    BY <1>2, <1>3
  <1>18. ASSUME NEW i \in 0 .. n + 1, i <= k PROVE Lt(Edge(nd, t, p, i), Pos(sep))
    <2>1. i = k \/ i < k
      BY <1>17, <1>18
    <2>2. ~Lt(t.low[l], Edge(nd, t, p, i))
      BY <1>2, <1>12, <1>17, <2>1, Order
    <2> QED BY <1>3, <1>11, <1>12, <2>2, Order
  <1>19. ASSUME NEW i \in 0 .. n + 1, i >= k + 1 PROVE Lt(Pos(sep), Edge(nd, t, p, i))
    <2>1. i = k + 1 \/ k + 1 < i
      BY <1>17, <1>19
    <2>2. ~Lt(Edge(nd, t, p, i), t.high[r])
      BY <1>2, <1>9, <1>12, <1>17, <2>1, Order
    <2> QED BY <1>3, <1>11, <1>12, <2>2, Order
  <1>20. ASSUME NEW i \in 0 .. n + 2, NEW j \in 0 .. n + 2, i < j PROVE Lt(F(i), F(j))
    <2>1. CASE j <= k
      <3>1. i <= k /\ i \in 0 .. n + 1 /\ j \in 0 .. n + 1
        BY <1>15, <1>17, <1>20, <2>1
      <3> QED BY <1>12, <1>20, <2>1, <3>1
    <2>2. CASE j = k + 1
      <3>1. i <= k /\ ~(j <= k) /\ i \in 0 .. n + 1
        BY <1>17, <1>20, <2>2
      <3> QED BY <1>18, <2>2, <3>1
    <2>3. CASE ~(j <= k) /\ j # k + 1
      <3>1. j - 1 \in 0 .. n + 1 /\ j - 1 >= k + 1
        BY <1>15, <2>3
      <3>2. CASE i <= k
        <4>1. i \in 0 .. n + 1 /\ i < j - 1
          BY <1>17, <3>1, <3>2
        <4> QED BY <1>12, <2>3, <3>1, <3>2, <4>1
      <3>3. CASE i = k + 1
        <4>1. ~(i <= k)
          BY <1>17, <3>3
        <4> QED BY <1>19, <2>3, <3>1, <3>3, <4>1
      <3>4. CASE ~(i <= k) /\ i # k + 1
        <4>1. i - 1 \in 0 .. n + 1 /\ i - 1 < j - 1
          BY <1>15, <1>20, <3>4
        <4> QED BY <1>12, <2>3, <3>1, <3>4, <4>1
      <3> QED BY <3>2, <3>3, <3>4
    <2> QED BY <2>1, <2>2, <2>3
  <1> HIDE DEF F
  <1>21. \A i \in 1 .. n + 1 : /\ Pos(q.entries[i]) = F(i) /\ i \in 0 .. n + 2
                               /\ Lt(t.low[p], F(i)) /\ Lt(F(i), t.high[p])
    <2>1. SUFFICES ASSUME NEW i \in 1 .. n + 1
                   PROVE  /\ Pos(q.entries[i]) = F(i) /\ i \in 0 .. n + 2
                          /\ Lt(t.low[p], F(i)) /\ Lt(F(i), t.high[p])
      OBVIOUS
    <2>2. i \in 0 .. n + 2 /\ 0 \in 0 .. n + 2 /\ n + 2 \in 0 .. n + 2 /\ 0 < i /\ i < n + 2
      BY <1>17
    <2>3. Len(m[p].entries) + 1 = n + 2
      BY <1>3, <1>5, <1>6
    <2>4. Edge(m, g, p, i) = Pos(q.entries[i]) /\ Edge(m, g, p, 0) = t.low[p]
          /\ Edge(m, g, p, n + 2) = t.high[p]
      BY <1>6, <1>7, <1>17, <2>2, <2>3 DEF Edge
    <2> QED BY <1>14, <1>20, <2>2, <2>4
  <1>22. DOMAIN q.entries = 1 .. n + 1 /\ DOMAIN q.children = 1 .. n + 2
    BY <1>4 DEF IsWidened, n
  <1>23. Sorted(m, g, p)
    <2>1. Ascending(q.entries)
      BY <1>20, <1>21, <1>22 DEF Ascending
    <2>2. \A i \in 1 .. n + 1 : ~Lt(F(i), t.low[p])
      BY <1>3, <1>16, <1>21, Order
    <2>3. t.lev[p] # 0
      BY <1>2, <1>3
    <2> QED BY <1>2, <1>5, <1>6, <1>7, <1>21, <1>22, <2>1, <2>2, <2>3 DEF Sorted, Inside
  <1>24. ASSUME NEW y \in DOMAIN nd, y # p PROVE Sorted(m, g, y)
    <2>1. Sorted(nd, t, y) /\ m[y] = nd[y]
      BY <1>1, <1>6, <1>24 DEF Shape
    <2> QED BY <1>7, <2>1 DEF Sorted, Inside
  <1>25. Apart(m, g)
    BY <1>1, <1>6, <1>7 DEF Apart
  \* Who has l for a child.
  <1>26. ASSUME NEW y \in DOMAIN nd, ~nd[y].leaf, NEW i \in DOMAIN nd[y].children,
                nd[y].children[i] = l
         PROVE  y = p /\ i = k + 1
    <2>1. Slots(nd, t, y) /\ Sorted(nd, t, y)
      BY <1>1, <1>26 DEF Shape
    <2> DEFINE w == Len(nd[y].entries)
    <2>2. t.lev[y] = t.lev[l] + 1 /\ t.low[l] = Edge(nd, t, y, i - 1)
      BY <1>26, <2>1 DEF Slots
    <2>3. w \in Nat /\ i \in 1 .. w + 1
      <3>1. w \in Nat /\ DOMAIN nd[y].children = 1 .. Len(nd[y].children)
        BY <1>1, NodeFacts
      <3>2. Len(nd[y].children) = w + 1
        BY <2>1 DEF Slots
      <3> QED BY <1>26, <3>1, <3>2
    <2>4. (\A a, b \in 0 .. w + 1 : a < b => Lt(Edge(nd, t, y, a), Edge(nd, t, y, b)))
          /\ \A a \in 0 .. w + 1 : Edge(nd, t, y, a) \in Bound
      BY <1>1, <2>1, Edges
    <2>5. Edge(nd, t, y, 0) = t.low[y] /\ Edge(nd, t, y, w + 1) = t.high[y]
      BY <2>3 DEF Edge
    <2> HIDE DEF w
    <2>6. 0 \in 0 .. w + 1 /\ w + 1 \in 0 .. w + 1 /\ i - 1 \in 0 .. w + 1 /\ i - 1 < w + 1
          /\ (i - 1 = 0 \/ 0 < i - 1)
      BY <2>3
    <2>7. Inside(t, y, t.low[l])
      BY <2>2, <2>4, <2>5, <2>6, Order DEF Inside
    <2>8. y = p
      BY <1>1, <1>2, <1>3, <2>2, <2>7, Alone
    <2>9. w = n /\ i \in 1 .. n + 1 /\ Edge(nd, t, p, i - 1) = Edge(nd, t, p, k)
      BY <1>2, <2>2, <2>3, <2>8 DEF w, n, o
    <2>10. i - 1 \in 0 .. n + 1 /\ i - 1 \in Int /\ k \in Int
      BY <1>17, <2>9
    <2>11. ~(i - 1 < k) /\ ~(k < i - 1)
      BY <1>12, <1>17, <2>9, <2>10, Order
    <2>12. i = k + 1
      BY <1>17, <2>9, <2>11
    <2> QED BY <2>8, <2>12
  <1>27. ASSUME NEW y \in DOMAIN nd, y # p, ~nd[y].leaf PROVE Slots(m, g, y)
    <2>1. Slots(nd, t, y) /\ m[y] = nd[y]
      BY <1>1, <1>6, <1>27 DEF Shape
    <2>2. \A i : Edge(m, g, y, i) = Edge(nd, t, y, i)
      BY <1>7, <2>1 DEF Edge
    <2>3. \A i \in DOMAIN nd[y].children : nd[y].children[i] # l
      BY <1>26, <1>27
    <2>4. ASSUME NEW i \in DOMAIN nd[y].children
          PROVE  /\ nd[y].children[i] \in DOMAIN m
                 /\ g.lev[y] = g.lev[nd[y].children[i]] + 1
                 /\ g.low[nd[y].children[i]] = Edge(m, g, y, i - 1)
                 /\ g.span[nd[y].children[i]] = Edge(m, g, y, i)
      <3> DEFINE z == nd[y].children[i]
      <3>1. z \in DOMAIN nd /\ t.lev[y] = t.lev[z] + 1 /\ t.low[z] = Edge(nd, t, y, i - 1)
            /\ t.span[z] = Edge(nd, t, y, i) /\ z # l
        BY <2>1, <2>3 DEF Slots
      <3> HIDE DEF z
      <3>2. z \in DOMAIN m /\ g.lev[y] = g.lev[z] + 1 /\ g.low[z] = Edge(m, g, y, i - 1)
            /\ g.span[z] = Edge(m, g, y, i)
        BY <1>6, <1>7, <1>9, <2>2, <3>1
      <3> QED BY <3>2 DEF z
    <2> QED BY <1>7, <2>1, <2>4 DEF Slots
  <1>28. Slots(m, g, p)
    <2>1. ASSUME NEW i \in 1 .. n + 2
          PROVE  /\ q.children[i] \in DOMAIN m
                 /\ g.lev[p] = g.lev[q.children[i]] + 1
                 /\ g.low[q.children[i]] = Edge(m, g, p, i - 1)
                 /\ g.span[q.children[i]] = Edge(m, g, p, i)
      <3>1. q.children[i] = IF i < k + 2 THEN o.children[i] ELSE IF i = k + 2 THEN r ELSE o.children[i - 1]
        BY <1>4 DEF IsWidened, n
      <3>2. i \in 0 .. n + 2 /\ i - 1 \in 0 .. n + 2
        BY <1>17
      <3>3. Edge(m, g, p, i) = F(i) /\ Edge(m, g, p, i - 1) = F(i - 1)
        BY <1>14, <3>2
      <3>4. \A j \in 1 .. n + 1 :
              /\ o.children[j] \in DOMAIN nd
              /\ t.lev[p] = t.lev[o.children[j]] + 1
              /\ t.low[o.children[j]] = Edge(nd, t, p, j - 1)
              /\ t.span[o.children[j]] = Edge(nd, t, p, j)
        BY <1>2, <1>3 DEF Slots, o
      <3>5. \A j \in 1 .. n + 1 : j # k + 1 => t.high[o.children[j]] = Edge(nd, t, p, j)
        <4>1. SUFFICES ASSUME NEW j \in 1 .. n + 1, j # k + 1
                       PROVE  t.high[o.children[j]] = Edge(nd, t, p, j)
          OBVIOUS
        <4>2. o.children[j] # l
          BY <1>2, <1>3, <1>26, <4>1 DEF o
        <4> QED BY <1>9, <3>4, <4>2
      <3>6. CASE i < k + 1
        <4>1. i \in 1 .. n + 1 /\ i # k + 1 /\ i < k + 2 /\ i <= k /\ i - 1 <= k
          BY <1>17, <3>6
        <4> QED BY <1>6, <1>7, <3>1, <3>3, <3>4, <3>5, <4>1 DEF F
      <3>7. CASE i = k + 1
        <4>1. i \in 1 .. n + 1 /\ i < k + 2 /\ ~(i <= k) /\ i - 1 <= k
          BY <1>17, <3>7
        <4>2. q.children[i] = l
          BY <1>2, <3>1, <3>7, <4>1
        <4> QED BY <1>6, <1>7, <1>9, <3>3, <3>4, <3>7, <4>1, <4>2, <3>1 DEF F
      <3>8. CASE i = k + 2
        <4>1. ~(i < k + 2) /\ ~(i <= k) /\ i # k + 1 /\ i - 1 = k + 1 /\ ~(i - 1 <= k)
          BY <1>17, <3>8
        <4>2. q.children[i] = r
          BY <3>1, <3>8, <4>1
        <4>3. F(i) = t.high[r] /\ F(i - 1) = Pos(sep)
          BY <1>2, <1>9, <4>1 DEF F
        <4> QED BY <1>1, <1>2, <1>6, <1>7, <1>9, <3>3, <4>2, <4>3
      <3>9. CASE i > k + 2
        <4> DEFINE j == i - 1
        <4>1. ~(i < k + 2) /\ i # k + 2 /\ ~(i <= k) /\ i # k + 1 /\ ~(j <= k) /\ j # k + 1
              /\ j \in 1 .. n + 1
          BY <1>17, <3>9
        <4>2. q.children[i] = o.children[j]
          BY <3>1, <4>1
        <4>3. F(i) = Edge(nd, t, p, j) /\ F(i - 1) = Edge(nd, t, p, j - 1)
          BY <4>1 DEF F
        <4> HIDE DEF j
        <4> QED BY <1>6, <1>7, <3>3, <3>4, <3>5, <4>1, <4>2, <4>3
      <3>10. i < k + 1 \/ i = k + 1 \/ i = k + 2 \/ i > k + 2
        BY <1>17
      <3> QED BY <3>6, <3>7, <3>8, <3>9, <3>10
    <2>2. n + 2 = n + 1 + 1
      BY <1>17
    <2> QED BY <1>5, <1>6, <1>7, <1>21, <1>22, <2>1, <2>2 DEF Slots
  <1>29. ASSUME NEW y \in DOMAIN nd, m[y].leaf PROVE Linked(m, g, y)
    <2>1. y # p /\ m[y] = nd[y]
      BY <1>5, <1>6, <1>29
    <2>2. Linked(nd, t, y)
      BY <1>1, <1>29, <2>1 DEF Shape
    <2>3. \A z \in DOMAIN nd : nd[z].leaf => m[z].leaf
      BY <1>2, <1>6 DEF o
    <2> QED BY <1>6, <1>7, <2>1, <2>2, <2>3 DEF Linked
  <1>30. Rooted(m, g, rt)
    <2>1. Rooted(nd, t, rt)
      BY <1>1 DEF Shape
    <2>2. rt # l
      <3>1. t.lev[p] <= t.lev[rt]
        BY <1>2, <2>1 DEF Rooted
      <3> QED BY <1>2, <1>3, <3>1
    <2> QED BY <1>6, <1>7, <1>9, <2>1, <2>2 DEF Rooted
  <1>31. \A y \in DOMAIN nd : Sorted(m, g, y)
    BY <1>23, <1>24
  <1>32. \A y \in DOMAIN nd : ~m[y].leaf => Slots(m, g, y)
    BY <1>6, <1>27, <1>28
  <1>33. Whole(m, rt, g)
    BY <1>6, <1>7, <1>8, <1>25, <1>29, <1>30, <1>31, <1>32 DEF Shape, Whole
  <1>34. Trail(way, rt, m, g)
    BY <1>2, <1>6, <1>7 DEF Trail, Inside
  <1> QED BY <1>2, <1>3, <1>5, <1>6, <1>33, <1>34 DEF m, g, p, q, o, n

----------------------------------------------------------------------------
(* The root is split, and the first page of all.                           *)

\* A root over the two halves, and the interval of everything for it.
Grown(nd, rt, sep, r) == Append(nd, Inner(<<sep>>, <<rt, r>>))
Over(nd, t, rt) ==
    LET q == Len(nd) + 1
    IN  [lev |-> [y \in 1 .. q |-> IF y = q THEN t.lev[rt] + 1 ELSE t.lev[y]],
         low |-> [y \in 1 .. q |-> IF y = q THEN Bottom ELSE t.low[y]],
         high |-> [y \in 1 .. q |-> IF y = q THEN Top ELSE t.high[y]],
         span |-> [y \in 1 .. q |-> IF y = q THEN Top ELSE t.high[y]]]

\* The root was split and a new one put on top: the tree is whole again.
LEMMA RootGrown ==
    ASSUME NEW nd, NEW rt, NEW t, NEW l, NEW r, NEW sep, NEW way,
           Torn(nd, rt, t, l, r, sep, way), way = << >>
    PROVE  Whole(Grown(nd, rt, sep, r), Len(nd) + 1, Over(nd, t, rt))
  <1> DEFINE q == Len(nd) + 1
             b == Inner(<<sep>>, <<rt, r>>)
             m == Grown(nd, rt, sep, r)
             g == Over(nd, t, rt)
  <1>1. Shape(nd, rt, t) /\ Typed(nd, t) /\ Apart(nd, t) /\ l \in DOMAIN nd /\ r \in DOMAIN nd
        /\ sep \in Entry /\ t.lev[l] = t.lev[r] /\ nd \in Seq(NodeType) /\ l # r
        /\ Trail(Append(way, l), rt, nd, t) /\ Rooted(nd, t, rt)
    BY DEF Torn, Shape, Typed
  <1>2. rt = l
    <2>1. Append(way, l) = <<l>>
      OBVIOUS
    <2>2. Trail(<<l>>, rt, nd, t)
      BY <1>1, <2>1
    <2>3. <<l>>[1] = rt
      BY <2>2 DEF Trail
    <2> QED BY <2>3
  <1>3. /\ t.high[l] = Pos(sep) /\ t.low[r] = Pos(sep) /\ t.span[l] = t.high[r]
        /\ \A x \in DOMAIN nd : x # l => t.span[x] = t.high[x]
    BY DEF Torn
  <1>4. t.low[l] = Bottom /\ t.high[r] = Top /\ \A x \in DOMAIN nd : t.lev[x] <= t.lev[l]
    BY <1>1, <1>2, <1>3 DEF Rooted
  <1>5. b \in NodeType /\ b.leaf = FALSE /\ b.next = NoNode
        /\ b.entries = <<sep>> /\ b.children = <<rt, r>>
    <2>1. rt \in Nat /\ r \in Nat
      BY <1>1, <1>2, NodeFacts
    <2>2. <<sep>> \in Seq(Entry) /\ <<rt, r>> \in Seq(Nat)
      BY <1>1, <2>1
    <2> QED BY <2>2 DEF Inner, NodeType, NoNode
  <1> HIDE DEF b
  <1>6. /\ m \in Seq(NodeType) /\ DOMAIN m = 1 .. q /\ q \in 1 .. q
        /\ m[q] = b /\ (\A y \in DOMAIN nd : m[y] = nd[y] /\ y \in 1 .. q /\ y # q)
        /\ \A y \in 1 .. q : y = q \/ y \in DOMAIN nd
    <2>1. m = Append(nd, b)
      BY DEF Grown, b
    <2> HIDE DEF m
    <2>2. m \in Seq(NodeType) /\ Len(m) = Len(nd) + 1
          /\ (\A y \in 1 .. Len(nd) : m[y] = nd[y]) /\ m[Len(nd) + 1] = b
      BY <1>1, <1>5, <2>1, AppendProperties
    <2>3. Len(nd) \in Nat /\ DOMAIN nd = 1 .. Len(nd) /\ DOMAIN m = 1 .. Len(m)
      BY <1>1, <2>2, LenProperties
    <2> QED BY <2>2, <2>3
  <1>7. \A y \in DOMAIN nd : t.lev[y] \in Nat /\ t.low[y] \in Bound /\ t.high[y] \in Bound
    BY <1>1, NodeFacts
  <1>8. Bottom \in Bound /\ Top \in Bound /\ Pos(sep) \in Bound /\ Lt(Bottom, Top)
        /\ Lt(Bottom, Pos(sep)) /\ Lt(Pos(sep), Top) /\ ~Lt(Pos(sep), Bottom)
    BY <1>1, Places
  <1>9. /\ g.lev \in [1 .. q -> Nat] /\ g.low \in [1 .. q -> Bound]
        /\ g.high \in [1 .. q -> Bound] /\ g.span \in [1 .. q -> Bound] /\ g.span = g.high
        /\ g.lev[q] = t.lev[l] + 1 /\ g.low[q] = Bottom /\ g.high[q] = Top
        /\ \A y \in DOMAIN nd : g.lev[y] = t.lev[y] /\ g.low[y] = t.low[y] /\ g.high[y] = t.high[y]
    <2> HIDE DEF q, m
    <2> QED BY <1>1, <1>2, <1>6, <1>7, <1>8 DEF Over, q
  <1> HIDE DEF m, g, q
  <1>10. Typed(m, g)
    BY <1>6, <1>9 DEF Typed
  <1>11. ASSUME NEW y \in DOMAIN nd PROVE Sorted(m, g, y)
    <2>1. Sorted(nd, t, y)
      BY <1>1 DEF Shape
    <2> QED BY <1>6, <1>9, <2>1 DEF Sorted, Inside
  <1>12. DOMAIN b.entries = 1 .. 1 /\ Len(b.entries) = 1 /\ b.entries[1] = sep
         /\ DOMAIN b.children = 1 .. 2 /\ Len(b.children) = 2 /\ b.children[1] = l /\ b.children[2] = r
    BY <1>2, <1>5
  <1>13. Sorted(m, g, q)
    <2>1. Ascending(b.entries)
      BY <1>12 DEF Ascending
    <2>2. g.lev[q] # 0
      BY <1>1, <1>7, <1>9
    <2>3. \A i \in 1 .. 1 : i = 1
      OBVIOUS
    <2> QED BY <1>5, <1>6, <1>8, <1>9, <1>12, <2>1, <2>2, <2>3 DEF Sorted, Inside
  <1>14. Apart(m, g)
    <2>1. \A y \in DOMAIN nd : g.lev[y] # g.lev[q]
      <3>1. \A y \in DOMAIN nd : t.lev[y] \in Nat /\ t.lev[l] \in Nat /\ t.lev[y] <= t.lev[l]
        BY <1>1, <1>4, <1>7
      <3>2. \A y \in DOMAIN nd : t.lev[y] # t.lev[l] + 1
        BY <3>1
      <3> QED BY <1>9, <3>2
    <2> QED BY <1>1, <1>6, <1>9, <2>1 DEF Apart
  <1>15. ASSUME NEW y \in DOMAIN nd, ~nd[y].leaf PROVE Slots(m, g, y)
    <2>1. Slots(nd, t, y) /\ m[y] = nd[y]
      BY <1>1, <1>6, <1>15 DEF Shape
    <2>2. \A i : Edge(m, g, y, i) = Edge(nd, t, y, i)
      BY <1>9, <2>1 DEF Edge
    <2>3. ASSUME NEW i \in DOMAIN nd[y].children
          PROVE  /\ nd[y].children[i] \in DOMAIN m
                 /\ g.lev[y] = g.lev[nd[y].children[i]] + 1
                 /\ g.low[nd[y].children[i]] = Edge(m, g, y, i - 1)
                 /\ g.span[nd[y].children[i]] = Edge(m, g, y, i)
      <3> DEFINE z == nd[y].children[i]
      <3>1. z \in DOMAIN nd /\ t.lev[y] = t.lev[z] + 1 /\ t.low[z] = Edge(nd, t, y, i - 1)
            /\ t.span[z] = Edge(nd, t, y, i)
        BY <2>1 DEF Slots
      <3> HIDE DEF z
      <3>2. z # l
        <4>1. t.lev[y] \in Nat /\ t.lev[l] \in Nat /\ t.lev[y] <= t.lev[l]
          BY <1>1, <1>4, <1>7
        <4> QED BY <3>1, <4>1
      <3>3. z \in DOMAIN m /\ g.lev[y] = g.lev[z] + 1 /\ g.low[z] = Edge(m, g, y, i - 1)
            /\ g.span[z] = Edge(m, g, y, i)
        BY <1>3, <1>6, <1>9, <2>2, <3>1, <3>2
      <3> QED BY <3>3 DEF z
    <2> QED BY <1>9, <2>1, <2>3 DEF Slots
  <1>16. Slots(m, g, q)
    <2>1. Edge(m, g, q, 0) = Bottom /\ Edge(m, g, q, 1) = Pos(sep) /\ Edge(m, g, q, 2) = Top
      BY <1>6, <1>9, <1>12 DEF Edge
    <2>2. /\ l \in DOMAIN m /\ g.lev[q] = g.lev[l] + 1 /\ g.low[l] = Bottom /\ g.span[l] = Pos(sep)
          /\ r \in DOMAIN m /\ g.lev[q] = g.lev[r] + 1 /\ g.low[r] = Pos(sep) /\ g.span[r] = Top
      BY <1>1, <1>3, <1>4, <1>6, <1>9
    <2>3. \A i \in 1 .. 2 : (i = 1 /\ i - 1 = 0) \/ (i = 2 /\ i - 1 = 1)
      OBVIOUS
    <2>4. \A i \in 1 .. 1 : i = 1
      OBVIOUS
    <2>5. ASSUME NEW i \in 1 .. 2
          PROVE  /\ b.children[i] \in DOMAIN m
                 /\ g.lev[q] = g.lev[b.children[i]] + 1
                 /\ g.low[b.children[i]] = Edge(m, g, q, i - 1)
                 /\ g.span[b.children[i]] = Edge(m, g, q, i)
      <3>1. CASE i = 1
        <4>1. i - 1 = 0
          BY <3>1
        <4> QED BY <1>12, <2>1, <2>2, <3>1, <4>1
      <3>2. CASE i = 2
        <4>1. i - 1 = 1
          BY <3>2
        <4> QED BY <1>12, <2>1, <2>2, <3>2, <4>1
      <3> QED BY <2>3, <3>1, <3>2
    <2>6. \A i \in DOMAIN b.entries : Lt(g.low[q], Pos(b.entries[i]))
      BY <1>8, <1>9, <1>12, <2>4
    <2>7. Len(b.children) = Len(b.entries) + 1
      BY <1>12
    <2> QED BY <1>5, <1>6, <1>12, <2>5, <2>6, <2>7 DEF Slots
  <1>17. ASSUME NEW y \in DOMAIN m, m[y].leaf PROVE Linked(m, g, y)
    <2>1. y \in DOMAIN nd /\ m[y] = nd[y]
      BY <1>5, <1>6, <1>17
    <2>2. Linked(nd, t, y)
      BY <1>1, <1>17, <2>1 DEF Shape
    <2> QED BY <1>6, <1>9, <2>1, <2>2 DEF Linked
  <1>18. Rooted(m, g, q)
    <2>1. \A y \in DOMAIN m : g.lev[y] <= g.lev[q]
      <3>1. \A y \in DOMAIN nd : t.lev[y] \in Nat /\ t.lev[l] \in Nat /\ t.lev[y] <= t.lev[l]
        BY <1>1, <1>4, <1>7
      <3>2. \A y \in DOMAIN nd : t.lev[y] <= t.lev[l] + 1
        BY <3>1
      <3>3. t.lev[l] + 1 <= t.lev[l] + 1
        BY <1>1, <1>7
      <3> QED BY <1>6, <1>9, <3>2, <3>3
    <2> QED BY <1>6, <1>9, <2>1 DEF Rooted
  <1>19. \A y \in DOMAIN m : Sorted(m, g, y)
    BY <1>6, <1>11, <1>13
  <1>20. \A y \in DOMAIN m : ~m[y].leaf => Slots(m, g, y)
    BY <1>6, <1>15, <1>16
  <1>21. Whole(m, q, g)
    BY <1>9, <1>10, <1>14, <1>17, <1>18, <1>19, <1>20 DEF Shape, Whole
  <1> QED BY <1>21 DEF m, g, q

\* The interval of everything for the first page.
First == [lev |-> <<0>>, low |-> <<Bottom>>, high |-> <<Top>>, span |-> <<Top>>]

\* The first insert makes a tree of one leaf.
LEMMA FirstPage ==
    ASSUME NEW e \in Entry
    PROVE  Whole(<<Leaf(<<e>>, NoNode)>>, 1, First)
  <1> DEFINE b == Leaf(<<e>>, NoNode)
             m == <<b>>
  <1>1. b \in NodeType /\ b.leaf = TRUE /\ b.next = NoNode /\ b.children = << >> /\ b.entries = <<e>>
    BY DEF Leaf, NodeType, NoNode
  <1> HIDE DEF b
  <1>2. m \in Seq(NodeType) /\ DOMAIN m = 1 .. 1 /\ m[1] = b
    BY <1>1
  <1> HIDE DEF m
  <1>3. Bottom \in Bound /\ Top \in Bound /\ Lt(Bottom, Top) /\ Lt(Pos(e), Top) /\ ~Lt(Pos(e), Bottom)
    BY Places
  <1>4. First.lev \in [1 .. 1 -> Nat] /\ First.low \in [1 .. 1 -> Bound]
        /\ First.high \in [1 .. 1 -> Bound] /\ First.span \in [1 .. 1 -> Bound]
        /\ First.lev[1] = 0 /\ First.low[1] = Bottom /\ First.high[1] = Top /\ First.span[1] = Top
        /\ First.span = First.high
    BY <1>3 DEF First
  <1>5. \A y \in 1 .. 1 : y = 1
    OBVIOUS
  <1>6. Typed(m, First)
    BY <1>2, <1>4 DEF Typed
  <1>7. Sorted(m, First, 1)
    <2>1. DOMAIN <<e>> = 1 .. 1 /\ <<e>>[1] = e
      OBVIOUS
    <2>2. Ascending(<<e>>)
      BY <2>1, <1>5 DEF Ascending
    <2> QED BY <1>1, <1>2, <1>3, <1>4, <1>5, <2>1, <2>2 DEF Sorted, Inside
  <1>8. Apart(m, First)
    BY <1>2, <1>5 DEF Apart
  <1>9. Linked(m, First, 1)
    BY <1>1, <1>2, <1>4 DEF Linked
  <1>10. Rooted(m, First, 1)
    BY <1>2, <1>4, <1>5 DEF Rooted
  <1>11. \A y \in DOMAIN m : Sorted(m, First, y) /\ Linked(m, First, y) /\ m[y].leaf
    BY <1>1, <1>2, <1>5, <1>7, <1>9
  <1>12. Whole(m, 1, First)
    BY <1>4, <1>6, <1>8, <1>10, <1>11 DEF Whole, Shape
  <1> QED BY <1>12 DEF m, b

----------------------------------------------------------------------------
(* The descent.                                                            *)

\* The child findLeaf takes.
LEMMA ChildTaken ==
    ASSUME NEW nd, NEW t, Typed(nd, t), NEW x \in DOMAIN nd, Sorted(nd, t, x), Slots(nd, t, x),
           NEW e \in Probe
    PROVE  /\ ChildFor(nd[x], e) \in DOMAIN nd
           /\ t.lev[x] = t.lev[ChildFor(nd[x], e)] + 1
           /\ Inside(t, x, Pos(e)) /\ t.span = t.high =>
                 Inside(t, ChildFor(nd[x], e), Pos(e)) /\ Inside(t, x, t.low[ChildFor(nd[x], e)])
  <1> DEFINE s == nd[x].entries
             n == Len(s)
             k == Cardinality({i \in DOMAIN s : ~Lt(Pos(e), Pos(s[i]))})
             c == nd[x].children[k + 1]
  <1>1. s \in Seq(Entry) /\ n \in Nat /\ DOMAIN s = 1 .. n /\ Pos(e) \in Bound
        /\ DOMAIN nd[x].children = 1 .. n + 1
        /\ \A i \in DOMAIN s : s[i] \in Entry
    BY NodeFacts, Places DEF Slots
  <1>2. k \in 0 .. n
    <2>1. Ascending(s)
      BY DEF Sorted
    <2>2. s \in Seq(Entry) /\ Pos(e) \in Bound
      BY <1>1
    <2> HIDE DEF s
    <2> QED BY ONLY <2>1, <2>2, Counted DEF k, n
  <1>3. ChildFor(nd[x], e) = c
    <2>1. {i \in DOMAIN s : ~EntryLess(e, s[i])} = {i \in DOMAIN s : ~Lt(Pos(e), Pos(s[i]))}
      BY <1>1, Places
    <2>2. ChildFor(nd[x], e) = nd[x].children[1 + k]
      BY <2>1 DEF ChildFor
    <2> HIDE DEF k
    <2>3. 1 + k = k + 1
      BY <1>1, <1>2
    <2> QED BY <2>2, <2>3
  <1>4. Inside(t, x, Pos(e)) =>
            ~Lt(Pos(e), Edge(nd, t, x, k)) /\ Lt(Pos(e), Edge(nd, t, x, k + 1))
    BY <1>1, Slot
  <1> HIDE DEF k, c
  <1>5. k + 1 \in 1 .. n + 1 /\ k + 1 - 1 = k
    BY <1>1, <1>2
  <1>6. c \in DOMAIN nd /\ t.lev[x] = t.lev[c] + 1 /\ t.low[c] = Edge(nd, t, x, k)
        /\ t.span[c] = Edge(nd, t, x, k + 1)
    <2> DEFINE j == k + 1
    <2>1. j - 1 = k
      <3>1. n \in Nat /\ k \in 0 .. n
        BY <1>1, <1>2
      <3> HIDE DEF n
      <3> QED BY ONLY <3>1 DEF j
    <2>2. j \in DOMAIN nd[x].children
      BY ONLY <1>1, <1>5 DEF j
    <2>3. c = nd[x].children[j]
      BY ONLY Zenon DEF c, j
    <2> HIDE DEF j
    <2>4. c \in DOMAIN nd /\ t.lev[x] = t.lev[c] + 1 /\ t.low[c] = Edge(nd, t, x, j - 1)
          /\ t.span[c] = Edge(nd, t, x, j)
      BY <2>2, <2>3 DEF Slots
    <2>5. j = k + 1
      BY DEF j
    <2> QED BY ONLY <2>1, <2>4, <2>5
  <1>7. ASSUME Inside(t, x, Pos(e)), t.span = t.high
        PROVE  Inside(t, c, Pos(e)) /\ Inside(t, x, t.low[c])
    <2>1. Inside(t, c, Pos(e))
      BY <1>4, <1>6, <1>7 DEF Inside
    <2>2. t.low[x] \in Bound /\ t.high[x] \in Bound /\ t.low[c] \in Bound
      BY <1>6, NodeFacts
    <2>3. Edge(nd, t, x, 0) = t.low[x]
      BY DEF Edge
    <2>4. ~Lt(t.low[c], t.low[x])
      <3>1. CASE k = 0
        BY <1>6, <2>2, <2>3, <3>1, Order
      <3>2. CASE k # 0
        <4>1. k \in 0 .. n + 1 /\ 0 \in 0 .. n + 1 /\ 0 < k
          BY <1>1, <1>2, <3>2
        <4>2. Lt(Edge(nd, t, x, 0), Edge(nd, t, x, k))
          BY <4>1, Edges
        <4> QED BY <1>6, <2>2, <2>3, <4>2, Order
      <3> QED BY <3>1, <3>2
    <2>5. Lt(t.low[c], t.high[x])
      BY <1>1, <1>7, <2>1, <2>2, Order DEF Inside
    <2> QED BY <2>1, <2>4, <2>5 DEF Inside
  <1> QED BY <1>3, <1>6, <1>7

\* A path from x to a leaf that has p inside.
Down(s, x, nd, t, p) ==
    /\ Trail(s, x, nd, t)
    /\ nd[s[Len(s)]].leaf
    /\ Inside(t, s[Len(s)], p)

\* A path from a child is one from its parent.
LEMMA DownStep ==
    ASSUME NEW nd, NEW t, Typed(nd, t), NEW x \in DOMAIN nd, NEW c \in DOMAIN nd,
           t.lev[x] = t.lev[c] + 1, Inside(t, x, t.low[c]), NEW s, NEW p, Down(s, c, nd, t, p)
    PROVE  Down(<<x>> \o s, x, nd, t, p)
  <1> DEFINE u == <<x>> \o s
  <1>1. s \in Seq(DOMAIN nd) /\ s # << >> /\ s[1] = c /\ Len(s) \in Nat \ {0}
        /\ (\A k \in 1 .. Len(s) : t.lev[s[k]] = t.lev[s[Len(s)]] + (Len(s) - k))
        /\ (\A k \in 1 .. Len(s) - 1 : Inside(t, s[k], t.low[s[k + 1]]))
        /\ s[Len(s)] \in DOMAIN nd
    BY DEF Down, Trail
  <1>2. u \in Seq(DOMAIN nd) /\ Len(u) = Len(s) + 1 /\ u # << >> /\ u[1] = x
        /\ \A k \in 1 .. Len(s) : u[k + 1] = s[k]
    <2>1. <<x>> \in Seq(DOMAIN nd) /\ Len(<<x>>) = 1 /\ <<x>>[1] = x
      OBVIOUS
    <2>2. u \in Seq(DOMAIN nd) /\ Len(u) = 1 + Len(s)
          /\ \A k \in 1 .. 1 + Len(s) : u[k] = IF k <= 1 THEN <<x>>[k] ELSE s[k - 1]
      BY <1>1, <2>1, ConcatProperties
    <2> HIDE DEF u
    <2>3. u[1] = x
      <3>1. 1 \in 1 .. 1 + Len(s)
        BY <1>1
      <3> QED BY <2>1, <2>2, <3>1
    <2>4. ASSUME NEW k \in 1 .. Len(s) PROVE u[k + 1] = s[k]
      <3>1. k + 1 \in 1 .. 1 + Len(s) /\ ~(k + 1 <= 1) /\ k + 1 - 1 = k
        BY <1>1
      <3> QED BY <2>2, <3>1
    <2> QED BY <1>1, <2>2, <2>3, <2>4
  <1> HIDE DEF u
  <1>3. u[Len(u)] = s[Len(s)]
    BY <1>1, <1>2
  <1>4. t.lev[c] \in Nat /\ t.lev[s[Len(s)]] \in Nat
    BY <1>1, NodeFacts
  <1>5. ASSUME NEW k \in 1 .. Len(u) PROVE t.lev[u[k]] = t.lev[u[Len(u)]] + (Len(u) - k)
    <2>1. CASE k = 1
      <3>1. t.lev[c] = t.lev[s[Len(s)]] + (Len(s) - 1)
        <4>1. 1 \in 1 .. Len(s)
          BY <1>1
        <4> QED BY <1>1, <4>1
      <3> QED BY <1>1, <1>2, <1>3, <1>4, <2>1, <3>1
    <2>2. CASE k # 1
      <3>1. k - 1 \in 1 .. Len(s) /\ k - 1 + 1 = k /\ Len(s) - (k - 1) = Len(u) - k
        BY <1>1, <1>2, <2>2
      <3>2. u[k] = s[k - 1]
        BY <1>2, <3>1
      <3>3. t.lev[s[k - 1]] = t.lev[s[Len(s)]] + (Len(s) - (k - 1))
        BY <1>1, <3>1
      <3> QED BY <1>3, <3>1, <3>2, <3>3
    <2> QED BY <2>1, <2>2
  <1>6. ASSUME NEW k \in 1 .. Len(u) - 1 PROVE Inside(t, u[k], t.low[u[k + 1]])
    <2>0. k \in 1 .. Len(s)
      BY <1>1, <1>2
    <2>1. u[k + 1] = s[k]
      BY <1>2, <2>0
    <2>2. CASE k = 1
      BY <1>1, <1>2, <2>1, <2>2
    <2>3. CASE k # 1
      <3>1. k - 1 \in 1 .. Len(s) - 1 /\ k - 1 \in 1 .. Len(s) /\ k - 1 + 1 = k
        BY <1>1, <2>0, <2>3
      <3>2. u[k] = s[k - 1] /\ Inside(t, s[k - 1], t.low[s[k - 1 + 1]])
        BY <1>1, <1>2, <3>1
      <3> QED BY <2>1, <3>1, <3>2
    <2> QED BY <2>2, <2>3
  <1>7. Trail(u, x, nd, t)
    BY <1>2, <1>5, <1>6 DEF Trail
  <1> QED BY <1>3, <1>7 DEF Down, u

\* findLeaf arrives.
LEMMA Descends ==
    ASSUME NEW t, Whole(node, root, t), NEW e \in Probe
    PROVE  Down(Descent(e), root, node, t, Pos(e))
  <1> DEFINE S == DOMAIN node
             V == Seq(DOMAIN node)
             child(x) == ChildFor(node[x], e)
             Eq(f) == f = [id \in S |-> IF node[id].leaf THEN <<id>>
                                        ELSE <<id>> \o f[ChildFor(node[id], e)]]
  <1>1. Shape(node, root, t) /\ Typed(node, t) /\ t.span = t.high
        /\ \A x \in S : node[x] \in NodeType /\ t.lev[x] \in Nat
    BY NodeFacts DEF Whole, Shape
  <1>2. ASSUME NEW x \in S, ~node[x].leaf
        PROVE  /\ child(x) \in S /\ t.lev[x] = t.lev[child(x)] + 1
               /\ Inside(t, x, Pos(e)) =>
                     Inside(t, child(x), Pos(e)) /\ Inside(t, x, t.low[child(x)])
    <2>1. Sorted(node, t, x) /\ Slots(node, t, x)
      BY <1>1, <1>2 DEF Shape
    <2> QED BY <1>1, <2>1, ChildTaken
  <1> HIDE DEF child
  <1> DEFINE next == [x \in S |-> IF node[x].leaf THEN x ELSE child(x)]
             stop == [x \in S |-> node[x].leaf]
             base == [x \in S |-> <<x>>]
             comb == [z \in S \X V |-> <<z[1]>> \o z[2]]
  <1>3. PICK f \in [S -> V] :
           f = [x \in S |-> IF stop[x] THEN base[x] ELSE comb[<<x, f[next[x]]>>]]
    <2>1. t.lev \in [S -> Nat]
      BY <1>1 DEF Typed
    <2>2. next \in [S -> S]
      BY <1>2
    <2>3. stop \in [S -> BOOLEAN]
      BY <1>1 DEF NodeType
    <2>4. base \in [S -> V]
      OBVIOUS
    <2>5. comb \in [S \X V -> V]
      <3>1. ASSUME NEW z \in S \X V PROVE <<z[1]>> \o z[2] \in V
        <4>1. <<z[1]>> \in V /\ z[2] \in V
          OBVIOUS
        <4> QED BY <4>1, ConcatProperties
      <3> QED BY <3>1
    <2>6. \A x \in S : ~stop[x] => t.lev[next[x]] < t.lev[x]
      <3>1. SUFFICES ASSUME NEW x \in S, ~node[x].leaf PROVE t.lev[child(x)] < t.lev[x]
        OBVIOUS
      <3>2. child(x) \in S /\ t.lev[x] = t.lev[child(x)] + 1
        BY <1>2, <3>1
      <3>3. t.lev[child(x)] \in Nat
        BY <1>1, <3>2
      <3> QED BY <3>2, <3>3
    <2> DEFINE rank == t.lev
    <2>7. rank \in [S -> Nat] /\ \A x \in S : ~stop[x] => rank[next[x]] < rank[x]
      BY <2>1, <2>6
    <2> HIDE DEF next, stop, base, comb, S, V, rank
    <2>8. IsLoop(S, V, rank, next, stop, base, comb)
      BY <2>2, <2>3, <2>4, <2>5, <2>7 DEF IsLoop
    <2> QED BY <2>8, Recursion
  <1>4. \A x \in S : f[x] = IF node[x].leaf THEN <<x>> ELSE <<x>> \o f[child(x)]
    <2>1. SUFFICES ASSUME NEW x \in S
                   PROVE  f[x] = IF node[x].leaf THEN <<x>> ELSE <<x>> \o f[child(x)]
      OBVIOUS
    <2>2. f[x] = IF stop[x] THEN base[x] ELSE comb[<<x, f[next[x]]>>]
      BY <1>3
    <2>3. stop[x] = node[x].leaf /\ base[x] = <<x>>
      OBVIOUS
    <2>4. CASE node[x].leaf
      BY <2>2, <2>3, <2>4
    <2>5. CASE ~node[x].leaf
      <3>1. next[x] = child(x) /\ child(x) \in S
        BY <1>2, <2>5
      <3>2. <<x, f[child(x)]>> \in S \X V
        BY <3>1
      <3> DEFINE z == <<x, f[child(x)]>>
      <3>3. z[1] = x /\ z[2] = f[child(x)] /\ z \in S \X V
        BY <3>2
      <3> HIDE DEF z
      <3>4. comb[z] = <<x>> \o f[child(x)]
        BY <3>3
      <3> QED BY <2>2, <2>3, <2>5, <3>1, <3>4 DEF z
    <2> QED BY <2>4, <2>5
  <1>5. Eq(f)
    <2>1. f = [x \in S |-> f[x]]
      BY <1>3
    <2> QED BY <1>4, <2>1 DEF child
  <1> DEFINE F == CHOOSE g : Eq(g)
  <1>6. Eq(F)
    <2> HIDE DEF Eq
    <2> QED BY <1>5
  <1>7. Descent(e) = F[root]
    BY DEF Descent
  <1>8. \A x \in S : F[x] = IF node[x].leaf THEN <<x>> ELSE <<x>> \o F[child(x)]
    <2> HIDE DEF F
    <2> QED BY <1>6 DEF child
  <1> HIDE DEF F
  <1> DEFINE Lost == {t.lev[x] : x \in {y \in S : Inside(t, y, Pos(e)) /\ ~Down(F[y], y, node, t, Pos(e))}}
  <1>9. ASSUME NEW x \in S, Inside(t, x, Pos(e)) PROVE Down(F[x], x, node, t, Pos(e))
    <2>1. SUFFICES ASSUME Lost # {} PROVE FALSE
      BY <1>9
    <2>2. Lost \in SUBSET Nat
      BY <1>1
    <2>3. PICK v \in Lost : \A w \in Lost : v <= w
      <3> HIDE DEF Lost
      <3> QED BY <2>1, <2>2, LeastNumber
    <2>4. PICK y \in S : Inside(t, y, Pos(e)) /\ ~Down(F[y], y, node, t, Pos(e)) /\ t.lev[y] = v
      BY <2>3
    <2>5. CASE node[y].leaf
      <3>1. F[y] = <<y>>
        BY <1>8, <2>5
      <3>2. <<y>> \in Seq(S) /\ Len(<<y>>) = 1 /\ <<y>>[1] = y /\ <<y>> # << >>
        OBVIOUS
      <3>3. \A k \in 1 .. 1 : k = 1 /\ 1 - k = 0
        OBVIOUS
      <3>4. t.lev[y] = t.lev[y] + 0
        BY <1>1
      <3>5. Trail(<<y>>, y, node, t)
        BY <3>2, <3>3, <3>4 DEF Trail
      <3> QED BY <2>4, <2>5, <3>1, <3>2, <3>5 DEF Down
    <2>6. CASE ~node[y].leaf
      <3>1. child(y) \in S /\ t.lev[y] = t.lev[child(y)] + 1 /\ Inside(t, child(y), Pos(e))
            /\ Inside(t, y, t.low[child(y)])
        BY <1>2, <2>4, <2>6
      <3>2. Down(F[child(y)], child(y), node, t, Pos(e))
        <4>1. SUFFICES ASSUME ~Down(F[child(y)], child(y), node, t, Pos(e)) PROVE FALSE
          OBVIOUS
        <4>2. t.lev[child(y)] \in Lost
          BY <3>1, <4>1
        <4>3. t.lev[child(y)] \in Nat
          BY <1>1, <3>1
        <4> HIDE DEF Lost
        <4> QED BY <2>3, <2>4, <3>1, <4>2, <4>3
      <3>3. Down(<<y>> \o F[child(y)], y, node, t, Pos(e))
        BY <1>1, <3>1, <3>2, DownStep
      <3> QED BY <1>8, <2>4, <2>6, <3>3
    <2> QED BY <2>5, <2>6
  <1>10. root \in S /\ Inside(t, root, Pos(e))
    <2>1. Rooted(node, t, root)
      BY <1>1 DEF Shape
    <2> QED BY <1>1, <2>1, Places DEF Rooted, Inside
  <1> QED BY <1>7, <1>9, <1>10

\* The leaf of an entry, and no other leaf has its place inside.
LEMMA LeafFound ==
    ASSUME NEW t, Whole(node, root, t), NEW e \in Probe
    PROVE  /\ LeafFor(e) \in DOMAIN node /\ node[LeafFor(e)].leaf
           /\ Inside(t, LeafFor(e), Pos(e))
           /\ Front(Descent(e)) \in Seq(DOMAIN node)
           /\ Trail(Append(Front(Descent(e)), LeafFor(e)), root, node, t)
           /\ \A x \in DOMAIN node : node[x].leaf /\ Inside(t, x, Pos(e)) => x = LeafFor(e)
  <1> DEFINE s == Descent(e)
  <1>1. Down(s, root, node, t, Pos(e))
    BY Descends
  <1> HIDE DEF s
  <1>2. s \in Seq(DOMAIN node) /\ s # << >> /\ Len(s) \in Nat \ {0} /\ Trail(s, root, node, t)
    BY <1>1 DEF Down, Trail
  <1>3. LeafFor(e) = s[Len(s)]
    BY DEF LeafFor, Last, s
  <1>4. s[Len(s)] \in DOMAIN node
    BY <1>2
  <1>5. node[LeafFor(e)].leaf /\ Inside(t, LeafFor(e), Pos(e)) /\ LeafFor(e) \in DOMAIN node
    BY <1>1, <1>3, <1>4 DEF Down
  <1>6. Front(s) = SubSeq(s, 1, Len(s) - 1)
    BY DEF Front
  <1>7. Front(s) \in Seq(DOMAIN node) /\ Len(Front(s)) = Len(s) - 1
        /\ \A k \in 1 .. Len(s) - 1 : Front(s)[k] = s[k]
    <2> DEFINE q == Len(s) - 1
    <2>1. q \in 1 - 1 .. Len(s) /\ 1 \in 1 .. Len(s) + 1 /\ q - 1 + 1 = q
          /\ \A j \in 1 .. q : 1 + j - 1 = j
      BY <1>2
    <2>2. Front(s) = SubSeq(s, 1, q)
      BY <1>6
    <2> HIDE DEF q
    <2>3. SubSeq(s, 1, q) \in Seq(DOMAIN node) /\ Len(SubSeq(s, 1, q)) = q - 1 + 1
          /\ \A j \in 1 .. q - 1 + 1 : SubSeq(s, 1, q)[j] = s[1 + j - 1]
      BY ONLY <1>2, <2>1, Piece
    <2>4. Front(s) \in Seq(DOMAIN node) /\ Len(Front(s)) = q /\ \A j \in 1 .. q : Front(s)[j] = s[j]
      BY ONLY <2>1, <2>2, <2>3
    <2> QED BY <2>4 DEF q
  <1>8. Append(Front(s), LeafFor(e)) = s
    <2> DEFINE u == Append(Front(s), LeafFor(e))
    <2>1. u \in Seq(DOMAIN node) /\ Len(u) = Len(s) /\ u[Len(s)] = LeafFor(e)
          /\ \A k \in 1 .. Len(s) - 1 : u[k] = s[k]
      <3>1. u \in Seq(DOMAIN node) /\ Len(u) = Len(Front(s)) + 1
            /\ (\A k \in 1 .. Len(Front(s)) : u[k] = Front(s)[k]) /\ u[Len(Front(s)) + 1] = LeafFor(e)
        BY <1>5, <1>7, AppendProperties
      <3> HIDE DEF u
      <3> QED BY <1>2, <1>7, <3>1
    <2> HIDE DEF u
    <2>2. \A k \in 1 .. Len(s) : u[k] = s[k]
      <3>1. \A k \in 1 .. Len(s) : k = Len(s) \/ k \in 1 .. Len(s) - 1
        BY <1>2
      <3> QED BY <1>3, <2>1, <3>1
    <2>3. u = s
      BY <1>2, <2>1, <2>2, SeqEqual
    <2> QED BY <2>3 DEF u
  <1>9. ASSUME NEW x \in DOMAIN node, node[x].leaf, Inside(t, x, Pos(e)) PROVE x = LeafFor(e)
    <2>1. Typed(node, t) /\ Apart(node, t) /\ Sorted(node, t, x) /\ Sorted(node, t, LeafFor(e))
      BY <1>5 DEF Whole, Shape
    <2>2. t.lev[x] = t.lev[LeafFor(e)]
      BY <1>5, <1>9, <2>1 DEF Sorted
    <2> QED BY <1>5, <1>9, <2>1, <2>2, Alone, Places
  <1> QED BY <1>2, <1>5, <1>7, <1>8, <1>9 DEF s

----------------------------------------------------------------------------
(* The length of a node in bytes.                                          *)

\* The bytes of one entry.
EntryBytes(e) == 2 + e.key.size + 8

\* g[i] is the length of the first i entries of s.
IsSums(g, s) ==
    /\ g \in [0 .. Len(s) -> Nat]
    /\ g[0] = 0
    /\ \A i \in 1 .. Len(s) : i - 1 \in 0 .. Len(s) /\ g[i] = g[i - 1] + EntryBytes(s[i])

\* An entry takes at least its length and its record id.
LEMMA EntrySizes == \A e \in Entry : EntryBytes(e) \in Nat \ {0}
  <1>1. \A v \in Values : v.size \in Nat
    BY TreeAssumption DEF Value
  <1> QED BY <1>1 DEF Entry, EntryBytes

\* measure() adds up the entries one by one.
LEMMA Summed ==
    ASSUME NEW s \in Seq(Entry)
    PROVE  \E g : IsSums(g, s) /\ Bytes(s) = g[Len(s)]
  <1> DEFINE n == Len(s)
             S == 0 .. n
             Eq(f) == f = [i \in 0 .. Len(s) |-> IF i = 0 THEN 0 ELSE f[i - 1] + 2 + s[i].key.size + 8]
             rank == [i \in S |-> i]
             next == [i \in S |-> IF i = 0 THEN 0 ELSE i - 1]
             stop == [i \in S |-> i = 0]
             base == [i \in S |-> 0]
             comb == [z \in S \X Nat |-> IF z[1] = 0 THEN 0 ELSE z[2] + EntryBytes(s[z[1]])]
  <1>1. n \in Nat /\ \A i \in 1 .. n : s[i] \in Entry
    OBVIOUS
  <1>2. \A i \in 1 .. n : EntryBytes(s[i]) \in Nat
    BY <1>1, EntrySizes
  <1>3. \A i \in S : i = 0 \/ (i \in 1 .. n /\ i - 1 \in S)
    BY <1>1
  <1>4. IsLoop(S, Nat, rank, next, stop, base, comb)
    <2> HIDE DEF n
    <2>1. rank \in [S -> Nat] /\ next \in [S -> S] /\ stop \in [S -> BOOLEAN] /\ base \in [S -> Nat]
      BY <1>1, <1>3
    <2>2. comb \in [S \X Nat -> Nat]
      <3>1. ASSUME NEW i \in S, NEW k \in Nat
            PROVE (IF i = 0 THEN 0 ELSE k + EntryBytes(s[i])) \in Nat
        BY <1>2, <1>3
      <3> HIDE DEF S
      <3> QED BY <3>1
    <2>3. \A i \in S : ~stop[i] => rank[next[i]] < rank[i]
      <3>1. SUFFICES ASSUME NEW i \in S, i # 0 PROVE rank[next[i]] < rank[i]
        OBVIOUS
      <3>2. next[i] = i - 1 /\ i - 1 \in S /\ i - 1 < i
        BY <1>1, <1>3, <3>1
      <3>3. rank[i - 1] = i - 1 /\ rank[i] = i
        BY <3>2
      <3> QED BY <3>2, <3>3
    <2> HIDE DEF S, rank, next, stop, base, comb
    <2> QED BY <2>1, <2>2, <2>3 DEF IsLoop
  <1>5. PICK f \in [S -> Nat] : f = [i \in S |-> IF stop[i] THEN base[i] ELSE comb[<<i, f[next[i]]>>]]
    <2> HIDE DEF S, rank, next, stop, base, comb
    <2> QED BY <1>4, Recursion
  <1>6. \A i \in S : f[i] = IF i = 0 THEN 0 ELSE f[i - 1] + EntryBytes(s[i])
    <2>1. ASSUME NEW i \in S, i # 0 PROVE f[i] = f[i - 1] + EntryBytes(s[i])
      <3>1. next[i] = i - 1 /\ i - 1 \in S /\ stop[i] = FALSE
        BY <1>3, <2>1
      <3> DEFINE z == <<i, f[i - 1]>>
      <3>2. z \in S \X Nat /\ z[1] = i /\ z[2] = f[i - 1]
        BY <3>1
      <3>3. f[i] = comb[z]
        BY <1>5, <3>1
      <3> HIDE DEF z
      <3> QED BY <2>1, <3>2, <3>3
    <2>2. 0 \in S => f[0] = 0
      BY <1>5
    <2> QED BY <2>1, <2>2
  <1>7. Eq(f)
    <2>1. f = [i \in S |-> f[i]]
      BY <1>5
    <2>2. ASSUME NEW i \in S
          PROVE  f[i] = IF i = 0 THEN 0 ELSE f[i - 1] + 2 + s[i].key.size + 8
      <3>1. CASE i = 0
        BY <1>6, <3>1
      <3>2. CASE i # 0
        <4>1. f[i] = f[i - 1] + (2 + s[i].key.size + 8)
          BY <1>6, <2>2, <3>2 DEF EntryBytes
        <4>2. i - 1 \in S /\ s[i].key.size \in Nat
          <5>1. \A v \in Values : v.size \in Nat
            BY TreeAssumption DEF Value
          <5> QED BY <1>1, <1>3, <2>2, <3>2, <5>1 DEF Entry
        <4>3. f[i - 1] \in Nat
          BY <1>5, <4>2
        <4>4. f[i] = f[i - 1] + 2 + s[i].key.size + 8
          <5> DEFINE a == f[i - 1]
                     b == s[i].key.size
          <5>1. f[i] = a + (2 + b + 8) /\ a \in Nat /\ b \in Nat
            BY <4>1, <4>2, <4>3
          <5> HIDE DEF a, b
          <5>2. a + (2 + b + 8) = a + 2 + b + 8
            BY ONLY <5>1
          <5>3. f[i] = a + 2 + b + 8
            BY ONLY <5>1, <5>2
          <5> QED BY <5>3 DEF a, b
        <4> QED BY <3>2, <4>4
      <3> QED BY <3>1, <3>2
    <2>3. [i \in S |-> f[i]] = [i \in S |-> IF i = 0 THEN 0 ELSE f[i - 1] + 2 + s[i].key.size + 8]
      BY <2>2
    <2> QED BY <2>1, <2>3
  <1> DEFINE F == CHOOSE g : Eq(g)
  <1>8. Eq(F)
    <2> HIDE DEF Eq
    <2> QED BY <1>7
  <1>9. Bytes(s) = F[n]
    BY DEF Bytes
  <1> HIDE DEF F
  <1> DEFINE Wrong == {i \in S : F[i] # f[i]}
  <1>10. Wrong = {}
    <2>1. SUFFICES ASSUME Wrong # {} PROVE FALSE
      OBVIOUS
    <2>2. Wrong \in SUBSET Nat
      BY <1>1
    <2>3. PICK i \in Wrong : \A j \in Wrong : i <= j
      <3> HIDE DEF Wrong
      <3> QED BY <2>1, <2>2, LeastNumber
    <2>4. i \in S /\ F[i] # f[i] /\ i \in Nat
      BY <2>2, <2>3
    <2>5. F[i] = IF i = 0 THEN 0 ELSE F[i - 1] + 2 + s[i].key.size + 8
      BY <1>8, <2>4
    <2>6. f[i] = IF i = 0 THEN 0 ELSE f[i - 1] + 2 + s[i].key.size + 8
      <3>1. f = [j \in S |-> IF j = 0 THEN 0 ELSE f[j - 1] + 2 + s[j].key.size + 8]
        BY <1>7
      <3> QED BY <2>4, <3>1
    <2>7. i # 0 => i - 1 \in S /\ i - 1 \in Nat /\ i - 1 \notin Wrong
      <3>1. i # 0 => i - 1 \in S /\ i - 1 \in Nat /\ ~(i <= i - 1)
        BY <1>3, <2>4
      <3> QED BY <2>3, <3>1
    <2>8. i # 0 => F[i - 1] = f[i - 1]
      BY <2>7
    <2> QED BY <2>4, <2>5, <2>6, <2>8
  <1>11. Bytes(s) = f[n]
    <2>1. n \in S
      BY <1>1
    <2> QED BY <1>9, <1>10, <2>1
  <1>12. f \in [0 .. Len(s) -> Nat] /\ 0 \in S /\ \A i \in 1 .. Len(s) : i \in S /\ i - 1 \in S /\ i # 0
    <2>1. 0 \in S /\ \A i \in 1 .. Len(s) : i \in S /\ i - 1 \in S /\ i # 0
      BY <1>1
    <2>2. f \in [0 .. Len(s) -> Nat]
      BY <1>5
    <2> QED BY <2>1, <2>2
  <1>13. IsSums(f, s)
    <2> HIDE DEF S
    <2>1. f[0] = 0 /\ \A i \in 1 .. Len(s) : f[i] = f[i - 1] + EntryBytes(s[i])
      BY <1>6, <1>12
    <2>2. \A i \in 1 .. Len(s) : i - 1 \in 0 .. Len(s)
      BY <1>1
    <2> QED BY <1>12, <2>1, <2>2 DEF IsSums
  <1> QED BY <1>11, <1>13

\* A stretch of the entries is as long as what the sums say of its ends.
LEMMA PartSummed ==
    ASSUME NEW s \in Seq(Entry), NEW u \in Seq(Entry), NEW p \in Nat,
           p + Len(u) <= Len(s), \A j \in 1 .. Len(u) : u[j] = s[p + j],
           NEW g, IsSums(g, s), NEW h, IsSums(h, u)
    PROVE  g[p] \in Nat /\ g[p + Len(u)] = g[p] + h[Len(u)]
  <1> DEFINE Wrong == {j \in 0 .. Len(u) : g[p + j] # g[p] + h[j]}
  <1>1. Len(s) \in Nat /\ Len(u) \in Nat
    OBVIOUS
  <1>2. /\ g \in [0 .. Len(s) -> Nat]
        /\ \A i \in 1 .. Len(s) : g[i] = g[i - 1] + EntryBytes(s[i])
        /\ h \in [0 .. Len(u) -> Nat] /\ h[0] = 0
        /\ \A i \in 1 .. Len(u) : h[i] = h[i - 1] + EntryBytes(u[i])
    BY DEF IsSums
  <1>3. p \in 0 .. Len(s) /\ g[p] \in Nat /\ p + 0 = p
    <2>1. p \in 0 .. Len(s) /\ p + 0 = p
      BY <1>1
    <2> QED BY <1>2, <2>1
  <1>4. Wrong = {}
    <2>1. SUFFICES ASSUME Wrong # {} PROVE FALSE
      OBVIOUS
    <2>2. Wrong \in SUBSET Nat
      BY <1>1
    <2>3. PICK j \in Wrong : \A i \in Wrong : j <= i
      <3> HIDE DEF Wrong
      <3> QED BY <2>1, <2>2, LeastNumber
    <2>4. j \in 0 .. Len(u) /\ g[p + j] # g[p] + h[j]
      BY <2>3
    <2>5. j # 0
      BY <1>2, <1>3, <2>4
    <2>6. j - 1 \in 0 .. Len(u) /\ j - 1 \notin Wrong
      <3>1. j - 1 \in 0 .. Len(u) /\ ~(j <= j - 1)
        BY <1>1, <2>4, <2>5
      <3> QED BY <2>3, <3>1
    <2>7. g[p + (j - 1)] = g[p] + h[j - 1]
      BY <2>6
    <2>8. p + j \in 1 .. Len(s) /\ p + j - 1 = p + (j - 1) /\ j \in 1 .. Len(u) /\ p + (j - 1) \in 0 .. Len(s)
      BY <1>1, <2>4, <2>5
    <2>9. g[p + j] = g[p + (j - 1)] + EntryBytes(s[p + j])
      BY <1>2, <2>8
    <2>10. h[j] = h[j - 1] + EntryBytes(s[p + j])
      BY <1>2, <2>8
    <2>11. EntryBytes(s[p + j]) \in Nat /\ h[j - 1] \in Nat
      <3>1. s[p + j] \in Entry
        BY <2>8
      <3> QED BY <1>2, <2>6, <3>1, EntrySizes
    <2> QED BY <1>3, <2>4, <2>7, <2>9, <2>10, <2>11
  <1>5. Len(u) \in 0 .. Len(u)
    BY <1>1
  <1> QED BY <1>3, <1>4, <1>5

\* One entry more, or one fewer.
LEMMA InsertedBytes ==
    ASSUME NEW s \in Seq(Entry), NEW m \in Seq(Entry), NEW i \in 1 .. Len(s) + 1, NEW e \in Entry,
           IsInserted(m, s, i, e)
    PROVE  Bytes(s) \in Nat /\ Bytes(m) = Bytes(s) + EntryBytes(e)
  <1>1. PICK g : IsSums(g, s) /\ Bytes(s) = g[Len(s)]
    BY Summed
  <1>2. PICK h : IsSums(h, m) /\ Bytes(m) = h[Len(m)]
    BY Summed
  <1>3. Len(s) \in Nat /\ Len(m) = Len(s) + 1
        /\ \A j \in 1 .. Len(s) + 1 : m[j] = IF j < i THEN s[j] ELSE IF j = i THEN e ELSE s[j - 1]
    BY DEF IsInserted
  <1>4. /\ g \in [0 .. Len(s) -> Nat] /\ g[0] = 0
        /\ \A j \in 1 .. Len(s) : g[j] = g[j - 1] + EntryBytes(s[j])
        /\ h \in [0 .. Len(s) + 1 -> Nat] /\ h[0] = 0
        /\ \A j \in 1 .. Len(s) + 1 : h[j] = h[j - 1] + EntryBytes(m[j])
    BY <1>1, <1>2, <1>3 DEF IsSums
  <1>5. EntryBytes(e) \in Nat /\ \A j \in 1 .. Len(s) : EntryBytes(s[j]) \in Nat
    BY EntrySizes
  <1> DEFINE Right(j) == IF j < i THEN g[j] ELSE g[j - 1] + EntryBytes(e)
             Wrong == {j \in 0 .. Len(s) + 1 : h[j] # Right(j)}
  <1>6. Wrong = {}
    <2>1. SUFFICES ASSUME Wrong # {} PROVE FALSE
      OBVIOUS
    <2>2. Wrong \in SUBSET Nat
      BY <1>3
    <2>3. PICK j \in Wrong : \A k \in Wrong : j <= k
      <3> HIDE DEF Wrong
      <3> QED BY <2>1, <2>2, LeastNumber
    <2>4. j \in 0 .. Len(s) + 1 /\ h[j] # Right(j)
      BY <2>3
    <2>5. j # 0
      BY <1>4, <2>4
    <2>6. j - 1 \in 0 .. Len(s) + 1 /\ j - 1 \notin Wrong /\ j \in 1 .. Len(s) + 1
      <3>1. j - 1 \in 0 .. Len(s) + 1 /\ ~(j <= j - 1) /\ j \in 1 .. Len(s) + 1
        BY <1>3, <2>4, <2>5
      <3> QED BY <2>3, <3>1
    <2>7. h[j - 1] = Right(j - 1)
      BY <2>6
    <2>8. h[j] = h[j - 1] + EntryBytes(m[j])
      BY <1>4, <2>6
    <2>9. CASE j < i
      <3>1. m[j] = s[j] /\ j \in 1 .. Len(s) /\ j - 1 < i
        BY <1>3, <2>6, <2>9
      <3> QED BY <1>4, <2>4, <2>7, <2>8, <2>9, <3>1
    <2>10. CASE j = i
      <3>1. m[j] = e /\ j - 1 < i
        BY <1>3, <2>6, <2>10
      <3> QED BY <2>4, <2>7, <2>8, <2>10, <3>1
    <2>11. CASE j > i
      <3>1. m[j] = s[j - 1] /\ j - 1 \in 1 .. Len(s) /\ ~(j - 1 < i) /\ ~(j < i)
        BY <1>3, <2>6, <2>11
      <3>2. g[j - 1] = g[j - 1 - 1] + EntryBytes(s[j - 1])
        BY <1>4, <3>1
      <3>3. g[j - 1 - 1] \in Nat /\ EntryBytes(s[j - 1]) \in Nat
        <4>1. j - 1 - 1 \in 0 .. Len(s)
          BY <1>3, <3>1
        <4> QED BY <1>4, <1>5, <3>1, <4>1
      <3>4. h[j - 1] = g[j - 1 - 1] + EntryBytes(e)
        BY <2>7, <3>1
      <3>5. h[j] # g[j - 1] + EntryBytes(e)
        BY <2>4, <3>1
      <3> QED BY <1>5, <2>8, <3>1, <3>2, <3>3, <3>4, <3>5
    <2> QED BY <2>4, <2>9, <2>10, <2>11
  <1>7. Len(s) + 1 \in 0 .. Len(s) + 1 /\ ~(Len(s) + 1 < i) /\ Len(s) + 1 - 1 = Len(s) /\ Len(s) \in 0 .. Len(s)
    BY <1>3
  <1>8. h[Len(s) + 1] = g[Len(s)] + EntryBytes(e)
    <2>1. h[Len(s) + 1] = Right(Len(s) + 1)
      BY <1>6, <1>7
    <2> QED BY <1>7, <2>1
  <1> QED BY <1>1, <1>2, <1>3, <1>4, <1>7, <1>8

\* What the pages and the values must be like.
PagesSuffice == \E few \in Nat \ {0}, short, long \in Nat : Roomy(few, short, long)

\* Arithmetic that the solver is given in one piece.
LEMMA Times == \A a, b, c \in Nat : a * b \in Nat /\ a * b = b * a /\ (b <= c => a * b <= a * c)
  OBVIOUS

\* The same, for one entry more.
LEMMA TimesNext == \A a \in Nat, j \in Nat \ {0} : a * j = a * (j - 1) + a
  OBVIOUS

\* As many entries are at least, and at most, so long.
LEMMA BytesBounded ==
    ASSUME NEW s \in Seq(Entry), NEW short \in Nat, NEW long \in Nat,
           \A v \in Values : short <= 2 + v.size + 8 /\ 2 + v.size + 8 <= long
    PROVE  Bytes(s) \in Nat /\ short * Len(s) <= Bytes(s) /\ Bytes(s) <= long * Len(s)
  <1>1. PICK g : IsSums(g, s) /\ Bytes(s) = g[Len(s)]
    BY Summed
  <1>2. Len(s) \in Nat /\ Len(s) \in 0 .. Len(s)
    OBVIOUS
  <1>3. /\ g \in [0 .. Len(s) -> Nat] /\ g[0] = 0
        /\ \A i \in 1 .. Len(s) : g[i] = g[i - 1] + EntryBytes(s[i])
    BY <1>1 DEF IsSums
  <1>4. \A i \in 1 .. Len(s) : EntryBytes(s[i]) \in Nat /\ short <= EntryBytes(s[i]) /\ EntryBytes(s[i]) <= long
    <2>1. \A e \in Entry : short <= EntryBytes(e) /\ EntryBytes(e) <= long
      BY DEF Entry, EntryBytes
    <2> QED BY <2>1, EntrySizes
  <1> DEFINE Wrong == {j \in 0 .. Len(s) : ~(short * j <= g[j] /\ g[j] <= long * j)}
  <1>5. Wrong = {}
    <2>1. SUFFICES ASSUME Wrong # {} PROVE FALSE
      OBVIOUS
    <2>2. Wrong \in SUBSET Nat
      BY <1>2
    <2>3. PICK j \in Wrong : \A i \in Wrong : j <= i
      <3> HIDE DEF Wrong
      <3> QED BY <2>1, <2>2, LeastNumber
    <2>4. j \in 0 .. Len(s) /\ ~(short * j <= g[j] /\ g[j] <= long * j)
      BY <2>3
    <2>5. j # 0
      <3>1. short * 0 = 0 /\ long * 0 = 0
        OBVIOUS
      <3> QED BY <1>3, <2>4, <3>1
    <2>6. j - 1 \in 0 .. Len(s) /\ j - 1 \notin Wrong /\ j \in 1 .. Len(s) /\ j \in Nat \ {0}
      <3>1. j - 1 \in 0 .. Len(s) /\ ~(j <= j - 1) /\ j \in 1 .. Len(s) /\ j \in Nat \ {0}
        BY <1>2, <2>4, <2>5
      <3> QED BY <2>3, <3>1
    <2>7. short * (j - 1) <= g[j - 1] /\ g[j - 1] <= long * (j - 1)
      BY <2>6
    <2>8. g[j] = g[j - 1] + EntryBytes(s[j]) /\ g[j - 1] \in Nat
      BY <1>3, <2>6
    <2>9. short * j = short * (j - 1) + short /\ long * j = long * (j - 1) + long
      BY <2>6, TimesNext
    <2>10. short * (j - 1) \in Nat /\ long * (j - 1) \in Nat
      <3>1. j - 1 \in Nat
        BY <2>6
      <3> QED BY <3>1, Times
    <2> DEFINE a == short * (j - 1)
               b == long * (j - 1)
               x == EntryBytes(s[j])
    <2>11. a <= g[j - 1] /\ g[j - 1] <= b /\ a \in Nat /\ b \in Nat /\ short * j = a + short /\ long * j = b + long
      BY <2>7, <2>9, <2>10
    <2>12. x \in Nat /\ short <= x /\ x <= long /\ g[j] = g[j - 1] + x /\ g[j - 1] \in Nat
      BY <1>4, <2>6, <2>8
    <2> HIDE DEF a, b, x
    <2>13. a + short <= g[j] /\ g[j] <= b + long
      BY ONLY <2>11, <2>12, short \in Nat, long \in Nat
    <2> QED BY <2>4, <2>11, <2>13
  <1>6. g[Len(s)] \in Nat /\ short * Len(s) <= g[Len(s)] /\ g[Len(s)] <= long * Len(s)
    BY <1>2, <1>3, <1>5
  <1> QED BY <1>1, <1>6

\* The two parts of a node's entries, in bytes.
LEMMA TwoParts ==
    ASSUME NEW s \in Seq(Entry), NEW h \in 0 .. Len(s)
    PROVE  LET a == SubSeq(s, 1, h)
               b == SubSeq(s, h + 1, Len(s))
           IN  /\ a \in Seq(Entry) /\ b \in Seq(Entry) /\ Len(a) = h /\ Len(b) = Len(s) - h
               /\ Bytes(a) \in Nat /\ Bytes(b) \in Nat /\ Bytes(s) = Bytes(a) + Bytes(b)
  <1> DEFINE a == SubSeq(s, 1, h)
             b == SubSeq(s, h + 1, Len(s))
  <1>1. Len(s) \in Nat /\ h \in Nat /\ h <= Len(s)
    OBVIOUS
  <1>2. a \in Seq(Entry) /\ Len(a) = h /\ \A j \in 1 .. h : a[j] = s[j]
    BY <1>1, SubSeqProperties
  <1>3. b \in Seq(Entry) /\ Len(b) = Len(s) - h /\ \A j \in 1 .. Len(s) - h : b[j] = s[h + j]
    BY <1>1, SubSeqProperties
  <1> HIDE DEF a, b
  <1>4. PICK g : IsSums(g, s) /\ Bytes(s) = g[Len(s)]
    BY Summed
  <1>5. PICK f : IsSums(f, a) /\ Bytes(a) = f[Len(a)]
    BY <1>2, Summed
  <1>6. PICK k : IsSums(k, b) /\ Bytes(b) = k[Len(b)]
    BY <1>3, Summed
  <1>7. g[0] \in Nat /\ g[0 + h] = g[0] + f[Len(a)]
    <2>1. 0 \in Nat /\ 0 + Len(a) <= Len(s) /\ \A j \in 1 .. Len(a) : a[j] = s[0 + j]
      BY <1>1, <1>2
    <2>2. g[0] \in Nat /\ g[0 + Len(a)] = g[0] + f[Len(a)]
      BY ONLY <1>2, <1>4, <1>5, <2>1, PartSummed, s \in Seq(Entry), SMTT(40)
    <2> QED BY <1>2, <2>2
  <1>8. g[h] \in Nat /\ g[h + Len(b)] = g[h] + k[Len(b)]
    <2>1. h + Len(b) <= Len(s) /\ \A j \in 1 .. Len(b) : b[j] = s[h + j]
      BY <1>1, <1>3
    <2>2. h \in Nat /\ b \in Seq(Entry) /\ IsSums(g, s) /\ IsSums(k, b)
      BY <1>1, <1>3, <1>4, <1>6
    <2> QED BY ONLY <2>1, <2>2, PartSummed, s \in Seq(Entry)
  <1>9. g[0] = 0
    BY <1>4 DEF IsSums
  <1>10. f[Len(a)] \in Nat /\ k[Len(b)] \in Nat
    <2>1. Len(a) \in 0 .. Len(a) /\ Len(b) \in 0 .. Len(b)
      BY <1>1, <1>2, <1>3
    <2> QED BY <1>5, <1>6, <2>1 DEF IsSums
  <1>11. 0 + h = h /\ h + Len(b) = Len(s)
    BY <1>1, <1>3
  <1>12. g[Len(s)] = f[Len(a)] + k[Len(b)]
    BY <1>7, <1>8, <1>9, <1>10, <1>11
  <1> QED BY <1>2, <1>3, <1>4, <1>5, <1>6, <1>10, <1>12 DEF a, b

\* One part of a node that was too long by one entry, of x bytes, is no longer than
\* the node was before, or has only few entries.
LEMMA PartFits ==
    ASSUME NEW few \in Nat \ {0}, NEW short \in Nat, NEW long \in Nat, Roomy(few, short, long),
           NEW a \in Seq(Entry), NEW b \in Seq(Entry), NEW old \in Nat, NEW x \in Nat, x <= long,
           Bytes(a) + Bytes(b) = old + x,
           Len(b) < few => Len(a) <= few
    PROVE  Bytes(a) <= old \/ (Bytes(a) <= few * long /\ Len(b) < few)
  <1>1. /\ \A v \in Values : short <= 2 + v.size + 8 /\ 2 + v.size + 8 <= long
        /\ long <= few * short
    BY DEF Roomy
  <1>2. Bytes(a) \in Nat /\ Bytes(a) <= long * Len(a) /\ Bytes(b) \in Nat /\ short * Len(b) <= Bytes(b)
        /\ Len(a) \in Nat /\ Len(b) \in Nat
    BY <1>1, BytesBounded
  <1> DEFINE most == few * long
             least == few * short
  <1>3. most \in Nat /\ least \in Nat /\ long <= least
    BY <1>1, Times
  <1>4. CASE Len(b) < few
    <2>1. Len(a) <= few
      BY <1>4
    <2>2. long * Len(a) <= long * few /\ long * few = most
      BY <1>2, <2>1, Times
    <2>3. Bytes(a) <= most
      <3> DEFINE y == long * Len(a)
      <3>1. Bytes(a) <= y /\ y <= most /\ y \in Nat
        BY <1>2, <2>2, Times
      <3> HIDE DEF y, most
      <3> QED BY ONLY <1>2, <1>3, <3>1
    <2> QED BY <1>4, <2>3
  <1>5. CASE ~(Len(b) < few)
    <2>1. few <= Len(b)
      BY <1>2, <1>5
    <2>2. least = short * few /\ short * few <= short * Len(b) /\ short * Len(b) \in Nat
      BY <1>2, <2>1, Times
    <2>3. x <= Bytes(b)
      <3> DEFINE y == short * Len(b)
      <3>1. least <= y /\ y <= Bytes(b) /\ y \in Nat
        BY <1>2, <2>2
      <3> HIDE DEF y, least
      <3> QED BY ONLY <1>2, <1>3, <3>1, x <= long, x \in Nat, long \in Nat
    <2> QED BY <1>2, <2>3
  <1> QED BY <1>4, <1>5

\* A page holds few entries of the longest value and their children.
LEMMA Room ==
    ASSUME NEW few \in Nat \ {0}, NEW short \in Nat, NEW long \in Nat, Roomy(few, short, long)
    PROVE  /\ PageSize \in Nat /\ few * long \in Nat
           /\ 8 + few * long + 4 * (few + 1) <= PageSize
           /\ \A e \in Entry : EntryBytes(e) \in Nat /\ EntryBytes(e) <= long
           /\ long <= few * long
  <1>1. PageSize \in Nat
    BY TreeAssumption
  <1>2. few * long \in Nat /\ long <= few * long
    <2>1. few \in Nat /\ 1 <= few
      OBVIOUS
    <2>2. long * 1 <= long * few /\ long * few = few * long /\ few * long \in Nat
      BY <2>1, Times
    <2>3. long * 1 = long
      OBVIOUS
    <2> QED BY <2>2, <2>3
  <1>3. \A e \in Entry : EntryBytes(e) <= long
    BY DEF Roomy, Entry, EntryBytes
  <1> QED BY <1>1, <1>2, <1>3, EntrySizes DEF Roomy

\* The halves of a leaf fit, and a leaf with one entry is not too long.
LEMMA LeafHalvesFit ==
    ASSUME PagesSuffice, NEW n \in NodeType, n.children = << >>,
           NEW old \in Nat, 8 + old <= PageSize, NEW e \in Entry,
           Bytes(n.entries) = old + EntryBytes(e), NEW r
    PROVE  /\ Fits(LeftLeaf(n, r)) /\ Fits(RightLeaf(n))
           /\ Len(n.entries) <= 1 => Fits(n)
  <1> DEFINE s == n.entries
             h == Len(s) \div 2
             a == SubSeq(s, 1, h)
             b == SubSeq(s, h + 1, Len(s))
             x == EntryBytes(e)
  <1>1. PICK few \in Nat \ {0}, short \in Nat, long \in Nat : Roomy(few, short, long)
    BY DEF PagesSuffice
  <1>2. /\ PageSize \in Nat /\ few * long \in Nat
        /\ 8 + few * long + 4 * (few + 1) <= PageSize
        /\ x \in Nat /\ x <= long /\ long <= few * long
    BY <1>1, Room
  <1>3. s \in Seq(Entry) /\ Len(s) \in Nat
    BY DEF NodeType
  <1> HIDE DEF s
  <1>4. h \in 0 .. Len(s) /\ h \in Nat /\ h <= Len(s) - h /\ Len(s) - h <= h + 1
    BY <1>3
  <1> HIDE DEF h
  <1>5. /\ a \in Seq(Entry) /\ b \in Seq(Entry) /\ Len(a) = h /\ Len(b) = Len(s) - h
        /\ Bytes(a) \in Nat /\ Bytes(b) \in Nat /\ Bytes(s) = Bytes(a) + Bytes(b)
    BY <1>3, <1>4, TwoParts
  <1>6. Bytes(s) = old + x
    BY DEF s
  <1> HIDE DEF a, b, x
  <1>7. Bytes(a) <= old \/ Bytes(a) <= few * long
    <2>1. Bytes(a) + Bytes(b) = old + x /\ (Len(b) < few => Len(a) <= few)
      BY <1>3, <1>4, <1>5, <1>6
    <2> QED BY <1>1, <1>2, <1>5, <2>1, PartFits
  <1>8. Bytes(b) <= old \/ Bytes(b) <= few * long
    <2>1. Bytes(b) + Bytes(a) = old + x /\ (Len(a) < few => Len(b) <= few)
      BY <1>3, <1>4, <1>5, <1>6
    <2> QED BY <1>1, <1>2, <1>5, <2>1, PartFits
  <1> DEFINE most == few * long
  <1>9. most \in Nat /\ 8 + most + 4 * (few + 1) <= PageSize /\ few \in Nat
        /\ (Bytes(a) <= old \/ Bytes(a) <= most) /\ (Bytes(b) <= old \/ Bytes(b) <= most)
        /\ x \in Nat /\ x <= most
    <2>1. x <= most
      BY <1>2
    <2> QED BY <1>2, <1>7, <1>8, <2>1
  <1> HIDE DEF most
  <1>10. 8 + Bytes(a) <= PageSize /\ 8 + Bytes(b) <= PageSize /\ 8 + most <= PageSize
    BY <1>2, <1>5, <1>9, SMTT(40)
  <1>11. LeftLeaf(n, r) = Leaf(a, r) /\ RightLeaf(n) = Leaf(b, n.next)
    BY DEF LeftLeaf, RightLeaf, a, b, h, s
  <1>12. ASSUME NEW u, NEW w, 8 + Bytes(u) <= PageSize, Bytes(u) \in Nat PROVE Fits(Leaf(u, w))
    <2>1. Leaf(u, w).entries = u /\ Len(Leaf(u, w).children) = 0
      BY DEF Leaf
    <2>2. Measure(Leaf(u, w)) = 8 + Bytes(u) + 4 * 0
      BY <2>1 DEF Measure
    <2> QED BY <1>12, <2>2 DEF Fits
  <1>13. ASSUME Len(s) <= 1 PROVE Fits(n)
    <2>1. /\ \A v \in Values : short <= 2 + v.size + 8 /\ 2 + v.size + 8 <= long
      BY <1>1 DEF Roomy
    <2>2. Bytes(s) \in Nat /\ Bytes(s) <= long * Len(s)
      BY <1>3, <2>1, BytesBounded
    <2>3. long * Len(s) <= long * 1 /\ long * 1 = long /\ long * Len(s) \in Nat
      BY <1>3, <1>13, Times
    <2>4. Bytes(s) <= most
      <3>1. long <= most
        BY <1>2 DEF most
      <3> DEFINE y == long * Len(s)
      <3>2. y <= long /\ Bytes(s) <= y /\ y \in Nat
        BY <2>2, <2>3
      <3> HIDE DEF y
      <3> QED BY <1>9, <2>2, <3>1, <3>2
    <2>5. Len(n.children) = 0
      OBVIOUS
    <2>6. Measure(n) = 8 + Bytes(s) + 4 * 0
      BY <2>5 DEF Measure, s
    <2> QED BY <1>2, <1>9, <1>10, <2>2, <2>4, <2>6 DEF Fits
  <1> QED BY <1>5, <1>10, <1>11, <1>12, <1>13 DEF s

\* The halves of an inner node fit.
LEMMA InnerHalvesFit ==
    ASSUME PagesSuffice, NEW n \in NodeType, Len(n.children) = Len(n.entries) + 1,
           Len(n.entries) >= 1,
           NEW old \in Nat, 8 + old + 4 * Len(n.entries) <= PageSize, NEW e \in Entry,
           Bytes(n.entries) = old + EntryBytes(e)
    PROVE  Fits(LeftInner(n)) /\ Fits(RightInner(n))
  <1> DEFINE s == n.entries
             h == Len(s) \div 2
             g == h + 1
             a == SubSeq(s, 1, h)
             b == SubSeq(s, h + 1, Len(s))
             c == SubSeq(s, 1, g)
             d == SubSeq(s, g + 1, Len(s))
             x == EntryBytes(e)
  <1>1. PICK few \in Nat \ {0}, short \in Nat, long \in Nat : Roomy(few, short, long)
    BY DEF PagesSuffice
  <1>2. /\ PageSize \in Nat /\ few * long \in Nat
        /\ 8 + few * long + 4 * (few + 1) <= PageSize
        /\ x \in Nat /\ x <= long /\ long <= few * long
    BY <1>1, Room
  <1>3. s \in Seq(Entry) /\ Len(s) \in Nat /\ Len(s) >= 1
    BY DEF NodeType
  <1>4. IsHalved(LeftInner(n), RightInner(n), n, h)
    BY Halved
  <1>5. LeftInner(n).entries = a /\ RightInner(n).entries = d
    <2>1. g + 1 = h + 2
      BY <1>3
    <2>2. LeftInner(n).entries = a /\ RightInner(n).entries = SubSeq(s, h + 2, Len(s))
      BY DEF LeftInner, RightInner, Inner
    <2> QED BY <2>1, <2>2
  <1>6. Len(LeftInner(n).children) = h + 1 /\ Len(RightInner(n).children) = Len(s) - h
    BY <1>4 DEF IsHalved
  <1>7. 8 + old + 4 * Len(s) <= PageSize /\ Bytes(s) = old + x
    OBVIOUS
  <1> HIDE DEF s
  <1>8. h \in 0 .. Len(s) /\ h \in Nat /\ h <= Len(s) - h /\ Len(s) - h <= h + 1 /\ g \in 0 .. Len(s)
        /\ g = h + 1
    BY <1>3
  <1> HIDE DEF h, g
  <1>9. /\ a \in Seq(Entry) /\ b \in Seq(Entry) /\ Len(a) = h /\ Len(b) = Len(s) - h
        /\ Bytes(a) \in Nat /\ Bytes(b) \in Nat /\ Bytes(s) = Bytes(a) + Bytes(b)
    BY <1>3, <1>8, TwoParts
  <1>10. /\ c \in Seq(Entry) /\ d \in Seq(Entry) /\ Len(c) = g /\ Len(d) = Len(s) - g
         /\ Bytes(c) \in Nat /\ Bytes(d) \in Nat /\ Bytes(s) = Bytes(c) + Bytes(d)
    BY <1>3, <1>8, TwoParts
  <1> HIDE DEF a, b, c, d, x
  <1> DEFINE most == few * long
  <1>11. Bytes(a) <= old \/ (Bytes(a) <= most /\ Len(b) < few)
    <2>1. Bytes(a) + Bytes(b) = old + x /\ (Len(b) < few => Len(a) <= few)
      BY <1>3, <1>7, <1>8, <1>9
    <2> QED BY <1>1, <1>2, <1>9, <2>1, PartFits
  <1>12. Bytes(d) <= old \/ (Bytes(d) <= most /\ Len(c) < few)
    <2>1. Bytes(d) + Bytes(c) = old + x /\ (Len(c) < few => Len(d) <= few)
      BY <1>3, <1>7, <1>8, <1>10, SMTT(40)
    <2> QED BY <1>1, <1>2, <1>10, <2>1, PartFits
  <1>13. most \in Nat /\ 8 + most + 4 * (few + 1) <= PageSize /\ few \in Nat /\ PageSize \in Nat
    BY <1>2
  <1> HIDE DEF most
  <1>14. 8 + Bytes(a) + 4 * (h + 1) <= PageSize
    <2>1. CASE Bytes(a) <= old
      <3>1. h + 1 <= Len(s)
        BY <1>3, <1>8
      <3> QED BY ONLY <1>3, <1>7, <1>8, <1>9, <1>13, <2>1, <3>1, old \in Nat, SMTT(40)
    <2>2. CASE Bytes(a) <= most /\ Len(b) < few
      BY ONLY <1>3, <1>8, <1>9, <1>13, <2>2, SMTT(40)
    <2> QED BY <1>11, <2>1, <2>2
  <1>15. 8 + Bytes(d) + 4 * (Len(s) - h) <= PageSize
    <2>1. CASE Bytes(d) <= old
      BY ONLY <1>3, <1>7, <1>8, <1>10, <1>13, <2>1, old \in Nat, SMTT(40)
    <2>2. CASE Bytes(d) <= most /\ Len(c) < few
      BY ONLY <1>3, <1>8, <1>10, <1>13, <2>2, SMTT(40)
    <2> QED BY <1>12, <2>1, <2>2
  <1>16. Measure(LeftInner(n)) = 8 + Bytes(a) + 4 * (h + 1)
    BY <1>5, <1>6 DEF Measure
  <1>17. Measure(RightInner(n)) = 8 + Bytes(d) + 4 * (Len(s) - h)
    BY <1>5, <1>6 DEF Measure
  <1> QED BY <1>14, <1>15, <1>16, <1>17 DEF Fits

----------------------------------------------------------------------------
(* What a leaf has, and what the tree has.                                 *)

\* The sequence, or a leaf of the tree, has an entry with this place.
Has(s, p) == \E i \in DOMAIN s : Pos(s[i]) = p
Holds(nd, p) == \E x \in DOMAIN nd : nd[x].leaf /\ Has(nd[x].entries, p)

\* An entry put where lower_bound says keeps the order.
IsPut(m, s, e) ==
    /\ m \in Seq(Entry) /\ Ascending(m)
    /\ \A i \in DOMAIN m : m[i] = e \/ \E j \in DOMAIN s : m[i] = s[j]
    /\ \A p : Has(m, p) <=> Has(s, p) \/ p = Pos(e)
    /\ Len(m) = Len(s) + 1
    /\ Bytes(s) \in Nat /\ Bytes(m) = Bytes(s) + EntryBytes(e)

\* Where lower_bound points, an entry goes in without disturbing the order.
LEMMA PutInOrder ==
    ASSUME NEW s \in Seq(Entry), Ascending(s), NEW e \in Entry, ~Has(s, Pos(e))
    PROVE  IsPut(InsertAt(s, Before(s, e) + 1, e), s, e)
  <1> DEFINE k == Before(s, e)
             i == k + 1
             m == InsertAt(s, i, e)
             n == Len(s)
  <1>1. n \in Nat /\ DOMAIN s = 1 .. n /\ (\A j \in 1 .. n : s[j] \in Entry /\ Pos(s[j]) \in Bound)
        /\ Pos(e) \in Bound
    BY Places
  <1>2. k \in 0 .. n /\ \A j \in 1 .. n : j <= k <=> Lt(Pos(s[j]), Pos(e))
    <2>1. k = Cardinality({j \in DOMAIN s : Lt(Pos(s[j]), Pos(e))})
      <3>1. \A j \in DOMAIN s : EntryLess(s[j], e) <=> Lt(Pos(s[j]), Pos(e))
        BY <1>1, Places
      <3>2. {j \in DOMAIN s : EntryLess(s[j], e)} = {j \in DOMAIN s : Lt(Pos(s[j]), Pos(e))}
        BY <3>1
      <3> QED BY <3>2 DEF Before
    <2> DEFINE c == Cardinality({j \in DOMAIN s : Lt(Pos(s[j]), Pos(e))})
    <2>2. c \in 0 .. Len(s) /\ \A j \in DOMAIN s : j <= c <=> Lt(Pos(s[j]), Pos(e))
      BY <1>1, Counted
    <2> HIDE DEF c, k
    <2>3. k = c
      BY <2>1 DEF c
    <2> QED BY <1>1, <2>2, <2>3
  <1> HIDE DEF k
  <1>3. i \in 1 .. n + 1 /\ i \in Nat
    BY <1>1, <1>2
  <1>4. m \in Seq(Entry) /\ IsInserted(m, s, i, e)
    BY <1>3, Inserted
  <1>5. Len(m) = n + 1 /\ DOMAIN m = 1 .. n + 1
        /\ \A j \in 1 .. n + 1 : m[j] = IF j < i THEN s[j] ELSE IF j = i THEN e ELSE s[j - 1]
    BY <1>1, <1>4 DEF IsInserted
  <1>6. \A j \in 1 .. n : (j < i => Lt(Pos(s[j]), Pos(e))) /\ (~(j < i) => Lt(Pos(e), Pos(s[j])))
    <2>1. ASSUME NEW j \in 1 .. n, j < i PROVE Lt(Pos(s[j]), Pos(e))
      <3>1. j <= k
        BY <1>2, <2>1
      <3> QED BY <1>2, <3>1
    <2>2. ASSUME NEW j \in 1 .. n, ~(j < i) PROVE Lt(Pos(e), Pos(s[j]))
      <3>1. ~(j <= k)
        BY <1>2, <2>2
      <3>2. ~Lt(Pos(s[j]), Pos(e)) /\ Pos(s[j]) # Pos(e)
        BY <1>1, <1>2, <3>1 DEF Has
      <3> QED BY <1>1, <3>2, Order
    <2> QED BY <2>1, <2>2
  <1>7. Bytes(s) \in Nat /\ Bytes(m) = Bytes(s) + EntryBytes(e)
    BY <1>3, <1>4, InsertedBytes
  <1> HIDE DEF m, i, n
  <1>8. \A j \in 1 .. n + 1 : \/ j < i /\ j \in 1 .. n /\ m[j] = s[j]
                              \/ j = i /\ m[j] = e
                              \/ j > i /\ j - 1 \in 1 .. n /\ ~(j - 1 < i) /\ m[j] = s[j - 1]
    <2>1. ASSUME NEW j \in 1 .. n + 1
          PROVE \/ j < i /\ j \in 1 .. n
                \/ j = i
                \/ j > i /\ j - 1 \in 1 .. n /\ ~(j - 1 < i) /\ ~(j < i) /\ j # i
      BY <1>1, <1>3, <2>1
    <2> QED BY <1>5, <2>1
  <1>9. Ascending(m)
    <2>1. SUFFICES ASSUME NEW a \in 1 .. n + 1, NEW b \in 1 .. n + 1, a < b
                   PROVE  Lt(Pos(m[a]), Pos(m[b]))
      BY <1>5 DEF Ascending
    <2>2. \A c, d \in 1 .. n : c < d => Lt(Pos(s[c]), Pos(s[d]))
      BY <1>1 DEF Ascending
    <2>3. CASE a < i /\ a \in 1 .. n /\ m[a] = s[a]
      <3>1. CASE b < i /\ b \in 1 .. n /\ m[b] = s[b]
        BY <2>1, <2>2, <2>3, <3>1
      <3>2. CASE b = i /\ m[b] = e
        BY <1>6, <2>3, <3>2
      <3>3. CASE b > i /\ b - 1 \in 1 .. n /\ ~(b - 1 < i) /\ m[b] = s[b - 1]
        <4>1. a < b - 1
          BY <1>3, <2>3, <3>3
        <4> QED BY <2>2, <2>3, <3>3, <4>1
      <3> QED BY <1>8, <3>1, <3>2, <3>3
    <2>4. CASE a = i /\ m[a] = e
      <3>1. b > i
        BY <2>1, <2>4
      <3>2. b - 1 \in 1 .. n /\ ~(b - 1 < i) /\ m[b] = s[b - 1]
        <4>1. ~(b < i) /\ b # i
          BY <1>3, <2>1, <3>1
        <4> QED BY <1>8, <4>1
      <3> QED BY <1>6, <2>4, <3>2
    <2>5. CASE a > i /\ a - 1 \in 1 .. n /\ ~(a - 1 < i) /\ m[a] = s[a - 1]
      <3>1. ~(b < i) /\ b # i /\ a - 1 < b - 1
        BY <1>3, <2>1, <2>5
      <3>2. b - 1 \in 1 .. n /\ m[b] = s[b - 1]
        BY <1>8, <3>1
      <3> QED BY <2>2, <2>5, <3>1, <3>2
    <2> QED BY <1>8, <2>3, <2>4, <2>5
  <1>10. \A j \in DOMAIN m : m[j] = e \/ \E l \in DOMAIN s : m[j] = s[l]
    BY <1>1, <1>5, <1>8
  <1>11. ASSUME NEW p PROVE Has(m, p) <=> Has(s, p) \/ p = Pos(e)
    <2>1. ASSUME Has(m, p) PROVE Has(s, p) \/ p = Pos(e)
      BY <1>10, <2>1 DEF Has
    <2>2. ASSUME p = Pos(e) PROVE Has(m, p)
      <3>1. m[i] = e /\ i \in DOMAIN m
        BY <1>3, <1>5
      <3> QED BY <2>2, <3>1 DEF Has
    <2>3. ASSUME Has(s, p) PROVE Has(m, p)
      <3>1. PICK j \in 1 .. n : Pos(s[j]) = p
        BY <1>1, <2>3 DEF Has
      <3>2. CASE j < i
        <4>1. j \in 1 .. n + 1 /\ m[j] = s[j]
          BY <1>1, <1>5, <3>2
        <4> QED BY <1>5, <3>1, <4>1 DEF Has
      <3>3. CASE ~(j < i)
        <4>1. j + 1 \in 1 .. n + 1 /\ ~(j + 1 < i) /\ j + 1 # i /\ j + 1 - 1 = j
          BY <1>1, <1>3, <3>3
        <4>2. m[j + 1] = s[j]
          BY <1>5, <4>1
        <4> QED BY <1>5, <3>1, <4>1, <4>2 DEF Has
      <3> QED BY <3>2, <3>3
    <2> QED BY <2>1, <2>2, <2>3
  <1>12. Len(m) = Len(s) + 1
    BY <1>5 DEF n
  <1> QED BY <1>4, <1>7, <1>9, <1>10, <1>11, <1>12 DEF IsPut, m, i, k

\* An entry taken out.
IsTaken(m, s, i) ==
    /\ m \in Seq(Entry) /\ Ascending(m)
    /\ \A j \in DOMAIN m : \E l \in DOMAIN s : m[j] = s[l]
    /\ \A p : Has(m, p) <=> Has(s, p) /\ p # Pos(s[i])
    /\ Bytes(m) \in Nat /\ Bytes(s) \in Nat /\ Bytes(m) <= Bytes(s)

\* An entry erased leaves the others, in order.
LEMMA TakenOut ==
    ASSUME NEW s \in Seq(Entry), Ascending(s), NEW i \in DOMAIN s
    PROVE  IsTaken(RemoveAt(s, i), s, i)
  <1> DEFINE m == RemoveAt(s, i)
             n == Len(s)
  <1>1. n \in Nat /\ DOMAIN s = 1 .. n /\ i \in 1 .. n
        /\ \A j \in 1 .. n : s[j] \in Entry /\ Pos(s[j]) \in Bound
    BY Places
  <1>2. m \in Seq(Entry) /\ IsRemoved(m, s, i)
    BY <1>1, Removed
  <1>3. Len(m) = n - 1 /\ DOMAIN m = 1 .. n - 1
        /\ \A j \in 1 .. n - 1 : m[j] = IF j < i THEN s[j] ELSE s[j + 1]
    BY <1>1, <1>2 DEF IsRemoved
  <1> HIDE DEF m, n
  <1>4. \A j \in 1 .. n - 1 : \/ j < i /\ j \in 1 .. n /\ m[j] = s[j]
                              \/ ~(j < i) /\ j + 1 > i /\ j + 1 \in 1 .. n /\ m[j] = s[j + 1]
    <2>1. \A j \in 1 .. n - 1 : j \in 1 .. n /\ j + 1 \in 1 .. n /\ (~(j < i) => j + 1 > i)
      BY <1>1
    <2> QED BY <1>3, <2>1
  <1>5. \A c, d \in 1 .. n : c < d => Lt(Pos(s[c]), Pos(s[d]))
    BY <1>1 DEF Ascending
  <1>6. Ascending(m)
    <2>1. SUFFICES ASSUME NEW a \in 1 .. n - 1, NEW b \in 1 .. n - 1, a < b
                   PROVE  Lt(Pos(m[a]), Pos(m[b]))
      BY <1>3 DEF Ascending
    <2>2. CASE a < i /\ a \in 1 .. n /\ m[a] = s[a]
      <3>1. CASE b < i /\ b \in 1 .. n /\ m[b] = s[b]
        BY <1>5, <2>1, <2>2, <3>1
      <3>2. CASE ~(b < i) /\ b + 1 > i /\ b + 1 \in 1 .. n /\ m[b] = s[b + 1]
        <4>1. a < b + 1
          BY <1>1, <2>1
        <4> QED BY <1>5, <2>2, <3>2, <4>1
      <3> QED BY <1>4, <3>1, <3>2
    <2>3. CASE ~(a < i) /\ a + 1 > i /\ a + 1 \in 1 .. n /\ m[a] = s[a + 1]
      <3>1. ~(b < i) /\ a + 1 < b + 1
        BY <1>1, <2>1, <2>3
      <3>2. b + 1 \in 1 .. n /\ m[b] = s[b + 1]
        BY <1>4, <3>1
      <3> QED BY <1>5, <2>3, <3>1, <3>2
    <2> QED BY <1>4, <2>2, <2>3
  <1>7. \A j \in DOMAIN m : \E l \in DOMAIN s : m[j] = s[l]
    BY <1>1, <1>3, <1>4
  <1>8. \A j \in 1 .. n : j # i => Pos(s[j]) # Pos(s[i])
    <2>1. ASSUME NEW j \in 1 .. n, j # i PROVE Pos(s[j]) # Pos(s[i])
      <3>1. j < i \/ i < j
        BY <1>1, <2>1
      <3>2. Lt(Pos(s[j]), Pos(s[i])) \/ Lt(Pos(s[i]), Pos(s[j]))
        BY <1>1, <1>5, <3>1
      <3> QED BY <1>1, <3>2, Order
    <2> QED BY <2>1
  <1>9. ASSUME NEW p PROVE Has(m, p) <=> Has(s, p) /\ p # Pos(s[i])
    <2>1. ASSUME Has(m, p) PROVE Has(s, p) /\ p # Pos(s[i])
      <3>1. PICK j \in 1 .. n - 1 : Pos(m[j]) = p
        BY <1>3, <2>1 DEF Has
      <3>2. CASE j < i /\ j \in 1 .. n /\ m[j] = s[j]
        <4>1. j # i
          BY <1>1, <3>2
        <4> QED BY <1>1, <1>8, <3>1, <3>2, <4>1 DEF Has
      <3>3. CASE ~(j < i) /\ j + 1 > i /\ j + 1 \in 1 .. n /\ m[j] = s[j + 1]
        <4>1. j + 1 # i
          BY <1>1, <3>3
        <4> QED BY <1>1, <1>8, <3>1, <3>3, <4>1 DEF Has
      <3> QED BY <1>4, <3>2, <3>3
    <2>2. ASSUME Has(s, p), p # Pos(s[i]) PROVE Has(m, p)
      <3>1. PICK j \in 1 .. n : Pos(s[j]) = p
        BY <1>1, <2>2 DEF Has
      <3>2. CASE j < i
        <4>1. j \in 1 .. n - 1 /\ m[j] = s[j]
          BY <1>1, <1>3, <3>2
        <4> QED BY <1>3, <3>1, <4>1 DEF Has
      <3>3. CASE ~(j < i)
        <4>1. j # i
          BY <2>2, <3>1
        <4>2. j - 1 \in 1 .. n - 1 /\ ~(j - 1 < i) /\ j - 1 + 1 = j
          BY <1>1, <3>3, <4>1
        <4>3. m[j - 1] = s[j]
          BY <1>3, <4>2
        <4> QED BY <1>3, <3>1, <4>2, <4>3 DEF Has
      <3> QED BY <3>2, <3>3
    <2> QED BY <2>1, <2>2
  <1>10. Bytes(m) \in Nat /\ Bytes(s) \in Nat /\ Bytes(m) <= Bytes(s)
    <2>1. IsInserted(s, m, i, s[i])
      <3>1. Len(s) = Len(m) + 1
        BY <1>1, <1>3 DEF n
      <3>2. ASSUME NEW j \in 1 .. Len(m) + 1
            PROVE  s[j] = IF j < i THEN m[j] ELSE IF j = i THEN s[i] ELSE m[j - 1]
        <4>1. j \in 1 .. n
          BY <1>1, <1>3
        <4>2. CASE j < i
          <5>1. j \in 1 .. n - 1
            BY <1>1, <4>1, <4>2
          <5> QED BY <1>3, <4>2, <5>1
        <4>3. CASE j > i
          <5>1. j - 1 \in 1 .. n - 1 /\ ~(j - 1 < i) /\ j - 1 + 1 = j /\ ~(j < i) /\ j # i
            BY <1>1, <4>1, <4>3
          <5> QED BY <1>3, <5>1
        <4>4. j < i \/ j = i \/ j > i
          BY <1>1
        <4> QED BY <4>2, <4>3, <4>4
      <3> QED BY <3>1, <3>2 DEF IsInserted
    <2>2. i \in 1 .. Len(m) + 1 /\ s[i] \in Entry
      BY <1>1, <1>3
    <2>3. Bytes(m) \in Nat /\ Bytes(s) = Bytes(m) + EntryBytes(s[i])
      BY <1>2, <2>1, <2>2, InsertedBytes
    <2> QED BY <2>2, <2>3, EntrySizes
  <1> QED BY <1>2, <1>6, <1>7, <1>9, <1>10 DEF IsTaken, m

\* What the tree has once a leaf was written, or a node split.
LEMMA HoldsRewritten ==
    ASSUME NEW nd, NEW x \in DOMAIN nd, nd[x].leaf, NEW s, NEW m, IsRewritten(m, nd, x, s), NEW p
    PROVE  Holds(m, p) <=>
              Has(s, p) \/ \E y \in DOMAIN nd : y # x /\ nd[y].leaf /\ Has(nd[y].entries, p)
  <1>1. DOMAIN m = DOMAIN nd /\ m[x].entries = s
        /\ \A y \in DOMAIN nd : m[y].leaf = nd[y].leaf /\ (y # x => m[y] = nd[y])
    BY DEF IsRewritten
  <1> QED BY <1>1 DEF Holds

\* A split moves entries to another page and loses none.
LEMMA HoldsSplit ==
    ASSUME NEW nd, NEW x \in DOMAIN nd, NEW m, NEW r, NEW a, NEW b, IsSplit(m, r, nd, x, a, b),
           a.leaf = nd[x].leaf, b.leaf = nd[x].leaf, NEW p,
           nd[x].leaf => (Has(nd[x].entries, p) <=> Has(a.entries, p) \/ Has(b.entries, p))
    PROVE  Holds(m, p) <=> Holds(nd, p)
  <1>1. /\ DOMAIN m = 1 .. r /\ r \in 1 .. r
        /\ \A y \in DOMAIN nd : y \in 1 .. r /\ y # r
        /\ \A y \in 1 .. r : y = r \/ y \in DOMAIN nd
        /\ m[r] = b /\ m[x] = a
        /\ \A y \in DOMAIN nd : y # x => m[y] = nd[y]
    BY DEF IsSplit
  <1>2. ASSUME Holds(m, p) PROVE Holds(nd, p)
    <2>1. PICK y \in 1 .. r : m[y].leaf /\ Has(m[y].entries, p)
      BY <1>1, <1>2 DEF Holds
    <2>2. CASE y = r \/ y = x
      <3>1. nd[x].leaf /\ Has(nd[x].entries, p)
        BY <1>1, <2>1, <2>2
      <3> QED BY <3>1 DEF Holds
    <2>3. CASE y # r /\ y # x
      BY <1>1, <2>1, <2>3 DEF Holds
    <2> QED BY <2>2, <2>3
  <1>3. ASSUME Holds(nd, p) PROVE Holds(m, p)
    <2>1. PICK y \in DOMAIN nd : nd[y].leaf /\ Has(nd[y].entries, p)
      BY <1>3 DEF Holds
    <2>2. CASE y = x
      <3>1. (m[x].leaf /\ Has(m[x].entries, p)) \/ (m[r].leaf /\ Has(m[r].entries, p))
        BY <1>1, <2>1, <2>2
      <3>2. x \in DOMAIN m /\ r \in DOMAIN m
        BY <1>1
      <3> QED BY <3>1, <3>2 DEF Holds
    <2>3. CASE y # x
      BY <1>1, <2>1, <2>3 DEF Holds
    <2> QED BY <2>2, <2>3
  <1> QED BY <1>2, <1>3

\* The halves of a leaf have what the leaf had.
LEMMA HalvesHave ==
    ASSUME NEW n \in NodeType, NEW r, NEW p
    PROVE  Has(n.entries, p) <=> Has(LeftLeaf(n, r).entries, p) \/ Has(RightLeaf(n).entries, p)
  <1> DEFINE s == n.entries
             h == Len(s) \div 2
             g == h + 1
             a == SubSeq(s, 1, h)
             b == SubSeq(s, g, Len(s))
  <1>1. LeftLeaf(n, r).entries = a /\ RightLeaf(n).entries = b
    BY DEF LeftLeaf, RightLeaf, Leaf
  <1>2. s \in Seq(Entry) /\ Len(s) \in Nat /\ DOMAIN s = 1 .. Len(s)
    BY DEF NodeType
  <1> HIDE DEF s
  <1>3. h \in 0 .. Len(s) /\ h \in Nat /\ g = h + 1
    BY <1>2
  <1> HIDE DEF h, g
  <1>4. DOMAIN a = 1 .. h /\ \A j \in 1 .. h : a[j] = s[j]
    BY <1>2, <1>3, SubSeqProperties
  <1>5. DOMAIN b = 1 .. Len(s) - h /\ \A j \in 1 .. Len(s) - h : b[j] = s[h + j]
    BY <1>2, <1>3, SubSeqProperties
  <1> HIDE DEF a, b
  <1>6. ASSUME Has(s, p) PROVE Has(a, p) \/ Has(b, p)
    <2>1. PICK j \in 1 .. Len(s) : Pos(s[j]) = p
      BY <1>2, <1>6 DEF Has
    <2>2. CASE j <= h
      <3>1. j \in 1 .. h
        BY <1>2, <1>3, <2>2
      <3> QED BY <1>4, <2>1, <3>1 DEF Has
    <2>3. CASE ~(j <= h)
      <3>1. j - h \in 1 .. Len(s) - h /\ h + (j - h) = j
        BY <1>2, <1>3, <2>3
      <3>2. b[j - h] = s[j]
        BY <1>5, <3>1
      <3> QED BY <1>5, <2>1, <3>1, <3>2 DEF Has
    <2> QED BY <2>2, <2>3
  <1>7. ASSUME Has(a, p) PROVE Has(s, p)
    <2>1. PICK j \in 1 .. h : Pos(a[j]) = p
      BY <1>4, <1>7 DEF Has
    <2>2. j \in 1 .. Len(s)
      BY <1>2, <1>3
    <2> QED BY <1>2, <1>4, <2>1, <2>2 DEF Has
  <1>8. ASSUME Has(b, p) PROVE Has(s, p)
    <2>1. PICK j \in 1 .. Len(s) - h : Pos(b[j]) = p
      BY <1>5, <1>8 DEF Has
    <2>2. h + j \in 1 .. Len(s)
      BY <1>2, <1>3
    <2> QED BY <1>2, <1>5, <2>1, <2>2 DEF Has
  <1> QED BY <1>1, <1>6, <1>7, <1>8 DEF s

----------------------------------------------------------------------------
(* The steps of the tree.                                                  *)

\* Every page fits.
AllFit(nd) == \A id \in DOMAIN nd : Fits(nd[id])

\* The tree, with wy and u for the split that is under way.
TreeOK(nd, rt, wy, u) ==
    /\ rt = NoNode => nd = << >> /\ wy = << >> /\ u = Idle
    /\ rt # NoNode /\ u = Idle => wy = << >> /\ \E t : Whole(nd, rt, t)
    /\ rt # NoNode /\ u # Idle => \E t, l : Torn(nd, rt, t, l, u.child, u.entry, wy)
    /\ AllFit(nd)

\* The invariant of the tree.
TreeInv == TreeOK(node, root, path, up)

\* A split under way is not none.
LEMMA NotIdle == \A e, c : [entry |-> e, child |-> c] # Idle
  <1>1. SUFFICES ASSUME NEW e, NEW c, [entry |-> e, child |-> c] = Idle PROVE FALSE
    OBVIOUS
  <1>2. DOMAIN [entry |-> e, child |-> c] = {"entry", "child"}
    OBVIOUS
  <1>3. DOMAIN Idle = {}
    BY DEF Idle
  <1> QED BY <1>1, <1>2, <1>3

\* An interval tree with a root is one whose root is not NoNode.
LEMMA HasRoot ==
    /\ \A nd, rt, t : Whole(nd, rt, t) => rt # NoNode /\ rt \in DOMAIN nd /\ nd \in Seq(NodeType)
    /\ \A nd, rt, t, l, r, sep, way : Torn(nd, rt, t, l, r, sep, way) =>
          rt # NoNode /\ rt \in DOMAIN nd /\ nd \in Seq(NodeType)
  <1>1. ASSUME NEW nd, NEW rt, NEW t, Shape(nd, rt, t) PROVE rt # NoNode /\ rt \in DOMAIN nd /\ nd \in Seq(NodeType)
    <2>1. nd \in Seq(NodeType) /\ rt \in DOMAIN nd
      BY <1>1 DEF Shape, Typed, Rooted
    <2>2. rt \in 1 .. Len(nd)
      BY <2>1
    <2> QED BY <2>1, <2>2 DEF NoNode
  <1> QED BY <1>1 DEF Whole, Torn

\* The entries and children of a leaf.
LEMMA LeafOf ==
    ASSUME NEW nd, NEW rt, NEW t, Whole(nd, rt, t), NEW x \in DOMAIN nd, nd[x].leaf
    PROVE  /\ nd[x] \in NodeType /\ nd[x].entries \in Seq(Entry) /\ Ascending(nd[x].entries)
           /\ nd[x].children = << >>
           /\ \A i \in DOMAIN nd[x].entries :
                 nd[x].entries[i] \in Entry /\ Inside(t, x, Pos(nd[x].entries[i]))
  <1>1. Typed(nd, t) /\ Sorted(nd, t, x) /\ Linked(nd, t, x)
    BY DEF Whole, Shape
  <1> QED BY <1>1, NodeFacts DEF Sorted, Linked

\* A place the tree holds is in the leaf that findLeaf finds.
LEMMA HeldWhereSought ==
    ASSUME NEW t, Whole(node, root, t), NEW e \in Probe
    PROVE  Holds(node, Pos(e)) <=> Has(node[LeafFor(e)].entries, Pos(e))
  <1>1. LeafFor(e) \in DOMAIN node /\ node[LeafFor(e)].leaf
    BY LeafFound
  <1>2. ASSUME NEW y \in DOMAIN node, node[y].leaf, Has(node[y].entries, Pos(e)) PROVE y = LeafFor(e)
    <2>1. Inside(t, y, Pos(e))
      BY <1>2, LeafOf DEF Has
    <2> QED BY <1>2, <2>1, LeafFound
  <1> QED BY <1>1, <1>2 DEF Holds

\* insert() finds an entry it has been given before in the leaf it comes down to.
LEMMA KnownIsHeld ==
    ASSUME NEW t, Whole(node, root, t), NEW e \in Entry
    PROVE  Known(e) <=> Has(node[LeafFor(e)].entries, Pos(e))
  <1> DEFINE s == node[LeafFor(e)].entries
  <1>1. e \in Probe
    BY Places
  <1>2. LeafFor(e) \in DOMAIN node /\ node[LeafFor(e)].leaf
    BY <1>1, LeafFound
  <1>3. \A i \in DOMAIN s : s[i] \in Entry
    BY <1>2, LeafOf
  <1>4. \A i \in DOMAIN s : SameEntry(e, s[i]) <=> Pos(e) = Pos(s[i])
    BY <1>1, <1>3, Places
  <1>5. Known(e) <=> \E i \in DOMAIN s : SameEntry(e, s[i])
    BY DEF Known, ToSet
  <1> QED BY <1>4, <1>5 DEF Has

\* The leaf written by insert(), before it is split.
LEMMA LeafExtended ==
    ASSUME NEW t, Whole(node, root, t), NEW e \in Entry, ~Known(e)
    PROVE  LET x == LeafFor(e)
               s == node[x].entries
               m == InsertAt(s, Before(s, e) + 1, e)
           IN  /\ x \in DOMAIN node /\ node[x].leaf /\ IsPut(m, s, e)
               /\ Extended(e) = [node[x] EXCEPT !.entries = m]
               /\ IsRewritten(Rewritten(node, x, m), node, x, m)
               /\ Whole(Rewritten(node, x, m), root, t)
               /\ \A p : Holds(Rewritten(node, x, m), p) <=> Holds(node, p) \/ p = Pos(e)
  <1> DEFINE x == LeafFor(e)
             s == node[x].entries
             m == InsertAt(s, Before(s, e) + 1, e)
  <1>1. e \in Probe
    BY Places
  <1>2. x \in DOMAIN node /\ node[x].leaf /\ Inside(t, x, Pos(e))
    BY <1>1, LeafFound
  <1>3. s \in Seq(Entry) /\ Ascending(s) /\ \A i \in DOMAIN s : Inside(t, x, Pos(s[i]))
    BY <1>2, LeafOf
  <1>4. ~Has(s, Pos(e))
    BY KnownIsHeld
  <1>5. Extended(e) = [node[x] EXCEPT !.entries = m]
    BY DEF Extended
  <1> HIDE DEF x
  <1>6. IsPut(m, s, e)
    <2> HIDE DEF s
    <2> QED BY <1>3, <1>4, PutInOrder
  <1> HIDE DEF m
  <1>7. m \in Seq(Entry) /\ Ascending(m) /\ \A i \in DOMAIN m : Inside(t, x, Pos(m[i]))
    BY <1>2, <1>3, <1>6 DEF IsPut
  <1>8. Whole(Rewritten(node, x, m), root, t)
    BY <1>2, <1>7, LeafWritten
  <1>9. IsRewritten(Rewritten(node, x, m), node, x, m)
    <2>1. node \in Seq(NodeType)
      BY HasRoot
    <2> QED BY <1>2, <1>7, <2>1, RewrittenFacts
  <1>10. ASSUME NEW p PROVE Holds(Rewritten(node, x, m), p) <=> Holds(node, p) \/ p = Pos(e)
    <2>1. Holds(Rewritten(node, x, m), p) <=>
             Has(m, p) \/ \E y \in DOMAIN node : y # x /\ node[y].leaf /\ Has(node[y].entries, p)
      BY <1>2, <1>9, HoldsRewritten
    <2>2. Has(m, p) <=> Has(s, p) \/ p = Pos(e)
      BY <1>6 DEF IsPut
    <2>3. Holds(node, p) <=>
             Has(s, p) \/ \E y \in DOMAIN node : y # x /\ node[y].leaf /\ Has(node[y].entries, p)
      BY <1>2 DEF Holds
    <2> QED BY <2>1, <2>2, <2>3
  <1> QED BY <1>2, <1>5, <1>6, <1>8, <1>9, <1>10 DEF x, m

\* What insert() does to an idle tree.
LEMMA InsertFirstStep ==
    ASSUME PagesSuffice, TreeInv, TreeIdle, NEW e \in Entry, InsertFirst(e)
    PROVE  TreeInv' /\ \A p : Holds(node', p) <=> Holds(node, p) \/ p = Pos(e)
  <1> DEFINE m == <<Leaf(<<e>>, NoNode)>>
  <1>1. node = << >> /\ path = << >> /\ up = Idle
    BY DEF TreeInv, TreeOK, InsertFirst
  <1>2. node' = m /\ root' = 1 /\ path' = << >> /\ up' = Idle
    <2>1. Append(<< >>, Leaf(<<e>>, NoNode)) = m /\ Len(<< >>) + 1 = 1
      OBVIOUS
    <2> QED BY <1>1, <2>1 DEF InsertFirst
  <1>3. Whole(m, 1, First)
    BY FirstPage
  <1>4. DOMAIN m = {1} /\ m[1] = Leaf(<<e>>, NoNode)
    OBVIOUS
  <1>5. Fits(m[1])
    <2>1. PICK few \in Nat \ {0}, short \in Nat, long \in Nat : Roomy(few, short, long)
      BY DEF PagesSuffice
    <2>2. /\ PageSize \in Nat /\ few * long \in Nat
          /\ 8 + few * long + 4 * (few + 1) <= PageSize /\ long <= few * long
      BY <2>1, Room
    <2>3. /\ \A v \in Values : short <= 2 + v.size + 8 /\ 2 + v.size + 8 <= long
      BY <2>1 DEF Roomy
    <2>4. <<e>> \in Seq(Entry) /\ Len(<<e>>) = 1
      OBVIOUS
    <2>5. Bytes(<<e>>) \in Nat /\ Bytes(<<e>>) <= long * 1
      BY <2>3, <2>4, BytesBounded
    <2>6. m[1].entries = <<e>> /\ Len(m[1].children) = 0
      BY <1>4 DEF Leaf
    <2>7. Measure(m[1]) = 8 + Bytes(<<e>>) + 4 * 0
      BY <2>6 DEF Measure
    <2> DEFINE most == few * long
    <2>8. most \in Nat /\ 8 + most + 4 * (few + 1) <= PageSize /\ long <= most
      BY <2>2
    <2> HIDE DEF most
    <2>9. long * 1 = long
      OBVIOUS
    <2> HIDE DEF m
    <2>10. 8 + Bytes(<<e>>) + 4 * 0 <= PageSize
      BY <2>2, <2>5, <2>8, <2>9
    <2> QED BY <2>7, <2>10 DEF Fits
  <1>6. TreeInv'
    <2>1. AllFit(m)
      BY <1>4, <1>5 DEF AllFit
    <2> HIDE DEF m
    <2>2. 1 # NoNode
      BY DEF NoNode
    <2>3. TreeOK(m, 1, << >>, Idle)
      BY <1>3, <2>1, <2>2 DEF TreeOK
    <2> QED BY <1>2, <2>3 DEF TreeInv
  <1>7. ASSUME NEW p PROVE Holds(m, p) <=> p = Pos(e)
    <2>1. Has(<<e>>, p) <=> p = Pos(e)
      BY DEF Has
    <2>2. m[1].leaf /\ m[1].entries = <<e>>
      BY <1>4 DEF Leaf
    <2> HIDE DEF m
    <2> QED BY <1>4, <2>1, <2>2 DEF Holds
  <1>8. \A p : ~Holds(node, p)
    BY <1>1 DEF Holds
  <1> HIDE DEF m
  <1> QED BY <1>2, <1>6, <1>7, <1>8

\* insert(), when the leaf still fits its page.
LEMMA InsertFitsStep ==
    ASSUME TreeInv, TreeIdle, NEW e \in Entry, root # NoNode, ~Known(e), InsertFits(e)
    PROVE  TreeInv' /\ \A p : Holds(node', p) <=> Holds(node, p) \/ p = Pos(e)
  <1>1. PICK t : Whole(node, root, t)
    BY DEF TreeInv, TreeOK, TreeIdle
  <1>2. path = << >> /\ up = Idle /\ AllFit(node)
    BY DEF TreeInv, TreeOK, TreeIdle
  <1> DEFINE x == LeafFor(e)
             s == node[x].entries
             u == InsertAt(s, Before(s, e) + 1, e)
             m == Rewritten(node, x, u)
  <1>3. /\ x \in DOMAIN node /\ Extended(e) = [node[x] EXCEPT !.entries = u]
        /\ IsRewritten(m, node, x, u) /\ Whole(m, root, t)
        /\ \A p : Holds(m, p) <=> Holds(node, p) \/ p = Pos(e)
    BY <1>1, LeafExtended
  <1>4. node' = m /\ root' = root /\ path' = path /\ up' = up /\ Fits(Extended(e))
    <2>1. node' = [node EXCEPT ![x] = Extended(e)] /\ root' = root /\ path' = path /\ up' = up
          /\ Fits(Extended(e))
      BY DEF InsertFits
    <2> HIDE DEF x, u
    <2>2. [node EXCEPT ![x] = [node[x] EXCEPT !.entries = u]] = m
      BY DEF Rewritten
    <2> QED BY <1>3, <2>1, <2>2
  <1> HIDE DEF x, s, u, m
  <1>5. DOMAIN m = DOMAIN node /\ m[x] = [node[x] EXCEPT !.entries = u]
        /\ \A y \in DOMAIN node : y # x => m[y] = node[y]
    BY <1>3 DEF IsRewritten
  <1>6. AllFit(m)
    <2>1. ASSUME NEW y \in DOMAIN node PROVE Fits(m[y])
      <3>1. CASE y = x
        BY <1>3, <1>4, <1>5, <3>1
      <3>2. CASE y # x
        BY <1>2, <1>5, <3>2 DEF AllFit
      <3> QED BY <3>1, <3>2
    <2> QED BY <1>5, <2>1 DEF AllFit
  <1>7. TreeOK(m, root, path, up)
    BY <1>2, <1>3, <1>6 DEF TreeOK
  <1>8. TreeInv'
    BY <1>4, <1>7 DEF TreeInv
  <1> QED BY <1>3, <1>4, <1>8

\* insert(), when the leaf is to be split.
LEMMA InsertSplitsStep ==
    ASSUME PagesSuffice, TreeInv, TreeIdle, NEW e \in Entry, root # NoNode, ~Known(e), InsertSplits(e)
    PROVE  TreeInv' /\ \A p : Holds(node', p) <=> Holds(node, p) \/ p = Pos(e)
  <1>1. PICK t : Whole(node, root, t)
    BY DEF TreeInv, TreeOK, TreeIdle
  <1>2. AllFit(node)
    BY DEF TreeInv, TreeOK
  <1> DEFINE x == LeafFor(e)
             s == node[x].entries
             u == InsertAt(s, Before(s, e) + 1, e)
             m == Rewritten(node, x, u)
             n == Extended(e)
             r == Len(node) + 1
             a == LeftLeaf(n, r)
             b == RightLeaf(n)
             sep == Head(b.entries)
             way == Front(Descent(e))
             w == Split(m, x, a, b)
             c == Cut(m, t, x, Pos(sep))
  <1>3. /\ x \in DOMAIN node /\ node[x].leaf /\ n = [node[x] EXCEPT !.entries = u] /\ IsPut(u, s, e)
        /\ IsRewritten(m, node, x, u) /\ Whole(m, root, t)
        /\ \A p : Holds(m, p) <=> Holds(node, p) \/ p = Pos(e)
    BY <1>1, LeafExtended
  <1>4. e \in Probe
    BY Places
  <1>5. way \in Seq(DOMAIN node) /\ Trail(Append(way, x), root, node, t)
    BY <1>1, <1>4, LeafFound
  <1>6. /\ ~Fits(n)
        /\ node' = Append([node EXCEPT ![x] = a], b)
        /\ path' = way /\ up' = [entry |-> sep, child |-> r] /\ root' = root
    BY DEF InsertSplits
  <1>7. node[x] \in NodeType /\ s \in Seq(Entry) /\ node[x].children = << >>
    BY <1>1, <1>3, LeafOf
  <1> HIDE DEF x
  <1>8. [m EXCEPT ![x] = a] = [node EXCEPT ![x] = a]
    <2> HIDE DEF a, u
    <2> QED BY <1>3 DEF Rewritten
  <1>9. node' = w
    BY <1>6, <1>8 DEF Split
  <1> HIDE DEF n, u, way, s, m
  <1>10. /\ m \in Seq(NodeType) /\ DOMAIN m = DOMAIN node /\ m[x] = n /\ n \in NodeType
         /\ n.leaf /\ n.children = << >> /\ n.entries = u
         /\ \A y \in DOMAIN node : y # x => m[y] = node[y]
    <2>1. /\ m \in Seq(NodeType) /\ DOMAIN m = DOMAIN node /\ m[x] = [node[x] EXCEPT !.entries = u]
          /\ m[x].entries = u /\ m[x].leaf = node[x].leaf /\ m[x].children = node[x].children
          /\ \A y \in DOMAIN node : y # x => m[y] = node[y]
      BY <1>3 DEF IsRewritten
    <2>2. m[x] = n
      BY <1>3, <2>1
    <2>3. n \in NodeType
      BY <1>3, <2>1, <2>2
    <2> QED BY <1>3, <1>7, <2>1, <2>2, <2>3
  <1>11. Len(m) = Len(node)
    <2>1. node \in Seq(NodeType)
      BY <1>1, HasRoot
    <2>2. Len(m) \in Nat /\ Len(node) \in Nat /\ DOMAIN m = 1 .. Len(m) /\ DOMAIN node = 1 .. Len(node)
      BY <1>10, <2>1
    <2> DEFINE k == Len(m)
               l == Len(node)
    <2>3. 1 .. k = 1 .. l /\ x \in 1 .. k /\ k \in Nat /\ l \in Nat
      BY <1>3, <1>10, <2>2
    <2> HIDE DEF k, l
    <2>4. k \in 1 .. l /\ l \in 1 .. k
      <3>1. k \in 1 .. k /\ l \in 1 .. l
        BY <2>3
      <3> QED BY <2>3, <3>1
    <2>5. k = l
      BY ONLY <2>3, <2>4
    <2> QED BY <2>5 DEF k, l
  <1>12. Bytes(s) \in Nat /\ Bytes(n.entries) = Bytes(s) + EntryBytes(e) /\ 8 + Bytes(s) <= PageSize
    <2>1. Bytes(s) \in Nat /\ Bytes(u) = Bytes(s) + EntryBytes(e)
      BY <1>3 DEF IsPut
    <2>2. Fits(node[x])
      BY <1>2, <1>3 DEF AllFit
    <2>3. Measure(node[x]) = 8 + Bytes(s) + 4 * 0
      <3>1. Len(node[x].children) = 0
        BY <1>7
      <3> QED BY <3>1 DEF Measure, s
    <2>4. 8 + Bytes(s) + 4 * 0 <= PageSize
      BY <2>2, <2>3 DEF Fits
    <2>5. 8 + Bytes(s) <= PageSize
      <3> DEFINE z == Bytes(s)
      <3>1. 8 + z + 4 * 0 <= PageSize /\ z \in Nat
        BY <2>1, <2>4
      <3> HIDE DEF z
      <3>2. 8 + z <= PageSize
        BY ONLY <3>1, TreeAssumption
      <3> QED BY <3>2 DEF z
    <2> QED BY <1>10, <2>1, <2>5
  <1>13. Fits(a) /\ Fits(b) /\ (Len(n.entries) <= 1 => Fits(n))
    BY <1>10, <1>12, LeafHalvesFit
  <1>14. Len(n.entries) >= 2
    <2>1. Len(n.entries) \in Nat
      BY <1>10 DEF NodeType
    <2> QED BY <1>6, <1>13, <2>1
  <1>15. way \in Seq(DOMAIN m) /\ Trail(Append(way, x), root, m, t)
    BY <1>5, <1>10 DEF Trail
  <1>16. Torn(w, root, c, x, r, sep, way)
    <2>1. LET rr == Len(m) + 1
              bb == RightLeaf(m[x])
              ss == Head(bb.entries)
          IN  Torn(Split(m, x, LeftLeaf(m[x], rr), bb), root, Cut(m, t, x, Pos(ss)), x, rr, ss, way)
      <3>1. x \in DOMAIN m /\ m[x].leaf /\ Len(m[x].entries) >= 2
        BY <1>3, <1>10, <1>14
      <3> QED BY <1>3, <1>15, <3>1, LeafSplit
    <2>2. m[x] = n /\ Len(m) + 1 = r
      BY <1>10, <1>11
    <2> QED BY <2>1, <2>2
  <1>17. a \in NodeType /\ b \in NodeType /\ a.leaf /\ b.leaf
    <2>1. w \in Seq(NodeType) /\ x \in DOMAIN m /\ [m EXCEPT ![x] = a] = [m EXCEPT ![x] = a]
      BY <1>3, <1>10, <1>16, HasRoot
    <2>2. n.entries \in Seq(Entry) /\ n.next \in Nat /\ r \in Nat
      <3>1. Len(node) \in Nat
        BY <1>10, <1>11
      <3> QED BY <1>10, <3>1 DEF NodeType
    <2>3. SubSeq(n.entries, 1, Len(n.entries) \div 2) \in Seq(Entry)
          /\ SubSeq(n.entries, Len(n.entries) \div 2 + 1, Len(n.entries)) \in Seq(Entry)
      <3> DEFINE h == Len(n.entries) \div 2
      <3>1. h \in 0 .. Len(n.entries)
        <4> DEFINE l == Len(n.entries)
        <4>1. l \in Nat
          BY <2>2
        <4> HIDE DEF l
        <4>2. l \div 2 \in 0 .. l
          BY <4>1
        <4> QED BY <4>2 DEF l
      <3> HIDE DEF h
      <3>2. SubSeq(n.entries, 1, h) \in Seq(Entry) /\ SubSeq(n.entries, h + 1, Len(n.entries)) \in Seq(Entry)
        BY <2>2, <3>1, TwoParts
      <3> QED BY <3>2 DEF h
    <2>4. << >> \in Seq(Nat)
      OBVIOUS
    <2> QED BY <2>2, <2>3, <2>4 DEF LeftLeaf, RightLeaf, Leaf, NodeType
  <1> HIDE DEF a, b, r
  <1>18. IsSplit(w, r, m, x, a, b)
    <2>1. IsSplit(Split(m, x, a, b), Len(m) + 1, m, x, a, b)
      BY <1>3, <1>10, <1>17, SplitFacts
    <2>2. Len(m) + 1 = r
      BY <1>11 DEF r
    <2> QED BY <2>1, <2>2
  <1> HIDE DEF w, c, sep
  <1>19. AllFit(w)
    <2>1. /\ DOMAIN w = 1 .. r /\ \A y \in 1 .. r : y = r \/ y \in DOMAIN m
          /\ w[r] = b /\ w[x] = a /\ \A y \in DOMAIN m : y # x => w[y] = m[y]
      BY <1>18 DEF IsSplit
    <2>2. \A y \in DOMAIN m : y # x => Fits(m[y])
      BY <1>2, <1>10 DEF AllFit
    <2>3. ASSUME NEW y \in 1 .. r PROVE Fits(w[y])
      <3>1. CASE y = r \/ y = x
        BY <1>13, <2>1, <3>1
      <3>2. CASE y # r /\ y # x
        BY <2>1, <2>2, <3>2
      <3> QED BY <3>1, <3>2
    <2> QED BY <2>1, <2>3 DEF AllFit
  <1>20. \A p : Holds(w, p) <=> Holds(m, p)
    <2>1. ASSUME NEW p PROVE Holds(w, p) <=> Holds(m, p)
      <3>1. Has(m[x].entries, p) <=> Has(a.entries, p) \/ Has(b.entries, p)
        BY <1>10, HalvesHave DEF a, b
      <3>2. a.leaf = m[x].leaf /\ b.leaf = m[x].leaf
        <4>1. a.leaf \in BOOLEAN /\ b.leaf \in BOOLEAN /\ m[x].leaf \in BOOLEAN
          BY <1>10, <1>17 DEF NodeType
        <4>2. a.leaf /\ b.leaf /\ m[x].leaf
          BY <1>10, <1>17
        <4> QED BY <4>1, <4>2
      <3> QED BY <1>3, <1>10, <1>18, <3>1, <3>2, HoldsSplit
    <2> QED BY <2>1
  <1> DEFINE z == [entry |-> sep, child |-> r]
  <1>21. TreeOK(w, root, way, z)
    <2>1. z # Idle /\ z.entry = sep /\ z.child = r
      BY NotIdle
    <2> HIDE DEF z
    <2>2. Torn(w, root, c, x, z.child, z.entry, way)
      BY <1>16, <2>1
    <2> QED BY <1>19, <2>1, <2>2 DEF TreeOK
  <1>22. TreeInv'
    BY <1>6, <1>9, <1>21 DEF TreeInv
  <1> QED BY <1>3, <1>9, <1>20, <1>22

\* insert(): the first entry, an entry that is there, one that fits, one that splits.
LEMMA InsertStep ==
    ASSUME PagesSuffice, TreeInv, NEW e \in Entry, TreeInsert(e)
    PROVE  TreeInv' /\ \A p : Holds(node', p) <=> Holds(node, p) \/ p = Pos(e)
  <1>1. TreeIdle
    BY DEF TreeInsert
  <1>2. CASE root # NoNode /\ Known(e)
    <2>1. node' = node /\ root' = root /\ path' = path /\ up' = up
      BY <1>2 DEF TreeInsert, treeVars
    <2>2. PICK t : Whole(node, root, t)
      BY <1>1, <1>2 DEF TreeInv, TreeOK, TreeIdle
    <2>3. Holds(node, Pos(e))
      <3>1. e \in Probe
        BY Places
      <3> QED BY <1>2, <2>2, <3>1, KnownIsHeld, HeldWhereSought
    <2>4. TreeInv'
      BY <2>1 DEF TreeInv
    <2> QED BY <2>1, <2>3, <2>4
  <1>3. CASE root = NoNode
    <2>1. InsertFirst(e)
      BY <1>3 DEF TreeInsert, InsertFits, InsertSplits
    <2> QED BY <1>1, <2>1, InsertFirstStep
  <1>4. CASE root # NoNode /\ ~Known(e)
    <2>1. InsertFits(e) \/ InsertSplits(e)
      BY <1>4 DEF TreeInsert, InsertFirst
    <2> QED BY <1>1, <1>4, <2>1, InsertFitsStep, InsertSplitsStep
  <1> QED BY <1>2, <1>3, <1>4

\* A sequence is its front and its last element.
LEMMA FrontLast ==
    ASSUME NEW S, NEW s \in Seq(S), s # << >>
    PROVE  Front(s) \in Seq(S) /\ Last(s) \in S /\ Append(Front(s), Last(s)) = s
  <1> DEFINE q == Len(s) - 1
             f == Front(s)
  <1>1. Len(s) \in Nat \ {0} /\ (\A k \in 1 .. Len(s) : s[k] \in S)
    OBVIOUS
  <1>2. q \in 1 - 1 .. Len(s) /\ 1 \in 1 .. Len(s) + 1 /\ q - 1 + 1 = q
        /\ (\A j \in 1 .. q : 1 + j - 1 = j) /\ Len(s) = q + 1 /\ q \in Nat
    BY <1>1
  <1>3. f = SubSeq(s, 1, q)
    BY DEF Front
  <1> HIDE DEF q, f
  <1>4. SubSeq(s, 1, q) \in Seq(S) /\ Len(SubSeq(s, 1, q)) = q - 1 + 1
        /\ \A j \in 1 .. q - 1 + 1 : SubSeq(s, 1, q)[j] = s[1 + j - 1]
    BY ONLY <1>1, <1>2, Piece, s \in Seq(S)
  <1>5. f \in Seq(S) /\ Len(f) = q /\ \A j \in 1 .. q : f[j] = s[j]
    BY ONLY <1>2, <1>3, <1>4
  <1>6. Last(s) = s[Len(s)] /\ s[Len(s)] \in S
    BY <1>1 DEF Last
  <1> DEFINE u == Append(f, Last(s))
  <1>7. u \in Seq(S) /\ Len(u) = q + 1 /\ (\A k \in 1 .. q : u[k] = f[k]) /\ u[q + 1] = Last(s)
    BY <1>5, <1>6, AppendProperties
  <1> HIDE DEF u
  <1>8. \A k \in 1 .. Len(s) : u[k] = s[k]
    <2>1. \A k \in 1 .. Len(s) : k = q + 1 \/ k \in 1 .. q
      BY <1>2
    <2> QED BY <1>2, <1>5, <1>6, <1>7, <2>1
  <1>9. u = s
    BY <1>2, <1>7, <1>8, SeqEqual
  <1> QED BY <1>5, <1>6, <1>9 DEF u, f

\* The parent of a split node, before and after it is told.
ParentIs(nd, rt, l, u, wy, m, p, t) ==
    /\ p = Last(wy) /\ p \in DOMAIN nd /\ ~nd[p].leaf
    /\ m = [nd EXCEPT ![p] = Extension(nd[p], u.entry, u.child)]
    /\ nd \in Seq(NodeType) /\ m \in Seq(NodeType)
    /\ Whole(m, rt, t)
    /\ DOMAIN m = DOMAIN nd /\ Len(m) = Len(nd) /\ ~m[p].leaf
    /\ m[p] = Extension(nd[p], u.entry, u.child) /\ m[p] \in NodeType
    /\ \A y \in DOMAIN nd : y # p => m[y] = nd[y]
    /\ Len(m[p].entries) = Len(nd[p].entries) + 1 /\ Len(nd[p].entries) \in Nat
    /\ Len(m[p].children) = Len(m[p].entries) + 1 /\ Len(nd[p].children) = Len(m[p].entries)
    /\ Front(wy) \in Seq(DOMAIN m) /\ Trail(Append(Front(wy), p), rt, m, t)
    /\ u.entry \in Entry /\ Bytes(nd[p].entries) \in Nat
    /\ Bytes(m[p].entries) = Bytes(nd[p].entries) + EntryBytes(u.entry)
    /\ \A q : Holds(m, q) <=> Holds(nd, q)

\* The parent that insert() comes back to takes the separator where it belongs.
LEMMA ParentExtends ==
    ASSUME NEW nd, NEW rt, NEW t, NEW l, NEW u, NEW wy,
           Torn(nd, rt, t, l, u.child, u.entry, wy), wy # << >>
    PROVE  LET p == Last(wy)
           IN  ParentIs(nd, rt, l, u, wy, [nd EXCEPT ![p] = Extension(nd[p], u.entry, u.child)],
                        p, Healed(t))
  <1> DEFINE p == Last(wy)
             sep == u.entry
             r == u.child
             k == Before(nd[p].entries, sep)
             n == Extension(nd[p], sep, r)
             m == [nd EXCEPT ![p] = n]
  <1>1. /\ Whole(m, rt, Healed(t))
        /\ p \in DOMAIN m /\ ~m[p].leaf /\ DOMAIN m = DOMAIN nd
        /\ m[p] = n /\ Len(m[p].entries) = Len(nd[p].entries) + 1
        /\ Trail(wy, rt, m, Healed(t))
    BY ParentTold
  <1>2. p \in DOMAIN nd /\ ~nd[p].leaf /\ Slots(nd, t, p) /\ k \in 0 .. Len(nd[p].entries)
    BY SlotOfHalves
  <1>3. wy \in Seq(DOMAIN nd) /\ sep \in Entry /\ nd \in Seq(NodeType) /\ Typed(nd, t)
    BY HasRoot DEF Torn, Shape
  <1>4. m \in Seq(NodeType)
    BY <1>1, HasRoot
  <1>5. nd[p].entries \in Seq(Entry) /\ Len(nd[p].entries) \in Nat /\ Len(nd[p].children) = Len(nd[p].entries) + 1
    BY <1>2, <1>3, NodeFacts DEF Slots
  <1> HIDE DEF p, k
  <1>6. n.entries = InsertAt(nd[p].entries, k + 1, sep)
    BY DEF n, Extension, Inner, k
  <1> HIDE DEF m, n
  <1>7. m[p] \in NodeType
    BY <1>1, <1>2, <1>4
  <1>8. Len(m[p].children) = Len(m[p].entries) + 1
    <2>1. Slots(m, Healed(t), p)
      BY <1>1 DEF Whole, Shape
    <2> QED BY <2>1 DEF Slots
  <1>9. \A y \in DOMAIN nd : y # p => m[y] = nd[y]
    BY <1>2 DEF m
  <1>10. Len(m) = Len(nd)
    <2> DEFINE a == Len(m)
               b == Len(nd)
    <2>1. 1 .. a = 1 .. b /\ p \in 1 .. a /\ a \in Nat /\ b \in Nat
      BY <1>1, <1>2, <1>3, <1>4
    <2> HIDE DEF a, b
    <2>2. a \in 1 .. b /\ b \in 1 .. a
      <3>1. a \in 1 .. a /\ b \in 1 .. b
        BY <2>1
      <3> QED BY <2>1, <3>1
    <2>3. a = b
      BY ONLY <2>1, <2>2
    <2> QED BY <2>3 DEF a, b
  <1>11. Front(wy) \in Seq(DOMAIN m) /\ Append(Front(wy), p) = wy
    BY <1>1, <1>3, FrontLast DEF p
  <1>12. Trail(Append(Front(wy), p), rt, m, Healed(t))
    BY <1>1, <1>11
  <1>13. Bytes(nd[p].entries) \in Nat /\ Bytes(m[p].entries) = Bytes(nd[p].entries) + EntryBytes(sep)
    <2> DEFINE s == nd[p].entries
               i == k + 1
    <2>1. i \in 1 .. Len(s) + 1 /\ s \in Seq(Entry)
      BY <1>2, <1>5
    <2>2. m[p].entries = InsertAt(s, i, sep)
      BY <1>1, <1>6
    <2> HIDE DEF s, i
    <2>3. InsertAt(s, i, sep) \in Seq(Entry) /\ IsInserted(InsertAt(s, i, sep), s, i, sep)
      BY <1>3, <2>1, Inserted
    <2>4. Bytes(s) \in Nat /\ Bytes(InsertAt(s, i, sep)) = Bytes(s) + EntryBytes(sep)
      BY <1>3, <2>1, <2>3, InsertedBytes
    <2> QED BY <2>2, <2>4 DEF s
  <1>14. \A q : Holds(m, q) <=> Holds(nd, q)
    <2>1. \A y \in DOMAIN nd : (m[y].leaf <=> nd[y].leaf) /\ (m[y].leaf => m[y] = nd[y])
      BY <1>1, <1>2, <1>9
    <2> QED BY <1>1, <2>1 DEF Holds
  <1>15. Len(nd[p].children) = Len(m[p].entries)
    BY <1>1, <1>5
  <1> QED BY <1>1, <1>2, <1>3, <1>4, <1>5, <1>7, <1>8, <1>9, <1>10, <1>11, <1>12, <1>13, <1>14, <1>15
          DEF ParentIs, p, m, n

\* The way back ends in a parent that still fits its page.
LEMMA ParentFitsStep ==
    ASSUME TreeInv, ParentFits
    PROVE  TreeInv' /\ \A q : Holds(node', q) <=> Holds(node, q)
  <1>1. up # Idle /\ path # << >>
    BY DEF ParentFits, TreeIdle
  <1>2. root # NoNode /\ AllFit(node)
    BY <1>1 DEF TreeInv, TreeOK
  <1>3. PICK t, l : Torn(node, root, t, l, up.child, up.entry, path)
    BY <1>1, <1>2 DEF TreeInv, TreeOK
  <1> DEFINE p == Last(path)
             n == Extension(node[p], up.entry, up.child)
             m == [node EXCEPT ![p] = n]
  <1>4. ParentIs(node, root, l, up, path, m, p, Healed(t))
    BY <1>1, <1>3, ParentExtends
  <1>5. ParentExtended = n
    BY DEF ParentExtended, Extension
  <1>6. node' = m /\ root' = root /\ path' = << >> /\ up' = Idle /\ Fits(n)
    BY <1>5 DEF ParentFits
  <1> HIDE DEF p, n, m
  <1>7. /\ Whole(m, root, Healed(t)) /\ DOMAIN m = DOMAIN node /\ m[p] = n
        /\ \A y \in DOMAIN node : y # p => m[y] = node[y]
        /\ \A q : Holds(m, q) <=> Holds(node, q)
    BY <1>4 DEF ParentIs, n
  <1>8. AllFit(m)
    <2>1. ASSUME NEW y \in DOMAIN node PROVE Fits(m[y])
      <3>1. CASE y = p
        BY <1>6, <1>7, <3>1
      <3>2. CASE y # p
        BY <1>2, <1>7, <3>2 DEF AllFit
      <3> QED BY <3>1, <3>2
    <2> QED BY <1>7, <2>1 DEF AllFit
  <1>9. TreeOK(m, root, << >>, Idle)
    BY <1>2, <1>7, <1>8 DEF TreeOK
  <1> QED BY <1>6, <1>7, <1>9 DEF TreeInv

\* The way back goes on from a parent that is split.
LEMMA ParentSplitsStep ==
    ASSUME PagesSuffice, TreeInv, ParentSplits
    PROVE  TreeInv' /\ \A q : Holds(node', q) <=> Holds(node, q)
  <1>1. up # Idle /\ path # << >>
    BY DEF ParentSplits, TreeIdle
  <1>2. root # NoNode /\ AllFit(node)
    BY <1>1 DEF TreeInv, TreeOK
  <1>3. PICK t, l : Torn(node, root, t, l, up.child, up.entry, path)
    BY <1>1, <1>2 DEF TreeInv, TreeOK
  <1> DEFINE p == Last(path)
             n == Extension(node[p], up.entry, up.child)
             m == [node EXCEPT ![p] = n]
             a == LeftInner(n)
             b == RightInner(n)
             r == Len(node) + 1
             sep == n.entries[Len(n.entries) \div 2 + 1]
             way == Front(path)
             w == Split(m, p, a, b)
             c == Cut(m, Healed(t), p, Pos(sep))
  <1>4. ParentIs(node, root, l, up, path, m, p, Healed(t))
    BY <1>1, <1>3, ParentExtends
  <1>5. ParentExtended = n
    BY DEF ParentExtended, Extension
  <1>6. /\ node' = Append([node EXCEPT ![p] = a], b)
        /\ path' = way /\ up' = [entry |-> sep, child |-> r] /\ root' = root
    BY <1>5 DEF ParentSplits
  <1>7. [m EXCEPT ![p] = a] = [node EXCEPT ![p] = a]
    <2> HIDE DEF p, n, a
    <2> QED OBVIOUS
  <1>8. node' = w
    BY <1>6, <1>7 DEF Split
  <1> HIDE DEF p, n, m, way
  <1>9. /\ Whole(m, root, Healed(t)) /\ DOMAIN m = DOMAIN node /\ Len(m) = Len(node) /\ m[p] = n
        /\ p \in DOMAIN m /\ ~n.leaf /\ n \in NodeType /\ m \in Seq(NodeType)
        /\ \A y \in DOMAIN node : y # p => m[y] = node[y]
        /\ Len(n.entries) = Len(node[p].entries) + 1 /\ Len(node[p].entries) \in Nat
        /\ Len(n.children) = Len(n.entries) + 1 /\ Len(node[p].children) = Len(n.entries)
        /\ way \in Seq(DOMAIN m) /\ Trail(Append(way, p), root, m, Healed(t))
        /\ up.entry \in Entry /\ Bytes(node[p].entries) \in Nat
        /\ Bytes(n.entries) = Bytes(node[p].entries) + EntryBytes(up.entry)
    BY <1>4 DEF ParentIs, n, way
  <1>10. \A q : Holds(m, q) <=> Holds(node, q)
    BY <1>4 DEF ParentIs
  <1>11. Len(n.entries) >= 1
    BY <1>9
  <1>12. Fits(a) /\ Fits(b)
    <2> DEFINE old == Bytes(node[p].entries)
    <2>1. Fits(node[p])
      BY <1>2, <1>9 DEF AllFit
    <2>2. 8 + old + 4 * Len(n.entries) <= PageSize
      BY <1>9, <2>1 DEF Fits, Measure
    <2>3. old \in Nat /\ Bytes(n.entries) = old + EntryBytes(up.entry) /\ up.entry \in Entry
      BY <1>9
    <2> HIDE DEF old
    <2> QED BY <1>9, <1>11, <2>2, <2>3, InnerHalvesFit
  <1>13. Torn(w, root, c, p, r, sep, way)
    <2>1. LET rr == Len(m) + 1
              ss == m[p].entries[Len(m[p].entries) \div 2 + 1]
          IN  Torn(Split(m, p, LeftInner(m[p]), RightInner(m[p])), root,
                   Cut(m, Healed(t), p, Pos(ss)), p, rr, ss, way)
      BY <1>9, <1>11, InnerSplit
    <2>2. m[p] = n /\ Len(m) + 1 = r
      BY <1>9
    <2> QED BY <2>1, <2>2
  <1>14. a \in NodeType /\ b \in NodeType /\ ~a.leaf /\ ~b.leaf
    <2>1. IsHalved(a, b, n, Len(n.entries) \div 2)
      BY <1>9, <1>11, Halved
    <2> QED BY <2>1 DEF IsHalved
  <1> HIDE DEF a, b, r
  <1>15. IsSplit(w, r, m, p, a, b)
    <2>1. IsSplit(Split(m, p, a, b), Len(m) + 1, m, p, a, b)
      BY <1>9, <1>14, SplitFacts
    <2>2. Len(m) + 1 = r
      BY <1>9 DEF r
    <2> QED BY <2>1, <2>2
  <1> HIDE DEF w, c, sep
  <1>16. AllFit(w)
    <2>1. /\ DOMAIN w = 1 .. r /\ \A y \in 1 .. r : y = r \/ y \in DOMAIN m
          /\ w[r] = b /\ w[p] = a /\ \A y \in DOMAIN m : y # p => w[y] = m[y]
      BY <1>15 DEF IsSplit
    <2>2. \A y \in DOMAIN m : y # p => Fits(m[y])
      BY <1>2, <1>9 DEF AllFit
    <2>3. ASSUME NEW y \in 1 .. r PROVE Fits(w[y])
      <3>1. CASE y = r \/ y = p
        BY <1>12, <2>1, <3>1
      <3>2. CASE y # r /\ y # p
        BY <2>1, <2>2, <3>2
      <3> QED BY <3>1, <3>2
    <2> QED BY <2>1, <2>3 DEF AllFit
  <1>17. \A q : Holds(w, q) <=> Holds(m, q)
    <2>1. a.leaf = m[p].leaf /\ b.leaf = m[p].leaf
      <3>1. a.leaf \in BOOLEAN /\ b.leaf \in BOOLEAN /\ m[p].leaf \in BOOLEAN
        BY <1>9, <1>14 DEF NodeType
      <3>2. ~a.leaf /\ ~b.leaf /\ ~m[p].leaf
        BY <1>9, <1>14
      <3> QED BY <3>1, <3>2
    <2>2. ~m[p].leaf
      BY <1>9
    <2> QED BY <1>9, <1>15, <2>1, <2>2, HoldsSplit
  <1> DEFINE z == [entry |-> sep, child |-> r]
  <1>18. TreeOK(w, root, way, z)
    <2>1. z # Idle /\ z.entry = sep /\ z.child = r
      BY NotIdle
    <2> HIDE DEF z
    <2>2. Torn(w, root, c, p, z.child, z.entry, way)
      BY <1>13, <2>1
    <2> QED BY <1>2, <1>16, <2>1, <2>2 DEF TreeOK
  <1>19. TreeInv'
    BY <1>6, <1>8, <1>18 DEF TreeInv
  <1> QED BY <1>8, <1>10, <1>17, <1>19

\* The way back ends above the root.
LEMMA GrowRootStep ==
    ASSUME PagesSuffice, TreeInv, GrowRoot
    PROVE  TreeInv' /\ \A q : Holds(node', q) <=> Holds(node, q)
  <1>1. up # Idle /\ path = << >>
    BY DEF GrowRoot, TreeIdle
  <1>2. root # NoNode /\ AllFit(node)
    BY <1>1 DEF TreeInv, TreeOK
  <1>3. PICK t, l : Torn(node, root, t, l, up.child, up.entry, path)
    BY <1>1, <1>2 DEF TreeInv, TreeOK
  <1> DEFINE n == Inner(<<up.entry>>, <<root, up.child>>)
             m == Append(node, n)
             q == Len(node) + 1
  <1>4. Whole(Grown(node, root, up.entry, up.child), Len(node) + 1, Over(node, t, root))
    BY <1>1, <1>3, RootGrown
  <1>5. Whole(m, q, Over(node, t, root))
    BY <1>4 DEF Grown
  <1>6. node' = m /\ root' = q /\ path' = << >> /\ up' = Idle
    BY <1>1 DEF GrowRoot
  <1>7. node \in Seq(NodeType) /\ up.entry \in Entry
    BY <1>3, HasRoot DEF Torn
  <1> HIDE DEF n
  <1>8. DOMAIN m = 1 .. q /\ q \in 1 .. q /\ m[q] = n /\ DOMAIN node \subseteq 1 .. q
        /\ (\A y \in 1 .. q : y = q \/ y \in DOMAIN node) /\ q \notin DOMAIN node
        /\ \A y \in DOMAIN node : m[y] = node[y]
    <2>1. m[q] = n /\ Len(m) = q /\ DOMAIN m = 1 .. q /\ \A y \in 1 .. Len(node) : m[y] = node[y]
      BY <1>7
    <2> HIDE DEF m
    <2>2. Len(node) \in Nat /\ DOMAIN node = 1 .. Len(node)
      BY <1>7
    <2> QED BY <2>1, <2>2
  <1> HIDE DEF m
  <1>9. ~n.leaf /\ n.entries = <<up.entry>> /\ Len(n.children) = 2
    BY DEF n, Inner
  <1>10. Fits(n)
    <2>1. PICK few \in Nat \ {0}, short \in Nat, long \in Nat : Roomy(few, short, long)
      BY DEF PagesSuffice
    <2>2. /\ PageSize \in Nat /\ few * long \in Nat
          /\ 8 + few * long + 4 * (few + 1) <= PageSize /\ long <= few * long
      BY <2>1, Room
    <2>3. /\ \A v \in Values : short <= 2 + v.size + 8 /\ 2 + v.size + 8 <= long
      BY <2>1 DEF Roomy
    <2>4. <<up.entry>> \in Seq(Entry) /\ Len(<<up.entry>>) = 1
      BY <1>7
    <2>5. Bytes(<<up.entry>>) \in Nat /\ Bytes(<<up.entry>>) <= long * 1
      BY <2>3, <2>4, BytesBounded
    <2>6. Measure(n) = 8 + Bytes(<<up.entry>>) + 4 * 2
      BY <1>9 DEF Measure
    <2> DEFINE most == few * long
               w == Bytes(<<up.entry>>)
    <2>7. most \in Nat /\ 8 + most + 4 * (few + 1) <= PageSize /\ long <= most /\ w \in Nat /\ w <= long
      <3>1. long * 1 = long
        OBVIOUS
      <3> QED BY <2>2, <2>5, <3>1
    <2> HIDE DEF most, w
    <2>8. 8 + w + 4 * 2 <= PageSize
      BY <2>2, <2>7
    <2> QED BY <2>6, <2>8 DEF Fits, w
  <1>11. AllFit(m)
    <2>1. ASSUME NEW y \in 1 .. q PROVE Fits(m[y])
      <3>1. CASE y = q
        BY <1>8, <1>10, <3>1
      <3>2. CASE y # q
        BY <1>2, <1>8, <3>2 DEF AllFit
      <3> QED BY <3>1, <3>2
    <2> QED BY <1>8, <2>1 DEF AllFit
  <1>12. \A p : Holds(m, p) <=> Holds(node, p)
    <2> HIDE DEF q
    <2> QED BY <1>8, <1>9 DEF Holds
  <1>13. q # NoNode
    BY <1>5, HasRoot
  <1>14. TreeOK(m, q, << >>, Idle)
    <2> HIDE DEF q
    <2> QED BY <1>5, <1>11, <1>13 DEF TreeOK
  <1>15. TreeInv'
    BY <1>6, <1>14 DEF TreeInv
  <1> QED BY <1>6, <1>12, <1>15

\* insert() on its way back up.
LEMMA AscendStep ==
    ASSUME PagesSuffice, TreeInv, Ascend
    PROVE  TreeInv' /\ \A q : Holds(node', q) <=> Holds(node, q)
  BY ParentFitsStep, ParentSplitsStep, GrowRootStep DEF Ascend

\* erase().
LEMMA EraseStep ==
    ASSUME TreeInv, NEW e \in Entry, TreeErase(e)
    PROVE  TreeInv' /\ \A p : Holds(node', p) <=> Holds(node, p) /\ p # Pos(e)
  <1>1. TreeIdle
    BY DEF TreeErase
  <1>2. CASE root = NoNode
    <2>1. node' = node /\ root' = root /\ path' = path /\ up' = up
      BY <1>2 DEF TreeErase, treeVars
    <2>2. node = << >>
      BY <1>2 DEF TreeInv, TreeOK
    <2>3. \A p : ~Holds(node, p)
      BY <2>2 DEF Holds
    <2> QED BY <2>1, <2>3 DEF TreeInv
  <1>3. CASE root # NoNode
    <2>1. PICK t : Whole(node, root, t)
      BY <1>1, <1>3 DEF TreeInv, TreeOK, TreeIdle
    <2>2. path = << >> /\ up = Idle /\ AllFit(node)
      BY <1>1, <1>3 DEF TreeInv, TreeOK, TreeIdle
    <2> DEFINE x == LeafFor(e)
               s == node[x].entries
               hits == {i \in DOMAIN s : SameEntry(e, s[i])}
    <2>3. e \in Probe
      BY Places
    <2>4. x \in DOMAIN node /\ node[x].leaf
      BY <2>1, <2>3, LeafFound
    <2>5. s \in Seq(Entry) /\ Ascending(s) /\ node[x].children = << >>
          /\ \A i \in DOMAIN s : s[i] \in Entry /\ Inside(t, x, Pos(s[i]))
      BY <2>1, <2>4, LeafOf
    <2>6. \A i \in DOMAIN s : i \in hits <=> Pos(s[i]) = Pos(e)
      <3>1. \A i \in DOMAIN s : s[i] \in Probe
        BY <2>5, Places
      <3> QED BY <2>3, <3>1, Places
    <2>7. Holds(node, Pos(e)) <=> hits # {}
      <3>1. Holds(node, Pos(e)) <=> Has(s, Pos(e))
        BY <2>1, <2>3, HeldWhereSought
      <3> HIDE DEF s
      <3> QED BY <2>6, <3>1 DEF Has
    <2>8. CASE hits = {}
      <3>1. node' = node /\ root' = root /\ path' = path /\ up' = up
        BY <1>3, <2>8 DEF TreeErase
      <3>2. ~Holds(node, Pos(e))
        BY <2>7, <2>8
      <3> QED BY <3>1, <3>2 DEF TreeInv
    <2>9. CASE hits # {}
      <3>1. root' = root /\ path' = path /\ up' = up
            /\ \E i \in hits : (\A j \in hits : i <= j) /\ node' = [node EXCEPT ![x].entries = RemoveAt(@, i)]
        BY <1>3, <2>9 DEF TreeErase
      <3>2. PICK i \in hits : node' = [node EXCEPT ![x].entries = RemoveAt(@, i)]
        BY <3>1
      <3> DEFINE u == RemoveAt(s, i)
                 m == Rewritten(node, x, u)
      <3>3. node' = m
        BY <3>2 DEF Rewritten
      <3>4. i \in DOMAIN s /\ Pos(s[i]) = Pos(e)
        BY <2>6
      <3>5. IsTaken(u, s, i)
        <4> HIDE DEF s, hits
        <4> QED BY <2>5, <3>4, TakenOut
      <3> HIDE DEF u, m, x, s, hits
      <3>6. u \in Seq(Entry) /\ Ascending(u) /\ \A j \in DOMAIN u : Inside(t, x, Pos(u[j]))
        BY <2>5, <3>5 DEF IsTaken
      <3>7. Whole(m, root, t)
        BY <2>1, <2>4, <3>6, LeafWritten DEF m
      <3>8. IsRewritten(m, node, x, u)
        <4>1. node \in Seq(NodeType)
          BY <2>1, HasRoot
        <4> QED BY <2>4, <3>6, <4>1, RewrittenFacts DEF m
      <3>9. AllFit(m)
        <4>1. /\ DOMAIN m = DOMAIN node /\ m[x].entries = u /\ m[x].children = node[x].children
              /\ \A y \in DOMAIN node : y # x => m[y] = node[y]
          BY <2>4, <3>8 DEF IsRewritten
        <4>2. Fits(m[x])
          <5>1. Bytes(u) \in Nat /\ Bytes(s) \in Nat /\ Bytes(u) <= Bytes(s)
            BY <3>5 DEF IsTaken
          <5>2. Fits(node[x])
            BY <2>2, <2>4 DEF AllFit
          <5>3. Len(node[x].children) = 0
            BY <2>5
          <5>4. Measure(node[x]) = 8 + Bytes(s) + 4 * 0 /\ Measure(m[x]) = 8 + Bytes(u) + 4 * 0
            BY <4>1, <5>3 DEF Measure, s
          <5>5. 8 + Bytes(s) + 4 * 0 <= PageSize
            BY <5>2, <5>4 DEF Fits
          <5>6. PageSize \in Nat
            BY TreeAssumption
          <5>7. 8 + Bytes(u) + 4 * 0 <= PageSize
            <6> DEFINE y == Bytes(u)
                       z == Bytes(s)
            <6>1. y \in Nat /\ z \in Nat /\ y <= z /\ 8 + z + 4 * 0 <= PageSize
              BY <5>1, <5>5
            <6> HIDE DEF y, z
            <6>2. 8 + y + 4 * 0 <= PageSize
              BY ONLY <5>6, <6>1
            <6> QED BY <6>2 DEF y
          <5> QED BY <5>4, <5>7 DEF Fits
        <4>3. ASSUME NEW y \in DOMAIN node PROVE Fits(m[y])
          <5>1. CASE y = x
            BY <4>2, <5>1
          <5>2. CASE y # x
            BY <2>2, <4>1, <5>2 DEF AllFit
          <5> QED BY <5>1, <5>2
        <4> QED BY <4>1, <4>3 DEF AllFit
      <3>10. TreeOK(m, root, path, up)
        BY <1>3, <2>2, <3>7, <3>9 DEF TreeOK
      <3>11. TreeInv'
        BY <3>1, <3>3, <3>10 DEF TreeInv
      <3>12. ASSUME NEW p PROVE Holds(m, p) <=> Holds(node, p) /\ p # Pos(e)
        <4>1. Holds(m, p) <=>
                 Has(u, p) \/ \E y \in DOMAIN node : y # x /\ node[y].leaf /\ Has(node[y].entries, p)
          BY <2>4, <3>8, HoldsRewritten
        <4>2. Has(u, p) <=> Has(s, p) /\ p # Pos(e)
          BY <3>4, <3>5 DEF IsTaken
        <4>3. Holds(node, p) <=>
                 Has(s, p) \/ \E y \in DOMAIN node : y # x /\ node[y].leaf /\ Has(node[y].entries, p)
          BY <2>4 DEF Holds, s
        <4>4. ASSUME NEW y \in DOMAIN node, y # x, node[y].leaf PROVE ~Has(node[y].entries, Pos(e))
          <5>1. SUFFICES ASSUME Has(node[y].entries, Pos(e)) PROVE FALSE
            OBVIOUS
          <5>2. Inside(t, y, Pos(e))
            BY <2>1, <4>4, <5>1, LeafOf DEF Has
          <5> QED BY <2>1, <2>3, <4>4, <5>2, LeafFound DEF x
        <4> QED BY <4>1, <4>2, <4>3, <4>4
      <3> QED BY <3>3, <3>11, <3>12
    <2> QED BY <2>8, <2>9
  <1> QED BY <1>2, <1>3

----------------------------------------------------------------------------
(* The leaf links.                                                         *)

\* firstLeaf() is the leaf that begins at the bottom.
LEMMA FirstLeafFound ==
    ASSUME NEW t, Whole(node, root, t)
    PROVE  FirstLeaf \in DOMAIN node /\ node[FirstLeaf].leaf /\ t.low[FirstLeaf] = Bottom
  <1> DEFINE S == DOMAIN node
             child(x) == Head(node[x].children)
             Eq(f) == f = [id \in S |-> IF node[id].leaf THEN id ELSE f[Head(node[id].children)]]
  <1>1. Shape(node, root, t) /\ Typed(node, t)
        /\ \A x \in S : node[x] \in NodeType /\ t.lev[x] \in Nat
    BY NodeFacts DEF Whole, Shape
  <1>2. ASSUME NEW x \in S, ~node[x].leaf
        PROVE  child(x) \in S /\ t.lev[x] = t.lev[child(x)] + 1 /\ t.low[child(x)] = t.low[x]
    <2>1. Slots(node, t, x)
      BY <1>1, <1>2 DEF Shape
    <2>2. node[x].children \in Seq(Nat) /\ Len(node[x].entries) \in Nat
      BY <1>1, NodeFacts
    <2>3. 1 \in DOMAIN node[x].children /\ child(x) = node[x].children[1] /\ 1 - 1 = 0
      BY <2>1, <2>2 DEF Slots
    <2>4. child(x) \in S /\ t.lev[x] = t.lev[child(x)] + 1 /\ t.low[child(x)] = Edge(node, t, x, 0)
      BY <2>1, <2>3 DEF Slots
    <2> QED BY <2>4 DEF Edge
  <1> HIDE DEF child
  <1> DEFINE next == [x \in S |-> IF node[x].leaf THEN x ELSE child(x)]
             stop == [x \in S |-> node[x].leaf]
             base == [x \in S |-> x]
             comb == [z \in S \X S |-> z[2]]
             rank == t.lev
  <1>3. PICK f \in [S -> S] :
           f = [x \in S |-> IF stop[x] THEN base[x] ELSE comb[<<x, f[next[x]]>>]]
    <2>1. rank \in [S -> Nat]
      BY <1>1 DEF Typed
    <2>2. next \in [S -> S] /\ base \in [S -> S]
      BY <1>2
    <2>3. stop \in [S -> BOOLEAN]
      BY <1>1 DEF NodeType
    <2>5. comb \in [S \X S -> S]
      OBVIOUS
    <2>6. \A x \in S : ~stop[x] => rank[next[x]] < rank[x]
      <3>1. SUFFICES ASSUME NEW x \in S, ~node[x].leaf PROVE t.lev[child(x)] < t.lev[x]
        OBVIOUS
      <3>2. child(x) \in S /\ t.lev[x] = t.lev[child(x)] + 1
        BY <1>2, <3>1
      <3>3. t.lev[child(x)] \in Nat
        BY <1>1, <3>2
      <3> QED BY <3>2, <3>3
    <2> HIDE DEF next, stop, base, comb, S, rank
    <2>8. IsLoop(S, S, rank, next, stop, base, comb)
      BY <2>1, <2>2, <2>3, <2>5, <2>6 DEF IsLoop
    <2> QED BY <2>8, Recursion
  <1>4. \A x \in S : f[x] = IF node[x].leaf THEN x ELSE f[child(x)]
    <2>1. SUFFICES ASSUME NEW x \in S PROVE f[x] = IF node[x].leaf THEN x ELSE f[child(x)]
      OBVIOUS
    <2>2. f[x] = IF stop[x] THEN base[x] ELSE comb[<<x, f[next[x]]>>]
      BY <1>3
    <2>3. stop[x] = node[x].leaf /\ base[x] = x
      OBVIOUS
    <2>4. CASE node[x].leaf
      BY <2>2, <2>3, <2>4
    <2>5. CASE ~node[x].leaf
      <3>1. next[x] = child(x) /\ child(x) \in S
        BY <1>2, <2>5
      <3> DEFINE z == <<x, f[child(x)]>>
      <3>3. z[2] = f[child(x)] /\ z \in S \X S
        BY <3>1
      <3> HIDE DEF z
      <3>4. comb[z] = f[child(x)]
        BY <3>3
      <3> QED BY <2>2, <2>3, <2>5, <3>1, <3>4 DEF z
    <2> QED BY <2>4, <2>5
  <1>5. Eq(f)
    <2>1. f = [x \in S |-> f[x]]
      BY <1>3
    <2> QED BY <1>4, <2>1 DEF child
  <1> DEFINE F == CHOOSE g : Eq(g)
  <1>6. Eq(F)
    <2> HIDE DEF Eq
    <2> QED BY <1>5
  <1>7. FirstLeaf = F[root]
    BY DEF FirstLeaf
  <1>8. \A x \in S : F[x] = IF node[x].leaf THEN x ELSE F[child(x)]
    <2> HIDE DEF F
    <2> QED BY <1>6 DEF child
  <1> HIDE DEF F
  <1> DEFINE Arrives(x) == F[x] \in S /\ node[F[x]].leaf /\ t.low[F[x]] = t.low[x]
             Lost == {t.lev[x] : x \in {y \in S : ~Arrives(y)}}
  <1>9. ASSUME NEW x \in S PROVE Arrives(x)
    <2>1. SUFFICES ASSUME Lost # {} PROVE FALSE
      OBVIOUS
    <2>2. Lost \in SUBSET Nat
      BY <1>1
    <2>3. PICK v \in Lost : \A w \in Lost : v <= w
      <3> HIDE DEF Lost
      <3> QED BY <2>1, <2>2, LeastNumber
    <2>4. PICK y \in S : ~Arrives(y) /\ t.lev[y] = v
      BY <2>3
    <2>5. ~node[y].leaf
      BY <1>8, <2>4
    <2>6. child(y) \in S /\ t.lev[y] = t.lev[child(y)] + 1 /\ t.low[child(y)] = t.low[y]
      BY <1>2, <2>5
    <2>7. F[y] = F[child(y)]
      BY <1>8, <2>5
    <2>8. ~Arrives(child(y))
      BY <2>4, <2>6, <2>7
    <2>9. t.lev[child(y)] \in Lost
      BY <2>6, <2>8
    <2>10. t.lev[child(y)] \in Nat
      BY <1>1, <2>6
    <2> HIDE DEF Lost
    <2> QED BY <2>3, <2>4, <2>6, <2>9, <2>10
  <1>10. root \in S /\ t.low[root] = Bottom
    <2>1. Rooted(node, t, root)
      BY <1>1 DEF Shape
    <2> QED BY <2>1 DEF Rooted
  <1> QED BY <1>7, <1>9, <1>10

\* The leaf behind a leaf, and what is behind both.
IsOnward(nd, t, x) ==
    LET y == nd[x].next
        From(z, w) == ~Lt(t.low[w], t.low[z])
    IN  /\ y \in {NoNode} \cup DOMAIN nd
        /\ y = NoNode => \A w \in DOMAIN nd : nd[w].leaf /\ From(x, w) => w = x
        /\ y # NoNode =>
              /\ y \in DOMAIN nd /\ nd[y].leaf /\ Lt(t.low[x], t.low[y])
              /\ \A w \in DOMAIN nd : nd[w].leaf => (From(x, w) <=> w = x \/ From(y, w))
              /\ ~From(y, x)
        /\ \A w \in DOMAIN nd : nd[w].leaf /\ From(x, w) /\ w # x => ~Lt(t.low[w], t.high[x])
        /\ \A w \in DOMAIN nd : nd[w].leaf /\ ~From(x, w) => ~Lt(t.low[x], t.high[w])

\* The link of a leaf leads to the one just behind it.
LEMMA Onward ==
    ASSUME NEW nd, NEW rt, NEW t, Whole(nd, rt, t), NEW x \in DOMAIN nd, nd[x].leaf
    PROVE  IsOnward(nd, t, x)
  <1> DEFINE y == nd[x].next
             From(z, w) == ~Lt(t.low[w], t.low[z])
  <1>1. Typed(nd, t) /\ Apart(nd, t) /\ Linked(nd, t, x) /\ Sorted(nd, t, x)
        /\ \A w \in DOMAIN nd : Sorted(nd, t, w)
    BY DEF Whole, Shape
  <1>2. \A w \in DOMAIN nd : t.low[w] \in Bound /\ t.high[w] \in Bound /\ Lt(t.low[w], t.high[w])
    BY <1>1, NodeFacts DEF Sorted
  <1>3. \A w \in DOMAIN nd : nd[w].leaf => t.lev[w] = 0
    BY <1>1 DEF Sorted
  <1>4. NoNode \notin DOMAIN nd
    BY <1>1, NodeFacts DEF NoNode
  <1>5. \/ y = NoNode /\ t.high[x] = Top
        \/ y \in DOMAIN nd /\ nd[y].leaf /\ t.low[y] = t.high[x]
    BY <1>1 DEF Linked
  <1> HIDE DEF y
  <1>6. ASSUME NEW w \in DOMAIN nd, nd[w].leaf, From(x, w), w # x PROVE ~Lt(t.low[w], t.high[x])
    <2>1. Lt(t.low[x], t.low[w])
      <3>1. SUFFICES ASSUME t.low[x] = t.low[w] PROVE FALSE
        BY <1>2, <1>6, Order
      <3>2. Inside(t, x, t.low[x]) /\ Inside(t, w, t.low[x])
        BY <1>2, <3>1, Order DEF Inside
      <3>3. t.lev[x] = t.lev[w]
        BY <1>3, <1>6
      <3> QED BY <1>1, <1>2, <1>6, <3>2, <3>3, Alone
    <2>2. Lt(t.low[x], t.high[w])
      BY <1>2, <2>1, Order
    <2>3. t.lev[x] = t.lev[w]
      BY <1>3, <1>6
    <2> QED BY <1>1, <1>6, <2>2, <2>3 DEF Apart
  <1>7. ASSUME NEW w \in DOMAIN nd, nd[w].leaf, ~From(x, w) PROVE ~Lt(t.low[x], t.high[w])
    <2>1. Lt(t.low[w], t.low[x])
      BY <1>7
    <2>2. w # x
      BY <1>2, <2>1, Order
    <2>3. Lt(t.low[w], t.high[x])
      BY <1>2, <2>1, Order
    <2>4. t.lev[x] = t.lev[w]
      BY <1>3, <1>7
    <2> QED BY <1>1, <1>7, <2>2, <2>3, <2>4 DEF Apart
  <1>8. ASSUME y = NoNode, NEW w \in DOMAIN nd, nd[w].leaf, From(x, w) PROVE w = x
    <2>1. SUFFICES ASSUME w # x PROVE FALSE
      OBVIOUS
    <2>2. ~Lt(t.low[w], t.high[x])
      BY <1>6, <1>8, <2>1
    <2>3. t.high[x] = Top
      BY <1>4, <1>5, <1>8
    <2>4. Lt(t.low[w], t.high[w]) /\ ~Lt(Top, t.high[w]) /\ Top \in Bound
      BY <1>2, Places
    <2>5. Lt(t.low[w], Top)
      BY <1>2, <2>4, Order
    <2> QED BY <2>2, <2>3, <2>5
  <1>9. ASSUME y # NoNode
        PROVE /\ y \in DOMAIN nd /\ nd[y].leaf /\ Lt(t.low[x], t.low[y])
              /\ \A w \in DOMAIN nd : nd[w].leaf => (From(x, w) <=> w = x \/ From(y, w))
              /\ ~From(y, x)
    <2>1. y \in DOMAIN nd /\ nd[y].leaf /\ t.low[y] = t.high[x]
      BY <1>5, <1>9
    <2>2. Lt(t.low[x], t.low[y])
      BY <1>2, <2>1
    <2>3. ASSUME NEW w \in DOMAIN nd, nd[w].leaf PROVE From(x, w) <=> w = x \/ From(y, w)
      <3>1. From(x, w) /\ w # x => From(y, w)
        BY <1>6, <2>1, <2>3
      <3>2. From(y, w) => From(x, w)
        BY <1>2, <2>1, <2>2, Order
      <3>3. From(x, x)
        BY <1>2, Order
      <3> QED BY <3>1, <3>2, <3>3
    <2> QED BY <2>1, <2>2, <2>3
  <1>10. y \in {NoNode} \cup DOMAIN nd
    BY <1>5
  <1> HIDE DEF From
  <1> QED BY <1>6, <1>7, <1>8, <1>9, <1>10 DEF IsOnward, y, From

\* Following the links comes to an end.
LEMMA LinkRank ==
    ASSUME NEW nd, NEW rt, NEW t, Whole(nd, rt, t)
    PROVE  \E rank \in [{NoNode} \cup DOMAIN nd -> Nat] :
              \A x \in DOMAIN nd :
                 nd[x].next \in {NoNode} \cup DOMAIN nd /\ rank[nd[x].next] < rank[x]
  <1> DEFINE Later(x) == {w \in DOMAIN nd : nd[w].leaf /\ Lt(t.low[x], t.low[w])}
             rank == [x \in {NoNode} \cup DOMAIN nd |->
                         IF x = NoNode THEN 0 ELSE 1 + Cardinality(Later(x))]
  <1>1. Typed(nd, t) /\ Shape(nd, rt, t)
    BY DEF Whole, Shape
  <1>2. nd \in Seq(NodeType) /\ DOMAIN nd = 1 .. Len(nd) /\ Len(nd) \in Nat /\ NoNode \notin DOMAIN nd
    <2>1. nd \in Seq(NodeType)
      BY <1>1 DEF Typed
    <2> QED BY <2>1 DEF NoNode
  <1>3. \A w \in DOMAIN nd : t.low[w] \in Bound
    BY <1>1, NodeFacts
  <1>4. ASSUME NEW x \in DOMAIN nd PROVE IsFiniteSet(Later(x)) /\ Cardinality(Later(x)) \in Nat
    <2>1. IsFiniteSet(1 .. Len(nd))
      BY <1>2, FS_Interval
    <2>2. Later(x) \subseteq 1 .. Len(nd)
      BY <1>2
    <2> HIDE DEF Later
    <2>3. IsFiniteSet(Later(x))
      BY <2>1, <2>2, FS_Subset
    <2> QED BY <2>3, FS_CardinalityType
  <1>5. rank \in [{NoNode} \cup DOMAIN nd -> Nat]
    <2> HIDE DEF Later
    <2> QED BY <1>2, <1>4
  <1>6. ASSUME NEW x \in DOMAIN nd
        PROVE nd[x].next \in {NoNode} \cup DOMAIN nd /\ rank[nd[x].next] < rank[x]
    <2> DEFINE y == nd[x].next
    <2>1. rank[x] = 1 + Cardinality(Later(x))
      BY <1>2
    <2>2. CASE y = NoNode
      <3>1. rank[NoNode] = 0
        OBVIOUS
      <3>2. rank[y] = 0
        BY <2>2, <3>1
      <3> HIDE DEF rank, Later, y
      <3>3. rank[y] < rank[x]
        BY <1>4, <2>1, <3>2
      <3> QED BY <2>2, <3>3 DEF y
    <2>3. CASE y # NoNode
      <3>1. nd[x].leaf
        <4>1. SUFFICES ASSUME ~nd[x].leaf PROVE FALSE
          OBVIOUS
        <4>2. Slots(nd, t, x)
          BY <1>1, <4>1 DEF Shape
        <4> QED BY <2>3, <4>2 DEF Slots
      <3>2. IsOnward(nd, t, x)
        BY <3>1, Onward
      <3>3. y \in DOMAIN nd /\ nd[y].leaf /\ Lt(t.low[x], t.low[y])
        BY <2>3, <3>2 DEF IsOnward
      <3> HIDE DEF y
      <3>4. Later(y) \subseteq Later(x) /\ y \in Later(x) /\ y \notin Later(y)
        BY <1>3, <3>3, Order
      <3>5. Later(y) # Later(x)
        BY <3>4
      <3>6. Cardinality(Later(y)) < Cardinality(Later(x))
        <4> HIDE DEF Later
        <4>1. IsFiniteSet(Later(x)) /\ IsFiniteSet(Later(y)) /\ Cardinality(Later(x)) \in Nat
              /\ Cardinality(Later(y)) \in Nat
          BY <1>4, <3>3
        <4>2. Cardinality(Later(y)) <= Cardinality(Later(x))
              /\ (Cardinality(Later(y)) = Cardinality(Later(x)) => Later(y) = Later(x))
          BY <3>4, <4>1, FS_Subset
        <4> QED BY <3>5, <4>1, <4>2
      <3>7. rank[y] = 1 + Cardinality(Later(y))
        BY <1>2, <3>3
      <3> HIDE DEF rank, Later
      <3>8. rank[y] < rank[x]
        BY <1>4, <2>1, <3>3, <3>6, <3>7
      <3> QED BY <3>3, <3>8 DEF y
    <2> QED BY <2>2, <2>3
  <1> HIDE DEF rank
  <1> QED BY <1>5, <1>6

\* A loop along the links, from v0 at the end, is a function.
IsLinkLoop(nd, V, v0, comb) ==
    v0 \in V /\ comb \in [({NoNode} \cup DOMAIN nd) \X V -> V]
Looped(f, nd, V, v0, comb) ==
    /\ f \in [{NoNode} \cup DOMAIN nd -> V]
    /\ f[NoNode] = v0
    /\ \A x \in DOMAIN nd : f[x] = comb[<<x, f[nd[x].next]>>]

\* Ranks fall along the links, so a loop along them comes to an end.
LEMMA LinkRecursion ==
    ASSUME NEW nd, NEW rt, NEW t, Whole(nd, rt, t), NEW V, NEW v0, NEW comb,
           IsLinkLoop(nd, V, v0, comb)
    PROVE  \E f : Looped(f, nd, V, v0, comb)
  <1> DEFINE S == {NoNode} \cup DOMAIN nd
             next == [x \in S |-> IF x = NoNode THEN NoNode ELSE nd[x].next]
             stop == [x \in S |-> x = NoNode]
             base == [x \in S |-> v0]
  <1>0. v0 \in V /\ comb \in [S \X V -> V]
    BY DEF IsLinkLoop
  <1>1. PICK rank \in [S -> Nat] : \A x \in DOMAIN nd : nd[x].next \in S /\ rank[nd[x].next] < rank[x]
    BY LinkRank
  <1>2. NoNode \notin DOMAIN nd
    <2>1. Typed(nd, t)
      BY DEF Whole, Shape
    <2> QED BY <2>1, NodeFacts DEF NoNode
  <1>3. next \in [S -> S] /\ stop \in [S -> BOOLEAN] /\ base \in [S -> V]
    BY <1>0, <1>1
  <1>4. \A x \in S : ~stop[x] => rank[next[x]] < rank[x]
    BY <1>1
  <1>5. IsLoop(S, V, rank, next, stop, base, comb)
    <2> HIDE DEF S, next, stop, base
    <2> QED BY <1>0, <1>1, <1>3, <1>4 DEF IsLoop
  <1>6. PICK f \in [S -> V] : f = [x \in S |-> IF stop[x] THEN base[x] ELSE comb[<<x, f[next[x]]>>]]
    <2> HIDE DEF S, next, stop, base
    <2> QED BY <1>5, Recursion
  <1>7. f[NoNode] = v0
    BY <1>6
  <1>8. \A x \in DOMAIN nd : f[x] = comb[<<x, f[nd[x].next]>>]
    BY <1>2, <1>6
  <1> QED BY <1>6, <1>7, <1>8 DEF Looped

\* What holds of a leaf whenever it holds of the one behind it holds of every leaf.
LEMMA LinkInduction ==
    ASSUME NEW nd, NEW rt, NEW t, Whole(nd, rt, t), NEW G,
           \A x \in DOMAIN nd : nd[x].leaf /\ (nd[x].next = NoNode \/ nd[x].next \in G) => x \in G
    PROVE  \A x \in DOMAIN nd : nd[x].leaf => x \in G
  <1>1. PICK rank \in [{NoNode} \cup DOMAIN nd -> Nat] :
           \A x \in DOMAIN nd : nd[x].next \in {NoNode} \cup DOMAIN nd /\ rank[nd[x].next] < rank[x]
    BY LinkRank
  <1> DEFINE Lost == {rank[x] : x \in {y \in DOMAIN nd : nd[y].leaf /\ y \notin G}}
  <1>2. SUFFICES ASSUME Lost # {} PROVE FALSE
    OBVIOUS
  <1>3. Lost \in SUBSET Nat
    BY <1>1
  <1>4. PICK v \in Lost : \A w \in Lost : v <= w
    <2> HIDE DEF Lost
    <2> QED BY <1>2, <1>3, LeastNumber
  <1>5. PICK y \in DOMAIN nd : nd[y].leaf /\ y \notin G /\ rank[y] = v
    BY <1>4
  <1> DEFINE z == nd[y].next
  <1>6. z # NoNode /\ z \notin G
    BY <1>5
  <1>7. z \in DOMAIN nd /\ nd[z].leaf
    <2>1. IsOnward(nd, t, y)
      BY <1>5, Onward
    <2> QED BY <1>6, <2>1 DEF IsOnward
  <1>8. rank[z] < rank[y] /\ rank[z] \in Nat /\ rank[y] \in Nat
    BY <1>1, <1>5, <1>7
  <1> HIDE DEF z
  <1>9. rank[z] \in Lost
    BY <1>6, <1>7
  <1> HIDE DEF Lost
  <1> QED BY <1>4, <1>5, <1>8, <1>9

----------------------------------------------------------------------------
(* The scans.                                                              *)

\* The sequence has the entry.
In(s, e) == \E i \in DOMAIN s : s[i] = e

\* Sequences of entries behind one another.
LEMMA Joined ==
    ASSUME NEW a \in Seq(Entry), NEW b \in Seq(Entry)
    PROVE  /\ a \o b \in Seq(Entry)
           /\ \A e : In(a \o b, e) <=> In(a, e) \/ In(b, e)
           /\ Ascending(a) /\ Ascending(b)
              /\ (\A e, f \in Entry : In(a, e) /\ In(b, f) => Lt(Pos(e), Pos(f)))
              => Ascending(a \o b)
  <1> DEFINE c == a \o b
             m == Len(a)
             n == Len(b)
  <1>1. m \in Nat /\ n \in Nat /\ DOMAIN a = 1 .. m /\ DOMAIN b = 1 .. n
        /\ (\A i \in 1 .. m : a[i] \in Entry) /\ (\A i \in 1 .. n : b[i] \in Entry)
    OBVIOUS
  <1>2. c \in Seq(Entry) /\ Len(c) = m + n
        /\ \A i \in 1 .. m + n : c[i] = IF i <= m THEN a[i] ELSE b[i - m]
    BY ConcatProperties
  <1>3. DOMAIN c = 1 .. m + n
    BY <1>2
  <1> HIDE DEF c, m, n
  <1>4. \A i \in 1 .. m + n : \/ i <= m /\ i \in 1 .. m /\ c[i] = a[i]
                              \/ ~(i <= m) /\ i - m \in 1 .. n /\ c[i] = b[i - m]
    <2>1. \A i \in 1 .. m + n : (i <= m => i \in 1 .. m) /\ (~(i <= m) => i - m \in 1 .. n)
      BY <1>1
    <2> QED BY <1>2, <2>1
  <1>5. ASSUME NEW e PROVE In(c, e) <=> In(a, e) \/ In(b, e)
    <2>1. ASSUME In(c, e) PROVE In(a, e) \/ In(b, e)
      BY <1>1, <1>3, <1>4, <2>1 DEF In
    <2>2. ASSUME In(a, e) PROVE In(c, e)
      <3>1. PICK i \in 1 .. m : a[i] = e
        BY <1>1, <2>2 DEF In
      <3>2. i \in 1 .. m + n /\ i <= m
        BY <1>1
      <3> QED BY <1>2, <1>3, <3>1, <3>2 DEF In
    <2>3. ASSUME In(b, e) PROVE In(c, e)
      <3>1. PICK i \in 1 .. n : b[i] = e
        BY <1>1, <2>3 DEF In
      <3> DEFINE k == m + i
      <3>2. k \in 1 .. m + n /\ ~(k <= m) /\ k - m = i
        BY <1>1
      <3> HIDE DEF k
      <3>3. c[k] = b[i]
        BY <1>2, <3>2
      <3> QED BY <1>3, <3>1, <3>2, <3>3 DEF In
    <2> QED BY <2>1, <2>2, <2>3
  <1>6. ASSUME Ascending(a), Ascending(b),
               \A e, f \in Entry : In(a, e) /\ In(b, f) => Lt(Pos(e), Pos(f))
        PROVE  Ascending(c)
    <2>1. SUFFICES ASSUME NEW i \in 1 .. m + n, NEW j \in 1 .. m + n, i < j PROVE Lt(Pos(c[i]), Pos(c[j]))
      BY <1>3 DEF Ascending
    <2>2. CASE i <= m /\ i \in 1 .. m /\ c[i] = a[i]
      <3>1. CASE j <= m /\ j \in 1 .. m /\ c[j] = a[j]
        BY <1>1, <1>6, <2>1, <2>2, <3>1 DEF Ascending
      <3>2. CASE ~(j <= m) /\ j - m \in 1 .. n /\ c[j] = b[j - m]
        <4>1. In(a, a[i]) /\ In(b, b[j - m]) /\ a[i] \in Entry /\ b[j - m] \in Entry
          BY <1>1, <2>2, <3>2 DEF In
        <4> QED BY <1>6, <2>2, <3>2, <4>1
      <3> QED BY <1>4, <3>1, <3>2
    <2>3. CASE ~(i <= m) /\ i - m \in 1 .. n /\ c[i] = b[i - m]
      <3>1. ~(j <= m) /\ i - m < j - m
        BY <1>1, <2>1, <2>3
      <3>2. j - m \in 1 .. n /\ c[j] = b[j - m]
        BY <1>4, <3>1
      <3> QED BY <1>1, <1>6, <2>3, <3>1, <3>2 DEF Ascending
    <2> QED BY <1>4, <2>2, <2>3
  <1> QED BY <1>2, <1>5, <1>6 DEF c

\* The ends of a range, and the entries in it.
Limit == Values \cup {Unbounded}
Wanted(lo, hi, e) == ~TooLow(lo, e.key) /\ ~TooHigh(hi, e.key)

\* What a limit lets pass: all entries from the first too high one on are.
LEMMA Limits ==
    /\ Unbounded \notin Values
    /\ \A lo \in Values : \A v : TooLow(lo, v) <=> v.rank < lo.rank
    /\ \A hi \in Values : \A v : TooHigh(hi, v) <=> hi.rank < v.rank
    /\ \A v : ~TooLow(Unbounded, v) /\ ~TooHigh(Unbounded, v)
    /\ \A hi \in Limit : \A e, f \in Entry :
          TooHigh(hi, e.key) /\ Lt(Pos(e), Pos(f)) => TooHigh(hi, f.key)
    /\ \A v \in Values : v.rank \in Nat
  <1>1. \A v \in Values : v.rank \in Nat /\ v.type \in {"Null", "Int", "Double", "Text"}
    BY TreeAssumption DEF Value
  <1>2. Unbounded \notin Values
    BY <1>1 DEF Unbounded
  <1>3. \A lo \in Values : \A v : TooLow(lo, v) <=> v.rank < lo.rank
    BY <1>2 DEF TooLow
  <1>4. \A hi \in Values : \A v : TooHigh(hi, v) <=> hi.rank < v.rank
    BY <1>2 DEF TooHigh
  <1>5. \A v : ~TooLow(Unbounded, v) /\ ~TooHigh(Unbounded, v)
    BY DEF TooLow, TooHigh
  <1>6. ASSUME NEW hi \in Limit, NEW e \in Entry, NEW f \in Entry, TooHigh(hi, e.key), Lt(Pos(e), Pos(f))
        PROVE  TooHigh(hi, f.key)
    <2>1. hi \in Values
      BY <1>5, <1>6 DEF Limit
    <2>2. hi.rank \in Nat /\ e.key.rank \in Nat /\ f.key.rank \in Nat
      BY <1>1, <2>1 DEF Entry
    <2>3. hi.rank < e.key.rank
      BY <1>4, <1>6, <2>1
    <2>4. e.key.rank <= f.key.rank
      BY <1>6, <2>2 DEF Lt, Pos
    <2> QED BY <1>4, <2>1, <2>2, <2>3, <2>4
  <1> QED BY <1>1, <1>2, <1>3, <1>4, <1>5, <1>6

\* rangeScan in one leaf.
LEMMA LeafScanned ==
    ASSUME NEW s \in Seq(Entry), Ascending(s), NEW lo \in Limit, NEW hi \in Limit
    PROVE  /\ ScanLeaf(s, lo, hi) \in Seq(Entry) /\ Ascending(ScanLeaf(s, lo, hi))
           /\ \A e : In(ScanLeaf(s, lo, hi), e) <=> In(s, e) /\ Wanted(lo, hi, e)
  <1> DEFINE n == Len(s)
             S == 1 .. n + 1
             V == Seq(Entry)
             low(i) == TooLow(lo, s[i].key)
             high(i) == TooHigh(hi, s[i].key)
             Eq(f) == f = [i \in 1 .. Len(s) + 1 |->
                             IF i > Len(s) THEN << >>
                             ELSE IF TooLow(lo, s[i].key) THEN f[i + 1]
                             ELSE IF TooHigh(hi, s[i].key) THEN << >>
                             ELSE <<s[i]>> \o f[i + 1]]
             rank == [i \in S |-> n + 1 - i]
             next == [i \in S |-> IF i > n THEN i ELSE i + 1]
             stop == [i \in S |-> i > n]
             base == [i \in S |-> << >>]
             step(i, v) == IF low(i) THEN v ELSE IF high(i) THEN << >> ELSE <<s[i]>> \o v
             comb == [z \in S \X V |-> IF z[1] > n THEN << >> ELSE step(z[1], z[2])]
  <1>1. n \in Nat /\ DOMAIN s = 1 .. n /\ \A i \in 1 .. n : s[i] \in Entry
    OBVIOUS
  <1> HIDE DEF n
  <1>2. \A i \in S : (i > n /\ i = n + 1) \/ (~(i > n) /\ i \in 1 .. n /\ i + 1 \in S)
    BY <1>1
  <1>3. ASSUME NEW i \in 1 .. n, NEW v \in V PROVE step(i, v) \in V
    <2>1. << >> \in V /\ <<s[i]>> \in V
      BY <1>1
    <2>2. <<s[i]>> \o v \in V
      BY <2>1, ConcatProperties
    <2> QED BY <2>1, <2>2
  <1> HIDE DEF step, low, high
  <1>4. IsLoop(S, V, rank, next, stop, base, comb)
    <2>1. rank \in [S -> Nat]
      <3>1. \A i \in S : n + 1 - i \in Nat
        BY <1>1
      <3> QED BY <3>1
    <2>2. next \in [S -> S] /\ stop \in [S -> BOOLEAN]
      BY <1>2
    <2>3. base \in [S -> V]
      OBVIOUS
    <2>4. comb \in [S \X V -> V]
      <3>1. ASSUME NEW i \in S, NEW v \in V PROVE (IF i > n THEN << >> ELSE step(i, v)) \in V
        BY <1>2, <1>3
      <3> HIDE DEF S, V
      <3> QED BY <3>1
    <2>5. \A i \in S : ~stop[i] => rank[next[i]] < rank[i]
      <3>1. SUFFICES ASSUME NEW i \in S, ~(i > n) PROVE rank[next[i]] < rank[i]
        OBVIOUS
      <3>2. next[i] = i + 1 /\ i + 1 \in S /\ n + 1 - (i + 1) < n + 1 - i
        BY <1>1, <1>2, <3>1
      <3>3. rank[i + 1] = n + 1 - (i + 1) /\ rank[i] = n + 1 - i
        BY <3>2
      <3> QED BY <3>2, <3>3
    <2> HIDE DEF S, V, rank, next, stop, base, comb
    <2> QED BY <2>1, <2>2, <2>3, <2>4, <2>5 DEF IsLoop
  <1>5. PICK f \in [S -> V] : f = [i \in S |-> IF stop[i] THEN base[i] ELSE comb[<<i, f[next[i]]>>]]
    <2> HIDE DEF S, V, rank, next, stop, base, comb
    <2> QED BY <1>4, Recursion
  <1>6. \A i \in S : f[i] = IF i > n THEN << >> ELSE step(i, f[i + 1])
    <2>1. SUFFICES ASSUME NEW i \in S PROVE f[i] = IF i > n THEN << >> ELSE step(i, f[i + 1])
      OBVIOUS
    <2>2. f[i] = IF stop[i] THEN base[i] ELSE comb[<<i, f[next[i]]>>]
      BY <1>5
    <2>3. CASE i > n
      BY <2>2, <2>3
    <2>4. CASE ~(i > n)
      <3>1. next[i] = i + 1 /\ i + 1 \in S
        BY <1>2, <2>4
      <3> DEFINE z == <<i, f[i + 1]>>
      <3>2. z \in S \X V /\ z[1] = i /\ z[2] = f[i + 1]
        BY <1>5, <3>1
      <3>3. f[i] = comb[z]
        BY <2>2, <2>4, <3>1
      <3> HIDE DEF z
      <3>4. comb[z] = step(i, f[i + 1])
        BY <2>4, <3>2
      <3> QED BY <2>4, <3>3, <3>4
    <2> QED BY <2>3, <2>4
  <1>7. Eq(f)
    <2>1. f = [i \in S |-> f[i]]
      BY <1>5
    <2>2. \A i \in S : f[i] = IF i > n THEN << >>
                             ELSE IF TooLow(lo, s[i].key) THEN f[i + 1]
                             ELSE IF TooHigh(hi, s[i].key) THEN << >>
                             ELSE <<s[i]>> \o f[i + 1]
      BY <1>6 DEF step, low, high
    <2>3. n = Len(s)
      BY DEF n
    <2> QED BY <2>1, <2>2, <2>3
  <1> DEFINE F == CHOOSE g : Eq(g)
  <1>8. Eq(F)
    <2> HIDE DEF Eq
    <2> QED BY <1>7
  <1>9. ScanLeaf(s, lo, hi) = F[1]
    BY DEF ScanLeaf
  <1> HIDE DEF F
  <1>10. \A i \in S : F[i] = IF i > n THEN << >> ELSE step(i, F[i + 1])
    <2>1. n = Len(s)
      BY DEF n
    <2> QED BY <1>8, <2>1 DEF step, low, high
  <1> DEFINE Good(i) == /\ F[i] \in Seq(Entry) /\ Ascending(F[i])
                        /\ \A e : In(F[i], e) <=> \E j \in 1 .. n : j >= i /\ s[j] = e /\ Wanted(lo, hi, e)
             Bad == {n + 1 - i : i \in {j \in S : ~Good(j)}}
  <1>11. ASSUME NEW i \in S PROVE Good(i)
    <2>1. SUFFICES ASSUME Bad # {} PROVE FALSE
      OBVIOUS
    <2>2. Bad \in SUBSET Nat
      BY <1>1
    <2>3. PICK v \in Bad : \A w \in Bad : v <= w
      <3> HIDE DEF Bad
      <3> QED BY <2>1, <2>2, LeastNumber
    <2>4. PICK k \in S : ~Good(k) /\ n + 1 - k = v
      BY <2>3
    <2>5. Good(k)
      <3>1. CASE k > n
        <4>1. F[k] = << >>
          BY <1>10, <3>1
        <4>2. << >> \in Seq(Entry) /\ Ascending(<< >>) /\ \A e : ~In(<< >>, e)
          BY DEF Ascending, In
        <4>3. ~ \E j \in 1 .. n : j >= k
          BY <1>1, <3>1
        <4> QED BY <4>1, <4>2, <4>3
      <3>2. CASE ~(k > n)
        <4>1. k \in 1 .. n /\ k + 1 \in S /\ F[k] = step(k, F[k + 1])
          BY <1>2, <1>10, <3>2
        <4>2. Good(k + 1)
          <5>1. SUFFICES ASSUME ~Good(k + 1) PROVE FALSE
            OBVIOUS
          <5>2. n + 1 - (k + 1) \in Bad
            BY <4>1, <5>1
          <5> HIDE DEF Bad, Good
          <5>3. v <= n + 1 - (k + 1)
            BY <2>3, <5>2
          <5> QED BY <1>1, <2>4, <4>1, <5>3
        <4>3. \A j \in 1 .. n : j >= k <=> j = k \/ j >= k + 1
          BY <1>1, <4>1, SMTT(40)
        <4>4. \A e : (\E j \in 1 .. n : j >= k /\ s[j] = e /\ Wanted(lo, hi, e)) <=>
                     (In(F[k + 1], e) \/ (e = s[k] /\ Wanted(lo, hi, s[k])))
          BY <4>1, <4>2, <4>3
        <4>5. \A j \in 1 .. n : j >= k + 1 => Lt(Pos(s[k]), Pos(s[j]))
          <5>1. \A j \in 1 .. n : j >= k + 1 => k < j
            BY <1>1, <4>1
          <5> QED BY <1>1, <4>1, <5>1 DEF Ascending
        <4>6. CASE low(k)
          <5>1. F[k] = F[k + 1]
            BY <4>1, <4>6 DEF step
          <5>2. ~Wanted(lo, hi, s[k])
            BY <4>6 DEF Wanted, low
          <5> QED BY <4>2, <4>4, <5>1, <5>2
        <4>7. CASE ~low(k) /\ high(k)
          <5>1. F[k] = << >>
            BY <4>1, <4>7 DEF step
          <5>2. \A j \in 1 .. n : j >= k => ~Wanted(lo, hi, s[j])
            <6>1. ASSUME NEW j \in 1 .. n, j >= k + 1 PROVE TooHigh(hi, s[j].key)
              <7>1. TooHigh(hi, s[k].key)
                BY <4>7 DEF high
              <7>2. Lt(Pos(s[k]), Pos(s[j])) /\ s[k] \in Entry /\ s[j] \in Entry
                BY <1>1, <4>1, <4>5, <6>1
              <7> QED BY <7>1, <7>2, Limits
            <6> QED BY <4>3, <4>7, <6>1 DEF Wanted, high
          <5>3. << >> \in Seq(Entry) /\ Ascending(<< >>) /\ \A e : ~In(<< >>, e)
            BY DEF Ascending, In
          <5> QED BY <5>1, <5>2, <5>3
        <4>8. CASE ~low(k) /\ ~high(k)
          <5>1. F[k] = <<s[k]>> \o F[k + 1]
            BY <4>1, <4>8 DEF step
          <5>2. Wanted(lo, hi, s[k])
            BY <4>8 DEF Wanted, low, high
          <5>3. <<s[k]>> \in Seq(Entry) /\ Ascending(<<s[k]>>) /\ \A e : In(<<s[k]>>, e) <=> e = s[k]
            BY <1>1, <4>1 DEF Ascending, In
          <5>4. \A e, f1 \in Entry : In(<<s[k]>>, e) /\ In(F[k + 1], f1) => Lt(Pos(e), Pos(f1))
            BY <4>2, <4>5, <5>3
          <5> DEFINE a == <<s[k]>>
                     b == F[k + 1]
          <5>5. a \in Seq(Entry) /\ b \in Seq(Entry) /\ Ascending(a) /\ Ascending(b)
                /\ \A e, f1 \in Entry : In(a, e) /\ In(b, f1) => Lt(Pos(e), Pos(f1))
            BY <4>2, <5>3, <5>4
          <5>6. (\A e : In(a, e) <=> e = s[k]) /\ F[k] = a \o b
            BY <5>1, <5>3
          <5> HIDE DEF a, b
          <5>7. /\ a \o b \in Seq(Entry) /\ Ascending(a \o b)
                /\ \A e : In(a \o b, e) <=> In(a, e) \/ In(b, e)
            BY <5>5, Joined
          <5>8. \A e : In(F[k], e) <=> e = s[k] \/ In(F[k + 1], e)
            BY <5>6, <5>7 DEF b
          <5> QED BY <4>4, <5>2, <5>6, <5>7, <5>8
        <4> QED BY <4>6, <4>7, <4>8
      <3> QED BY <3>1, <3>2
    <2> QED BY <2>4, <2>5
  <1>12. Good(1)
    <2>1. 1 \in S
      BY <1>1
    <2> QED BY <1>11, <2>1
  <1>13. \A j \in 1 .. n : j >= 1
    BY <1>1
  <1> QED BY <1>1, <1>9, <1>12, <1>13 DEF In

\* The entry e is in a leaf from x on.
Onwards(nd, t, x, e) ==
    \E y \in DOMAIN nd : nd[y].leaf /\ ~Lt(t.low[y], t.low[x]) /\ In(nd[y].entries, e)

\* rangeScan from one leaf on.
LEMMA LeavesScanned ==
    ASSUME NEW t, Whole(node, root, t), NEW lo \in Limit, NEW hi \in Limit,
           NEW from, from = [id \in {NoNode} \cup DOMAIN node |->
                                IF id = NoNode THEN << >>
                                ELSE ScanLeaf(node[id].entries, lo, hi)
                                        \o (IF ScanEndsIn(node[id].entries, lo, hi) THEN << >>
                                            ELSE from[node[id].next])],
           NEW x \in DOMAIN node, node[x].leaf
    PROVE  /\ from[x] \in Seq(Entry) /\ Ascending(from[x])
           /\ \A e : In(from[x], e) <=> Onwards(node, t, x, e) /\ Wanted(lo, hi, e)
  <1> DEFINE scan(y) == ScanLeaf(node[y].entries, lo, hi)
             ends(y) == ScanEndsIn(node[y].entries, lo, hi)
             Good(y) == /\ from[y] \in Seq(Entry) /\ Ascending(from[y])
                        /\ \A e : In(from[y], e) <=> Onwards(node, t, y, e) /\ Wanted(lo, hi, e)
             G == {y \in DOMAIN node : Good(y)}
  <1>1. Typed(node, t) /\ NoNode \notin DOMAIN node
    <2>1. Typed(node, t)
      BY DEF Whole, Shape
    <2> QED BY <2>1, NodeFacts DEF NoNode
  <1>2. ASSUME NEW y \in DOMAIN node, node[y].leaf, node[y].next = NoNode \/ node[y].next \in G
        PROVE  Good(y)
    <2> DEFINE z == node[y].next
               rest == IF ends(y) THEN << >> ELSE from[z]
    <2>1. from[y] = scan(y) \o rest
      BY <1>1
    <2>2. IsOnward(node, t, y)
      BY <1>2, Onward
    <2>3. node[y].entries \in Seq(Entry) /\ Ascending(node[y].entries)
          /\ \A i \in DOMAIN node[y].entries :
                node[y].entries[i] \in Entry /\ Inside(t, y, Pos(node[y].entries[i]))
      BY <1>2, LeafOf
    <2>4. /\ scan(y) \in Seq(Entry) /\ Ascending(scan(y))
          /\ \A e : In(scan(y), e) <=> In(node[y].entries, e) /\ Wanted(lo, hi, e)
      BY <2>3, LeafScanned
    <2> DEFINE Beyond(e) == \E w \in DOMAIN node : /\ node[w].leaf /\ w # y /\ ~Lt(t.low[w], t.low[y])
                                                  /\ In(node[w].entries, e)
    <2>5. \A w \in DOMAIN node : t.low[w] \in Bound /\ t.high[w] \in Bound
      BY <1>1, NodeFacts
    <2>6. \A e : Onwards(node, t, y, e) <=> In(node[y].entries, e) \/ Beyond(e)
      <3>1. ~Lt(t.low[y], t.low[y])
        BY <2>5, Order
      <3> QED BY <1>2, <3>1 DEF Onwards
    <2>7. ASSUME NEW e, NEW f, In(node[y].entries, e), Beyond(f)
          PROVE  e \in Entry /\ f \in Entry /\ Lt(Pos(e), Pos(f))
      <3>1. PICK w \in DOMAIN node : /\ node[w].leaf /\ w # y /\ ~Lt(t.low[w], t.low[y])
                                     /\ In(node[w].entries, f)
        BY <2>7
      <3>2. ~Lt(t.low[w], t.high[y])
        BY <2>2, <3>1 DEF IsOnward
      <3>3. e \in Entry /\ Inside(t, y, Pos(e))
        BY <2>3, <2>7 DEF In
      <3>4. f \in Entry /\ Inside(t, w, Pos(f))
        BY <3>1, LeafOf DEF In
      <3>5. Lt(Pos(e), t.high[y]) /\ ~Lt(Pos(f), t.low[w])
        BY <3>3, <3>4 DEF Inside
      <3>6. Pos(e) \in Bound /\ Pos(f) \in Bound
        BY <3>3, <3>4, Places
      <3>7. Lt(Pos(e), t.low[w])
        BY <2>5, <3>2, <3>5, <3>6, Order
      <3> QED BY <2>5, <3>3, <3>4, <3>5, <3>6, <3>7, Order
    <2>8. /\ rest \in Seq(Entry) /\ Ascending(rest)
          /\ \A e : In(rest, e) <=> Beyond(e) /\ Wanted(lo, hi, e)
      <3>1. << >> \in Seq(Entry) /\ Ascending(<< >>) /\ \A e : ~In(<< >>, e)
        BY DEF Ascending, In
      <3>2. CASE ends(y)
        <4>1. PICK i \in DOMAIN node[y].entries : TooHigh(hi, node[y].entries[i].key)
          BY <3>2 DEF ScanEndsIn
        <4>2. ASSUME NEW e, Beyond(e) PROVE ~Wanted(lo, hi, e)
          <5>1. In(node[y].entries, node[y].entries[i])
            BY <4>1 DEF In
          <5>2. node[y].entries[i] \in Entry /\ e \in Entry /\ Lt(Pos(node[y].entries[i]), Pos(e))
            BY <2>7, <4>2, <5>1
          <5>3. TooHigh(hi, e.key)
            BY <4>1, <5>2, Limits
          <5> QED BY <5>3 DEF Wanted
        <4>3. rest = << >>
          BY <3>2
        <4> HIDE DEF rest, Beyond
        <4> QED BY <3>1, <4>2, <4>3
      <3>3. CASE ~ends(y)
        <4>0. rest = from[z]
          BY <3>3
        <4>1. CASE z = NoNode
          <5>1. from[z] = << >>
            BY <4>1
          <5>2. ASSUME NEW e PROVE ~Beyond(e)
            BY <2>2, <4>1 DEF IsOnward
          <5> HIDE DEF rest, Beyond
          <5> QED BY <3>1, <4>0, <5>1, <5>2
        <4>2. CASE z # NoNode
          <5>1. z \in DOMAIN node /\ Good(z)
            BY <1>2, <4>2
          <5>2. /\ \A w \in DOMAIN node : node[w].leaf =>
                      (~Lt(t.low[w], t.low[y]) <=> w = y \/ ~Lt(t.low[w], t.low[z]))
                /\ Lt(t.low[y], t.low[z])
            BY <2>2, <4>2 DEF IsOnward
          <5>3. ASSUME NEW e PROVE Beyond(e) <=> Onwards(node, t, z, e)
            BY <5>2 DEF Onwards
          <5> HIDE DEF rest, Beyond
          <5> QED BY <4>0, <5>1, <5>3
        <4> QED BY <4>1, <4>2
      <3> QED BY <3>2, <3>3
    <2> DEFINE a == scan(y)
    <2>9. a \in Seq(Entry) /\ Ascending(a)
          /\ (\A e : In(a, e) <=> In(node[y].entries, e) /\ Wanted(lo, hi, e)) /\ from[y] = a \o rest
      BY <2>1, <2>4
    <2> HIDE DEF a, rest, Beyond
    <2>10. \A e, f \in Entry : In(a, e) /\ In(rest, f) => Lt(Pos(e), Pos(f))
      BY <2>7, <2>8, <2>9
    <2>11. /\ a \o rest \in Seq(Entry) /\ Ascending(a \o rest)
           /\ \A e : In(a \o rest, e) <=> In(a, e) \/ In(rest, e)
      BY <2>8, <2>9, <2>10, Joined
    <2> QED BY <2>6, <2>8, <2>9, <2>11
  <1>3. \A y \in DOMAIN node : node[y].leaf /\ (node[y].next = NoNode \/ node[y].next \in G) => y \in G
    <2> HIDE DEF Good
    <2> QED BY <1>2
  <1> HIDE DEF Good
  <1>4. x \in G
    <2> HIDE DEF G
    <2> QED BY <1>3, LinkInduction
  <1> QED BY <1>4 DEF Good

\* rangeScan finds, in order, every entry of the tree that is in the range.
LEMMA RangeFound ==
    ASSUME NEW t, Whole(node, root, t), NEW lo \in Limit, NEW hi \in Limit
    PROVE  /\ RangeScan(lo, hi) \in Seq(Entry) /\ Ascending(RangeScan(lo, hi))
           /\ \A e : In(RangeScan(lo, hi), e) <=>
                 /\ Wanted(lo, hi, e)
                 /\ \E y \in DOMAIN node : node[y].leaf /\ In(node[y].entries, e)
  <1> DEFINE S == {NoNode} \cup DOMAIN node
             V == Seq(Entry)
             scan(y) == ScanLeaf(node[y].entries, lo, hi)
             ends(y) == ScanEndsIn(node[y].entries, lo, hi)
             Eq(f) == f = [id \in {NoNode} \cup DOMAIN node |->
                              IF id = NoNode THEN << >>
                              ELSE ScanLeaf(node[id].entries, lo, hi)
                                      \o (IF ScanEndsIn(node[id].entries, lo, hi) THEN << >>
                                          ELSE f[node[id].next])]
             comb == [z \in S \X V |-> IF z[1] = NoNode THEN << >>
                                       ELSE scan(z[1]) \o (IF ends(z[1]) THEN << >> ELSE z[2])]
             start == IF lo = Unbounded THEN FirstLeaf ELSE LeafFor([key |-> lo, rid |-> -1])
  <1>1. Typed(node, t) /\ Shape(node, root, t)
    BY DEF Whole, Shape
  <1>2. NoNode \notin DOMAIN node
    BY <1>1, NodeFacts DEF NoNode
  <1>3. \A y \in DOMAIN node : scan(y) \in V
    <2>1. ASSUME NEW y \in DOMAIN node PROVE scan(y) \in V
      <3>1. node[y].entries \in Seq(Entry) /\ Ascending(node[y].entries)
        BY <1>1, NodeFacts DEF Shape, Sorted
      <3> QED BY <3>1, LeafScanned
    <2> QED BY <2>1
  <1>4. << >> \in V
    OBVIOUS
  <1>5. comb \in [S \X V -> V]
    <2>1. ASSUME NEW y \in S, NEW v \in V
          PROVE  (IF y = NoNode THEN << >> ELSE scan(y) \o (IF ends(y) THEN << >> ELSE v)) \in V
      <3>1. CASE y = NoNode
        BY <1>4, <3>1
      <3>2. CASE y # NoNode
        <4>1. scan(y) \in V /\ (IF ends(y) THEN << >> ELSE v) \in V
          BY <1>3, <1>4, <3>2
        <4> DEFINE a == scan(y)
                   b == IF ends(y) THEN << >> ELSE v
        <4>2. a \in Seq(Entry) /\ b \in Seq(Entry)
          BY <4>1
        <4> HIDE DEF a, b
        <4>3. a \o b \in V
          BY <4>2, ConcatProperties
        <4> QED BY <3>2, <4>3 DEF a, b
      <3> QED BY <3>1, <3>2
    <2> HIDE DEF scan, ends, S, V
    <2> QED BY <2>1
  <1> HIDE DEF scan, ends
  <1>6. PICK f \in [S -> V] :
           f[NoNode] = << >> /\ \A x \in DOMAIN node : f[x] = comb[<<x, f[node[x].next]>>]
    <2> HIDE DEF comb, V, S
    <2>1. comb \in [({NoNode} \cup DOMAIN node) \X V -> V]
      BY <1>5 DEF S
    <2> DEFINE v0 == << >>
    <2>2. v0 \in V
      BY <1>4
    <2> HIDE DEF v0
    <2>3. PICK f : Looped(f, node, V, v0, comb)
      <3>1. IsLinkLoop(node, V, v0, comb)
        BY <2>1, <2>2 DEF IsLinkLoop
      <3> QED BY <3>1, LinkRecursion
    <2> QED BY <2>3 DEF v0, S, Looped
  <1>7. \A x \in DOMAIN node : f[x] = scan(x) \o (IF ends(x) THEN << >> ELSE f[node[x].next])
    <2>1. SUFFICES ASSUME NEW x \in DOMAIN node
                   PROVE  f[x] = scan(x) \o (IF ends(x) THEN << >> ELSE f[node[x].next])
      OBVIOUS
    <2>2. node[x].next \in S
      <3>1. PICK rank \in [S -> Nat] : \A y \in DOMAIN node : node[y].next \in S
        BY LinkRank
      <3> QED BY <3>1
    <2> DEFINE z == <<x, f[node[x].next]>>
    <2>3. z \in S \X V /\ z[1] = x /\ z[2] = f[node[x].next] /\ x # NoNode
      BY <1>2, <1>6, <2>2
    <2>4. f[x] = comb[z]
      BY <1>6
    <2> HIDE DEF z
    <2> QED BY <2>3, <2>4
  <1>8. Eq(f)
    <2>1. f = [id \in S |-> f[id]]
      BY <1>6
    <2>2. \A id \in S : f[id] = IF id = NoNode THEN << >>
                                ELSE scan(id) \o (IF ends(id) THEN << >> ELSE f[node[id].next])
      BY <1>2, <1>6, <1>7
    <2> QED BY <2>1, <2>2 DEF scan, ends
  <1> DEFINE F == CHOOSE g : Eq(g)
  <1>9. Eq(F)
    <2> HIDE DEF Eq
    <2> QED BY <1>8
  <1>10. root # NoNode
    BY HasRoot
  <1>11. RangeScan(lo, hi) = F[start]
    BY <1>10 DEF RangeScan
  <1> HIDE DEF F
  <1>12. /\ start \in DOMAIN node /\ node[start].leaf
         /\ \A y \in DOMAIN node : \A e : node[y].leaf /\ In(node[y].entries, e) /\ Wanted(lo, hi, e)
               => ~Lt(t.low[y], t.low[start])
    <2>1. CASE lo = Unbounded
      <3>1. start = FirstLeaf
        BY <2>1
      <3>2. start \in DOMAIN node /\ node[start].leaf /\ t.low[start] = Bottom
        BY <3>1, FirstLeafFound
      <3>3. \A y \in DOMAIN node : ~Lt(t.low[y], Bottom)
        BY <1>1, NodeFacts, Places
      <3> QED BY <3>2, <3>3
    <2>2. CASE lo # Unbounded
      <3> DEFINE p == [key |-> lo, rid |-> -1]
      <3>1. lo \in Values /\ p \in Probe /\ p.key = lo /\ p.rid = -1
        BY <2>2 DEF Limit, Probe
      <3>2. start = LeafFor(p)
        BY <2>2
      <3> HIDE DEF p
      <3>3. start \in DOMAIN node /\ node[start].leaf /\ Inside(t, start, Pos(p))
        BY <3>1, <3>2, LeafFound
      <3> HIDE DEF start
      <3>4. ASSUME NEW y \in DOMAIN node, NEW e, node[y].leaf, In(node[y].entries, e),
                   Wanted(lo, hi, e), Lt(t.low[y], t.low[start])
            PROVE  FALSE
        <4>1. IsOnward(node, t, start)
          BY <3>3, Onward
        <4>2. ~Lt(t.low[start], t.high[y])
          BY <3>4, <4>1 DEF IsOnward
        <4>3. e \in Entry /\ Inside(t, y, Pos(e))
          BY <3>4, LeafOf DEF In
        <4>4. Pos(e) \in Bound /\ Pos(p) \in Bound /\ t.high[y] \in Bound /\ t.low[start] \in Bound
          BY <1>1, <3>1, <3>3, <4>3, NodeFacts, Places
        <4>5. Lt(Pos(e), t.high[y]) /\ ~Lt(Pos(p), t.low[start])
          BY <3>3, <4>3 DEF Inside
        <4>6. Lt(Pos(e), t.low[start])
          BY <4>2, <4>4, <4>5, Order
        <4>7. Lt(Pos(e), Pos(p))
          BY <4>4, <4>5, <4>6, Order
        <4>8. e.key.rank \in Nat /\ lo.rank \in Nat /\ e.rid \in Nat
          BY <3>1, <4>3, Limits, TreeAssumption DEF Entry
        <4>9. e.key.rank < lo.rank
          BY <3>1, <4>7, <4>8 DEF Lt, Pos
        <4>10. TooLow(lo, e.key)
          BY <3>1, <4>9, Limits
        <4> QED BY <3>4, <4>10 DEF Wanted
      <3> QED BY <3>3, <3>4
    <2> QED BY <2>1, <2>2
  <1> HIDE DEF start
  <1>13. /\ F[start] \in Seq(Entry) /\ Ascending(F[start])
         /\ \A e : In(F[start], e) <=> Onwards(node, t, start, e) /\ Wanted(lo, hi, e)
    BY <1>9, <1>12, LeavesScanned
  <1>14. ASSUME NEW e, Wanted(lo, hi, e)
         PROVE Onwards(node, t, start, e) <=>
                  \E y \in DOMAIN node : node[y].leaf /\ In(node[y].entries, e)
    BY <1>12, <1>14 DEF Onwards
  <1> QED BY <1>11, <1>13, <1>14

\* The leaves from x on, each behind the one before.
IsChain(s, nd, t, x) ==
    /\ s \in Seq(DOMAIN nd)
    /\ \A y : In(s, y) <=> y \in DOMAIN nd /\ nd[y].leaf /\ ~Lt(t.low[y], t.low[x])
    /\ \A i, j \in DOMAIN s : i < j => ~Lt(t.low[s[j]], t.high[s[i]])

\* A leaf in front of a chain makes a chain.
LEMMA ChainStep ==
    ASSUME NEW nd, NEW rt, NEW t, Whole(nd, rt, t), NEW x \in DOMAIN nd, nd[x].leaf,
           NEW s, IF nd[x].next = NoNode THEN s = << >> ELSE IsChain(s, nd, t, nd[x].next)
    PROVE  IsChain(<<x>> \o s, nd, t, x)
  <1> DEFINE u == <<x>> \o s
             z == nd[x].next
  <1>1. IsOnward(nd, t, x)
    BY Onward
  <1>2. t.low[x] \in Bound
    <2>1. Typed(nd, t)
      BY DEF Whole, Shape
    <2> QED BY <2>1, NodeFacts
  <1>3. ~Lt(t.low[x], t.low[x])
    BY <1>2, Order
  <1>4. s \in Seq(DOMAIN nd)
    <2>1. CASE z = NoNode
      <3>1. s = << >>
        BY <2>1
      <3> QED BY <3>1
    <2>2. CASE z # NoNode
      BY <2>2 DEF IsChain
    <2> QED BY <2>1, <2>2
  <1>5. \A y : In(s, y) <=> y \in DOMAIN nd /\ nd[y].leaf /\ ~Lt(t.low[y], t.low[x]) /\ y # x
    <2>1. CASE z = NoNode
      <3>1. \A y : ~In(s, y)
        BY <2>1 DEF In
      <3> QED BY <1>1, <2>1, <3>1 DEF IsOnward
    <2>2. CASE z # NoNode
      <3>1. \A y : In(s, y) <=> y \in DOMAIN nd /\ nd[y].leaf /\ ~Lt(t.low[y], t.low[z])
        BY <2>2 DEF IsChain
      <3>2. \A w \in DOMAIN nd : nd[w].leaf =>
               (~Lt(t.low[w], t.low[x]) <=> w = x \/ ~Lt(t.low[w], t.low[z]))
        BY <1>1, <2>2 DEF IsOnward
      <3>3. Lt(t.low[x], t.low[z])
        BY <1>1, <2>2 DEF IsOnward
      <3> HIDE DEF z
      <3> QED BY <3>1, <3>2, <3>3
    <2> QED BY <2>1, <2>2
  <1>6. \A i, j \in DOMAIN s : i < j => ~Lt(t.low[s[j]], t.high[s[i]])
    BY DEF IsChain
  <1>7. Len(s) \in Nat /\ DOMAIN s = 1 .. Len(s)
    BY <1>4
  <1>8. u \in Seq(DOMAIN nd) /\ Len(u) = Len(s) + 1 /\ DOMAIN u = 1 .. Len(s) + 1
        /\ \A i \in 1 .. Len(s) + 1 : \/ i = 1 /\ u[i] = x
                                      \/ i # 1 /\ i - 1 \in 1 .. Len(s) /\ u[i] = s[i - 1]
    <2>1. <<x>> \in Seq(DOMAIN nd) /\ Len(<<x>>) = 1 /\ <<x>>[1] = x
      OBVIOUS
    <2> DEFINE a == <<x>>
    <2>2. a \in Seq(DOMAIN nd) /\ Len(a) = 1 /\ a[1] = x
      BY <2>1
    <2> HIDE DEF a
    <2>3. a \o s \in Seq(DOMAIN nd) /\ Len(a \o s) = 1 + Len(s)
          /\ \A i \in 1 .. 1 + Len(s) : (a \o s)[i] = IF i <= 1 THEN a[i] ELSE s[i - 1]
      <3>1. /\ a \o s \in Seq(DOMAIN nd) /\ Len(a \o s) = Len(a) + Len(s)
            /\ \A i \in 1 .. Len(a) + Len(s) :
                  (a \o s)[i] = IF i <= Len(a) THEN a[i] ELSE s[i - Len(a)]
        <4> DEFINE D == DOMAIN nd
        <4>1. s \in Seq(D) /\ a \in Seq(D)
          BY <1>4, <2>2
        <4> HIDE DEF D
        <4>2. /\ a \o s \in Seq(D) /\ Len(a \o s) = Len(a) + Len(s)
              /\ \A i \in 1 .. Len(a) + Len(s) :
                    (a \o s)[i] = IF i <= Len(a) THEN a[i] ELSE s[i - Len(a)]
          BY ONLY <4>1, ConcatProperties
        <4> QED BY <4>2 DEF D
      <3> QED BY <2>2, <3>1
    <2> DEFINE c == a \o s
    <2>4. c \in Seq(DOMAIN nd) /\ Len(c) = Len(s) + 1 /\ DOMAIN c = 1 .. Len(s) + 1
          /\ \A i \in 1 .. Len(s) + 1 : c[i] = IF i <= 1 THEN a[i] ELSE s[i - 1]
      <3>1. 1 + Len(s) = Len(s) + 1
        BY <1>7
      <3>2. DOMAIN c = 1 .. Len(c)
        BY <2>3
      <3> HIDE DEF c
      <3> QED BY <2>3, <3>1, <3>2 DEF c
    <2> HIDE DEF c
    <2>5. \A i \in 1 .. Len(s) + 1 : (i = 1 /\ i <= 1) \/ (i # 1 /\ ~(i <= 1) /\ i - 1 \in 1 .. Len(s))
      BY <1>7
    <2>6. u = c
      BY DEF a, c
    <2> HIDE DEF u
    <2> QED BY <2>2, <2>4, <2>5, <2>6
  <1> HIDE DEF u, z
  <1>9. ASSUME NEW y PROVE In(u, y) <=> y = x \/ In(s, y)
    <2>1. ASSUME In(u, y) PROVE y = x \/ In(s, y)
      BY <1>7, <1>8, <2>1 DEF In
    <2>2. In(u, x)
      <3>1. 1 \in DOMAIN u /\ 1 \in 1 .. Len(s) + 1
        BY <1>7, <1>8
      <3> QED BY <1>8, <3>1 DEF In
    <2>3. ASSUME In(s, y) PROVE In(u, y)
      <3>1. PICK i \in 1 .. Len(s) : s[i] = y
        BY <1>7, <2>3 DEF In
      <3> DEFINE k == i + 1
      <3>2. k \in 1 .. Len(s) + 1 /\ k # 1 /\ k - 1 = i
        BY <1>7
      <3> HIDE DEF k
      <3>3. u[k] = s[i]
        BY <1>8, <3>2
      <3> QED BY <1>8, <3>1, <3>2, <3>3 DEF In
    <2> QED BY <2>1, <2>2, <2>3
  <1>10. ASSUME NEW i \in 1 .. Len(s) + 1, NEW j \in 1 .. Len(s) + 1, i < j
         PROVE  ~Lt(t.low[u[j]], t.high[u[i]])
    <2>1. j # 1 /\ j - 1 \in 1 .. Len(s) /\ u[j] = s[j - 1]
      <3>1. j # 1
        BY <1>7, <1>10
      <3> QED BY <1>8, <3>1
    <2>2. CASE i = 1
      <3>1. u[i] = x
        BY <1>8, <2>2
      <3>2. In(s, u[j])
        BY <1>7, <2>1 DEF In
      <3>3. u[j] \in DOMAIN nd /\ nd[u[j]].leaf /\ ~Lt(t.low[u[j]], t.low[x]) /\ u[j] # x
        BY <1>5, <3>2
      <3> QED BY <1>1, <3>1, <3>3 DEF IsOnward
    <2>3. CASE i # 1
      <3>1. i - 1 \in 1 .. Len(s) /\ u[i] = s[i - 1]
        BY <1>8, <2>3
      <3>2. i - 1 < j - 1
        BY <1>7, <1>10
      <3> QED BY <1>6, <1>7, <2>1, <3>1, <3>2
    <2> QED BY <2>2, <2>3
  <1>11. \A y : In(u, y) <=> y \in DOMAIN nd /\ nd[y].leaf /\ ~Lt(t.low[y], t.low[x])
    BY <1>3, <1>5, <1>9
  <1> QED BY <1>8, <1>10, <1>11 DEF IsChain, u

\* The links lead from the first leaf through all of them.
LEMMA ChainFound ==
    ASSUME NEW t, Whole(node, root, t)
    PROVE  IsChain(Chain, node, t, FirstLeaf)
  <1> DEFINE S == {NoNode} \cup DOMAIN node
             V == Seq({NoNode} \cup DOMAIN node)
             Eq(f) == f = [id \in {NoNode} \cup DOMAIN node |->
                              IF id = NoNode THEN << >> ELSE <<id>> \o f[node[id].next]]
             comb == [z \in S \X V |-> <<z[1]>> \o z[2]]
             v0 == << >>
  <1>1. Typed(node, t)
    BY DEF Whole, Shape
  <1>2. NoNode \notin DOMAIN node
    BY <1>1, NodeFacts DEF NoNode
  <1>3. v0 \in V
    OBVIOUS
  <1>4. comb \in [S \X V -> V]
    <2>1. ASSUME NEW y \in S, NEW v \in V PROVE <<y>> \o v \in V
      <3>1. <<y>> \in V
        OBVIOUS
      <3> QED BY <3>1, ConcatProperties
    <2> HIDE DEF S, V
    <2> QED BY <2>1
  <1>5. PICK f : Looped(f, node, V, v0, comb)
    <2> HIDE DEF comb, V, v0
    <2>1. IsLinkLoop(node, V, v0, comb)
      BY <1>3, <1>4 DEF IsLinkLoop
    <2> QED BY <2>1, LinkRecursion
  <1>6. f \in [S -> V] /\ f[NoNode] = << >> /\ \A x \in DOMAIN node : f[x] = comb[<<x, f[node[x].next]>>]
    BY <1>5 DEF Looped
  <1>7. \A x \in DOMAIN node : f[x] = <<x>> \o f[node[x].next]
    <2>1. SUFFICES ASSUME NEW x \in DOMAIN node PROVE f[x] = <<x>> \o f[node[x].next]
      OBVIOUS
    <2>2. node[x].next \in S
      <3>1. PICK rank \in [S -> Nat] : \A y \in DOMAIN node : node[y].next \in S
        BY LinkRank
      <3> QED BY <3>1
    <2> DEFINE z == <<x, f[node[x].next]>>
    <2>3. z \in S \X V /\ z[1] = x /\ z[2] = f[node[x].next]
      BY <1>6, <2>2
    <2>4. f[x] = comb[z]
      BY <1>6
    <2> HIDE DEF z
    <2> QED BY <2>3, <2>4
  <1>8. Eq(f)
    <2>1. f = [id \in S |-> f[id]]
      BY <1>6
    <2>2. \A id \in S : f[id] = IF id = NoNode THEN << >> ELSE <<id>> \o f[node[id].next]
      BY <1>2, <1>6, <1>7
    <2> QED BY <2>1, <2>2
  <1> DEFINE F == CHOOSE g : Eq(g)
  <1>9. Eq(F)
    <2> HIDE DEF Eq
    <2> QED BY <1>8
  <1>10. root # NoNode
    BY HasRoot
  <1>11. Chain = F[FirstLeaf]
    BY <1>10 DEF Chain
  <1> HIDE DEF F
  <1>12. F[NoNode] = << >> /\ \A x \in DOMAIN node : F[x] = <<x>> \o F[node[x].next]
    BY <1>2, <1>9
  <1> DEFINE G == {y \in DOMAIN node : IsChain(F[y], node, t, y)}
  <1>13. ASSUME NEW x \in DOMAIN node, node[x].leaf, node[x].next = NoNode \/ node[x].next \in G
         PROVE  x \in G
    <2>1. F[x] = <<x>> \o F[node[x].next]
      BY <1>12
    <2>2. IF node[x].next = NoNode THEN F[node[x].next] = << >>
          ELSE IsChain(F[node[x].next], node, t, node[x].next)
      BY <1>12, <1>13
    <2>3. IsChain(<<x>> \o F[node[x].next], node, t, x)
      BY <1>13, <2>2, ChainStep
    <2> QED BY <2>1, <2>3
  <1>14. FirstLeaf \in DOMAIN node /\ node[FirstLeaf].leaf
    BY FirstLeafFound
  <1>15. FirstLeaf \in G
    <2> HIDE DEF G
    <2> QED BY <1>13, <1>14, LinkInduction
  <1> QED BY <1>11, <1>15

\* What the shape says of the types of a tree's nodes.
LEMMA ShapeTypes ==
    ASSUME NEW nd, NEW rt, NEW t, Shape(nd, rt, t)
    PROVE  /\ rt \in DOMAIN nd
           /\ \A id \in DOMAIN nd :
                 /\ nd[id].entries \in Seq(Entry)
                 /\ nd[id].next \in {NoNode} \cup DOMAIN nd
                 /\ nd[id].leaf => nd[id].children = << >>
                 /\ ~nd[id].leaf => Len(nd[id].children) = Len(nd[id].entries) + 1
                 /\ ToSet(nd[id].children) \subseteq DOMAIN nd
  <1>1. rt \in DOMAIN nd /\ Typed(nd, t)
    BY DEF Shape, Rooted
  <1>2. ASSUME NEW id \in DOMAIN nd
        PROVE  /\ nd[id].entries \in Seq(Entry)
               /\ nd[id].next \in {NoNode} \cup DOMAIN nd
               /\ nd[id].leaf => nd[id].children = << >>
               /\ ~nd[id].leaf => Len(nd[id].children) = Len(nd[id].entries) + 1
               /\ ToSet(nd[id].children) \subseteq DOMAIN nd
    <2>1. nd[id].entries \in Seq(Entry)
      BY <1>1, NodeFacts
    <2>2. CASE nd[id].leaf
      <3>1. Linked(nd, t, id)
        BY <2>2 DEF Shape
      <3>2. ToSet(<< >>) = {}
        BY DEF ToSet
      <3> QED BY <2>1, <2>2, <3>1, <3>2 DEF Linked
    <2>3. CASE ~nd[id].leaf
      <3>1. Slots(nd, t, id)
        BY <2>3 DEF Shape
      <3>2. ToSet(nd[id].children) \subseteq DOMAIN nd
        BY <3>1 DEF Slots, ToSet
      <3> QED BY <2>1, <2>3, <3>1, <3>2 DEF Slots
    <2> QED BY <2>2, <2>3
  <1> QED BY <1>1, <1>2

\* The types of a tree's pages follow from its shape, between calls and in a split.
LEMMA TreeTypes == TreeInv => TreeTypeOK
  <1>1. SUFFICES ASSUME TreeInv PROVE TreeTypeOK
    OBVIOUS
  <1>2. CASE root = NoNode
    <2>1. node = << >> /\ path = << >>
      BY <1>1, <1>2 DEF TreeInv, TreeOK
    <2>2. DOMAIN node = {} /\ path \in Seq({})
      BY <2>1
    <2> QED BY <1>2, <2>2 DEF TreeTypeOK
  <1>3. CASE root # NoNode
    <2>1. path \in Seq(DOMAIN node) /\ \E t : Shape(node, root, t)
      <3>1. CASE up = Idle
        <4>1. path = << >> /\ \E t : Whole(node, root, t)
          BY <1>1, <1>3, <3>1 DEF TreeInv, TreeOK
        <4>2. << >> \in Seq(DOMAIN node)
          OBVIOUS
        <4> QED BY <4>1, <4>2 DEF Whole
      <3>2. CASE up # Idle
        <4>1. \E t, l : Torn(node, root, t, l, up.child, up.entry, path)
          BY <1>1, <1>3, <3>2 DEF TreeInv, TreeOK
        <4> QED BY <4>1 DEF Torn
      <3> QED BY <3>1, <3>2
    <2>2. PICK t : Shape(node, root, t)
      BY <2>1
    <2> QED BY <2>1, <2>2, ShapeTypes DEF TreeTypeOK
  <1> QED BY <1>2, <1>3

\* Between calls the tree is a search tree.
LEMMA Sound == TreeInv => TreeSound
  <1>1. SUFFICES ASSUME TreeInv PROVE TreeSound
    OBVIOUS
  <1>2. TreeTypeOK /\ \A id \in DOMAIN node : Fits(node[id])
    BY <1>1, TreeTypes DEF TreeInv, TreeOK, AllFit
  <1>3. ASSUME TreeIdle
        PROVE  /\ \A i \in DOMAIN Chain : InOrder(node[Chain[i]].entries)
               /\ \A i, j \in DOMAIN Chain : i < j =>
                     \A e \in ToSet(node[Chain[i]].entries), f \in ToSet(node[Chain[j]].entries) :
                        EntryLess(e, f)
               /\ ToSet(Chain) = {id \in DOMAIN node : node[id].leaf}
               /\ \A id \in ToSet(Chain) :
                     \A i \in DOMAIN node[id].entries : LeafFor(node[id].entries[i]) = id
    <2>1. CASE root = NoNode
      <3>1. node = << >>
        BY <1>1, <2>1 DEF TreeInv, TreeOK
      <3>2. Chain = << >>
        BY <2>1 DEF Chain
      <3>3. DOMAIN Chain = {} /\ ToSet(Chain) = {} /\ DOMAIN node = {}
        BY <3>1, <3>2 DEF ToSet
      <3> QED BY <3>3
    <2>2. CASE root # NoNode
      <3>1. PICK t : Whole(node, root, t)
        BY <1>1, <1>3, <2>2 DEF TreeInv, TreeOK, TreeIdle
      <3> DEFINE s == Chain
      <3>2. IsChain(s, node, t, FirstLeaf) /\ t.low[FirstLeaf] = Bottom
        BY <3>1, ChainFound, FirstLeafFound
      <3> HIDE DEF s
      <3>3. Typed(node, t)
        BY <3>1 DEF Whole, Shape
      <3>4. \A y \in DOMAIN node : t.low[y] \in Bound /\ t.high[y] \in Bound /\ ~Lt(t.low[y], Bottom)
        BY <3>3, NodeFacts, Places
      <3>5. \A y : In(s, y) <=> y \in DOMAIN node /\ node[y].leaf
        BY <3>2, <3>4 DEF IsChain
      <3>6. ToSet(s) = {id \in DOMAIN node : node[id].leaf}
        BY <3>5 DEF ToSet, In
      <3>7. \A i \in DOMAIN s : s[i] \in DOMAIN node /\ node[s[i]].leaf
        BY <3>5 DEF In
      <3>8. ASSUME NEW y \in DOMAIN node, node[y].leaf
            PROVE  /\ node[y].entries \in Seq(Entry) /\ Ascending(node[y].entries)
                   /\ \A i \in DOMAIN node[y].entries :
                         /\ node[y].entries[i] \in Entry /\ node[y].entries[i] \in Probe
                         /\ Inside(t, y, Pos(node[y].entries[i]))
        BY <3>1, <3>8, LeafOf, Places
      <3>9. ASSUME NEW i \in DOMAIN s PROVE InOrder(node[s[i]].entries)
        <4> DEFINE q == node[s[i]].entries
        <4>1. q \in Seq(Entry) /\ Ascending(q) /\ \A k \in DOMAIN q : q[k] \in Probe
          BY <3>7, <3>8
        <4> HIDE DEF q
        <4>2. ASSUME NEW k \in 1 .. Len(q) - 1 PROVE EntryLess(q[k], q[k + 1])
          <5>1. k \in DOMAIN q /\ k + 1 \in DOMAIN q /\ k < k + 1
            <6>1. Len(q) \in Nat /\ DOMAIN q = 1 .. Len(q)
              BY <4>1
            <6> QED BY <6>1
          <5>2. Lt(Pos(q[k]), Pos(q[k + 1]))
            BY <4>1, <5>1 DEF Ascending
          <5> QED BY <4>1, <5>1, <5>2, Places
        <4> QED BY <4>2 DEF InOrder, q
      <3>10. ASSUME NEW i \in DOMAIN s, NEW j \in DOMAIN s, i < j,
                    NEW e \in ToSet(node[s[i]].entries), NEW f \in ToSet(node[s[j]].entries)
             PROVE  EntryLess(e, f)
        <4>1. ~Lt(t.low[s[j]], t.high[s[i]])
          BY <3>2, <3>10 DEF IsChain
        <4>2. e \in Probe /\ Inside(t, s[i], Pos(e))
          BY <3>7, <3>8 DEF ToSet
        <4>3. f \in Probe /\ Inside(t, s[j], Pos(f))
          BY <3>7, <3>8 DEF ToSet
        <4>4. Pos(e) \in Bound /\ Pos(f) \in Bound
          BY <4>2, <4>3, Places
        <4>5. t.low[s[j]] \in Bound /\ t.high[s[i]] \in Bound
          BY <3>4, <3>7
        <4>6. Lt(Pos(e), t.low[s[j]])
          BY <4>1, <4>2, <4>4, <4>5, Order DEF Inside
        <4>7. Lt(Pos(e), Pos(f))
          BY <4>3, <4>4, <4>5, <4>6, Order DEF Inside
        <4> QED BY <4>2, <4>3, <4>7, Places
      <3>11. ASSUME NEW id \in ToSet(s), NEW i \in DOMAIN node[id].entries
             PROVE  LeafFor(node[id].entries[i]) = id
        <4>1. id \in DOMAIN node /\ node[id].leaf
          BY <3>6
        <4>2. node[id].entries[i] \in Probe /\ Inside(t, id, Pos(node[id].entries[i]))
          BY <3>8, <4>1
        <4> QED BY <3>1, <4>1, <4>2, LeafFound
      <3> QED BY <3>6, <3>9, <3>10, <3>11 DEF s
    <2> QED BY <2>1, <2>2
  <1> QED BY <1>2, <1>3 DEF TreeSound

----------------------------------------------------------------------------
(* The column.                                                             *)

\* The place of a row in the tree.
At(v, r) == [top |-> 0, rank |-> v.rank, rid |-> r]

\* Rows are under record ids that were given out, and what is still to be added are
\* rows.
HeapOK(h, us, td) ==
    /\ h \in [Rids -> Values \cup {NoRow}] /\ us \subseteq Rids
    /\ \A r \in Rids : h[r] # NoRow => r \in us
    /\ td \subseteq Entry
    /\ \A e \in td : h[e.rid] # NoRow /\ KeyEqual(e.key, h[e.rid])
    /\ \A e, f \in td : e.rid = f.rid => e = f

\* The tree holds the rows, but for those a MODIFY or a rebuild has still to add.
Indexed(nd, h, td) ==
    \A p : Holds(nd, p) <=>
        \E r \in Rids : h[r] # NoRow /\ p = At(h[r], r) /\ \A e \in td : e.rid # r

\* The filter was given them too, as the literals they were written with.
Filtered(h, td, bl, literals) ==
    /\ \A r \in Rids : h[r] # NoRow => h[r] \in literals
    /\ \A r \in Rids : h[r] # NoRow => KeyBytes(h[r]) \in bl \/ \E e \in td : e.rid = r
    /\ \A e \in td : e.key = h[e.rid]

\* No two rows are equal, NULLs apart.
Different(h) ==
    \A q, r \in Rids :
        h[q] # NoRow /\ h[r] # NoRow /\ h[q] # Null /\ KeyEqual(h[q], h[r]) => q = r

\* The invariant of the column.
ColumnInv ==
    /\ scenario \in Scenarios
    /\ HeapOK(heap, used, todo)
    /\ Indexed(node, heap, todo)
    /\ Keyed(scenario) =>
          /\ Filtered(heap, todo, bloom, scenario.literals)
          /\ scenario.unique => Different(heap)

\* Tuple::serialize keeps the order of the values.
LEMMA StoredFacts ==
    ASSUME ColumnInv, NEW v \in scenario.literals
    PROVE  /\ v \in Values /\ v # NoRow
           /\ Stored(v) \in Values /\ Stored(v) # NoRow /\ Stored(v).rank = v.rank
           /\ Keyed(scenario) => Stored(v) = v
           /\ v.rank = 0 => v = Null
  <1>1. scenario \in Scenario
    BY IndexAssumption DEF ColumnInv
  <1>2. v \in Values /\ v # NoRow
    BY <1>1, IndexAssumption DEF Scenario
  <1>3. v \in Value
    BY <1>2, TreeAssumption
  <1>4. v.rank = 0 => v = Null
    BY <1>2, IndexAssumption DEF Null
  <1>5. CASE scenario.float /\ v.type = "Int"
    <2>1. Stored(v) = [v EXCEPT !.type = "Double"]
      BY <1>5 DEF Stored
    <2>2. [v EXCEPT !.type = "Double"] \in Values
      BY <1>2, <1>5, IndexAssumption
    <2>3. [v EXCEPT !.type = "Double"].rank = v.rank
      BY <1>3 DEF Value
    <2>4. ~Keyed(scenario)
      BY <1>5 DEF Keyed
    <2> QED BY <1>2, <1>4, <2>1, <2>2, <2>3, <2>4, IndexAssumption
  <1>6. CASE ~(scenario.float /\ v.type = "Int")
    <2>1. Stored(v) = v
      BY <1>6 DEF Stored
    <2> QED BY <1>2, <1>4, <2>1
  <1> QED BY <1>5, <1>6

\* The place of an entry is that of its row.
LEMMA PlaceOf ==
    /\ \A v, r : Pos([key |-> v, rid |-> r]) = At(v, r)
    /\ \A v, w, q, r : At(v, q) = At(w, r) <=> v.rank = w.rank /\ q = r
    /\ \A e \in Entry : Pos(e) = At(e.key, e.rid)
  BY DEF Pos, At

\* The rows that an index scan finds.
LEMMA Agrees ==
    ASSUME TreeInv, ColumnInv, Quiet
    PROVE  RangesAgree /\ (Keyed(scenario) => LookupsAgree)
  <1>1. todo = {} /\ up = Idle
    BY DEF Quiet, TreeIdle
  <1>2. scenario.literals \subseteq Values
    BY IndexAssumption DEF ColumnInv, Scenario
  <1>3. ASSUME NEW r PROVE r \in Rows <=> r \in Rids /\ heap[r] # NoRow
    BY DEF Rows
  <1>4. ASSUME NEW p
        PROVE  Holds(node, p) <=> \E r \in Rows : p = At(heap[r], r)
    <2>1. Indexed(node, heap, {})
      BY <1>1 DEF ColumnInv
    <2> QED BY <1>3, <2>1 DEF Indexed
  <1>5. ASSUME NEW lo \in Limit, NEW hi \in Limit
        PROVE  /\ {e.rid : e \in ToSet(RangeScan(lo, hi))} =
                     {r \in Rows : ~TooLow(lo, heap[r]) /\ ~TooHigh(hi, heap[r])}
               /\ InOrder(RangeScan(lo, hi))
    <2>1. CASE root = NoNode
      <3>1. node = << >>
        BY <2>1 DEF TreeInv, TreeOK
      <3>2. RangeScan(lo, hi) = << >>
        BY <2>1 DEF RangeScan
      <3>3. \A p : ~Holds(node, p)
        BY <3>1 DEF Holds
      <3>4. Rows = {}
        BY <1>4, <3>3
      <3>5. ToSet(<< >>) = {}
        BY DEF ToSet
      <3>6. InOrder(<< >>)
        BY DEF InOrder
      <3> QED BY <3>2, <3>4, <3>5, <3>6
    <2>2. CASE root # NoNode
      <3>1. PICK t : Whole(node, root, t)
        BY <1>1, <2>2 DEF TreeInv, TreeOK
      <3> DEFINE s == RangeScan(lo, hi)
      <3>2. /\ s \in Seq(Entry) /\ Ascending(s)
            /\ \A e : In(s, e) <=>
                  Wanted(lo, hi, e) /\ \E y \in DOMAIN node : node[y].leaf /\ In(node[y].entries, e)
        BY <3>1, RangeFound
      <3> HIDE DEF s
      <3>3. Len(s) \in Nat /\ DOMAIN s = 1 .. Len(s) /\ \A i \in DOMAIN s : s[i] \in Entry
        BY <3>2
      <3>4. ToSet(s) = {e \in Entry : In(s, e)}
        BY <3>3 DEF ToSet, In
      <3>5. ASSUME NEW e \in Entry, In(s, e)
            PROVE  e.rid \in Rows /\ ~TooLow(lo, heap[e.rid]) /\ ~TooHigh(hi, heap[e.rid])
        <4>1. Holds(node, Pos(e))
          BY <3>2, <3>5 DEF Holds, Has, In
        <4>2. PICK r \in Rows : At(e.key, e.rid) = At(heap[r], r)
          BY <1>4, <4>1, PlaceOf
        <4>3. r = e.rid /\ heap[r].rank = e.key.rank
          BY <4>2, PlaceOf
        <4>4. Wanted(lo, hi, e)
          BY <3>2, <3>5
        <4> QED BY <4>2, <4>3, <4>4 DEF Wanted, TooLow, TooHigh
      <3>6. ASSUME NEW r \in Rows, ~TooLow(lo, heap[r]), ~TooHigh(hi, heap[r])
            PROVE  \E e \in Entry : In(s, e) /\ e.rid = r
        <4>1. PICK y \in DOMAIN node : node[y].leaf /\ Has(node[y].entries, At(heap[r], r))
          BY <1>4 DEF Holds
        <4>2. PICK i \in DOMAIN node[y].entries : Pos(node[y].entries[i]) = At(heap[r], r)
          BY <4>1 DEF Has
        <4> DEFINE e == node[y].entries[i]
        <4>3. e \in Entry /\ In(node[y].entries, e)
          BY <3>1, <4>1, LeafOf DEF In
        <4> HIDE DEF e
        <4>4. At(e.key, e.rid) = At(heap[r], r)
          BY <4>2, <4>3, PlaceOf DEF e
        <4>5. e.rid = r /\ e.key.rank = heap[r].rank
          BY <4>4, PlaceOf
        <4>6. Wanted(lo, hi, e)
          BY <3>6, <4>5 DEF Wanted, TooLow, TooHigh
        <4> QED BY <3>2, <4>1, <4>3, <4>5, <4>6
      <3>7. {e.rid : e \in ToSet(s)} = {r \in Rows : ~TooLow(lo, heap[r]) /\ ~TooHigh(hi, heap[r])}
        BY <3>4, <3>5, <3>6
      <3>8. InOrder(s)
        <4>1. ASSUME NEW k \in 1 .. Len(s) - 1 PROVE EntryLess(s[k], s[k + 1])
          <5>1. k \in DOMAIN s /\ k + 1 \in DOMAIN s /\ k < k + 1
            BY <3>3
          <5>2. Lt(Pos(s[k]), Pos(s[k + 1]))
            BY <3>2, <5>1 DEF Ascending
          <5> QED BY <3>3, <5>1, <5>2, Places
        <4> QED BY <4>1 DEF InOrder
      <3> QED BY <3>7, <3>8 DEF s
    <2> QED BY <2>1, <2>2
  <1>6. RangesAgree
    <2>1. (scenario.literals \ {Null}) \cup {Unbounded} \subseteq Limit
      BY <1>2 DEF Limit
    <2> QED BY <1>5, <2>1 DEF RangesAgree
  <1>7. ASSUME Keyed(scenario), NEW v \in scenario.literals \ {Null}, NEW found \in Lookups(v),
               NEW r \in Rows, KeyEqual(heap[r], v)
        PROVE  r \in found
    <2>1. heap[r] \in scenario.literals /\ KeyBytes(heap[r]) \in bloom
      BY <1>1, <1>3, <1>7 DEF ColumnInv, Filtered
    <2>2. KeyBytes(v) \in bloom
      BY <1>7, <2>1 DEF Keyed
    <2>3. MightContain(v) = {TRUE}
      BY <2>2 DEF MightContain
    <2>4. found = {e.rid : e \in ToSet(RangeScan(v, v))}
      BY <2>3 DEF Lookups, TreeLookup
    <2>5. v \in Limit /\ v.rank \in Nat
      BY <1>2, TreeAssumption DEF Limit, Value
    <2>6. ~TooLow(v, heap[r]) /\ ~TooHigh(v, heap[r])
      BY <1>7, <2>5 DEF TooLow, TooHigh, KeyEqual
    <2> QED BY <1>5, <2>4, <2>5, <2>6
  <1> QED BY <1>6, <1>7 DEF LookupsAgree

\* What enforceConstraints has made sure of when it lets a value pass.
LEMMA NoDuplicate ==
    ASSUME TreeInv, ColumnInv, Quiet, Keyed(scenario), scenario.unique,
           NEW v \in scenario.literals, NEW except, Allowed(v, except),
           NEW r \in Rids, heap[r] # NoRow, r # except, v # Null
    PROVE  ~KeyEqual(heap[r], v)
  <1>1. PICK found \in Lookups(v) : ~Exists(v, found, except)
    BY DEF Allowed
  <1>2. SUFFICES ASSUME KeyEqual(heap[r], v) PROVE FALSE
    OBVIOUS
  <1>3. r \in Rows
    BY DEF Rows
  <1>4. LookupsAgree
    BY Agrees
  <1>5. r \in found
    BY <1>2, <1>3, <1>4 DEF LookupsAgree
  <1> QED BY <1>1, <1>2, <1>5 DEF Exists

\* A value written to a column without one equal to it.
LEMMA StillDifferent ==
    ASSUME NEW h, NEW g, NEW r \in Rids, NEW v, v.rank = 0 => v = Null,
           \A q \in Rids : g[q] = NoRow \/ g[q] = h[q] \/ q = r,
           g[r] = v, Different(h),
           \A q \in Rids : g[q] # NoRow /\ g[q] = h[q] /\ q # r => g[q].rank # v.rank \/ v = Null,
           \A q \in Rids : g[q] # NoRow /\ g[q].rank = Null.rank => g[q] = Null
    PROVE  Different(g)
  <1>1. SUFFICES ASSUME NEW p \in Rids, NEW q \in Rids,
                        g[p] # NoRow, g[q] # NoRow, g[p] # Null, KeyEqual(g[p], g[q])
                 PROVE  p = q
    BY DEF Different
  <1>2. g[p].rank = g[q].rank /\ g[p].rank # Null.rank /\ g[q] # Null
    BY <1>1 DEF KeyEqual
  <1>3. CASE p # r /\ q # r
    BY <1>1, <1>3 DEF Different
  <1>4. CASE p = r /\ q # r
    BY <1>1, <1>2, <1>4
  <1>5. CASE p # r /\ q = r
    BY <1>1, <1>2, <1>5
  <1> QED BY <1>3, <1>4, <1>5

\* A value in the place of NULL is NULL.
LEMMA OnlyNull ==
    ASSUME NEW x \in Values, x.rank = Null.rank
    PROVE  x = Null
  BY IndexAssumption DEF Null

\* PUT.
LEMMA PutStep ==
    ASSUME PagesSuffice, TreeInv, ColumnInv, NEW v \in scenario.literals, NEW r \in Fresh, Put(v, r)
    PROVE  TreeInv' /\ ColumnInv'
  <1> DEFINE e == [key |-> v, rid |-> r]
  <1>1. r \in Rids /\ r \notin used
    BY DEF Fresh
  <1>2. HeapOK(heap, used, todo) /\ heap[r] = NoRow
    BY <1>1 DEF ColumnInv, HeapOK
  <1>3. Quiet /\ scenario' = scenario /\ todo' = todo /\ todo = {}
    BY DEF Put, Statement, Quiet
  <1>4. /\ v \in Values /\ Stored(v) \in Values /\ Stored(v) # NoRow /\ Stored(v).rank = v.rank
        /\ Keyed(scenario) => Stored(v) = v
        /\ v.rank = 0 => v = Null
    BY StoredFacts
  <1>5. heap' = [heap EXCEPT ![r] = Stored(v)] /\ used' = used \cup {r}
        /\ TreeInsert(e) /\ bloom' = bloom \cup {KeyBytes(v)}
    BY DEF Put, Add
  <1>6. e \in Entry /\ Pos(e) = At(v, r)
    BY <1>1, <1>4, PlaceOf DEF Entry
  <1> HIDE DEF e
  <1>7. TreeInv' /\ \A p : Holds(node', p) <=> Holds(node, p) \/ p = At(v, r)
    BY <1>5, <1>6, InsertStep
  <1> DEFINE x == Stored(v)
  <1>8. /\ x \in Values /\ x # NoRow /\ x.rank = v.rank /\ (Keyed(scenario) => x = v)
        /\ heap' = [heap EXCEPT ![r] = x]
    BY <1>4, <1>5
  <1> HIDE DEF x
  <1>9. heap \in [Rids -> Values \cup {NoRow}]
    BY <1>2 DEF HeapOK
  <1>10. heap' \in [Rids -> Values \cup {NoRow}] /\ heap'[r] = x
         /\ \A q \in Rids : q # r => heap'[q] = heap[q]
    BY <1>1, <1>8, <1>9
  <1>11. HeapOK(heap', used', todo')
    BY <1>1, <1>2, <1>3, <1>5, <1>10 DEF HeapOK
  <1>12. Indexed(node', heap', todo')
    <2>1. SUFFICES ASSUME NEW p
                   PROVE  Holds(node', p) <=> \E q \in Rids : heap'[q] # NoRow /\ p = At(heap'[q], q)
      BY <1>3 DEF Indexed
    <2>2. Holds(node, p) <=> \E q \in Rids : heap[q] # NoRow /\ p = At(heap[q], q)
      BY <1>3 DEF ColumnInv, Indexed
    <2>3. At(x, r) = At(v, r)
      BY <1>8, PlaceOf
    <2> QED BY <1>1, <1>2, <1>7, <1>8, <1>10, <2>2, <2>3
  <1>13. ASSUME Keyed(scenario)
         PROVE  Filtered(heap', todo', bloom', scenario.literals)
    <2>1. Filtered(heap, {}, bloom, scenario.literals)
      BY <1>3, <1>13 DEF ColumnInv
    <2>2. x = v
      BY <1>8, <1>13
    <2>3. ASSUME NEW q \in Rids, heap'[q] # NoRow
          PROVE  heap'[q] \in scenario.literals /\ KeyBytes(heap'[q]) \in bloom'
      <3>1. CASE q = r
        BY <1>5, <1>10, <2>2, <3>1
      <3>2. CASE q # r
        BY <1>5, <1>10, <2>1, <2>3, <3>2 DEF Filtered
      <3> QED BY <3>1, <3>2
    <2> QED BY <1>3, <2>3 DEF Filtered
  <1>14. ASSUME Keyed(scenario), scenario.unique
         PROVE  Different(heap')
    <2>1. Different(heap) /\ x = v
      BY <1>8, <1>14 DEF ColumnInv
    <2>2. ASSUME NEW q \in Rids, heap'[q] # NoRow, q # r, v # Null PROVE heap'[q].rank # v.rank
      <3>1. q # -1
        BY TreeAssumption
      <3>2. heap[q] # NoRow /\ Allowed(v, -1)
        BY <1>10, <2>2 DEF Put
      <3>3. ~KeyEqual(heap[q], v)
        BY <1>3, <1>14, <2>2, <3>1, <3>2, NoDuplicate
      <3> QED BY <1>10, <2>2, <3>3 DEF KeyEqual
    <2>3. \A q \in Rids : heap'[q] # NoRow /\ heap'[q].rank = Null.rank => heap'[q] = Null
      BY <1>10, OnlyNull
    <2> DEFINE g == heap'
    <2>4. /\ \A q \in Rids : g[q] = NoRow \/ g[q] = heap[q] \/ q = r
          /\ g[r] = v
          /\ \A q \in Rids : g[q] # NoRow /\ g[q] = heap[q] /\ q # r => g[q].rank # v.rank \/ v = Null
          /\ \A q \in Rids : g[q] # NoRow /\ g[q].rank = Null.rank => g[q] = Null
      BY <1>10, <2>1, <2>2, <2>3
    <2> HIDE DEF g
    <2>5. Different(g)
      BY <1>1, <1>4, <2>1, <2>4, StillDifferent
    <2> QED BY <2>5 DEF g
  <1>15. scenario \in Scenarios
    BY DEF ColumnInv
  <1> QED BY <1>3, <1>7, <1>11, <1>12, <1>13, <1>14, <1>15 DEF ColumnInv

\* REMOVE.
LEMMA RemoveStep ==
    ASSUME TreeInv, ColumnInv, NEW r \in Rows, RemoveRow(r)
    PROVE  TreeInv' /\ ColumnInv'
  <1> DEFINE e == [key |-> heap[r], rid |-> r]
  <1>1. r \in Rids /\ heap[r] # NoRow
    BY DEF Rows
  <1>2. HeapOK(heap, used, todo)
    BY DEF ColumnInv
  <1>3. Quiet /\ scenario' = scenario /\ todo' = todo /\ todo = {} /\ used' = used /\ bloom' = bloom
    BY DEF RemoveRow, Statement, Quiet, Forget
  <1>4. heap \in [Rids -> Values \cup {NoRow}] /\ heap[r] \in Values
    BY <1>1, <1>2 DEF HeapOK
  <1>5. heap' = [heap EXCEPT ![r] = NoRow] /\ TreeErase(e)
    BY DEF RemoveRow, Forget
  <1>6. e \in Entry /\ Pos(e) = At(heap[r], r)
    BY <1>1, <1>4, PlaceOf DEF Entry
  <1> HIDE DEF e
  <1>7. TreeInv' /\ \A p : Holds(node', p) <=> Holds(node, p) /\ p # At(heap[r], r)
    BY <1>5, <1>6, EraseStep
  <1>8. heap' \in [Rids -> Values \cup {NoRow}] /\ heap'[r] = NoRow
        /\ \A q \in Rids : q # r => heap'[q] = heap[q]
    BY <1>1, <1>4, <1>5
  <1>9. HeapOK(heap', used', todo')
    BY <1>2, <1>3, <1>8 DEF HeapOK
  <1>10. Indexed(node', heap', todo')
    <2>1. SUFFICES ASSUME NEW p
                   PROVE  Holds(node', p) <=> \E q \in Rids : heap'[q] # NoRow /\ p = At(heap'[q], q)
      BY <1>3 DEF Indexed
    <2>2. Holds(node, p) <=> \E q \in Rids : heap[q] # NoRow /\ p = At(heap[q], q)
      BY <1>3 DEF ColumnInv, Indexed
    <2>3. \A q \in Rids : q # r => At(heap[q], q) # At(heap[r], r)
      BY PlaceOf
    <2> QED BY <1>1, <1>7, <1>8, <2>2, <2>3
  <1>11. ASSUME Keyed(scenario) PROVE Filtered(heap', todo', bloom', scenario.literals)
    <2>1. Filtered(heap, {}, bloom, scenario.literals)
      BY <1>3, <1>11 DEF ColumnInv
    <2> QED BY <1>3, <1>8, <2>1 DEF Filtered
  <1>12. ASSUME Keyed(scenario), scenario.unique PROVE Different(heap')
    <2>1. Different(heap)
      BY <1>12 DEF ColumnInv
    <2> QED BY <1>8, <2>1 DEF Different
  <1>13. scenario \in Scenarios
    BY DEF ColumnInv
  <1> QED BY <1>3, <1>7, <1>9, <1>10, <1>11, <1>12, <1>13 DEF ColumnInv

\* MODIFY, up to where it adds the new value.
LEMMA ModifyStep ==
    ASSUME TreeInv, ColumnInv, NEW v \in scenario.literals, NEW r \in Rows, NEW to \in Fresh \cup {r},
           Modify(v, r, to)
    PROVE  TreeInv' /\ ColumnInv'
  <1> DEFINE e == [key |-> heap[r], rid |-> r]
  <1>1. r \in Rids /\ heap[r] # NoRow
    BY DEF Rows
  <1>2. HeapOK(heap, used, todo)
    BY DEF ColumnInv
  <1>3. to \in Rids /\ (to = r \/ heap[to] = NoRow)
    BY <1>1, <1>2 DEF Fresh, HeapOK
  <1>4. Quiet /\ scenario' = scenario /\ todo = {} /\ used' = used \cup {to} /\ bloom' = bloom
        /\ todo' = {[key |-> v, rid |-> to]}
    BY DEF Modify, Statement, Quiet, Forget
  <1>5. heap \in [Rids -> Values \cup {NoRow}] /\ heap[r] \in Values
    BY <1>1, <1>2 DEF HeapOK
  <1>6. heap' = [[heap EXCEPT ![r] = NoRow] EXCEPT ![to] = Stored(v)] /\ TreeErase(e)
    BY DEF Modify, Forget
  <1>7. e \in Entry /\ Pos(e) = At(heap[r], r)
    BY <1>1, <1>5, PlaceOf DEF Entry
  <1> HIDE DEF e
  <1>8. TreeInv' /\ \A p : Holds(node', p) <=> Holds(node, p) /\ p # At(heap[r], r)
    BY <1>6, <1>7, EraseStep
  <1>9. /\ v \in Values /\ Stored(v) \in Values /\ Stored(v) # NoRow /\ Stored(v).rank = v.rank
        /\ Keyed(scenario) => Stored(v) = v
        /\ v.rank = 0 => v = Null
    BY StoredFacts
  <1> DEFINE x == Stored(v)
  <1>10. /\ x \in Values /\ x # NoRow /\ x.rank = v.rank /\ (Keyed(scenario) => x = v)
         /\ heap' = [[heap EXCEPT ![r] = NoRow] EXCEPT ![to] = x]
    BY <1>6, <1>9
  <1> HIDE DEF x
  <1>11. heap' \in [Rids -> Values \cup {NoRow}] /\ heap'[to] = x
         /\ (r # to => heap'[r] = NoRow)
         /\ \A q \in Rids : q # r /\ q # to => heap'[q] = heap[q]
    BY <1>1, <1>3, <1>5, <1>10
  <1> DEFINE f == [key |-> v, rid |-> to]
  <1>12. todo' = {f} /\ f.key = v /\ f.rid = to /\ f \in Entry
    BY <1>3, <1>4, <1>9 DEF Entry
  <1> HIDE DEF f
  <1>13. HeapOK(heap', used', todo')
    <2>1. used' \subseteq Rids /\ \A q \in Rids : heap'[q] # NoRow => q \in used'
      BY <1>2, <1>3, <1>4, <1>11 DEF HeapOK
    <2>2. heap'[f.rid] # NoRow /\ KeyEqual(f.key, heap'[f.rid])
      BY <1>10, <1>11, <1>12 DEF KeyEqual
    <2> QED BY <1>11, <1>12, <2>1, <2>2 DEF HeapOK
  <1>14. Indexed(node', heap', todo')
    <2>1. SUFFICES ASSUME NEW p
                   PROVE  Holds(node', p) <=>
                             \E q \in Rids : heap'[q] # NoRow /\ p = At(heap'[q], q) /\ to # q
      BY <1>12 DEF Indexed
    <2>2. Holds(node, p) <=> \E q \in Rids : heap[q] # NoRow /\ p = At(heap[q], q)
      BY <1>4 DEF ColumnInv, Indexed
    <2>3. \A q \in Rids : q # r => At(heap[q], q) # At(heap[r], r)
      BY PlaceOf
    <2>4. \A q \in Rids : (heap'[q] # NoRow /\ to # q) <=> (heap[q] # NoRow /\ q # r)
      BY <1>1, <1>3, <1>11
    <2>5. \A q \in Rids : heap'[q] # NoRow /\ to # q => heap'[q] = heap[q]
      BY <1>11
    <2> QED BY <1>8, <2>2, <2>3, <2>4, <2>5
  <1>15. ASSUME Keyed(scenario) PROVE Filtered(heap', todo', bloom', scenario.literals)
    <2>1. Filtered(heap, {}, bloom, scenario.literals)
      BY <1>4, <1>15 DEF ColumnInv
    <2>2. ASSUME NEW q \in Rids, heap'[q] # NoRow
          PROVE  heap'[q] \in scenario.literals /\ (KeyBytes(heap'[q]) \in bloom' \/ f.rid = q)
      <3>1. CASE q = to
        BY <1>10, <1>11, <1>12, <1>15, <3>1
      <3>2. CASE q # to
        <4>1. heap'[q] = heap[q]
          BY <1>11, <2>2, <3>2
        <4> QED BY <1>4, <2>1, <2>2, <4>1 DEF Filtered
      <3> QED BY <3>1, <3>2
    <2>3. f.key = heap'[f.rid]
      BY <1>10, <1>11, <1>12, <1>15
    <2> QED BY <1>12, <2>2, <2>3 DEF Filtered
  <1>16. ASSUME Keyed(scenario), scenario.unique PROVE Different(heap')
    <2>1. Different(heap) /\ x = v
      BY <1>10, <1>16 DEF ColumnInv
    <2>2. ASSUME NEW q \in Rids, heap'[q] # NoRow, q # to, v # Null PROVE heap'[q].rank # v.rank
      <3>1. q # r /\ heap'[q] = heap[q] /\ heap[q] # NoRow /\ Allowed(v, r)
        BY <1>11, <2>2 DEF Modify
      <3>2. ~KeyEqual(heap[q], v)
        BY <1>4, <1>16, <2>2, <3>1, NoDuplicate
      <3> QED BY <3>1, <3>2 DEF KeyEqual
    <2>3. \A q \in Rids : heap'[q] # NoRow /\ heap'[q].rank = Null.rank => heap'[q] = Null
      BY <1>11, OnlyNull
    <2> DEFINE g == heap'
    <2>4. /\ \A q \in Rids : g[q] = NoRow \/ g[q] = heap[q] \/ q = to
          /\ g[to] = v
          /\ \A q \in Rids : g[q] # NoRow /\ g[q] = heap[q] /\ q # to => g[q].rank # v.rank \/ v = Null
          /\ \A q \in Rids : g[q] # NoRow /\ g[q].rank = Null.rank => g[q] = Null
      BY <1>11, <2>1, <2>2, <2>3
    <2> HIDE DEF g
    <2>5. Different(g)
      BY <1>3, <1>9, <2>1, <2>4, StillDifferent
    <2> QED BY <2>5 DEF g
  <1>17. scenario \in Scenarios
    BY DEF ColumnInv
  <1> QED BY <1>4, <1>8, <1>13, <1>14, <1>15, <1>16, <1>17 DEF ColumnInv

\* BUILD INDEX and the start of the program: nothing is in the new tree.
LEMMA RebuildStep ==
    ASSUME TreeInv, ColumnInv, Rebuild
    PROVE  TreeInv' /\ ColumnInv'
  <1>1. /\ todo = {} /\ up = Idle /\ node' = << >> /\ root' = NoNode /\ bloom' = {}
        /\ todo' = {[key |-> heap[r], rid |-> r] : r \in Rows}
        /\ path' = path /\ up' = up /\ scenario' = scenario /\ heap' = heap /\ used' = used
    BY DEF Rebuild, Quiet, TreeIdle
  <1>2. path = << >>
    BY <1>1 DEF TreeInv, TreeOK
  <1>3. TreeInv'
    <2>1. AllFit(<< >>)
      BY DEF AllFit
    <2> QED BY <1>1, <1>2, <2>1 DEF TreeInv, TreeOK
  <1>4. HeapOK(heap, used, todo) /\ heap \in [Rids -> Values \cup {NoRow}]
    BY DEF ColumnInv, HeapOK
  <1>5. Rows = {r \in Rids : heap[r] # NoRow}
    BY DEF Rows
  <1> DEFINE row(r) == [key |-> heap[r], rid |-> r]
  <1>6. \A r \in Rows : row(r) \in Entry /\ row(r).key = heap[r] /\ row(r).rid = r
    BY <1>4, <1>5 DEF Entry
  <1>7. (\A e \in todo' : \E r \in Rows : e = row(r)) /\ \A r \in Rows : row(r) \in todo'
    BY <1>1
  <1> HIDE DEF row
  <1>8. /\ \A e \in todo' : e \in Entry /\ e.rid \in Rows /\ e.key = heap[e.rid]
        /\ \A e, f \in todo' : e.rid = f.rid => e = f
        /\ \A r \in Rows : \E e \in todo' : e.rid = r
    BY <1>6, <1>7
  <1>9. HeapOK(heap', used', todo')
    BY <1>1, <1>4, <1>5, <1>8 DEF HeapOK, KeyEqual
  <1>10. Indexed(node', heap', todo')
    <2>1. \A p : ~Holds(<< >>, p)
      BY DEF Holds
    <2>2. \A r \in Rids : heap[r] # NoRow => ~ \A e \in todo' : e.rid # r
      BY <1>5, <1>8
    <2> QED BY <1>1, <2>1, <2>2 DEF Indexed
  <1>11. ASSUME Keyed(scenario) PROVE Filtered(heap', todo', bloom', scenario.literals)
    <2>1. Filtered(heap, {}, bloom, scenario.literals)
      BY <1>1, <1>11 DEF ColumnInv
    <2>2. \A r \in Rids : heap[r] # NoRow => heap[r] \in scenario.literals
      BY <2>1 DEF Filtered
    <2>3. \A r \in Rids : heap[r] # NoRow => \E e \in todo' : e.rid = r
      BY <1>5, <1>8
    <2> QED BY <1>1, <1>8, <2>2, <2>3 DEF Filtered
  <1>12. scenario \in Scenarios /\ (Keyed(scenario) /\ scenario.unique => Different(heap))
    BY DEF ColumnInv
  <1> QED BY <1>1, <1>3, <1>9, <1>10, <1>11, <1>12 DEF ColumnInv

\* The next entry a MODIFY or a rebuild adds.
LEMMA AddNextStep ==
    ASSUME PagesSuffice, TreeInv, ColumnInv, AddNext
    PROVE  TreeInv' /\ ColumnInv'
  <1>1. PICK e \in todo : Add(e.key, e.rid) /\ todo' = todo \ {e}
    BY DEF AddNext
  <1>2. scenario' = scenario /\ heap' = heap /\ used' = used
    BY DEF AddNext
  <1>3. HeapOK(heap, used, todo) /\ Indexed(node, heap, todo)
    BY DEF ColumnInv
  <1>4. e \in Entry /\ heap[e.rid] # NoRow /\ KeyEqual(e.key, heap[e.rid])
        /\ \A f \in todo : f.rid = e.rid => f = e
    BY <1>3 DEF HeapOK
  <1>5. e = [key |-> e.key, rid |-> e.rid] /\ e.rid \in Rids
    BY <1>4 DEF Entry
  <1>6. TreeInsert(e) /\ bloom' = bloom \cup {KeyBytes(e.key)}
    BY <1>1, <1>5 DEF Add
  <1>7. TreeInv' /\ \A p : Holds(node', p) <=> Holds(node, p) \/ p = Pos(e)
    BY <1>4, <1>6, InsertStep
  <1>8. Pos(e) = At(heap[e.rid], e.rid)
    BY <1>4, PlaceOf DEF KeyEqual
  <1>9. HeapOK(heap', used', todo')
    BY <1>1, <1>2, <1>3 DEF HeapOK
  <1>10. Indexed(node', heap', todo')
    <2>1. SUFFICES ASSUME NEW p
                   PROVE  Holds(node', p) <=> \E r \in Rids : heap[r] # NoRow /\ p = At(heap[r], r)
                                                 /\ \A f \in todo \ {e} : f.rid # r
      BY <1>1, <1>2 DEF Indexed
    <2>2. Holds(node, p) <=> \E r \in Rids : heap[r] # NoRow /\ p = At(heap[r], r)
                                                 /\ \A f \in todo : f.rid # r
      BY <1>3 DEF Indexed
    <2>3. \A r \in Rids : (\A f \in todo \ {e} : f.rid # r) <=> (\A f \in todo : f.rid # r) \/ r = e.rid
      BY <1>1, <1>4
    <2> QED BY <1>4, <1>5, <1>7, <1>8, <2>2, <2>3
  <1>11. ASSUME Keyed(scenario) PROVE Filtered(heap', todo', bloom', scenario.literals)
    <2>1. Filtered(heap, todo, bloom, scenario.literals)
      BY <1>11 DEF ColumnInv
    <2>2. e.key = heap[e.rid]
      BY <1>1, <2>1 DEF Filtered
    <2>3. ASSUME NEW r \in Rids, heap[r] # NoRow
          PROVE  KeyBytes(heap[r]) \in bloom' \/ \E f \in todo \ {e} : f.rid = r
      <3>1. CASE r = e.rid
        BY <1>6, <2>2, <3>1
      <3>2. CASE r # e.rid
        BY <1>6, <2>1, <2>3, <3>2 DEF Filtered
      <3> QED BY <3>1, <3>2
    <2>4. (\A f \in todo \ {e} : f.key = heap[f.rid])
          /\ \A r \in Rids : heap[r] # NoRow => heap[r] \in scenario.literals
      BY <2>1 DEF Filtered
    <2> QED BY <1>1, <1>2, <2>3, <2>4 DEF Filtered
  <1>12. scenario \in Scenarios /\ (Keyed(scenario) /\ scenario.unique => Different(heap))
    BY DEF ColumnInv
  <1> QED BY <1>2, <1>7, <1>9, <1>10, <1>11, <1>12 DEF ColumnInv

\* A split that goes on, and a step of something else.
LEMMA ClimbStep ==
    ASSUME PagesSuffice, TreeInv, ColumnInv, Climb
    PROVE  TreeInv' /\ ColumnInv'
  <1>1. TreeInv' /\ \A p : Holds(node', p) <=> Holds(node, p)
    BY AscendStep DEF Climb
  <1>2. scenario' = scenario /\ heap' = heap /\ used' = used /\ bloom' = bloom /\ todo' = todo
    BY DEF Climb
  <1>3. Indexed(node', heap', todo')
    <2>1. Indexed(node, heap, todo)
      BY DEF ColumnInv
    <2>2. Indexed(node', heap, todo)
      BY <1>1, <2>1 DEF Indexed
    <2> QED BY <1>2, <2>2
  <1>4. /\ scenario \in Scenarios /\ HeapOK(heap, used, todo)
        /\ Keyed(scenario) => /\ Filtered(heap, todo, bloom, scenario.literals)
                              /\ scenario.unique => Different(heap)
    BY DEF ColumnInv
  <1> QED BY <1>1, <1>2, <1>3, <1>4 DEF ColumnInv

\* A step of something else.
LEMMA StutterStep ==
    ASSUME TreeInv, ColumnInv, UNCHANGED vars
    PROVE  TreeInv' /\ ColumnInv'
  <1>1. node' = node /\ root' = root /\ path' = path /\ up' = up /\ scenario' = scenario
        /\ heap' = heap /\ used' = used /\ bloom' = bloom /\ todo' = todo
    BY DEF vars, treeVars
  <1>2. TreeInv'
    BY <1>1 DEF TreeInv
  <1>3. ColumnInv'
    BY <1>1 DEF ColumnInv
  <1> QED BY <1>2, <1>3

\* At the start the tree is empty, and so is the heap.
LEMMA ColumnInit == Init => TreeInv /\ ColumnInv
  <1>1. SUFFICES ASSUME Init PROVE TreeInv /\ ColumnInv
    OBVIOUS
  <1>2. node = << >> /\ root = NoNode /\ path = << >> /\ up = Idle /\ scenario \in Scenarios
        /\ heap = [r \in Rids |-> NoRow] /\ used = {} /\ bloom = {} /\ todo = {}
    BY <1>1 DEF Init, TreeInit
  <1>3. TreeInv
    <2>1. AllFit(<< >>)
      BY DEF AllFit
    <2> QED BY <1>2, <2>1 DEF TreeInv, TreeOK
  <1>4. \A r \in Rids : heap[r] = NoRow
    BY <1>2
  <1>5. HeapOK(heap, used, todo)
    BY <1>2, <1>4 DEF HeapOK
  <1>6. Indexed(node, heap, todo)
    <2>1. \A p : ~Holds(<< >>, p)
      BY DEF Holds
    <2> QED BY <1>2, <1>4, <2>1 DEF Indexed
  <1>7. Filtered(heap, todo, bloom, scenario.literals) /\ Different(heap)
    BY <1>2, <1>4 DEF Filtered, Different
  <1> QED BY <1>2, <1>3, <1>5, <1>6, <1>7 DEF ColumnInv

\* Every statement, and every step in between, keeps both invariants.
LEMMA ColumnNext ==
    ASSUME PagesSuffice, TreeInv /\ ColumnInv, [Next]_vars
    PROVE  (TreeInv /\ ColumnInv)'
  <1>1. TreeInv /\ ColumnInv
    OBVIOUS
  <1>2. ASSUME NEW v \in scenario.literals, NEW r \in Fresh, Put(v, r) PROVE (TreeInv /\ ColumnInv)'
    BY <1>1, <1>2, PutStep
  <1>3. ASSUME NEW v \in scenario.literals, NEW r \in Rows, NEW to \in Fresh \cup {r}, Modify(v, r, to)
        PROVE  (TreeInv /\ ColumnInv)'
    BY <1>1, <1>3, ModifyStep
  <1>4. ASSUME NEW r \in Rows, RemoveRow(r) PROVE (TreeInv /\ ColumnInv)'
    BY <1>1, <1>4, RemoveStep
  <1>5. CASE Rebuild
    BY <1>1, <1>5, RebuildStep
  <1>6. CASE AddNext
    BY <1>1, <1>6, AddNextStep
  <1>7. CASE Climb
    BY <1>1, <1>7, ClimbStep
  <1>8. CASE UNCHANGED vars
    BY <1>1, <1>8, StutterStep
  <1> QED BY <1>2, <1>3, <1>4, <1>5, <1>6, <1>7, <1>8 DEF Next

\* The inductive invariant: the tree is a search tree, whole or with one split under
\* way (TreeInv), and holds the rows of the heap but for those that a MODIFY or a
\* rebuild has still to add (ColumnInv).
LEMMA ColumnInvariant ==
    ASSUME PagesSuffice
    PROVE  Spec => [](TreeInv /\ ColumnInv)
  <1>1. Init => TreeInv /\ ColumnInv
    BY ColumnInit
  <1>2. TreeInv /\ ColumnInv /\ [Next]_vars => (TreeInv /\ ColumnInv)'
    BY ColumnNext
  <1> QED BY <1>1, <1>2, PTL DEF Spec

\* Whatever is inserted and erased, the tree of disk_bplus_tree.cpp is a search tree
\* between calls, and every page that insert() writes fits: the leaf links meet all
\* leaves, in ascending order, and findLeaf comes down where an entry is.  The pages
\* must suffice for the values.
THEOREM TreeIsSound ==
    ASSUME PagesSuffice
    PROVE  Spec => []TreeSound
  <1>1. TreeInv /\ ColumnInv => TreeSound
    BY Sound
  <1> QED BY <1>1, ColumnInvariant, PTL

\* Between statements the index finds what a scan of the heap finds, by range and by
\* value behind the Bloom filter, for a column whose literals the filter can tell
\* apart as the tree does.
THEOREM IndexFindsRows ==
    ASSUME PagesSuffice
    PROVE  Spec => [](Keyed(scenario) => IndexAgrees)
  <1>1. TreeInv /\ ColumnInv => (Keyed(scenario) => IndexAgrees)
    BY Agrees DEF IndexAgrees
  <1> QED BY <1>1, ColumnInvariant, PTL

\* Range scans do not ask the filter: they find exactly the rows in range, in order,
\* for every column, FLOAT ones with integer literals included.
THEOREM RangesAreExact ==
    ASSUME PagesSuffice
    PROVE  Spec => [](Quiet => RangesAgree)
  <1>1. TreeInv /\ ColumnInv => (Quiet => RangesAgree)
    BY Agrees
  <1> QED BY <1>1, ColumnInvariant, PTL

\* enforceConstraints, which asks the index in place of the heap, lets no duplicate
\* into a UNIQUE column: PUT, MODIFY, REMOVE and rebuilds in any order.
THEOREM UniqueColumns ==
    ASSUME PagesSuffice
    PROVE  Spec => [](Keyed(scenario) => UniqueHolds)
  <1>1. TreeInv /\ ColumnInv => (Keyed(scenario) => UniqueHolds)
    BY DEF ColumnInv, Different, UniqueHolds, Rows
  <1> QED BY <1>1, ColumnInvariant, PTL

============================================================================
