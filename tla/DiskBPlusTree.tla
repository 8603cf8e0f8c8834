--------------------------- MODULE DiskBPlusTree ---------------------------
(***************************************************************************)
(* The page-resident B+ tree (index/disk_bplus_tree.cpp).  An entry is a   *)
(* pair of a value and a record id, a node is one page, and a node is      *)
(* split in the middle of its entries when it has become longer than a     *)
(* page.  Pages are read and written through the buffer pool, which is     *)
(* transparent (module BufferPool), so a tree is a sequence of nodes.      *)
(*                                                                         *)
(* The calls hold the tree's mutex from beginning to end.  An insert that  *)
(* splits is one step for the leaf and one for every ancestor, as the loop *)
(* of insert() is; nobody looks at the tree in between.  distinctKeys_,    *)
(* which nothing but the tests reads, is left out, and so is a newPage     *)
(* that fails because every frame is pinned: allocNode does not look.      *)
(***************************************************************************)
EXTENDS Integers, SequencesExt

CONSTANTS
    PageSize,   \* PAGE_SIZE
    Values,     \* values that are indexed
    Rids        \* record ids

\* A value is its type, its place in the order of values (vm::valueLess; an Int
\* and a Double of one rank are equal), and the bytes encodeValue makes of it.
Value == [type : {"Null", "Int", "Double", "Text"}, rank : Nat, size : Nat]

ASSUME TreeAssumption ==
    /\ PageSize \in Nat
    /\ Rids \subseteq Nat
    /\ \A v \in Values : v \in Value

VARIABLES
    node,       \* the pages of the tree, in the order of their allocation
    root,       \* rootId_
    path,       \* ancestors insert() has still to go back to, the root first
    up          \* the entry and the page it has to put into the next one

treeVars == <<node, root, path, up>>

NoNode == 0
Idle == << >>
TreeIdle == up = Idle

Entry == [key : Values, rid : Rids]

Leaf(entries, next) ==
    [leaf |-> TRUE, next |-> next, entries |-> entries, children |-> << >>]
Inner(entries, children) ==
    [leaf |-> FALSE, next |-> NoNode, entries |-> entries, children |-> children]

TreeInit == node = << >> /\ root = NoNode /\ path = << >> /\ up = Idle

----------------------------------------------------------------------------
(* Order, size and position.                                               *)

KeyEqual(v, w) == v.rank = w.rank

\* entryLess: by value, then by record id.
EntryLess(e, f) ==
    e.key.rank < f.key.rank \/ (e.key.rank = f.key.rank /\ e.rid < f.rid)

SameEntry(e, f) == KeyEqual(e.key, f.key) /\ e.rid = f.rid

\* The bytes of the entries: for each a length of two bytes, the value, and a record
\* id of eight.
Bytes(entries) ==
    LET upTo[i \in 0 .. Len(entries)] ==
            IF i = 0 THEN 0 ELSE upTo[i - 1] + 2 + entries[i].key.size + 8
    IN  upTo[Len(entries)]

\* measure: the page header, the entries, four bytes per child.
Measure(n) == 8 + Bytes(n.entries) + 4 * Len(n.children)

Fits(n) == Measure(n) <= PageSize

\* The pages are long enough for the values: an entry of the longest value takes no
\* more bytes than few of the shortest, and a node with few of the longest fits.
\* Both halves of a node that is split in the middle of its entries fit then.
Roomy(few, short, long) ==
    /\ \A v \in Values : short <= 2 + v.size + 8 /\ 2 + v.size + 8 <= long
    /\ long <= few * short
    /\ 8 + few * long + 4 * (few + 1) <= PageSize

\* Entries of a sorted sequence that are less than e: e belongs behind them.
Before(entries, e) == Cardinality({i \in DOMAIN entries : EntryLess(entries[i], e)})

\* Mutant of ChildFor: an entry equal to a separator is looked for on its left.
MutantLeftOfSeparator(n, e) == n.children[1 + Before(n.entries, e)]

\* findLeaf, one level: the child in front of the first greater separator.
ChildFor(n, e) ==
    n.children[1 + Cardinality({i \in DOMAIN n.entries : ~EntryLess(e, n.entries[i])})]

\* findLeaf: the pages from the root to the leaf, the leaf included.
Descent(e) ==
    LET from[id \in DOMAIN node] ==
            IF node[id].leaf THEN <<id>>
            ELSE <<id>> \o from[ChildFor(node[id], e)]
    IN  from[root]

LeafFor(e) == Last(Descent(e))

\* firstLeaf.
FirstLeaf ==
    LET from[id \in DOMAIN node] ==
            IF node[id].leaf THEN id ELSE from[Head(node[id].children)]
    IN  from[root]

----------------------------------------------------------------------------
(* insert.                                                                 *)

\* What becomes of a leaf that is too long: its halves, the second one on a new
\* page, and the entry its parent needs to tell them apart.
LeftLeaf(n, right) == Leaf(SubSeq(n.entries, 1, Len(n.entries) \div 2), right)
RightLeaf(n) ==
    Leaf(SubSeq(n.entries, Len(n.entries) \div 2 + 1, Len(n.entries)), n.next)

\* The same for an inner node, whose middle entry moves up.
LeftInner(n) ==
    LET mid == Len(n.entries) \div 2
    IN  Inner(SubSeq(n.entries, 1, mid), SubSeq(n.children, 1, mid + 1))
RightInner(n) ==
    LET mid == Len(n.entries) \div 2
    IN  Inner(SubSeq(n.entries, mid + 2, Len(n.entries)),
              SubSeq(n.children, mid + 2, Len(n.children)))

\* The first entry of all: the root is a leaf.
InsertFirst(e) ==
    /\ root = NoNode
    /\ node' = Append(node, Leaf(<<e>>, NoNode))
    /\ root' = Len(node) + 1
    /\ UNCHANGED <<path, up>>

\* The leaf has the entry already: insert() returns.
Known(e) == \E f \in ToSet(node[LeafFor(e)].entries) : SameEntry(e, f)

\* The leaf with the entry in its place.
Extended(e) ==
    LET n == node[LeafFor(e)]
    IN  [n EXCEPT !.entries = InsertAt(@, Before(@, e) + 1, e)]

InsertFits(e) ==
    /\ root # NoNode
    /\ Fits(Extended(e))
    /\ node' = [node EXCEPT ![LeafFor(e)] = Extended(e)]
    /\ UNCHANGED <<root, path, up>>

InsertSplits(e) ==
    LET right == Len(node) + 1
        n == Extended(e)
    IN  /\ root # NoNode
        /\ ~Fits(n)
        /\ node' = Append([node EXCEPT ![LeafFor(e)] = LeftLeaf(n, right)],
                          RightLeaf(n))
        /\ path' = Front(Descent(e))
        /\ up' = [entry |-> Head(RightLeaf(n).entries), child |-> right]
        /\ UNCHANGED root

TreeInsert(e) ==
    /\ TreeIdle
    /\ IF root # NoNode /\ Known(e) THEN UNCHANGED treeVars
       ELSE InsertFirst(e) \/ InsertFits(e) \/ InsertSplits(e)

\* The parent with the new separator and child.
ParentExtended ==
    LET n == node[Last(path)]
        before == Before(n.entries, up.entry)
    IN  Inner(InsertAt(n.entries, before + 1, up.entry),
              InsertAt(n.children, before + 2, up.child))

ParentFits ==
    /\ ~TreeIdle /\ path # << >>
    /\ Fits(ParentExtended)
    /\ node' = [node EXCEPT ![Last(path)] = ParentExtended]
    /\ path' = << >> /\ up' = Idle
    /\ UNCHANGED root

ParentSplits ==
    LET n == ParentExtended
    IN  /\ ~TreeIdle /\ path # << >>
        /\ ~Fits(n)
        /\ node' = Append([node EXCEPT ![Last(path)] = LeftInner(n)], RightInner(n))
        /\ path' = Front(path)
        /\ up' = [entry |-> n.entries[Len(n.entries) \div 2 + 1],
                  child |-> Len(node) + 1]
        /\ UNCHANGED root

\* The root was split: a new one on top of it.
GrowRoot ==
    /\ ~TreeIdle /\ path = << >>
    /\ node' = Append(node, Inner(<<up.entry>>, <<root, up.child>>))
    /\ root' = Len(node) + 1
    /\ up' = Idle
    /\ UNCHANGED path

Ascend == ParentFits \/ ParentSplits \/ GrowRoot

----------------------------------------------------------------------------
(* erase, and the scans.                                                   *)

\* erase: the entry leaves its leaf, and nothing else changes.
TreeErase(e) ==
    /\ TreeIdle
    /\ IF root = NoNode THEN UNCHANGED treeVars
       ELSE LET leaf == LeafFor(e)
                hits == {i \in DOMAIN node[leaf].entries : SameEntry(e, node[leaf].entries[i])}
            IN  /\ IF hits = {} THEN UNCHANGED node
                   ELSE \E i \in hits :
                           /\ \A j \in hits : i <= j
                           /\ node' = [node EXCEPT ![leaf].entries = RemoveAt(@, i)]
                /\ UNCHANGED <<root, path, up>>

Unbounded == [type |-> "None", rank |-> 0, size |-> 0]
TooLow(lo, v) == lo # Unbounded /\ v.rank < lo.rank
TooHigh(hi, v) == hi # Unbounded /\ hi.rank < v.rank

\* rangeScan, one leaf: entries that are too low are passed over, the first one
\* that is too high ends the scan.
ScanEndsIn(entries, lo, hi) ==
    \E i \in DOMAIN entries : ~TooLow(lo, entries[i].key) /\ TooHigh(hi, entries[i].key)
ScanLeaf(entries, lo, hi) ==
    LET from[i \in 1 .. Len(entries) + 1] ==
            IF i > Len(entries) THEN << >>
            ELSE IF TooLow(lo, entries[i].key) THEN from[i + 1]
            ELSE IF TooHigh(hi, entries[i].key) THEN << >>
            ELSE <<entries[i]>> \o from[i + 1]
    IN  from[1]

\* rangeScan: from the leaf where lo would be, along the leaf links.  kMinRid is
\* below every record id.
RangeScan(lo, hi) ==
    LET start == IF lo = Unbounded THEN FirstLeaf ELSE LeafFor([key |-> lo, rid |-> -1])
        from[id \in {NoNode} \cup DOMAIN node] ==
            IF id = NoNode THEN << >>
            ELSE ScanLeaf(node[id].entries, lo, hi)
                    \o (IF ScanEndsIn(node[id].entries, lo, hi) THEN << >> ELSE from[node[id].next])
    IN  IF root = NoNode THEN << >> ELSE from[start]

\* lookup, with the entries rather than their record ids.
TreeLookup(key) == RangeScan(key, key)

----------------------------------------------------------------------------
\* The tree is well formed: nodes have entries and children that go together.
TreeTypeOK ==
    /\ \A id \in DOMAIN node :
          /\ node[id].entries \in Seq(Entry)
          /\ node[id].next \in {NoNode} \cup DOMAIN node
          /\ node[id].leaf => node[id].children = << >>
          /\ ~node[id].leaf => Len(node[id].children) = Len(node[id].entries) + 1
          /\ ToSet(node[id].children) \subseteq DOMAIN node
    /\ root \in {NoNode} \cup DOMAIN node
    /\ path \in Seq(DOMAIN node)

============================================================================
