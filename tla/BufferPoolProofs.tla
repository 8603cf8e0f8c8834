-------------------------- MODULE BufferPoolProofs --------------------------
(***************************************************************************)
(* Proofs about the buffer pool, for any number of frames, guards and      *)
(* pages.  IInv is inductive: the lists and the pins determine each other  *)
(* (FramesAccounted), the pins are the guards (GuardsPin), and the table   *)
(* is the inverse of the frames' page ids (TableExact), so the frame that  *)
(* acquireFrame takes is nobody's.                                         *)
(***************************************************************************)
EXTENDS BufferPool, FiniteSetTheorems, SequenceTheorems, TLAPS

----------------------------------------------------------------------------
(* The two lists.                                                          *)

\* touchUnpinned: the frame goes to the end of the list.
LEMMA AppendElement ==
    ASSUME NEW S, NEW s \in Seq(S), NEW e \in S, NoRepeats(s), e \notin Elements(s)
    PROVE  /\ Append(s, e) \in Seq(S)
           /\ NoRepeats(Append(s, e))
           /\ Elements(Append(s, e)) = Elements(s) \cup {e}
  <1>1. Append(s, e) \in Seq(S) /\ Len(Append(s, e)) = Len(s) + 1
    OBVIOUS
  <1>2. \A i \in 1 .. Len(s) : Append(s, e)[i] = s[i]
    OBVIOUS
  <1>3. Append(s, e)[Len(s) + 1] = e
    OBVIOUS
  <1>4. Len(s) \in Nat
    OBVIOUS
  <1>5. \A i \in 1 .. Len(s) : s[i] # e
    BY DEF Elements
  <1>6. NoRepeats(Append(s, e))
    BY <1>1, <1>2, <1>3, <1>4, <1>5 DEF NoRepeats
  <1>7. Elements(Append(s, e)) = Elements(s) \cup {e}
    BY <1>1, <1>2, <1>3, <1>4 DEF Elements
  <1> QED BY <1>1, <1>6, <1>7

\* acquireFrame: the victim leaves the front of the LRU list.
LEMMA TailElements ==
    ASSUME NEW S, NEW s \in Seq(S), s # << >>, NoRepeats(s)
    PROVE  /\ Head(s) \in S /\ Head(s) \in Elements(s)
           /\ Tail(s) \in Seq(S)
           /\ NoRepeats(Tail(s))
           /\ Elements(Tail(s)) = Elements(s) \ {Head(s)}
  <1>1. Len(s) \in Nat \ {0} /\ Head(s) = s[1] /\ s[1] \in S
    OBVIOUS
  <1>2. Tail(s) \in Seq(S) /\ Len(Tail(s)) = Len(s) - 1
    OBVIOUS
  <1>3. \A i \in 1 .. Len(s) - 1 : Tail(s)[i] = s[i + 1]
    OBVIOUS
  <1>4. NoRepeats(Tail(s))
    BY <1>1, <1>2, <1>3 DEF NoRepeats
  <1>5. Elements(Tail(s)) = {s[i] : i \in 2 .. Len(s)}
    <2>1. ASSUME NEW i \in 1 .. Len(s) - 1 PROVE i + 1 \in 2 .. Len(s)
      BY <1>1
    <2>2. ASSUME NEW i \in 2 .. Len(s) PROVE i - 1 \in 1 .. Len(s) - 1 /\ (i - 1) + 1 = i
      BY <1>1
    <2> QED BY <1>2, <1>3, <2>1, <2>2 DEF Elements
  <1>6. Elements(s) \ {s[1]} = {s[i] : i \in 2 .. Len(s)}
    BY <1>1 DEF Elements, NoRepeats
  <1>7. s[1] \in Elements(s)
    BY <1>1 DEF Elements
  <1> QED BY <1>1, <1>2, <1>4, <1>5, <1>6, <1>7

\* acquireFrame: a frame leaves the back of the free list.
LEMMA FrontElements ==
    ASSUME NEW S, NEW s \in Seq(S), s # << >>, NoRepeats(s)
    PROVE  /\ s[Len(s)] \in S /\ s[Len(s)] \in Elements(s)
           /\ SubSeq(s, 1, Len(s) - 1) \in Seq(S)
           /\ NoRepeats(SubSeq(s, 1, Len(s) - 1))
           /\ Elements(SubSeq(s, 1, Len(s) - 1)) = Elements(s) \ {s[Len(s)]}
  <1>1. PICK n \in Nat \ {0} : n = Len(s)
    OBVIOUS
  <1> DEFINE t == SubSeq(s, 1, n - 1)
  <1>2. /\ t \in Seq(S) /\ Len(t) = n - 1
        /\ \A i \in 1 .. n - 1 : t[i] = s[i]
    <2>1. \A i \in 1 .. n - 1 : s[i] \in S
      BY <1>1
    <2>2. n - 1 \in Int /\ (n - 1) - 1 + 1 = n - 1
      OBVIOUS
    <2>3. /\ t \in Seq(S)
          /\ Len(t) = IF 1 <= n - 1 THEN (n - 1) - 1 + 1 ELSE 0
          /\ \A i \in 1 .. (n - 1) - 1 + 1 : t[i] = s[1 + i - 1]
      BY <2>1, <2>2, SubSeqProperties
    <2> HIDE DEF t
    <2>4. Len(t) = n - 1
      BY <2>3
    <2>5. ASSUME NEW i \in 1 .. n - 1 PROVE t[i] = s[i]
      <3>1. 1 + i - 1 = i
        OBVIOUS
      <3> QED BY <2>2, <2>3, <3>1
    <2> QED BY <2>3, <2>4, <2>5
  <1>3. s[n] \in S /\ s[n] \in Elements(s)
    BY <1>1 DEF Elements
  <1> HIDE DEF t
  <1>4. NoRepeats(t)
    BY <1>1, <1>2 DEF NoRepeats
  <1>5. Elements(t) = Elements(s) \ {s[n]}
    BY <1>1, <1>2 DEF Elements, NoRepeats
  <1> USE DEF t
  <1> QED BY <1>1, <1>2, <1>3, <1>4, <1>5

\* removeFromLru: exactly the given frame leaves the list.
LEMMA RemoveElement ==
    ASSUME lru \in Seq(Frames), NoRepeats(lru), NEW f \in Elements(lru)
    PROVE  /\ RemoveFromLru(f) \in Seq(Frames)
           /\ NoRepeats(RemoveFromLru(f))
           /\ Elements(RemoveFromLru(f)) = Elements(lru) \ {f}
  <1> DEFINE at == CHOOSE i \in 1 .. Len(lru) : lru[i] = f
             s == [i \in 1 .. Len(lru) - 1 |-> IF i < at THEN lru[i] ELSE lru[i + 1]]
  <1>1. at \in 1 .. Len(lru) /\ lru[at] = f
    BY DEF Elements
  <1>2. Len(lru) \in Nat
    OBVIOUS
  <1>3. RemoveFromLru(f) = s
    BY DEF RemoveFromLru
  <1> HIDE DEF at
  <1>4. s \in Seq(Frames) /\ Len(s) = Len(lru) - 1
    <2>1. Len(lru) - 1 \in Nat
      BY <1>1, <1>2
    <2>2. \A i \in 1 .. Len(lru) - 1 : s[i] \in Frames
      BY <1>1, <1>2
    <2> QED BY <2>1, <2>2
  <1>5. \A i \in 1 .. Len(lru) - 1 : s[i] = lru[IF i < at THEN i ELSE i + 1]
    OBVIOUS
  <1> HIDE DEF s
  <1>6. NoRepeats(s)
    BY <1>1, <1>2, <1>4, <1>5, SMTT(30) DEF NoRepeats
  <1>7. Elements(s) = Elements(lru) \ {f}
    <2>1. ASSUME NEW e \in Elements(s) PROVE e \in Elements(lru) \ {f}
      <3>1. PICK i \in 1 .. Len(lru) - 1 : e = s[i]
        BY <1>4 DEF Elements
      <3> DEFINE j == IF i < at THEN i ELSE i + 1
      <3>2. j \in 1 .. Len(lru) /\ j # at /\ e = lru[j]
        BY <1>1, <1>2, <1>5, <3>1
      <3> QED BY <1>1, <3>2 DEF Elements, NoRepeats
    <2>2. ASSUME NEW e \in Elements(lru) \ {f} PROVE e \in Elements(s)
      <3>1. PICK j \in 1 .. Len(lru) : e = lru[j]
        BY DEF Elements
      <3> DEFINE i == IF j < at THEN j ELSE j - 1
      <3>2. i \in 1 .. Len(lru) - 1 /\ j = IF i < at THEN i ELSE i + 1
        BY <1>1, <1>2, <3>1
      <3> QED BY <1>4, <1>5, <3>1, <3>2 DEF Elements
    <2> QED BY <2>1, <2>2
  <1> QED BY <1>3, <1>4, <1>6, <1>7

----------------------------------------------------------------------------
(* Pins.                                                                   *)

\* The guards that hold a frame are finitely many, no more than there are.
LEMMA HoldingFinite ==
    ASSUME NEW f
    PROVE  /\ IsFiniteSet(Holding(f))
           /\ Cardinality(Holding(f)) \in 0 .. Cardinality(Guards)
           /\ Cardinality(Guards) \in Nat
  <1>1. IsFiniteSet(Guards)
    BY PoolAssumption
  <1>2. Holding(f) \in SUBSET Guards
    BY DEF Holding
  <1>3. IsFiniteSet(Holding(f)) /\ Cardinality(Holding(f)) <= Cardinality(Guards)
    BY <1>1, <1>2, FS_Subset
  <1>4. Cardinality(Holding(f)) \in Nat /\ Cardinality(Guards) \in Nat
    BY <1>1, <1>3, FS_CardinalityType
  <1> QED BY <1>3, <1>4

\* A frame without a page is unpinned, and one without a pin is nobody's.
LEMMA Unpinned ==
    ASSUME IInv, NEW f \in Frames, frames[f].page = NoPage \/ frames[f].pin = 0
    PROVE  Holding(f) = {} /\ frames[f].pin = 0
  <1>1. frames[f].pin = Cardinality(Holding(f))
    BY DEF IInv, GuardsPin
  <1>2. CASE frames[f].page = NoPage
    <2>1. ASSUME NEW g \in Holding(f) PROVE FALSE
      <3>1. g \in Guards /\ guard[g] # NoGuard /\ guard[g].frame = f
        BY DEF Holding
      <3>2. guard[g] \in Guard
        BY <3>1 DEF IInv, TypeOK
      <3>3. guard[g].page \in Pages /\ guard[g].page = NoPage
        BY <1>2, <3>1, <3>2 DEF IInv, GuardsPin, Guard
      <3> QED BY <3>3, PoolAssumption
    <2>2. Holding(f) = {}
      BY <2>1
    <2> QED BY <1>1, <2>2, FS_EmptySet
  <1>3. CASE frames[f].pin = 0
    BY <1>1, <1>3, HoldingFinite, FS_EmptySet
  <1> QED BY <1>2, <1>3

\* acquireFrame: the frame comes out of the lists, and nobody points into it.
LEMMA AcquiredFrame ==
    ASSUME IInv, CanAcquire, TakeFromLists
    PROVE  /\ Acquired \in Frames
           /\ Holding(Acquired) = {}
           /\ lru' \in Seq(Frames) /\ freeList' \in Seq(Frames)
           /\ NoRepeats(lru') /\ NoRepeats(freeList')
           /\ Elements(lru') = Elements(lru) \ {Acquired}
           /\ Elements(freeList') = Elements(freeList) \ {Acquired}
  <1>1. /\ lru \in Seq(Frames) /\ freeList \in Seq(Frames)
        /\ NoRepeats(lru) /\ NoRepeats(freeList)
    BY DEF IInv, TypeOK, FramesAccounted
  <1>2. CASE freeList # << >>
    <2>1. Acquired = freeList[Len(freeList)]
      BY <1>2 DEF Acquired
    <2>2. freeList' = SubSeq(freeList, 1, Len(freeList) - 1) /\ lru' = lru
      BY <1>2 DEF TakeFromLists
    <2>3. /\ Acquired \in Frames /\ Acquired \in Elements(freeList)
          /\ freeList' \in Seq(Frames) /\ NoRepeats(freeList')
          /\ Elements(freeList') = Elements(freeList) \ {Acquired}
      BY <1>1, <1>2, <2>1, <2>2, FrontElements
    <2>4. frames[Acquired].page = NoPage
      BY <2>3 DEF IInv, FramesAccounted
    <2>5. Acquired \notin Elements(lru)
      BY <2>4 DEF IInv, FramesAccounted
    <2> QED BY <1>1, <2>2, <2>3, <2>4, <2>5, Unpinned
  <1>3. CASE freeList = << >>
    <2>1. Acquired = Head(lru) /\ lru # << >>
      BY <1>3 DEF Acquired, CanAcquire
    <2>2. freeList' = freeList /\ lru' = Tail(lru)
      BY <1>3 DEF TakeFromLists
    <2>3. /\ Acquired \in Frames /\ Acquired \in Elements(lru)
          /\ lru' \in Seq(Frames) /\ NoRepeats(lru')
          /\ Elements(lru') = Elements(lru) \ {Acquired}
      BY <1>1, <2>1, <2>2, TailElements
    <2>4. frames[Acquired].page # NoPage /\ frames[Acquired].pin = 0
      BY <2>3 DEF IInv, FramesAccounted
    <2>5. Acquired \notin Elements(freeList)
      BY <2>4 DEF IInv, FramesAccounted
    <2> QED BY <1>1, <2>2, <2>3, <2>4, <2>5, Unpinned
  <1> QED BY <1>2, <1>3

\* A guard that takes a frame is one more of its holders.
LEMMA HoldAddsHolder ==
    ASSUME TypeOK, NEW g \in Guards, guard[g] = NoGuard,
           NEW p \in Pages, NEW a \in Frames, Hold(g, p, a)
    PROVE  /\ guard' \in [Guards -> Guard \cup {NoGuard}]
           /\ guard'[g] = [page |-> p, frame |-> a, dirty |-> FALSE, wrote |-> FALSE]
           /\ guard'[g] # NoGuard
           /\ \A h \in Guards \ {g} : guard'[h] = guard[h]
           /\ \A f \in Frames :
                 /\ g \notin Holding(f)
                 /\ Holding(f)' = IF f = a THEN Holding(f) \cup {g} ELSE Holding(f)
  <1> DEFINE new == [page |-> p, frame |-> a, dirty |-> FALSE, wrote |-> FALSE]
  <1>1. new \in Guard /\ new # NoGuard /\ new.frame = a
    <2>1. new \in Guard
      BY DEF Guard
    <2>2. NoGuard \notin Guard
      BY PoolAssumption
    <2> QED BY <2>1, <2>2
  <1>2. guard' = [guard EXCEPT ![g] = new]
    BY DEF Hold
  <1> HIDE DEF new
  <1>3. /\ guard' \in [Guards -> Guard \cup {NoGuard}]
        /\ guard'[g] = new
        /\ \A h \in Guards \ {g} : guard'[h] = guard[h]
    BY <1>1, <1>2 DEF TypeOK
  <1>4. ASSUME NEW f \in Frames
        PROVE  /\ g \notin Holding(f)
               /\ Holding(f)' = IF f = a THEN Holding(f) \cup {g} ELSE Holding(f)
    BY <1>1, <1>3 DEF Holding
  <1> QED BY <1>1, <1>3, <1>4 DEF new

\* A guard that is dropped is one holder less of its frame.
LEMMA DropRemovesHolder ==
    ASSUME TypeOK, NEW g \in Guards, guard[g] # NoGuard,
           guard' = [guard EXCEPT ![g] = NoGuard]
    PROVE  /\ guard' \in [Guards -> Guard \cup {NoGuard}]
           /\ guard'[g] = NoGuard
           /\ \A h \in Guards \ {g} : guard'[h] = guard[h]
           /\ \A f \in Frames : Holding(f)' = Holding(f) \ {g}
           /\ g \in Holding(guard[g].frame)
           /\ \A f \in Frames : f # guard[g].frame => g \notin Holding(f)
  <1>1. /\ guard' \in [Guards -> Guard \cup {NoGuard}]
        /\ guard'[g] = NoGuard
        /\ \A h \in Guards \ {g} : guard'[h] = guard[h]
    BY DEF TypeOK
  <1>2. \A f \in Frames : Holding(f)' = Holding(f) \ {g}
    BY <1>1 DEF Holding
  <1>3. /\ g \in Holding(guard[g].frame)
        /\ \A f \in Frames : f # guard[g].frame => g \notin Holding(f)
    BY DEF Holding
  <1> QED BY <1>1, <1>2, <1>3

----------------------------------------------------------------------------
(* A page comes into a frame: fetchPage on a miss, and newPage.            *)

\* acquireFrame leaves the table without the victim's page only.
LEMMA UnmappedTable ==
    ASSUME IInv, NEW a \in Frames, a = Acquired
    PROVE  /\ Unmapped \in [Pages -> Frames \cup {NoFrame}]
           /\ \A q \in Pages :
                 Unmapped[q] = IF q = frames[a].page THEN NoFrame ELSE table[q]
           /\ \A q \in Pages : Unmapped[q] # a
  <1>1. table \in [Pages -> Frames \cup {NoFrame}] /\ frames[a] \in Frame
    BY DEF IInv, TypeOK
  <1>2. Unmapped = IF frames[a].page # NoPage
                   THEN [table EXCEPT ![frames[a].page] = NoFrame] ELSE table
    BY DEF Unmapped
  <1>3. frames[a].page = NoPage => \A q \in Pages : q # frames[a].page
    BY PoolAssumption
  <1>4. /\ Unmapped \in [Pages -> Frames \cup {NoFrame}]
        /\ \A q \in Pages :
              Unmapped[q] = IF q = frames[a].page THEN NoFrame ELSE table[q]
    BY <1>1, <1>2, <1>3 DEF Frame
  <1>5. ASSUME NEW q \in Pages, Unmapped[q] = a PROVE FALSE
    <2>1. a # NoFrame
      BY PoolAssumption
    <2>2. table[q] = a /\ q # frames[a].page
      BY <1>4, <1>5, <2>1
    <2> QED BY <2>1, <2>2 DEF IInv, TableExact
  <1> QED BY <1>4, <1>5

\* The victim's page is written back if it is dirty, no other page is.
LEMMA WrittenBackDisk ==
    ASSUME IInv, NEW a \in Frames, a = Acquired
    PROVE  /\ WrittenBack \in [Pages -> Data]
           /\ \A q \in Pages : q # frames[a].page => WrittenBack[q] = disk[q]
  <1>1. disk \in [Pages -> Data] /\ frames[a] \in Frame
    BY DEF IInv, TypeOK
  <1>2. WrittenBack = IF frames[a].page # NoPage /\ frames[a].dirty
                      THEN [disk EXCEPT ![frames[a].page] = frames[a].data] ELSE disk
    BY DEF WrittenBack
  <1> QED BY <1>1, <1>2 DEF Frame

\* The acquired frame is given page p, one pin and one guard: every part of the
\* invariant but DirtyKnown, which depends on the bytes.
LEMMA FillFrame ==
    ASSUME IInv, CanAcquire, TakeFromLists,
           NEW g \in Guards, guard[g] = NoGuard,
           NEW p \in Pages, table[p] = NoFrame, p < numPages',
           NEW d \in BOOLEAN, NEW v \in Data,
           frames' = [frames EXCEPT ![Acquired] =
                        [page |-> p, pin |-> 1, dirty |-> d, data |-> v]],
           table' = [Unmapped EXCEPT ![p] = Acquired],
           Hold(g, p, Acquired),
           numPages' \in 0 .. MaxPages, numPages <= numPages',
           disk' \in [Pages -> Data]
    PROVE  /\ TypeOK' /\ TableExact' /\ GuardsPin' /\ FramesAccounted'
           /\ \A f \in Frames \ {Acquired} :
                 /\ frames'[f] = frames[f] /\ Holding(f)' = Holding(f)
                 /\ frames[f].page # NoPage => frames[f].page # p
  <1>1. PICK a \in Frames : a = Acquired
    BY AcquiredFrame
  <1>2. Hold(g, p, a)
    BY <1>1
  <1>3. /\ guard' \in [Guards -> Guard \cup {NoGuard}]
        /\ guard'[g] = [page |-> p, frame |-> a, dirty |-> FALSE, wrote |-> FALSE]
        /\ guard'[g] # NoGuard
        /\ \A h \in Guards \ {g} : guard'[h] = guard[h]
        /\ \A f \in Frames :
              Holding(f)' = IF f = a THEN Holding(f) \cup {g} ELSE Holding(f)
    BY <1>2, HoldAddsHolder DEF IInv
  <1> DEFINE new == [page |-> p, pin |-> 1, dirty |-> d, data |-> v]
  <1>4. new \in Frame /\ new.page = p /\ new.pin = 1
    BY DEF Frame
  <1>5. /\ frames' \in [Frames -> Frame]
        /\ frames'[a] = new
        /\ \A f \in Frames \ {a} : frames'[f] = frames[f]
    BY <1>1, <1>4 DEF IInv, TypeOK
  <1> HIDE DEF new
  <1>6. /\ table' \in [Pages -> Frames \cup {NoFrame}]
        /\ table'[p] = a
        /\ \A q \in Pages \ {p} :
              table'[q] = IF q = frames[a].page THEN NoFrame ELSE table[q]
        /\ \A q \in Pages \ {p} : table'[q] # a
    BY <1>1, UnmappedTable
  <1>7. ASSUME NEW f \in Frames, frames[f].page # NoPage
        PROVE  frames[f].page \in Pages \ {p}
    <2>1. frames[f].page \in Pages /\ table[frames[f].page] = f
      BY <1>7 DEF IInv, TypeOK, TableExact, Frame
    <2> QED BY <2>1, PoolAssumption
  <1>8. Holding(a) = {}
    BY <1>1, AcquiredFrame
  <1>9. TypeOK'
    <2>1. lru' \in Seq(Frames) /\ freeList' \in Seq(Frames)
      BY AcquiredFrame
    <2>2. Cardinality(Guards) \in Nat /\ 1 <= Cardinality(Guards)
      <3>1. {g} \in SUBSET Guards /\ IsFiniteSet(Guards)
        BY PoolAssumption
      <3>2. Cardinality({g}) = 1
        BY FS_Singleton
      <3> QED BY <3>1, <3>2, FS_Subset, FS_CardinalityType
    <2>3. \A f \in Frames : frames'[f].pin <= Cardinality(Guards)
      BY <1>4, <1>5, <2>2 DEF IInv, TypeOK
    <2> QED BY <1>3, <1>5, <1>6, <2>1, <2>3 DEF TypeOK
  <1>10. TableExact'
    <2>1. ASSUME NEW f \in Frames, frames'[f].page # NoPage
          PROVE  table'[frames'[f].page] = f
      <3>1. CASE f = a
        BY <1>4, <1>5, <1>6, <3>1
      <3>2. CASE f # a
        <4>1. frames'[f] = frames[f] /\ frames[f].page # NoPage
          BY <1>5, <2>1, <3>2
        <4>2. table[frames[f].page] = f /\ frames[f].page # frames[a].page
          BY <3>2, <4>1 DEF IInv, TableExact
        <4>3. frames[f].page \in Pages \ {p}
          BY <1>7, <4>1
        <4> QED BY <1>6, <4>1, <4>2, <4>3
      <3> QED BY <3>1, <3>2
    <2>2. ASSUME NEW q \in Pages, table'[q] # NoFrame
          PROVE  frames'[table'[q]].page = q /\ q < numPages'
      <3>1. CASE q = p
        BY <1>4, <1>5, <1>6, <3>1
      <3>2. CASE q # p
        <4>1. table'[q] = table[q] /\ table[q] # NoFrame /\ table[q] # a
          BY <1>6, <2>2, <3>2
        <4>2. table[q] \in Frames /\ frames[table[q]].page = q /\ q < numPages
          BY <4>1 DEF IInv, TypeOK, TableExact
        <4>3. q < numPages'
          BY <4>2 DEF IInv, TypeOK, Pages
        <4> QED BY <1>5, <4>1, <4>2, <4>3
      <3> QED BY <3>1, <3>2
    <2> QED BY <2>1, <2>2 DEF TableExact
  <1>11. GuardsPin'
    <2>1. ASSUME NEW h \in Guards, guard'[h] # NoGuard
          PROVE  frames'[guard'[h].frame].page = guard'[h].page
      <3>1. CASE h = g
        BY <1>3, <1>4, <1>5, <3>1
      <3>2. CASE h # g
        <4>1. guard'[h] = guard[h] /\ guard[h] \in Guard
          BY <1>3, <2>1, <3>2 DEF IInv, TypeOK
        <4>2. guard[h].frame \in Frames \ {a}
          BY <1>8, <2>1, <4>1 DEF Guard, Holding
        <4> QED BY <1>5, <2>1, <4>1, <4>2 DEF IInv, GuardsPin
      <3> QED BY <3>1, <3>2
    <2>2. ASSUME NEW f \in Frames PROVE frames'[f].pin = Cardinality(Holding(f)')
      <3>1. CASE f = a
        <4>1. Holding(f)' = {g}
          BY <1>3, <1>8, <3>1
        <4> QED BY <1>4, <1>5, <3>1, <4>1, FS_Singleton
      <3>2. CASE f # a
        BY <1>3, <1>5, <3>2 DEF IInv, GuardsPin
      <3> QED BY <3>1, <3>2
    <2> QED BY <2>1, <2>2 DEF GuardsPin
  <1>12. FramesAccounted'
    <2>1. /\ NoRepeats(lru') /\ NoRepeats(freeList')
          /\ Elements(lru') = Elements(lru) \ {a}
          /\ Elements(freeList') = Elements(freeList) \ {a}
      BY <1>1, AcquiredFrame
    <2>2. Elements(lru') = {f \in Frames : frames'[f].page # NoPage /\ frames'[f].pin = 0}
      BY <1>4, <1>5, <2>1 DEF IInv, FramesAccounted
    <2>3. p # NoPage
      BY PoolAssumption
    <2>4. Elements(freeList') = {f \in Frames : frames'[f].page = NoPage}
      BY <1>4, <1>5, <2>1, <2>3 DEF IInv, FramesAccounted
    <2> QED BY <2>1, <2>2, <2>4 DEF FramesAccounted
  <1> QED BY <1>1, <1>3, <1>5, <1>7, <1>9, <1>10, <1>11, <1>12

----------------------------------------------------------------------------
(* One lemma per operation.                                                *)

\* fetchPage reads a page into a frame that was free or unpinned.
LEMMA FetchMissKeepsIInv ==
    ASSUME IInv, NEW g \in Guards, NEW p \in Pages, FetchMiss(g, p)
    PROVE  IInv'
  <1>1. PICK a \in Frames : a = Acquired
    BY AcquiredFrame DEF FetchMiss
  <1>2. /\ disk' = WrittenBack /\ disk' \in [Pages -> Data]
        /\ \A q \in Pages : q # frames[a].page => disk'[q] = disk[q]
    BY <1>1, WrittenBackDisk DEF FetchMiss
  <1>3. disk'[p] \in Data
    BY <1>2
  <1>4. numPages' = numPages /\ numPages' \in 0 .. MaxPages /\ numPages <= numPages'
    BY PoolAssumption DEF FetchMiss, IInv, TypeOK
  <1>5. frames' = [frames EXCEPT ![Acquired] =
                     [page |-> p, pin |-> 1, dirty |-> FALSE, data |-> disk'[p]]]
    BY <1>2 DEF FetchMiss
  <1>6. /\ TypeOK' /\ TableExact' /\ GuardsPin' /\ FramesAccounted'
        /\ \A f \in Frames \ {Acquired} :
              /\ frames'[f] = frames[f] /\ Holding(f)' = Holding(f)
              /\ frames[f].page # NoPage => frames[f].page # p
    BY <1>2, <1>3, <1>4, <1>5, FillFrame DEF FetchMiss
  <1>7. ASSUME NEW f \in Frames, frames'[f].page # NoPage,
               frames'[f].data # disk'[frames'[f].page]
        PROVE  frames'[f].dirty \/ \E h \in Holding(f)' : guard'[h].dirty \/ guard'[h].wrote
    <2>1. f # a
      <3>1. frames'[a] = [page |-> p, pin |-> 1, dirty |-> FALSE, data |-> disk'[p]]
        BY <1>1, <1>5 DEF IInv, TypeOK
      <3> QED BY <1>7, <3>1
    <2>2. frames'[f] = frames[f] /\ Holding(f)' = Holding(f)
      BY <1>1, <1>6, <2>1
    <2>3. frames[f].page \in Pages /\ frames[f].page # frames[a].page
      BY <1>1, <1>7, <2>1, <2>2 DEF IInv, TypeOK, TableExact, Frame
    <2>4. frames[f].data # disk[frames[f].page]
      BY <1>2, <1>7, <2>2, <2>3
    <2>5. frames[f].dirty \/ \E h \in Holding(f) : guard[h].dirty \/ guard[h].wrote
      BY <1>7, <2>2, <2>4 DEF IInv, DirtyKnown
    <2>6. \A h \in Holding(f) : guard'[h] = guard[h]
      BY DEF FetchMiss, Hold, Holding, IInv, TypeOK
    <2> QED BY <2>2, <2>5, <2>6
  <1> QED BY <1>6, <1>7 DEF IInv, DirtyKnown

\* newPage extends the file and gives the new page a frame, dirty.
LEMMA NewPageKeepsIInv ==
    ASSUME IInv, NEW g \in Guards, NewPage(g)
    PROVE  IInv'
  <1>1. PICK a \in Frames : a = Acquired
    BY AcquiredFrame DEF NewPage
  <1>2. /\ numPages \in Pages /\ table[numPages] = NoFrame
        /\ numPages' \in 0 .. MaxPages /\ numPages < numPages' /\ numPages <= numPages'
    BY PoolAssumption DEF NewPage, IInv, TypeOK, TableExact, Pages
  <1>3. /\ disk' \in [Pages -> Data]
        /\ \A q \in Pages : q # frames[a].page /\ q # numPages => disk'[q] = disk[q]
    BY <1>1, WrittenBackDisk, PoolAssumption DEF NewPage
  <1>4. /\ TypeOK' /\ TableExact' /\ GuardsPin' /\ FramesAccounted'
        /\ \A f \in Frames \ {Acquired} :
              /\ frames'[f] = frames[f] /\ Holding(f)' = Holding(f)
              /\ frames[f].page # NoPage => frames[f].page # numPages
    BY <1>2, <1>3, FillFrame, PoolAssumption DEF NewPage
  <1>5. ASSUME NEW f \in Frames, frames'[f].page # NoPage,
               frames'[f].data # disk'[frames'[f].page]
        PROVE  frames'[f].dirty \/ \E h \in Holding(f)' : guard'[h].dirty \/ guard'[h].wrote
    <2>1. CASE f = a
      <3>1. frames'[a] = [page |-> numPages, pin |-> 1, dirty |-> TRUE, data |-> Empty]
        BY <1>1 DEF NewPage, IInv, TypeOK
      <3> QED BY <2>1, <3>1
    <2>2. CASE f # a
      <3>1. frames'[f] = frames[f] /\ Holding(f)' = Holding(f)
        BY <1>1, <1>4, <2>2
      <3>2. frames[f].page \in Pages /\ frames[f].page # frames[a].page
        BY <1>1, <1>5, <2>2, <3>1 DEF IInv, TypeOK, TableExact, Frame
      <3>3. frames[f].page # numPages
        BY <1>1, <1>4, <1>5, <2>2, <3>1
      <3>4. frames[f].data # disk[frames[f].page]
        BY <1>3, <1>5, <3>1, <3>2, <3>3
      <3>5. frames[f].dirty \/ \E h \in Holding(f) : guard[h].dirty \/ guard[h].wrote
        BY <1>5, <3>1, <3>4 DEF IInv, DirtyKnown
      <3>6. \A h \in Holding(f) : guard'[h] = guard[h]
        BY DEF NewPage, Hold, Holding, IInv, TypeOK
      <3> QED BY <3>1, <3>5, <3>6
    <2> QED BY <2>1, <2>2
  <1> QED BY <1>4, <1>5 DEF IInv, DirtyKnown

\* fetchPage pins a cached page, which leaves the LRU list if it was in it.
LEMMA FetchHitKeepsIInv ==
    ASSUME IInv, NEW g \in Guards, NEW p \in Pages, FetchHit(g, p)
    PROVE  IInv'
  <1>1. PICK a \in Frames : a = table[p]
    BY DEF FetchHit, IInv, TypeOK
  <1>2. /\ guard[g] = NoGuard /\ Hold(g, p, a) /\ frames[a].page = p
        /\ UNCHANGED <<table, freeList, disk, numPages>>
    BY <1>1 DEF FetchHit, IInv, TableExact
  <1>3. /\ guard' \in [Guards -> Guard \cup {NoGuard}]
        /\ guard'[g] = [page |-> p, frame |-> a, dirty |-> FALSE, wrote |-> FALSE]
        /\ guard'[g] # NoGuard
        /\ \A h \in Guards \ {g} : guard'[h] = guard[h]
        /\ \A f \in Frames :
              /\ g \notin Holding(f)
              /\ Holding(f)' = IF f = a THEN Holding(f) \cup {g} ELSE Holding(f)
    BY <1>2, HoldAddsHolder DEF IInv
  <1>4. frames[a] \in Frame /\ frames[a].pin + 1 \in Nat
    BY DEF IInv, TypeOK, Frame
  <1>5. frames' = [frames EXCEPT ![a].pin = @ + 1]
    BY <1>1 DEF FetchHit
  <1>6. /\ frames' \in [Frames -> Frame]
        /\ frames'[a].page = p /\ frames'[a].pin = frames[a].pin + 1
        /\ frames'[a].dirty = frames[a].dirty /\ frames'[a].data = frames[a].data
        /\ \A f \in Frames \ {a} : frames'[f] = frames[f]
    BY <1>2, <1>4, <1>5 DEF IInv, TypeOK, Frame
  <1>7. \A f \in Frames : frames'[f].page = frames[f].page
    BY <1>2, <1>6
  <1>8. /\ lru' \in Seq(Frames) /\ NoRepeats(lru')
        /\ Elements(lru') = Elements(lru) \ {a}
    <2>1. CASE frames[a].pin = 0
      <3>1. a \in Elements(lru) /\ lru \in Seq(Frames) /\ NoRepeats(lru)
        BY <1>2, <2>1, PoolAssumption DEF IInv, TypeOK, FramesAccounted
      <3> QED BY <1>1, <2>1, <3>1, RemoveElement DEF FetchHit
    <2>2. CASE frames[a].pin # 0
      <3>1. a \notin Elements(lru) /\ lru' = lru
        BY <1>1, <2>2 DEF IInv, FramesAccounted, FetchHit
      <3> QED BY <3>1 DEF IInv, TypeOK, FramesAccounted
    <2> QED BY <2>1, <2>2
  <1>9. ASSUME NEW f \in Frames PROVE frames'[f].pin = Cardinality(Holding(f)')
    <2>1. CASE f = a
      <3>1. Cardinality(Holding(a) \cup {g}) = Cardinality(Holding(a)) + 1
        BY <1>3, HoldingFinite, FS_AddElement
      <3> QED BY <1>3, <1>6, <2>1, <3>1 DEF IInv, GuardsPin
    <2>2. CASE f # a
      BY <1>3, <1>6, <2>2 DEF IInv, GuardsPin
    <2> QED BY <2>1, <2>2
  <1>10. GuardsPin'
    <2>1. ASSUME NEW h \in Guards, guard'[h] # NoGuard
          PROVE  frames'[guard'[h].frame].page = guard'[h].page
      <3>1. CASE h = g
        BY <1>3, <1>6, <3>1
      <3>2. CASE h # g
        <4>1. guard'[h] = guard[h] /\ guard[h] \in Guard
          BY <1>3, <2>1, <3>2 DEF IInv, TypeOK
        <4> QED BY <1>7, <2>1, <4>1 DEF IInv, GuardsPin, Guard
      <3> QED BY <3>1, <3>2
    <2> QED BY <1>9, <2>1 DEF GuardsPin
  <1>11. TypeOK'
    <2>1. \A f \in Frames : frames'[f].pin <= Cardinality(Guards)
      <3>1. ASSUME NEW f \in Frames PROVE Cardinality(Holding(f)') <= Cardinality(Guards)
        <4>1. Holding(f)' \in SUBSET Guards /\ IsFiniteSet(Guards)
          BY PoolAssumption DEF Holding
        <4> QED BY <4>1, FS_Subset
      <3> QED BY <1>9, <3>1
    <2> QED BY <1>2, <1>3, <1>6, <1>8, <2>1 DEF IInv, TypeOK
  <1>12. TableExact'
    BY <1>2, <1>7 DEF IInv, TypeOK, TableExact
  <1>13. FramesAccounted'
    <2>1. Elements(lru') = {f \in Frames : frames'[f].page # NoPage /\ frames'[f].pin = 0}
      BY <1>4, <1>6, <1>7, <1>8 DEF IInv, FramesAccounted, Frame
    <2>2. Elements(freeList') = {f \in Frames : frames'[f].page = NoPage}
      BY <1>2, <1>7 DEF IInv, FramesAccounted
    <2> QED BY <1>2, <1>8, <2>1, <2>2 DEF IInv, FramesAccounted
  <1>14. DirtyKnown'
    <2>1. ASSUME NEW f \in Frames, frames'[f].page # NoPage,
                 frames'[f].data # disk'[frames'[f].page]
          PROVE  frames'[f].dirty
                 \/ \E h \in Holding(f)' : guard'[h].dirty \/ guard'[h].wrote
      <3>1. /\ frames'[f].data = frames[f].data /\ frames'[f].dirty = frames[f].dirty
            /\ frames[f].data # disk[frames[f].page] /\ frames[f].page # NoPage
        BY <1>2, <1>6, <1>7, <2>1
      <3>2. frames[f].dirty \/ \E h \in Holding(f) : guard[h].dirty \/ guard[h].wrote
        BY <3>1 DEF IInv, DirtyKnown
      <3>3. \A h \in Holding(f) : h \in Holding(f)' /\ guard'[h] = guard[h]
        BY <1>3 DEF Holding
      <3> QED BY <3>1, <3>2, <3>3
    <2> QED BY <2>1 DEF DirtyKnown
  <1> QED BY <1>10, <1>11, <1>12, <1>13, <1>14 DEF IInv

\* newPage without a frame only extends the file.
LEMMA NewPageFailsKeepsIInv ==
    ASSUME IInv, NEW g \in Guards, NewPageFails(g)
    PROVE  IInv'
  <1>1. /\ numPages \in Pages /\ table[numPages] = NoFrame
        /\ numPages' \in 0 .. MaxPages /\ numPages < numPages'
    BY PoolAssumption DEF NewPageFails, IInv, TypeOK, TableExact, Pages
  <1>2. UNCHANGED <<frames, table, lru, freeList, guard>>
    BY DEF NewPageFails
  <1>3. \A f \in Frames : Holding(f)' = Holding(f)
    BY <1>2 DEF Holding
  <1>4. /\ disk' \in [Pages -> Data]
        /\ \A q \in Pages : q # numPages => disk'[q] = disk[q]
    BY <1>1, PoolAssumption DEF NewPageFails, IInv, TypeOK
  <1>5. TypeOK'
    BY <1>1, <1>2, <1>4 DEF IInv, TypeOK
  <1>6. TableExact'
    <2>1. \A q \in Pages : q < numPages => q < numPages'
      BY <1>1 DEF Pages, IInv, TypeOK
    <2> QED BY <1>2, <2>1 DEF IInv, TableExact
  <1>7. GuardsPin' /\ FramesAccounted'
    BY <1>2, <1>3 DEF IInv, GuardsPin, FramesAccounted, Elements, NoRepeats
  <1>8. DirtyKnown'
    <2>1. \A f \in Frames : frames[f].page # NoPage =>
             frames[f].page \in Pages /\ frames[f].page # numPages
      BY <1>1, PoolAssumption DEF IInv, TypeOK, TableExact, Frame
    <2> QED BY <1>2, <1>3, <1>4, <2>1 DEF IInv, DirtyKnown
  <1> QED BY <1>5, <1>6, <1>7, <1>8 DEF IInv

\* A holder writes through its guard and owes a markDirty.
LEMMA WriteBytesKeepsIInv ==
    ASSUME IInv, NEW g \in Guards, NEW v \in Data, WriteBytes(g, v)
    PROVE  IInv'
  <1>1. guard[g] \in Guard /\ guard[g] # NoGuard /\ guard[g].frame \in Frames
    BY DEF WriteBytes, IInv, TypeOK, Guard
  <1>2. PICK a \in Frames : a = guard[g].frame
    BY <1>1
  <1>3. UNCHANGED <<table, lru, freeList, disk, numPages>>
    BY DEF WriteBytes
  <1>4. /\ frames' \in [Frames -> Frame]
        /\ \A f \in Frames : /\ frames'[f].page = frames[f].page
                             /\ frames'[f].pin = frames[f].pin
                             /\ frames'[f].dirty = frames[f].dirty
                             /\ f # a => frames'[f].data = frames[f].data
    BY <1>2, ZenonT(60) DEF WriteBytes, IInv, TypeOK, Frame
  <1>5. /\ guard' \in [Guards -> Guard \cup {NoGuard}]
        /\ guard'[g] \in Guard /\ guard'[g].dirty = guard[g].dirty
        /\ guard'[g].wrote = ~guard[g].dirty
        /\ guard'[g].page = guard[g].page /\ guard'[g].frame = guard[g].frame
        /\ \A h \in Guards \ {g} : guard'[h] = guard[h]
    BY <1>1 DEF WriteBytes, IInv, TypeOK, Guard
  <1>6. guard'[g] # NoGuard
    BY <1>5, PoolAssumption
  <1>7. \A f \in Frames : Holding(f)' = Holding(f)
    BY <1>1, <1>5, <1>6 DEF Holding
  <1>8. TypeOK'
    BY <1>3, <1>4, <1>5 DEF IInv, TypeOK
  <1>9. TableExact'
    BY <1>3, <1>4 DEF IInv, TypeOK, TableExact
  <1>10. GuardsPin'
    <2>1. ASSUME NEW h \in Guards, guard'[h] # NoGuard
          PROVE  frames'[guard'[h].frame].page = guard'[h].page
      <3>1. guard[h] \in Guard /\ guard[h] # NoGuard
            /\ guard'[h].frame = guard[h].frame /\ guard'[h].page = guard[h].page
        BY <1>1, <1>5, <2>1 DEF IInv, TypeOK
      <3> QED BY <1>4, <3>1 DEF IInv, GuardsPin, Guard
    <2> QED BY <1>4, <1>7, <2>1 DEF IInv, GuardsPin
  <1>11. FramesAccounted'
    BY <1>3, <1>4 DEF IInv, FramesAccounted
  <1>12. DirtyKnown'
    <2>1. ASSUME NEW f \in Frames, frames'[f].page # NoPage,
                 frames'[f].data # disk'[frames'[f].page]
          PROVE  frames'[f].dirty
                 \/ \E h \in Holding(f)' : guard'[h].dirty \/ guard'[h].wrote
      <3>1. CASE f = a
        BY <1>1, <1>2, <1>5, <1>7, <3>1 DEF Holding
      <3>2. CASE f # a
        <4>1. frames[f].dirty \/ \E h \in Holding(f) : guard[h].dirty \/ guard[h].wrote
          BY <1>3, <1>4, <2>1, <3>2 DEF IInv, DirtyKnown
        <4>2. \A h \in Holding(f) : guard'[h] = guard[h]
          BY <1>2, <1>5, <3>2 DEF Holding
        <4> QED BY <1>4, <1>7, <4>1, <4>2
      <3> QED BY <3>1, <3>2
    <2> QED BY <2>1 DEF DirtyKnown
  <1> QED BY <1>8, <1>9, <1>10, <1>11, <1>12 DEF IInv

\* markDirty: the guard remembers that the page differs from the file.
LEMMA MarkDirtyKeepsIInv ==
    ASSUME IInv, NEW g \in Guards, MarkDirty(g)
    PROVE  IInv'
  <1>1. guard[g] \in Guard /\ guard[g] # NoGuard
    BY DEF MarkDirty, IInv, TypeOK
  <1>2. UNCHANGED <<frames, table, lru, freeList, disk, numPages>>
    BY DEF MarkDirty
  <1>3. /\ guard' \in [Guards -> Guard \cup {NoGuard}]
        /\ guard'[g] \in Guard /\ guard'[g].dirty = TRUE
        /\ guard'[g].page = guard[g].page /\ guard'[g].frame = guard[g].frame
        /\ \A h \in Guards \ {g} : guard'[h] = guard[h]
    BY <1>1 DEF MarkDirty, IInv, TypeOK, Guard
  <1>4. guard'[g] # NoGuard
    BY <1>3, PoolAssumption
  <1>5. \A f \in Frames : Holding(f)' = Holding(f)
    BY <1>1, <1>3, <1>4 DEF Holding
  <1>6. TypeOK' /\ TableExact' /\ FramesAccounted'
    BY <1>2, <1>3 DEF IInv, TypeOK, TableExact, FramesAccounted
  <1>7. GuardsPin'
    BY <1>1, <1>2, <1>3, <1>5 DEF IInv, GuardsPin
  <1>8. DirtyKnown'
    <2>1. ASSUME NEW f \in Frames, frames[f].page # NoPage,
                 frames[f].data # disk[frames[f].page], ~frames[f].dirty
          PROVE  \E h \in Holding(f) : guard'[h].dirty \/ guard'[h].wrote
      <3>1. PICK h \in Holding(f) : guard[h].dirty \/ guard[h].wrote
        BY <2>1 DEF IInv, DirtyKnown
      <3> QED BY <1>3, <3>1 DEF Holding
    <2> QED BY <1>2, <1>5, <2>1 DEF DirtyKnown
  <1> QED BY <1>6, <1>7, <1>8 DEF IInv

\* PageGuard::drop and unpin: the pin goes, the dirty bit reaches the frame.
LEMMA DropKeepsIInv ==
    ASSUME IInv, NEW g \in Guards, Drop(g)
    PROVE  IInv'
  <1>1. /\ guard[g] \in Guard /\ guard[g] # NoGuard /\ ~guard[g].wrote
        /\ guard[g].frame \in Frames
    BY DEF Drop, IInv, TypeOK, Guard
  <1>2. PICK a \in Frames : a = guard[g].frame
    BY <1>1
  <1>3. /\ a = table[guard[g].page] /\ frames[a].page # NoPage
        /\ frames[a].page = guard[g].page
    <2>1. frames[a].page = guard[g].page /\ guard[g].page \in Pages
      BY <1>1, <1>2 DEF IInv, GuardsPin, Guard
    <2>2. frames[a].page # NoPage
      BY <2>1, PoolAssumption
    <2> QED BY <2>1, <2>2 DEF IInv, TableExact
  <1>4. /\ guard' \in [Guards -> Guard \cup {NoGuard}]
        /\ guard'[g] = NoGuard
        /\ \A h \in Guards \ {g} : guard'[h] = guard[h]
        /\ \A f \in Frames : Holding(f)' = Holding(f) \ {g}
        /\ g \in Holding(a)
        /\ \A f \in Frames : f # a => g \notin Holding(f)
    BY <1>1, <1>2, DropRemovesHolder DEF IInv, Drop
  <1>5. frames[a].pin = Cardinality(Holding(a)) /\ frames[a].pin \in Nat \ {0}
    <2>1. Holding(a) # {} /\ IsFiniteSet(Holding(a))
      BY <1>4, HoldingFinite
    <2>2. Cardinality(Holding(a)) # 0 /\ Cardinality(Holding(a)) \in Nat
      BY <2>1, FS_EmptySet, FS_CardinalityType
    <2> QED BY <2>2 DEF IInv, GuardsPin
  <1> DEFINE left == IF frames[a].pin > 0 THEN frames[a].pin - 1 ELSE 0
  <1>6. /\ frames' = [frames EXCEPT ![a].pin = left, ![a].dirty = @ \/ guard[g].dirty]
        /\ lru' = IF left = 0 THEN Append(lru, a) ELSE lru
    BY <1>3, Zenon DEF Drop
  <1>left. left = frames[a].pin - 1
    BY <1>5
  <1> HIDE DEF left
  <1>7. /\ frames' \in [Frames -> Frame]
        /\ frames'[a].page = frames[a].page /\ frames'[a].pin = frames[a].pin - 1
        /\ frames'[a].dirty = (frames[a].dirty \/ guard[g].dirty)
        /\ frames'[a].data = frames[a].data
        /\ \A f \in Frames \ {a} : frames'[f] = frames[f]
    <2>1. frames[a] \in Frame /\ frames[a].pin - 1 \in Nat
      BY <1>5 DEF IInv, TypeOK
    <2>2. (frames[a].dirty \/ guard[g].dirty) \in BOOLEAN
      OBVIOUS
    <2> QED BY <1>6, <1>left, <2>1, <2>2 DEF IInv, TypeOK, Frame
  <1>8. UNCHANGED <<table, freeList, disk, numPages>>
    BY DEF Drop
  <1>9. /\ lru' \in Seq(Frames) /\ NoRepeats(lru')
        /\ Elements(lru') = IF frames'[a].pin = 0 THEN Elements(lru) \cup {a}
                                                  ELSE Elements(lru)
    <2>1. lru \in Seq(Frames) /\ NoRepeats(lru) /\ a \notin Elements(lru)
      BY <1>5 DEF IInv, TypeOK, FramesAccounted
    <2>2. lru' = IF frames'[a].pin = 0 THEN Append(lru, a) ELSE lru
      BY <1>6, <1>7, <1>left
    <2> QED BY <2>1, <2>2, AppendElement, ZenonT(60)
  <1>10. ASSUME NEW f \in Frames PROVE frames'[f].pin = Cardinality(Holding(f)')
    <2>1. CASE f = a
      <3>1. Cardinality(Holding(a) \ {g}) = Cardinality(Holding(a)) - 1
        BY <1>4, HoldingFinite, FS_RemoveElement
      <3> QED BY <1>4, <1>5, <1>7, <2>1, <3>1
    <2>2. CASE f # a
      <3>1. Holding(f)' = Holding(f)
        BY <1>4, <2>2
      <3> QED BY <1>7, <2>2, <3>1 DEF IInv, GuardsPin
    <2> QED BY <2>1, <2>2
  <1>11. \A f \in Frames : frames'[f].page = frames[f].page
    BY <1>7
  <1>12. TypeOK'
    <2>1. \A f \in Frames : frames'[f].pin <= Cardinality(Guards)
      <3>1. ASSUME NEW f \in Frames PROVE Cardinality(Holding(f)') <= Cardinality(Guards)
        <4>1. Holding(f)' \in SUBSET Guards /\ IsFiniteSet(Guards)
          BY PoolAssumption DEF Holding
        <4> QED BY <4>1, FS_Subset
      <3> QED BY <1>10, <3>1
    <2> QED BY <1>4, <1>7, <1>8, <1>9, <2>1 DEF IInv, TypeOK
  <1>13. TableExact'
    BY <1>8, <1>11 DEF IInv, TypeOK, TableExact
  <1>14. GuardsPin'
    <2>1. ASSUME NEW h \in Guards, guard'[h] # NoGuard
          PROVE  frames'[guard'[h].frame].page = guard'[h].page
      <3>1. guard'[h] = guard[h] /\ guard[h] \in Guard
        BY <1>4, <2>1 DEF IInv, TypeOK
      <3> QED BY <1>11, <2>1, <3>1 DEF IInv, GuardsPin, Guard
    <2> QED BY <1>10, <2>1 DEF GuardsPin
  <1>15. FramesAccounted'
    <2>1. Elements(lru') = {f \in Frames : frames'[f].page # NoPage /\ frames'[f].pin = 0}
      <3>1. a \in Frames /\ frames[a].page # NoPage /\ frames[a].pin # 0
        BY <1>3, <1>5
      <3>2. \A f \in Frames : f # a => frames'[f].pin = frames[f].pin
        BY <1>7
      <3>3. Elements(lru) = {f \in Frames : frames[f].page # NoPage /\ frames[f].pin = 0}
        BY DEF IInv, FramesAccounted
      <3> QED BY <1>9, <1>11, <3>1, <3>2, <3>3
    <2>2. Elements(freeList') = {f \in Frames : frames'[f].page = NoPage}
      BY <1>8, <1>11 DEF IInv, FramesAccounted
    <2> QED BY <1>8, <1>9, <2>1, <2>2 DEF IInv, FramesAccounted
  <1>16. DirtyKnown'
    <2>1. ASSUME NEW f \in Frames, frames'[f].page # NoPage,
                 frames'[f].data # disk'[frames'[f].page]
          PROVE  frames'[f].dirty
                 \/ \E h \in Holding(f)' : guard'[h].dirty \/ guard'[h].wrote
      <3>1. frames[f].page # NoPage /\ frames[f].data # disk[frames[f].page]
        BY <1>7, <1>8, <1>11, <2>1
      <3>2. CASE frames[f].dirty
        BY <1>7, <3>2
      <3>3. CASE ~frames[f].dirty
        <4>1. PICK h \in Holding(f) : guard[h].dirty \/ guard[h].wrote
          BY <3>1, <3>3 DEF IInv, DirtyKnown
        <4>2. CASE h = g
          BY <1>1, <1>4, <1>7, <4>1, <4>2
        <4>3. CASE h # g
          BY <1>4, <4>1, <4>3 DEF Holding
        <4> QED BY <4>2, <4>3
      <3> QED BY <3>2, <3>3
    <2> QED BY <2>1 DEF DirtyKnown
  <1> QED BY <1>12, <1>13, <1>14, <1>15, <1>16 DEF IInv

\* flush writes a cached page to the file and cleans its frame.
LEMMA FlushKeepsIInv ==
    ASSUME IInv, NEW p \in Pages, Flush(p)
    PROVE  IInv'
  <1>1. PICK a \in Frames : a = table[p] /\ frames[a].page = p
    BY DEF Flush, IInv, TypeOK, TableExact
  <1>2. UNCHANGED <<table, lru, freeList, numPages, guard>>
    BY DEF Flush
  <1>3. /\ disk' = [disk EXCEPT ![p] = frames[a].data]
        /\ frames' = [frames EXCEPT ![a].dirty = FALSE]
    BY <1>1 DEF Flush
  <1>4. /\ frames' \in [Frames -> Frame]
        /\ \A f \in Frames : /\ frames'[f].page = frames[f].page
                             /\ frames'[f].pin = frames[f].pin
                             /\ frames'[f].data = frames[f].data
                             /\ f # a => frames'[f].dirty = frames[f].dirty
    BY <1>3 DEF IInv, TypeOK, Frame
  <1>5. /\ disk' \in [Pages -> Data]
        /\ disk'[p] = frames[a].data
        /\ \A q \in Pages : q # p => disk'[q] = disk[q]
    BY <1>3 DEF IInv, TypeOK, Frame
  <1>6. \A f \in Frames : Holding(f)' = Holding(f)
    BY <1>2 DEF Holding
  <1>7. TypeOK'
    BY <1>2, <1>4, <1>5 DEF IInv, TypeOK
  <1>8. TableExact' /\ FramesAccounted'
    <2>1. TableExact'
      BY <1>2, <1>4 DEF IInv, TypeOK, TableExact
    <2>2. FramesAccounted'
      BY <1>2, <1>4 DEF IInv, FramesAccounted
    <2> QED BY <2>1, <2>2
  <1>9. GuardsPin'
    BY <1>2, <1>4, <1>6 DEF IInv, TypeOK, GuardsPin, Guard
  <1>10. DirtyKnown'
    <2>1. ASSUME NEW f \in Frames, frames'[f].page # NoPage,
                 frames'[f].data # disk'[frames'[f].page]
          PROVE  frames'[f].dirty
                 \/ \E h \in Holding(f)' : guard'[h].dirty \/ guard'[h].wrote
      <3>1. frames[f].page \in Pages /\ table[frames[f].page] = f
        BY <1>4, <2>1 DEF IInv, TypeOK, TableExact, Frame
      <3>2. f # a /\ frames[f].page # p
        BY <1>1, <1>4, <1>5, <2>1, <3>1
      <3>3. frames[f].dirty \/ \E h \in Holding(f) : guard[h].dirty \/ guard[h].wrote
        BY <1>4, <1>5, <2>1, <3>1, <3>2 DEF IInv, DirtyKnown
      <3> QED BY <1>2, <1>4, <1>6, <3>2, <3>3
    <2> QED BY <2>1 DEF DirtyKnown
  <1> QED BY <1>7, <1>8, <1>9, <1>10 DEF IInv

\* What flushAll leaves in the file: every frame's page as the frame has it,
\* or as the file had it where the frame was clean.
LEMMA FlushAllDisk ==
    ASSUME IInv, FlushAll
    PROVE  /\ disk' \in [Pages -> Data]
           /\ \A f \in Frames : frames[f].page # NoPage =>
                 disk'[frames[f].page] =
                    IF frames[f].dirty THEN frames[f].data ELSE disk[frames[f].page]
           /\ \A p \in Pages : table[p] = NoFrame => disk'[p] = disk[p]
  <1> DEFINE dirty == {f \in Frames : frames[f].page # NoPage /\ frames[f].dirty}
             Of(p) == CHOOSE f \in dirty : frames[f].page = p
  <1>1. disk' = [p \in Pages |-> IF \E f \in dirty : frames[f].page = p
                                THEN frames[Of(p)].data ELSE disk[p]]
    BY DEF FlushAll
  <1>2. ASSUME NEW p \in Pages, \E f \in dirty : frames[f].page = p
        PROVE  Of(p) \in dirty /\ frames[Of(p)].page = p
    BY <1>2
  <1>3. ASSUME NEW f \in Frames, frames[f].page # NoPage,
               NEW e \in Frames, frames[e].page = frames[f].page
        PROVE  e = f
    BY <1>3 DEF IInv, TableExact
  <1> HIDE DEF Of
  <1>4. disk' \in [Pages -> Data]
    BY <1>1, <1>2 DEF IInv, TypeOK, Frame
  <1>5. ASSUME NEW f \in Frames, frames[f].page # NoPage
        PROVE  disk'[frames[f].page] =
                  IF frames[f].dirty THEN frames[f].data ELSE disk[frames[f].page]
    <2>1. frames[f].page \in Pages
      BY <1>5 DEF IInv, TypeOK, Frame
    <2>2. CASE frames[f].dirty
      <3>1. Of(frames[f].page) = f
        BY <1>2, <1>3, <1>5, <2>1, <2>2
      <3> QED BY <1>1, <1>5, <2>1, <2>2, <3>1
    <2>3. CASE ~frames[f].dirty
      <3>1. ~ \E e \in dirty : frames[e].page = frames[f].page
        BY <1>3, <1>5, <2>3
      <3> QED BY <1>1, <2>1, <2>3, <3>1
    <2> QED BY <2>2, <2>3
  <1>6. ASSUME NEW p \in Pages, table[p] = NoFrame PROVE disk'[p] = disk[p]
    <2>1. ~ \E f \in dirty : frames[f].page = p
      BY <1>6, PoolAssumption DEF IInv, TableExact
    <2> QED BY <1>1, <2>1
  <1> QED BY <1>4, <1>5, <1>6

\* flushAll cleans every frame, after writing the dirty ones.
LEMMA FlushAllKeepsIInv ==
    ASSUME IInv, FlushAll
    PROVE  IInv'
  <1>1. UNCHANGED <<table, lru, freeList, numPages, guard>>
    BY DEF FlushAll
  <1>2. frames' = [f \in Frames |-> [frames[f] EXCEPT !.dirty = FALSE]]
    BY DEF FlushAll
  <1>3. /\ frames' \in [Frames -> Frame]
        /\ \A f \in Frames : /\ frames'[f].page = frames[f].page
                             /\ frames'[f].pin = frames[f].pin
                             /\ frames'[f].data = frames[f].data
    BY <1>2 DEF IInv, TypeOK, Frame
  <1>4. \A f \in Frames : Holding(f)' = Holding(f)
    BY <1>1 DEF Holding
  <1>5. TypeOK'
    BY <1>1, <1>3, FlushAllDisk DEF IInv, TypeOK
  <1>6. TableExact' /\ FramesAccounted'
    <2>1. TableExact'
      BY <1>1, <1>3 DEF IInv, TypeOK, TableExact
    <2>2. FramesAccounted'
      BY <1>1, <1>3 DEF IInv, FramesAccounted
    <2> QED BY <2>1, <2>2
  <1>7. GuardsPin'
    BY <1>1, <1>3, <1>4 DEF IInv, TypeOK, GuardsPin, Guard
  <1>8. DirtyKnown'
    <2>1. ASSUME NEW f \in Frames, frames'[f].page # NoPage,
                 frames'[f].data # disk'[frames'[f].page]
          PROVE  \E h \in Holding(f)' : guard'[h].dirty \/ guard'[h].wrote
      <3>1. ~frames[f].dirty /\ frames[f].data # disk[frames[f].page]
        BY <1>3, <2>1, FlushAllDisk
      <3>2. \E h \in Holding(f) : guard[h].dirty \/ guard[h].wrote
        BY <1>3, <2>1, <3>1 DEF IInv, DirtyKnown
      <3> QED BY <1>1, <1>4, <3>2
    <2> QED BY <2>1 DEF DirtyKnown
  <1> QED BY <1>5, <1>6, <1>7, <1>8 DEF IInv

----------------------------------------------------------------------------
(* The invariant.                                                          *)

\* The constructor leaves every frame in the free list and nothing cached.
LEMMA InitIInv == Init => IInv
  <1> SUFFICES ASSUME Init PROVE IInv
    OBVIOUS
  <1>1. \A f \in Frames : Holding(f) = {}
    BY DEF Init, Holding
  <1>2. Cardinality(Guards) \in Nat
    BY PoolAssumption, FS_CardinalityType
  <1>3. TypeOK
    BY <1>2, PoolAssumption DEF Init, TypeOK, Frame
  <1>4. TableExact
    BY PoolAssumption DEF Init, TableExact
  <1>5. GuardsPin
    BY <1>1, FS_EmptySet DEF Init, GuardsPin
  <1>6. FramesAccounted
    <2>1. lru = << >> /\ Elements(lru) = {} /\ NoRepeats(lru)
      BY DEF Init, Elements, NoRepeats
    <2> QED BY <2>1, PoolAssumption DEF Init, FramesAccounted
  <1>7. DirtyKnown
    BY DEF Init, DirtyKnown
  <1> QED BY <1>3, <1>4, <1>5, <1>6, <1>7 DEF IInv

\* Every method of the pool and every use of a guard keeps the invariant.
LEMMA NextIInv == IInv /\ [Next]_vars => IInv'
  <1> SUFFICES ASSUME IInv, [Next]_vars PROVE IInv'
    OBVIOUS
  <1>1. ASSUME NEW g \in Guards, NEW p \in Pages, FetchHit(g, p) PROVE IInv'
    BY <1>1, FetchHitKeepsIInv
  <1>2. ASSUME NEW g \in Guards, NEW p \in Pages, FetchMiss(g, p) PROVE IInv'
    BY <1>2, FetchMissKeepsIInv
  <1>3. ASSUME NEW g \in Guards, NewPage(g) PROVE IInv'
    BY <1>3, NewPageKeepsIInv
  <1>4. ASSUME NEW g \in Guards, NewPageFails(g) PROVE IInv'
    BY <1>4, NewPageFailsKeepsIInv
  <1>5. ASSUME NEW g \in Guards, NEW v \in Data, WriteBytes(g, v) PROVE IInv'
    BY <1>5, WriteBytesKeepsIInv
  <1>6. ASSUME NEW g \in Guards, MarkDirty(g) PROVE IInv'
    BY <1>6, MarkDirtyKeepsIInv
  <1>7. ASSUME NEW g \in Guards, Drop(g) PROVE IInv'
    BY <1>7, DropKeepsIInv
  <1>8. ASSUME NEW p \in Pages, Flush(p) PROVE IInv'
    BY <1>8, FlushKeepsIInv
  <1>9. CASE FlushAll
    BY <1>9, FlushAllKeepsIInv
  <1>10. CASE UNCHANGED vars
    BY <1>10 DEF vars, IInv, TypeOK, TableExact, GuardsPin, FramesAccounted,
                 DirtyKnown, Holding
  <1> QED BY <1>1, <1>2, <1>3, <1>4, <1>5, <1>6, <1>7, <1>8, <1>9, <1>10 DEF Next

\* The invariant holds in every state of the pool.
THEOREM PoolInvariant == Spec => []IInv
  BY InitIInv, NextIInv, PTL DEF Spec

\* The state of the pool keeps its types, and a pin count stays bounded.
THEOREM PoolTypeCorrect == Spec => []TypeOK
  <1>1. IInv => TypeOK
    BY DEF IInv
  <1> QED BY <1>1, PoolInvariant, PTL

\* No page is ever cached twice, for any interleaving of fetchPage, newPage,
\* eviction and unpin.
THEOREM OneCopyPerPage == Spec => []TableExact
  <1>1. IInv => TableExact
    BY DEF IInv
  <1> QED BY <1>1, PoolInvariant, PTL

\* A page is not evicted while a PageGuard points into its frame.
THEOREM PinnedFramesStay == Spec => []GuardsPin
  <1>1. IInv => GuardsPin
    BY DEF IInv
  <1> QED BY <1>1, PoolInvariant, PTL

\* acquireFrame finds a frame whenever one is not pinned.
THEOREM NoFrameLost == Spec => []FramesAccounted
  <1>1. IInv => FramesAccounted
    BY DEF IInv
  <1> QED BY <1>1, PoolInvariant, PTL

\* An eviction never throws away a change of a page.
THEOREM NoChangeForgotten == Spec => []DirtyKnown
  <1>1. IInv => DirtyKnown
    BY DEF IInv
  <1> QED BY <1>1, PoolInvariant, PTL

----------------------------------------------------------------------------
(* The pool is a plain array of pages.                                     *)

\* Contents changes where a page's cached copy, or its place in the file, does.
LEMMA ContentsAt ==
    ASSUME NEW p \in Pages
    PROVE  /\ Contents[p] = IF table[p] # NoFrame THEN frames[table[p]].data ELSE disk[p]
           /\ Contents'[p] = IF table'[p] # NoFrame THEN frames'[table'[p]].data
                                                    ELSE disk'[p]
  BY DEF Contents

\* Two contents that agree on every page are the same.
LEMMA ContentsSame ==
    ASSUME \A p \in Pages : Contents'[p] = Contents[p]
    PROVE  Contents' = Contents
  <1>1. Contents = [p \in Pages |-> Contents[p]]
    BY DEF Contents
  <1>2. Contents' = [p \in Pages |-> Contents'[p]]
    BY DEF Contents
  <1> QED BY <1>1, <1>2

\* As ContentsSame, where one page changes.
LEMMA ContentsExcept ==
    ASSUME NEW r \in Pages, NEW v, Contents'[r] = v,
           \A p \in Pages \ {r} : Contents'[p] = Contents[p]
    PROVE  Contents' = [Contents EXCEPT ![r] = v]
  <1>1. Contents = [p \in Pages |-> Contents[p]]
    BY DEF Contents
  <1>2. Contents' = [p \in Pages |-> Contents'[p]]
    BY DEF Contents
  <1> HIDE DEF Contents
  <1>3. [Contents EXCEPT ![r] = v] = [p \in Pages |-> IF p = r THEN v ELSE Contents[p]]
    BY <1>1
  <1>4. [p \in Pages |-> Contents'[p]] = [p \in Pages |-> IF p = r THEN v ELSE Contents[p]]
    OBVIOUS
  <1> QED BY <1>2, <1>3, <1>4

\* The eviction that gives page p a frame is seen by no reader of another page:
\* the victim's last contents are in the file (DirtyKnown).
LEMMA EvictionInvisible ==
    ASSUME IInv, CanAcquire, TakeFromLists,
           NEW p \in Pages, table[p] = NoFrame,
           table' = [Unmapped EXCEPT ![p] = Acquired],
           \A f \in Frames \ {Acquired} : frames'[f] = frames[f],
           \A q \in Pages \ {p} : disk'[q] = WrittenBack[q],
           NEW q \in Pages, q # p
    PROVE  Contents'[q] = Contents[q]
  <1>1. PICK a \in Frames : a = Acquired
    BY AcquiredFrame
  <1>2. /\ Unmapped \in [Pages -> Frames \cup {NoFrame}]
        /\ Unmapped[q] = IF q = frames[a].page THEN NoFrame ELSE table[q]
        /\ Unmapped[q] # a
    BY <1>1, UnmappedTable
  <1>3. table'[q] = Unmapped[q]
    BY <1>2
  <1>4. CASE q = frames[a].page
    <2>1. table[q] = a /\ frames[a].page # NoPage
      BY <1>4, PoolAssumption DEF IInv, TableExact
    <2>2. disk'[q] = frames[a].data
      <3>1. disk'[q] = IF frames[a].dirty THEN frames[a].data ELSE disk[q]
        BY <1>1, <1>4, <2>1 DEF WrittenBack, IInv, TypeOK
      <3>2. ~frames[a].dirty => frames[a].data = disk[q]
        <4>1. Holding(a) = {}
          BY <1>1, AcquiredFrame
        <4> QED BY <1>4, <2>1, <4>1 DEF IInv, DirtyKnown
      <3> QED BY <3>1, <3>2
    <2>3. table'[q] = NoFrame /\ table[q] # NoFrame
      BY <1>2, <1>3, <1>4, <2>1, PoolAssumption
    <2> QED BY <2>1, <2>2, <2>3, ContentsAt
  <1>5. CASE q # frames[a].page
    <2>1. table'[q] = table[q] /\ table[q] # a
      BY <1>2, <1>3, <1>5
    <2>2. disk'[q] = disk[q]
      BY <1>1, <1>5, WrittenBackDisk
    <2>3. table[q] # NoFrame => frames'[table[q]] = frames[table[q]]
      BY <1>1, <2>1 DEF IInv, TypeOK
    <2> QED BY <2>1, <2>2, <2>3, ContentsAt
  <1> QED BY <1>4, <1>5

\* Reading a page into a frame changes nothing a reader sees.
LEMMA FetchMissInvisible ==
    ASSUME IInv, NEW g \in Guards, NEW p \in Pages, FetchMiss(g, p)
    PROVE  Contents' = Contents
  <1>1. PICK a \in Frames : a = Acquired
    BY AcquiredFrame DEF FetchMiss
  <1>2. Unmapped \in [Pages -> Frames \cup {NoFrame}] /\ table[p] = NoFrame
    BY <1>1, UnmappedTable DEF FetchMiss
  <1>3. table'[p] = a /\ a # NoFrame /\ frames'[a].data = WrittenBack[p]
    BY <1>1, <1>2, PoolAssumption DEF FetchMiss, IInv, TypeOK
  <1>4. WrittenBack[p] = disk[p]
    <2>1. p # frames[a].page
      BY <1>1, <1>2, PoolAssumption DEF IInv, TableExact
    <2> QED BY <1>1, <2>1, WrittenBackDisk
  <1>5. Contents'[p] = Contents[p]
    BY <1>2, <1>3, <1>4, ContentsAt
  <1>6. ASSUME NEW q \in Pages, q # p PROVE Contents'[q] = Contents[q]
    <2>1. \A f \in Frames \ {Acquired} : frames'[f] = frames[f]
      BY <1>1 DEF FetchMiss, IInv, TypeOK
    <2> QED BY <1>6, <2>1, EvictionInvisible DEF FetchMiss
  <1> QED BY <1>5, <1>6, ContentsSame

\* Guards whose pages agree but for one.
LEMMA HeldExcept ==
    ASSUME NEW g \in Guards, NEW v, Held'[g] = v,
           \A h \in Guards \ {g} : Held'[h] = Held[h]
    PROVE  Held' = [Held EXCEPT ![g] = v]
  <1>1. Held = [h \in Guards |-> Held[h]]
    BY DEF Held
  <1>2. Held' = [h \in Guards |-> Held'[h]]
    BY DEF Held
  <1> HIDE DEF Held
  <1>3. [Held EXCEPT ![g] = v] = [h \in Guards |-> IF h = g THEN v ELSE Held[h]]
    BY <1>1
  <1>4. [h \in Guards |-> Held'[h]] = [h \in Guards |-> IF h = g THEN v ELSE Held[h]]
    OBVIOUS
  <1> QED BY <1>2, <1>3, <1>4

\* A guard that is given a page holds that page.
LEMMA HeldByHold ==
    ASSUME TypeOK, NEW g \in Guards, guard[g] = NoGuard,
           NEW p \in Pages, NEW a \in Frames, Hold(g, p, a)
    PROVE  Held[g] = NoPage /\ Held' = [Held EXCEPT ![g] = p]
  <1>1. /\ guard'[g] # NoGuard /\ guard'[g].page = p
        /\ \A h \in Guards \ {g} : guard'[h] = guard[h]
    <2>1. /\ guard'[g] = [page |-> p, frame |-> a, dirty |-> FALSE, wrote |-> FALSE]
          /\ guard'[g] # NoGuard
          /\ \A h \in Guards \ {g} : guard'[h] = guard[h]
      BY HoldAddsHolder
    <2> QED BY <2>1
  <1>2. Held[g] = NoPage
    BY DEF Held
  <1>3. /\ Held'[g] = p
        /\ \A h \in Guards \ {g} : Held'[h] = Held[h]
    BY <1>1 DEF Held
  <1> QED BY <1>2, <1>3, HeldExcept

\* A guard that is dropped holds nothing.
LEMMA HeldByDrop ==
    ASSUME TypeOK, NEW g \in Guards, guard[g] # NoGuard,
           guard' = [guard EXCEPT ![g] = NoGuard]
    PROVE  Held[g] # NoPage /\ Held' = [Held EXCEPT ![g] = NoPage]
  <1>1. guard[g] \in Guard
    BY DEF TypeOK
  <1>2. guard[g].page \in Pages /\ guard[g].page # NoPage
    BY <1>1, PoolAssumption DEF Guard
  <1>3. guard'[g] = NoGuard /\ \A h \in Guards \ {g} : guard'[h] = guard[h]
    BY DEF TypeOK
  <1>4. Held[g] # NoPage
    BY <1>2 DEF Held
  <1>5. /\ Held'[g] = NoPage
        /\ \A h \in Guards \ {g} : Held'[h] = Held[h]
    BY <1>3 DEF Held
  <1> QED BY <1>4, <1>5, HeldExcept

\* Writing bytes and marking dirty change no guard's page.
LEMMA HeldByMark ==
    ASSUME TypeOK, NEW g \in Guards, guard[g] # NoGuard,
           NEW w \in BOOLEAN, NEW d \in BOOLEAN,
           \/ guard' = [guard EXCEPT ![g].wrote = w]
           \/ guard' = [guard EXCEPT ![g].wrote = w, ![g].dirty = d]
    PROVE  Held' = Held
  <1>1. guard[g] \in Guard /\ NoGuard \notin Guard
    BY PoolAssumption DEF TypeOK
  <1>2. guard'[g].page = guard[g].page /\ guard'[g] # NoGuard
    <2>1. PICK e \in BOOLEAN :
             guard'[g] = [page |-> guard[g].page, frame |-> guard[g].frame,
                          dirty |-> e, wrote |-> w]
      BY <1>1 DEF TypeOK, Guard
    <2>2. guard'[g] \in Guard
      BY <1>1, <2>1 DEF Guard
    <2> QED BY <1>1, <2>1, <2>2
  <1>3. \A h \in Guards \ {g} : guard'[h] = guard[h]
    BY DEF TypeOK
  <1> QED BY <1>2, <1>3 DEF Held

\* newPage adds an initialised page and changes no other.
LEMMA NewPageCreates ==
    ASSUME IInv, NEW g \in Guards, NewPage(g)
    PROVE  /\ Store!Create(g)
           /\ \A p \in Pages : p # numPages => Contents'[p] = Contents[p]
  <1>1. PICK a \in Frames : a = Acquired
    BY AcquiredFrame DEF NewPage
  <1>2. numPages \in Pages /\ table[numPages] = NoFrame /\ numPages < MaxPages
    BY PoolAssumption DEF NewPage, IInv, TypeOK, TableExact, Pages
  <1>3. Unmapped \in [Pages -> Frames \cup {NoFrame}]
    BY <1>1, UnmappedTable
  <1>4. table'[numPages] = a /\ a # NoFrame /\ frames'[a].data = Empty
    BY <1>1, <1>2, <1>3, PoolAssumption DEF NewPage, IInv, TypeOK
  <1>5. Contents'[numPages] = Empty
    BY <1>2, <1>4, ContentsAt
  <1>6. ASSUME NEW q \in Pages, q # numPages PROVE Contents'[q] = Contents[q]
    <2>1. \A f \in Frames \ {Acquired} : frames'[f] = frames[f]
      BY <1>1 DEF NewPage, IInv, TypeOK
    <2>2. \A r \in Pages \ {numPages} : disk'[r] = WrittenBack[r]
      BY <1>1, WrittenBackDisk DEF NewPage
    <2> QED BY <1>2, <1>6, <2>1, <2>2, EvictionInvisible DEF NewPage
  <1>7. Contents' = [Contents EXCEPT ![numPages] = Empty]
    BY <1>2, <1>5, <1>6, ContentsExcept
  <1>8. numPages' = numPages + 1
    BY DEF NewPage
  <1>9. Held[g] = NoPage /\ Held' = [Held EXCEPT ![g] = numPages]
    <2>1. guard[g] = NoGuard /\ Hold(g, numPages, a)
      BY <1>1 DEF NewPage
    <2> QED BY <1>1, <1>2, <2>1, HeldByHold DEF IInv
  <1> QED BY <1>2, <1>6, <1>7, <1>8, <1>9 DEF Store!Create

\* A newPage that fails adds a page of zeros.
LEMMA NewPageFailsLoses ==
    ASSUME IInv, NEW g \in Guards, NewPageFails(g)
    PROVE  /\ Store!Lose
           /\ \A p \in Pages : p # numPages => Contents'[p] = Contents[p]
  <1>1. numPages \in Pages /\ table[numPages] = NoFrame /\ numPages < MaxPages
    BY PoolAssumption DEF NewPageFails, IInv, TypeOK, TableExact, Pages
  <1>2. /\ disk'[numPages] = Zero
        /\ \A q \in Pages \ {numPages} : disk'[q] = disk[q]
        /\ UNCHANGED <<table, frames>> /\ numPages' = numPages + 1
    BY <1>1 DEF NewPageFails, IInv, TypeOK
  <1>3. Contents'[numPages] = Zero
    BY <1>1, <1>2, ContentsAt
  <1>4. \A q \in Pages \ {numPages} : Contents'[q] = Contents[q]
    BY <1>2, ContentsAt
  <1>5. Contents' = [Contents EXCEPT ![numPages] = Zero]
    BY <1>1, <1>3, <1>4, ContentsExcept
  <1>6. Held' = Held
    BY DEF NewPageFails, Held
  <1> QED BY <1>1, <1>2, <1>4, <1>5, <1>6 DEF Store!Lose

\* The bytes a holder writes are the page's own: no other page shares the frame.
LEMMA WriteBytesWrites ==
    ASSUME IInv, NEW g \in Guards, NEW v \in Data, WriteBytes(g, v)
    PROVE  /\ Store!Write(g, v)
           /\ Contents' = [Contents EXCEPT ![guard[g].page] = v]
  <1>1. guard[g] \in Guard /\ guard[g] # NoGuard
    BY DEF WriteBytes, IInv, TypeOK
  <1>2. PICK a \in Frames, p \in Pages : a = guard[g].frame /\ p = guard[g].page
    BY <1>1 DEF Guard
  <1>3. frames[a].page = p /\ table[p] = a /\ a # NoFrame
    <2>1. frames[a].page = p
      BY <1>1, <1>2 DEF IInv, GuardsPin
    <2> QED BY <2>1, PoolAssumption DEF IInv, TableExact
  <1>4. p < numPages
    BY <1>3 DEF IInv, TableExact
  <1>5. UNCHANGED <<table, disk, numPages>> /\ frames' = [frames EXCEPT ![a].data = v]
    BY <1>2 DEF WriteBytes
  <1>6. frames'[a].data = v /\ \A f \in Frames \ {a} : frames'[f] = frames[f]
    BY <1>5 DEF IInv, TypeOK, Frame
  <1>7. Contents'[p] = v
    BY <1>3, <1>5, <1>6, ContentsAt
  <1>8. ASSUME NEW q \in Pages \ {p} PROVE Contents'[q] = Contents[q]
    <2>1. table[q] # a
      BY <1>3 DEF IInv, TableExact
    <2>2. table[q] # NoFrame => frames'[table[q]] = frames[table[q]]
      BY <1>6, <2>1 DEF IInv, TypeOK
    <2>3. table' = table /\ disk' = disk
      BY <1>5
    <2> QED BY <2>2, <2>3, ContentsAt
  <1>9. Contents' = [Contents EXCEPT ![p] = v]
    BY <1>7, <1>8, ContentsExcept
  <1>10. Held' = Held
    BY HeldByMark DEF WriteBytes, IInv
  <1>11. Held[g] = p /\ p # NoPage
    BY <1>1, <1>2, PoolAssumption DEF Held
  <1>12. Store!Write(g, v)
    BY <1>5, <1>9, <1>10, <1>11 DEF Store!Write
  <1> QED BY <1>2, <1>9, <1>12

\* Pins, dirty bits and flushes are invisible: the cached copies stay, and so
\* does the file under the pages that are not cached.
LEMMA CachedCopiesKept ==
    ASSUME IInv, UNCHANGED table,
           \A f \in Frames : frames'[f].data = frames[f].data,
           \A p \in Pages : table[p] = NoFrame => disk'[p] = disk[p]
    PROVE  Contents' = Contents
  <1>1. ASSUME NEW p \in Pages PROVE Contents'[p] = Contents[p]
    <2>1. table[p] # NoFrame => frames'[table[p]].data = frames[table[p]].data
      BY DEF IInv, TypeOK
    <2> QED BY <2>1, ContentsAt
  <1> QED BY <1>1, ContentsSame

\* Every step of the pool is the step of the array of pages it stands for, or
\* invisible; and only a guard's write and a new page change contents.
LEMMA NextTransparent ==
    IInv /\ [Next]_vars => [Store!Next]_Store!psVars /\ WritersOnly
  <1> SUFFICES ASSUME IInv, [Next]_vars PROVE [Store!Next]_Store!psVars /\ WritersOnly
    OBVIOUS
  <1>1. ASSUME Contents' = Contents, numPages' = numPages, Held' = Held
        PROVE  [Store!Next]_Store!psVars /\ WritersOnly
    BY <1>1 DEF Store!psVars, WritersOnly
  <1>2. ASSUME NEW g \in Guards, NEW p \in Pages, FetchHit(g, p) \/ FetchMiss(g, p)
        PROVE  [Store!Next]_Store!psVars /\ WritersOnly
    <2>1. Contents' = Contents /\ numPages' = numPages
      <3>1. CASE FetchHit(g, p)
        <4>1. \A f \in Frames : frames'[f].data = frames[f].data
          BY <3>1 DEF FetchHit, IInv, TypeOK, Frame
        <4>2. UNCHANGED <<table, disk, numPages>>
          BY <3>1 DEF FetchHit
        <4> QED BY <4>1, <4>2, CachedCopiesKept
      <3>2. CASE FetchMiss(g, p)
        <4>1. numPages' = numPages
          BY <3>2 DEF FetchMiss
        <4> QED BY <3>2, <4>1, FetchMissInvisible
      <3> QED BY <1>2, <3>1, <3>2
    <2>2. PICK a \in Frames : guard[g] = NoGuard /\ Hold(g, p, a) /\ p < numPages
      <3>1. CASE FetchHit(g, p)
        <4>1. table[p] \in Frames /\ p < numPages
          BY <3>1 DEF FetchHit, IInv, TypeOK, TableExact
        <4> QED BY <3>1, <4>1 DEF FetchHit
      <3>2. CASE FetchMiss(g, p)
        <4>1. Acquired \in Frames
          BY <3>2, AcquiredFrame DEF FetchMiss
        <4> QED BY <3>2, <4>1 DEF FetchMiss
      <3> QED BY <1>2, <3>1, <3>2
    <2>3. Held[g] = NoPage /\ Held' = [Held EXCEPT ![g] = p]
      BY <2>2, HeldByHold DEF IInv
    <2>4. Store!Open(g, p)
      BY <2>1, <2>2, <2>3 DEF Store!Open
    <2> QED BY <2>1, <2>4 DEF WritersOnly, Store!Next, Store!Pages, Pages
  <1>3. ASSUME NEW g \in Guards, NewPage(g) \/ NewPageFails(g)
        PROVE  [Store!Next]_Store!psVars /\ WritersOnly
    <2>1. Store!Create(g) \/ Store!Lose
      BY <1>3, NewPageCreates, NewPageFailsLoses
    <2>2. \A p \in Pages : p # numPages => Contents'[p] = Contents[p]
      BY <1>3, NewPageCreates, NewPageFailsLoses
    <2>3. WritersOnly
      BY <1>3, <2>2 DEF WritersOnly
    <2> QED BY <2>1, <2>3 DEF Store!Next
  <1>4. ASSUME NEW g \in Guards, NEW v \in Data, WriteBytes(g, v)
        PROVE  [Store!Next]_Store!psVars /\ WritersOnly
    <2>1. Store!Write(g, v) /\ Contents' = [Contents EXCEPT ![guard[g].page] = v]
      BY <1>4, WriteBytesWrites
    <2>2. WritersOnly
      BY <1>4, <2>1 DEF WritersOnly
    <2> QED BY <2>1, <2>2 DEF Store!Next
  <1>5. ASSUME NEW g \in Guards, MarkDirty(g)
        PROVE  [Store!Next]_Store!psVars /\ WritersOnly
    <2>1. UNCHANGED <<table, frames, disk, numPages>>
      BY <1>5 DEF MarkDirty
    <2>2. Contents' = Contents
      BY <2>1, CachedCopiesKept
    <2>3. Held' = Held
      BY <1>5, HeldByMark DEF MarkDirty, IInv
    <2> QED BY <1>1, <2>1, <2>2, <2>3
  <1>6. ASSUME NEW g \in Guards, Drop(g)
        PROVE  [Store!Next]_Store!psVars /\ WritersOnly
    <2>1. \A f \in Frames : frames'[f].data = frames[f].data
      BY <1>6, ZenonT(60) DEF Drop, IInv, TypeOK, Frame
    <2>2. UNCHANGED <<table, disk, numPages>>
      BY <1>6 DEF Drop
    <2>3. Contents' = Contents
      BY <2>1, <2>2, CachedCopiesKept
    <2>4. Held[g] # NoPage /\ Held' = [Held EXCEPT ![g] = NoPage]
      BY <1>6, HeldByDrop DEF Drop, IInv
    <2>5. Store!Close(g)
      BY <2>2, <2>3, <2>4 DEF Store!Close
    <2> QED BY <2>3, <2>5 DEF WritersOnly, Store!Next
  <1>7. ASSUME NEW p \in Pages, Flush(p)
        PROVE  [Store!Next]_Store!psVars /\ WritersOnly
    <2>1. \A f \in Frames : frames'[f].data = frames[f].data
      BY <1>7 DEF Flush, IInv, TypeOK, Frame
    <2>2. table[p] # NoFrame /\ frames[table[p]].page = p
      BY <1>7 DEF Flush, IInv, TableExact
    <2>3. \A q \in Pages : q # p => disk'[q] = disk[q]
      BY <1>7, <2>2 DEF Flush, IInv, TypeOK
    <2>4. UNCHANGED <<table, numPages, guard>>
      BY <1>7 DEF Flush
    <2>5. Contents' = Contents
      BY <2>1, <2>2, <2>3, <2>4, CachedCopiesKept
    <2> QED BY <1>1, <2>4, <2>5 DEF Held
  <1>8. CASE FlushAll
    <2>1. \A f \in Frames : frames'[f].data = frames[f].data
      BY <1>8 DEF FlushAll, IInv, TypeOK, Frame
    <2>2. UNCHANGED <<table, numPages, guard>>
      BY <1>8 DEF FlushAll
    <2>3. Contents' = Contents
      BY <1>8, <2>1, <2>2, FlushAllDisk, CachedCopiesKept
    <2> QED BY <1>1, <2>2, <2>3 DEF Held
  <1>9. CASE UNCHANGED vars
    <2>1. Contents' = Contents
      BY <1>9, CachedCopiesKept DEF vars
    <2> QED BY <1>1, <1>9, <2>1 DEF vars, Held
  <1> QED BY <1>2, <1>3, <1>4, <1>5, <1>6, <1>7, <1>8, <1>9 DEF Next

\* The pool implements PageStore: whatever is evicted, read back, flushed or
\* pinned by several holders at once, a guard gets the page it asked for, and
\* its write changes that page alone; every other step keeps every page.
THEOREM PoolIsTransparent == Spec => Transparent
  <1>1. Init => Store!Init
    BY PoolAssumption DEF Init, Store!Init, Store!Pages, Pages, Contents, Held
  <1>2. IInv /\ [Next]_vars => [Store!Next]_Store!psVars
    BY NextTransparent
  <1>3. IInv /\ [Next]_vars => [WritersOnly]_vars
    BY NextTransparent
  <1> QED BY <1>1, <1>2, <1>3, PoolInvariant, PTL
          DEF Spec, Transparent, Store!Spec

=============================================================================
