-------------------------- MODULE ManagedHeapProofs -------------------------
(***************************************************************************)
(* The managed heap, for every capacity, set of places, size of objects,   *)
(* policy and budget, and for every nesting of constructors, destructors   *)
(* and calls of the heap that the model has.                               *)
(*                                                                         *)
(* The inductive invariant IInv has three parts.  HeapOK is the layout: a  *)
(* call that is in progress leaves no half-made heap, except that an object *)
(* under construction is in the chain and not yet counted.  CallsOK is what *)
(* the unfinished calls rely on while user code runs in them: which objects *)
(* are dying, and that nobody holds an address while objects move.         *)
(* OwnersOK is the counts against the owners, the references in flight of  *)
(* unfinished assignments included.  TypeOK, HeapSound and RefsExact follow *)
(* from it; what a step does to the objects (Happens) gives the action     *)
(* properties and the refinement of ObjectStore.                           *)
(***************************************************************************)
EXTENDS ManagedHeap, HeapLayoutProofs

-----------------------------------------------------------------------------
(***************************************************************************)
(* The inductive invariant.                                                *)
(***************************************************************************)
\* The objects whose constructor is running.
Constructing(fs) == {h \in Handles : \E i \in DOMAIN fs : fs[i].kind = "constructor" /\ fs[i].h = h}

\* A destructor is running, on behalf of release_.
Dying(f) == f.kind \in {"body", "members"}

\* The unfinished call f owns a reference to h: make does to what it constructs,
\* and an assignment to what it is about to store.
Owns(f, h) == \/ f.kind = "constructor" /\ f.h = h
              \/ Dying(f) /\ f.rest.incoming = h

\* Owners, of any state.
OwnersOf(h, p, sc, fs) ==
    Cardinality({l \in Places : p[l] = h})
    + Cardinality({i \in DOMAIN sc : sc[i].h = h})
    + Cardinality({i \in DOMAIN fs : Owns(fs[i], h)})

\* The place an unfinished call will write a handle to.
Pending(f) == IF f.kind = "constructor" THEN f.to ELSE IF Dying(f) THEN f.rest.to ELSE Null

\* What is left of an assignment once release_ returns.
RestOK(r) == r.incoming # Null => r.to # Null /\ r.from = Null

\* The invariant of the calls: the objects under construction differ, and so do
\* those being destroyed; a compaction is the innermost call, with no address held
\* and no destructor running; an address that is held is the one the object has.
CallsOK(w, p, sc, fs) ==
    /\ p \in [Places -> Handles \cup {Null}]
    /\ sc \in Seq(Scope)
    /\ fs \in Seq(ReleaseFrame \cup MakeFrame \cup CompactFrame)
    /\ \A i, j \in DOMAIN fs : fs[i].kind = "constructor" /\ fs[j].kind = "constructor"
           /\ fs[i].h = fs[j].h => i = j
    /\ \A i, j \in DOMAIN fs : Dying(fs[i]) /\ Dying(fs[j]) /\ fs[i].h = fs[j].h => i = j
    /\ \A i \in DOMAIN fs : Dying(fs[i]) => w[fs[i].h].state = "destroying" /\ RestOK(fs[i].rest)
    /\ \A i \in DOMAIN fs : fs[i].kind \in {"evacuate", "shift"} =>
           /\ i = Len(fs) /\ sc = <<>>
           /\ \A j \in DOMAIN fs : ~ Dying(fs[j])
    /\ \A i \in DOMAIN sc : sc[i].ptr = w[sc[i].h].offset

\* The invariant of the counts: no object has more owners than references and,
\* where no destructor writes to a place a call is about to fill, as many.
OwnersOK(w, p, sc, fs) ==
    /\ \A h \in Handles : OwnersOf(h, p, sc, fs) <= w[h].refs
    /\ ~ DestructorsReassign =>
        /\ \A h \in Handles : OwnersOf(h, p, sc, fs) = w[h].refs
        /\ \A i \in DOMAIN fs : Pending(fs[i]) # Null => p[Pending(fs[i])] = Null
        /\ \A i, j \in DOMAIN fs : Pending(fs[i]) = Pending(fs[j]) /\ Pending(fs[i]) # Null => i = j

\* The inductive invariant.
IInv ==
    /\ HeapOK(heap, Constructing(frames))
    /\ CallsOK(View(heap), ptr, scopes, frames)
    /\ OwnersOK(View(heap), ptr, scopes, frames)

\* debug_assert_invariants_ passes on a heap with no constructor running: each
\* of its assertions follows from the heap's invariant.
LEMMA CheckPasses ==
    ASSUME HeapOK(heap, {})
    PROVE  DebugAssertInvariants
<1> DEFINE c == Chain(heap)
           w == View(heap)
           top == MetadataTop(heap)
           n == Len(c)
<1>1. /\ HeapRec(heap) /\ w \in [Handles -> Slot] /\ IsChain(w, heap.root, c)
      /\ LaidOut(w, top, c) /\ SlotsSound(w) /\ top \in Nat /\ top <= Capacity
      /\ top % HeapAlignment = 0 /\ n \in Nat /\ DOMAIN c = 1 .. n
    BY HeapGives
<1>2. TablesSound(heap.tables)
    BY <1>1 DEF HeapRec
<1>3. ASSUME NEW h \in Handles, IsUsed(heap, h)
      PROVE  /\ w[h].state # "free" /\ SlotOf(heap, h) = w[h]
             /\ SlotOf(heap, h).refs # 0 <=> SlotOf(heap, h).state = "live"
    <2>1. w[h].state # "free" /\ SlotOf(heap, h) = w[h]
        BY <1>2, <1>3, ViewIs
    <2>2. QED
        BY <1>1, <2>1 DEF SlotsSound
<1>4. \A i, j \in DOMAIN heap.tables : heap.tables[i].id = heap.tables[j].id => i = j
    BY <1>2 DEF TablesSound
<1>5. Used(heap) = InUse(w) /\ InUse(w) \ {} = InUse(w)
    BY <1>2, ViewIs
<1>6. heap.live = Cardinality(Used(heap)) /\ heap.live = n
    <2>1. heap.live = Cardinality(InUse(w) \ {})
        BY DEF HeapOK
    <2>2. Cardinality(InUse(w)) = n
        BY <1>1, ChainLength
    <2>3. QED
        BY <1>5, <2>1, <2>2
<1>7. ASSUME NEW i \in DOMAIN c
      PROVE  /\ IsUsed(heap, c[i])
             /\ Base(heap, c[i]) % HeapAlignment = 0
             /\ Base(heap, c[i]) >= top
             /\ TopOf(heap, c[i]) <= (IF i = 1 THEN Capacity ELSE Base(heap, c[i - 1]))
             /\ ReservedSize(heap, c[i]) = AlignUp(w[c[i]].size)
    <2>1. \A k \in 1 .. n : c[k] \in Handles /\ w[c[k]].state # "free"
        BY <1>1, ChainParts
    <2>2. i \in 1 .. n /\ (i # 1 => i - 1 \in 1 .. n)
        BY <1>1
    <2>3. /\ Base(heap, c[i]) = w[c[i]].offset /\ TopOf(heap, c[i]) = Past(w[c[i]])
          /\ IsUsed(heap, c[i]) /\ ReservedSize(heap, c[i]) = AlignUp(w[c[i]].size)
        BY <1>1, <2>1, <2>2, Reads
    <2>4. i # 1 => Base(heap, c[i - 1]) = w[c[i - 1]].offset
        BY <1>1, <2>1, <2>2, Reads
    <2>5. /\ w[c[i]].offset % HeapAlignment = 0
          /\ top <= w[c[i]].offset
          /\ Past(w[c[i]]) <= IF i = 1 THEN Capacity ELSE w[c[i - 1]].offset
        BY <1>1 DEF LaidOut
    <2>6. w[c[i]].offset \in Nat
        BY <1>1, <2>2, ChainParts
    <2>7. Base(heap, c[i]) >= top
        BY <1>1, <2>3, <2>5, <2>6
    <2>8. TopOf(heap, c[i]) <= (IF i = 1 THEN Capacity ELSE Base(heap, c[i - 1]))
        BY <2>3, <2>4, <2>5
    <2>9. QED
        BY <2>3, <2>5, <2>7, <2>8
<1>8. CountedReserved = heap.reserved
    <2>1. [i \in DOMAIN c |-> ReservedSize(heap, c[i])] = Weights(w, c, {})
        BY <1>7 DEF Weights
    <2>2. heap.reserved = Total(Weights(w, c, {}))
        BY DEF HeapOK
    <2>3. QED
        BY <2>1, <2>2 DEF CountedReserved
<1>9. FreeSpace(heap) = FreeExtents(heap, c)
    <2>1. FreeExtents(heap, c) = (Capacity - top) - heap.reserved
        BY FreeExtentsIs DEF HeapOK
    <2>2. QED
        BY <2>1 DEF FreeSpace
<1>10. FreeSpace(heap) >= 0
    <2> DEFINE s == [i \in 1 .. n + 1 |-> Span(heap, c, i - 1)]
    <2>1. \A i \in 0 .. n : Span(heap, c, i) \in Nat
        <3>1. SUFFICES ASSUME NEW i \in 0 .. n PROVE Span(heap, c, i) \in Nat
            OBVIOUS
        <3>2. Span(heap, c, i) = Above(w, c, i) - Under(w, top, c, i)
            BY <1>1, SpanReads
        <3>3. /\ Above(w, c, i) \in Nat /\ Under(w, top, c, i) \in Nat
              /\ Under(w, top, c, i) <= Above(w, c, i)
            BY <1>1, Extents
        <3>4. QED
            BY <3>2, <3>3
    <2>2. \A i \in 1 .. n + 1 : i - 1 \in 0 .. n
        BY <1>1
    <2>3. \A i \in 1 .. n + 1 : Span(heap, c, i - 1) \in Nat
        BY <2>1, <2>2
    <2>4. s \in [1 .. n + 1 -> Int] /\ n + 1 \in Nat
        BY <1>1, <2>3
    <2>5. s \in Seq(Int) /\ Len(s) = n + 1 /\ \A i \in 1 .. n + 1 : s[i] >= 0
        BY <2>3, <2>4
    <2>6. FreeExtents(heap, c) = Total(s)
        BY DEF FreeExtents
    <2> HIDE DEF s
    <2>7. Total(s) >= 0
        BY <2>5, TotalBounds
    <2>8. QED
        BY <1>9, <2>6, <2>7
<1>11. QED
    BY <1>1, <1>3, <1>4, <1>6, <1>7, <1>8, <1>9, <1>10 DEF DebugAssertInvariants

-----------------------------------------------------------------------------
(***************************************************************************)
(* Owners are counted.                                                     *)
(***************************************************************************)
\* 1 for the handle that is meant, 0 for others.
Ind(x, h) == IF x = h THEN 1 ELSE 0

\* The owners of h, by kind.
PtrOwners(p, h) == Cardinality({l \in Places : p[l] = h})
ScopeOwners(sc, h) == Cardinality({i \in DOMAIN sc : sc[i].h = h})
FrameOwners(fs, h) == Cardinality({i \in DOMAIN fs : Owns(fs[i], h)})

\* A call, and what a place holds.
FrameKind == ReleaseFrame \cup MakeFrame \cup CompactFrame
Held == Handles \cup {Null}

\* The handle an unfinished call holds a reference to.
OwnedBy(f) ==
    IF f.kind = "constructor" THEN f.h ELSE IF Dying(f) THEN f.rest.incoming ELSE Null

\* There are finitely many places.
LEMMA PlacesFinite == IsFiniteSet(Places)
BY HandlesFinite, ProgramAssumption, FS_Union DEF Places

\* The last index of a sequence counts for one, if it counts.
LEMMA LastCounted ==
    ASSUME NEW n \in Nat, NEW S \in SUBSET (1 .. n + 1)
    PROVE  /\ Cardinality(S) \in Nat
           /\ Cardinality(S) = Cardinality(S \ {n + 1}) + (IF n + 1 \in S THEN 1 ELSE 0)
           /\ S \ {n + 1} = S \cap 1 .. n
<1>1. IsFiniteSet(S)
    <2>1. IsFiniteSet(1 .. n + 1)
        BY IntervalCount
    <2>2. QED
        BY <2>1, FS_Subset
<1>2. Cardinality(S) \in Nat
    BY <1>1, FS_CardinalityType
<1>3. Cardinality(S \ {n + 1}) = IF n + 1 \in S THEN Cardinality(S) - 1 ELSE Cardinality(S)
    BY <1>1, FS_RemoveElement
<1>4. S \ {n + 1} = S \cap 1 .. n
    <2>1. ASSUME NEW k \in S PROVE k # n + 1 <=> k \in 1 .. n
        OBVIOUS
    <2>2. QED
        BY <2>1, Zenon
<1>5. QED
    BY <1>2, <1>3, <1>4

\* A place that holds h counts as an owner.
LEMMA PtrOwnersTyped ==
    ASSUME NEW p, NEW h
    PROVE  /\ PtrOwners(p, h) \in Nat
           /\ \A l \in Places : p[l] = h => PtrOwners(p, h) >= 1
<1> DEFINE S == {l \in Places : p[l] = h}
<1>1. IsFiniteSet(S)
    BY PlacesFinite, FS_Subset
<1>2. Cardinality(S) \in Nat /\ (Cardinality(S) = 0 <=> S = {})
    BY <1>1, FS_CardinalityType, FS_EmptySet
<1>3. PtrOwners(p, h) = Cardinality(S)
    BY DEF PtrOwners
<1>4. QED
    BY <1>2, <1>3

\* A place is filled.
Puts(p, l, x, q) ==
    p \in [Places -> Held] /\ l \in Places /\ x \in Held /\ q = [p EXCEPT ![l] = x]

\* What it held loses an owner, and what it now holds has one more.
LEMMA PtrOwnersSet ==
    ASSUME NEW p, NEW l, NEW x, NEW q, Puts(p, l, x, q)
    PROVE  \A h \in Handles : PtrOwners(q, h) = (PtrOwners(p, h) - Ind(p[l], h)) + Ind(x, h)
<1>0. p \in [Places -> Held] /\ l \in Places /\ x \in Held /\ q = [p EXCEPT ![l] = x]
    BY DEF Puts
<1> SUFFICES ASSUME NEW h \in Handles
             PROVE  PtrOwners(q, h) = (PtrOwners(p, h) - Ind(p[l], h)) + Ind(x, h)
    OBVIOUS
<1> DEFINE S == {k \in Places : p[k] = h}
           T == {k \in Places : q[k] = h}
<1>1. IsFiniteSet(S) /\ IsFiniteSet(T)
    BY PlacesFinite, FS_Subset
<1>2. S \ {l} = T \ {l} /\ (l \in S <=> p[l] = h) /\ (l \in T <=> x = h)
    BY <1>0
<1>3. /\ Cardinality(S \ {l}) = IF l \in S THEN Cardinality(S) - 1 ELSE Cardinality(S)
      /\ Cardinality(T \ {l}) = IF l \in T THEN Cardinality(T) - 1 ELSE Cardinality(T)
      /\ Cardinality(S) \in Nat /\ Cardinality(T) \in Nat
    BY <1>1, FS_RemoveElement, FS_CardinalityType
<1>4. PtrOwners(p, h) = Cardinality(S) /\ PtrOwners(q, h) = Cardinality(T)
    BY DEF PtrOwners
<1> HIDE DEF S, T
<1>5. Cardinality(T) = (Cardinality(S) - Ind(p[l], h)) + Ind(x, h)
    <2>1. Ind(p[l], h) = (IF l \in S THEN 1 ELSE 0) /\ Ind(x, h) = IF l \in T THEN 1 ELSE 0
        BY <1>2 DEF Ind
    <2>2. Cardinality(S \ {l}) = Cardinality(T \ {l})
        BY <1>2
    <2>3. QED
        BY <1>3, <2>1, <2>2
<1>6. QED
    BY <1>4, <1>5

\* A scoped access is one more owner of its object.
LEMMA ScopeOwnersPushed ==
    ASSUME NEW sc \in Seq(Scope), NEW x \in Scope, NEW h
    PROVE  /\ ScopeOwners(Append(sc, x), h) = ScopeOwners(sc, h) + Ind(x.h, h)
           /\ ScopeOwners(sc, h) \in Nat
<1> DEFINE n == Len(sc)
           sd == Append(sc, x)
           A == {i \in DOMAIN sd : sd[i].h = h}
           B == {i \in DOMAIN sc : sc[i].h = h}
<1>1. n \in Nat /\ DOMAIN sc = 1 .. n /\ DOMAIN sd = 1 .. n + 1 /\ sd[n + 1] = x
      /\ \A i \in 1 .. n : sd[i] = sc[i]
    OBVIOUS
<1> HIDE DEF n, sd
<1>2. A \in SUBSET (1 .. n + 1) /\ A \cap 1 .. n = B /\ (n + 1 \in A <=> x.h = h)
    BY <1>1
<1>3. B \in SUBSET (1 .. n + 1) /\ B \ {n + 1} = B /\ n + 1 \notin B
    BY <1>1
<1> HIDE DEF A, B
<1>4. Cardinality(A) = Cardinality(B) + (IF n + 1 \in A THEN 1 ELSE 0)
    BY <1>1, <1>2, LastCounted
<1>5. Cardinality(B) \in Nat
    BY <1>1, <1>3, LastCounted
<1>6. QED
    BY <1>2, <1>4, <1>5 DEF ScopeOwners, Ind, A, B, sd

\* One that ends is one fewer.
LEMMA ScopeOwnersPopped ==
    ASSUME NEW sc \in Seq(Scope), sc # << >>, NEW sd, sd = SubSeq(sc, 1, Len(sc) - 1), NEW h
    PROVE  /\ ScopeOwners(sc, h) = ScopeOwners(sd, h) + Ind(sc[Len(sc)].h, h)
           /\ sd \in Seq(Scope) /\ Len(sd) = Len(sc) - 1
                  /\ \A i \in DOMAIN sd : sd[i] = sc[i] /\ i \in DOMAIN sc
<1>0. Len(sc) \in Nat \ {0}
    OBVIOUS
<1>1. sd \in Seq(Scope) /\ Len(sd) = Len(sc) - 1 /\ sc[Len(sc)] \in Scope
          /\ sc = Append(sd, sc[Len(sc)])
    <2>1. sd \in Seq(Scope) /\ Len(sd) = Len(sc) - 1 /\ sc[Len(sc)] \in Scope
        <3>1. SubSeq(sc, 1, Len(sc) - 1) \in Seq(Scope)
            BY <1>0
        <3>2. Len(SubSeq(sc, 1, Len(sc) - 1)) = Len(sc) - 1
            <4> DEFINE m == Len(sc) - 1
            <4>1. m \in Nat /\ Len(SubSeq(sc, 1, m)) = IF 1 <= m THEN (m - 1) + 1 ELSE 0
                BY <1>0
            <4> DEFINE len == Len(SubSeq(sc, 1, m))
            <4>2. m \in Nat /\ len = IF 1 <= m THEN (m - 1) + 1 ELSE 0
                BY <4>1
            <4> HIDE DEF m, len
            <4>3. len = m
                BY <4>2
            <4>4. QED
                BY <4>3 DEF len, m
        <3>3. sc[Len(sc)] \in Scope
            BY <1>0
        <3>4. QED
            BY <3>1, <3>2, <3>3
    <2>2. \A i \in 1 .. Len(sc) : sc[i] = Append(sd, sc[Len(sc)])[i]
        BY <1>0, <2>1
    <2>3. Append(sd, sc[Len(sc)]) \in Seq(Scope) /\ Len(Append(sd, sc[Len(sc)])) = Len(sc)
        BY <1>0, <2>1
    <2>4. QED
        BY <2>1, <2>2, <2>3
<1>2. \A i \in DOMAIN sd : sd[i] = sc[i] /\ i \in DOMAIN sc
    OBVIOUS
<1> DEFINE x == sc[Len(sc)]
<1>3. x \in Scope /\ sc = Append(sd, x)
    BY <1>1
<1> HIDE DEF x
<1>4. ScopeOwners(Append(sd, x), h) = ScopeOwners(sd, h) + Ind(x.h, h)
    BY <1>1, <1>3, ScopeOwnersPushed
<1>5. QED
    BY <1>1, <1>2, <1>3, <1>4 DEF x

\* A call owns one handle or none.
LEMMA OwnsIs ==
    ASSUME NEW f \in FrameKind, NEW h \in Handles
    PROVE  Owns(f, h) <=> OwnedBy(f) = h
BY NullIsNone DEF FrameKind, ReleaseFrame, MakeFrame, CompactFrame, Owns, OwnedBy, Dying

\* A call that begins is one more owner of its handle.
LEMMA FrameOwnersPushed ==
    ASSUME NEW fs \in Seq(FrameKind), NEW x \in FrameKind, NEW h \in Handles
    PROVE  /\ FrameOwners(Append(fs, x), h) = FrameOwners(fs, h) + Ind(OwnedBy(x), h)
           /\ FrameOwners(fs, h) \in Nat
<1> DEFINE n == Len(fs)
           ft == Append(fs, x)
           A == {i \in DOMAIN ft : Owns(ft[i], h)}
           B == {i \in DOMAIN fs : Owns(fs[i], h)}
<1>1. n \in Nat /\ DOMAIN fs = 1 .. n /\ DOMAIN ft = 1 .. n + 1 /\ ft[n + 1] = x
      /\ \A i \in 1 .. n : ft[i] = fs[i]
    OBVIOUS
<1> HIDE DEF n, ft
<1>2. A \in SUBSET (1 .. n + 1) /\ A \cap 1 .. n = B /\ (n + 1 \in A <=> Owns(x, h))
    BY <1>1
<1>3. B \in SUBSET (1 .. n + 1) /\ B \ {n + 1} = B /\ n + 1 \notin B
    BY <1>1
<1> HIDE DEF A, B
<1>4. Cardinality(A) = Cardinality(B) + (IF n + 1 \in A THEN 1 ELSE 0)
    BY <1>1, <1>2, LastCounted
<1>5. Cardinality(B) \in Nat
    BY <1>1, <1>3, LastCounted
<1>6. Owns(x, h) <=> OwnedBy(x) = h
    BY OwnsIs
<1>7. QED
    BY <1>2, <1>4, <1>5, <1>6 DEF FrameOwners, Ind, A, B, ft

\* One that ends is one fewer.
LEMMA FrameOwnersPopped ==
    ASSUME NEW fs \in Seq(FrameKind), fs # << >>, NEW ft, ft = SubSeq(fs, 1, Len(fs) - 1),
               NEW h \in Handles
    PROVE  FrameOwners(fs, h) = FrameOwners(ft, h) + Ind(OwnedBy(fs[Len(fs)]), h)
<1>1. ft \in Seq(FrameKind) /\ fs[Len(fs)] \in FrameKind /\ fs = Append(ft, fs[Len(fs)])
    OBVIOUS
<1>2. FrameOwners(Append(ft, fs[Len(fs)]), h) = FrameOwners(ft, h) + Ind(OwnedBy(fs[Len(fs)]), h)
    BY <1>1, FrameOwnersPushed
<1>3. QED
    BY <1>1, <1>2

\* The owners are places, scoped accesses and unfinished calls.
LEMMA OwnersAre ==
    ASSUME NEW p, NEW sc, NEW fs, NEW h
    PROVE  OwnersOf(h, p, sc, fs) = (PtrOwners(p, h) + ScopeOwners(sc, h)) + FrameOwners(fs, h)
BY DEF OwnersOf, PtrOwners, ScopeOwners, FrameOwners

\* Whoever is named owns.
LEMMA OwnersSee ==
    ASSUME NEW p \in [Places -> Held], NEW sc \in Seq(Scope), NEW fs \in Seq(FrameKind),
               NEW h \in Handles
    PROVE  /\ OwnersOf(h, p, sc, fs) \in Nat
           /\ \A l \in Places : p[l] = h => OwnersOf(h, p, sc, fs) >= 1
           /\ \A i \in DOMAIN sc : sc[i].h = h => OwnersOf(h, p, sc, fs) >= 1
           /\ \A i \in DOMAIN fs : OwnedBy(fs[i]) = h => OwnersOf(h, p, sc, fs) >= 1
<1> DEFINE A == {l \in Places : p[l] = h}
           B == {i \in DOMAIN sc : sc[i].h = h}
           D == {i \in DOMAIN fs : Owns(fs[i], h)}
<1>1. IsFiniteSet(A) /\ IsFiniteSet(B) /\ IsFiniteSet(D)
    <2>1. IsFiniteSet(DOMAIN sc) /\ IsFiniteSet(DOMAIN fs)
        <3>1. Len(sc) \in Nat /\ DOMAIN sc = 1 .. Len(sc) /\ Len(fs) \in Nat
                  /\ DOMAIN fs = 1 .. Len(fs)
            OBVIOUS
        <3>2. QED
            BY <3>1, IntervalCount
    <2>2. A \in SUBSET Places /\ B \in SUBSET DOMAIN sc /\ D \in SUBSET DOMAIN fs
        OBVIOUS
    <2> HIDE DEF A, B, D
    <2>3. QED
        BY <2>1, <2>2, PlacesFinite, FS_Subset
<1>2. /\ Cardinality(A) \in Nat /\ (Cardinality(A) = 0 <=> A = {})
      /\ Cardinality(B) \in Nat /\ (Cardinality(B) = 0 <=> B = {})
      /\ Cardinality(D) \in Nat /\ (Cardinality(D) = 0 <=> D = {})
    <2> HIDE DEF A, B, D
    <2>1. QED
        BY <1>1, FS_CardinalityType, FS_EmptySet
<1>3. OwnersOf(h, p, sc, fs) = (Cardinality(A) + Cardinality(B)) + Cardinality(D)
    BY DEF OwnersOf
<1>4. \A i \in DOMAIN fs : OwnedBy(fs[i]) = h => D # {}
    <2>1. \A i \in DOMAIN fs : fs[i] \in FrameKind
        OBVIOUS
    <2>2. QED
        BY <2>1, OwnsIs
<1>5. (\A l \in Places : p[l] = h => A # {}) /\ (\A i \in DOMAIN sc : sc[i].h = h => B # {})
    OBVIOUS
<1> HIDE DEF A, B, D
<1>6. QED
    BY <1>2, <1>3, <1>4, <1>5

\* The last writes of an assignment store the handle it brought, whose owner the
\* place becomes, and lose one only if the place was filled in between.
LEMMA FinishedIs ==
    ASSUME NEW p \in [Places -> Held], NEW rest \in Rest, RestOK(rest), NEW q, q = Finished(p, rest)
    PROVE  /\ q \in [Places -> Held]
           /\ \A h \in Handles : PtrOwners(q, h) <= PtrOwners(p, h) + Ind(rest.incoming, h)
           /\ (rest.to # Null => p[rest.to] = Null) =>
                 \A h \in Handles : PtrOwners(q, h) = PtrOwners(p, h) + Ind(rest.incoming, h)
           /\ \A l \in Places : p[l] = Null /\ l # rest.to => q[l] = Null
           /\ \A l \in Places : l # rest.to /\ l # rest.from => q[l] = p[l]
<1>0. rest.to \in Places \cup {Null} /\ rest.incoming \in Held
          /\ rest.from \in Places \cup {Null} /\ Null \in Held
    BY DEF Rest, Held
<1>a. \A h \in Handles : Ind(Null, h) = 0 /\ PtrOwners(p, h) \in Nat /\ \A x : Ind(x, h) \in {0, 1}
    BY NullIsNone, PtrOwnersTyped DEF Ind
<1>1. CASE rest.to = Null
    <2>1. q = p /\ rest.incoming = Null
        BY <1>1 DEF Finished, RestOK
    <2>2. QED
        BY <1>1, <1>a, <2>1
<1>2. CASE rest.to # Null /\ rest.from = Null
    <2> DEFINE to == rest.to
               x == rest.incoming
    <2>1. q = [p EXCEPT ![to] = x] /\ to \in Places /\ x \in Held
        BY <1>0, <1>2 DEF Finished
    <2> HIDE DEF to, x
    <2>2. q \in [Places -> Held]
        BY <2>1
    <2>3. \A h \in Handles : PtrOwners(q, h) = (PtrOwners(p, h) - Ind(p[to], h)) + Ind(x, h)
        <3>1. Puts(p, to, x, q)
            BY <2>1 DEF Puts
        <3>2. QED
            BY <3>1, PtrOwnersSet
    <2>4. \A h \in Handles : /\ PtrOwners(q, h) <= PtrOwners(p, h) + Ind(x, h)
                             /\ p[to] = Null => PtrOwners(q, h) = PtrOwners(p, h) + Ind(x, h)
        <3> SUFFICES ASSUME NEW h \in Handles
                     PROVE  /\ PtrOwners(q, h) <= PtrOwners(p, h) + Ind(x, h)
                            /\ p[to] = Null => PtrOwners(q, h) = PtrOwners(p, h) + Ind(x, h)
            OBVIOUS
        <3>1. Ind(p[to], h) \in {0, 1} /\ Ind(x, h) \in {0, 1} /\ PtrOwners(p, h) \in Nat
              /\ (p[to] = Null => Ind(p[to], h) = 0)
            BY <1>a
        <3>2. QED
            BY <2>3, <3>1
    <2>5. \A l \in Places : l # to => q[l] = p[l]
        BY <2>1
    <2>6. QED
        BY <1>2, <2>2, <2>4, <2>5 DEF to, x
<1>3. CASE rest.to # Null /\ rest.from # Null
    <2> DEFINE to == rest.to
               from == rest.from
               x == p[rest.from]
               r == [p EXCEPT ![to] = x]
    <2>1. q = [r EXCEPT ![from] = Null] /\ to \in Places /\ from \in Places /\ x \in Held
              /\ rest.incoming = Null
        BY <1>0, <1>3 DEF Finished, RestOK
    <2>2. r \in [Places -> Held]
        BY <2>1
    <2>3. r[from] = x
        BY <2>1
    <2>3a. r = [p EXCEPT ![to] = x]
        OBVIOUS
    <2> HIDE DEF to, x, from, r
    <2>4. q \in [Places -> Held]
        BY <1>0, <2>1, <2>2
    <2>5. \A h \in Handles : PtrOwners(r, h) = (PtrOwners(p, h) - Ind(p[to], h)) + Ind(x, h)
        <3>1. Puts(p, to, x, r)
            BY <2>1, <2>3a DEF Puts
        <3>2. QED
            BY <3>1, PtrOwnersSet
    <2>6. \A h \in Handles : PtrOwners(q, h) = (PtrOwners(r, h) - Ind(x, h)) + Ind(Null, h)
        <3>1. Puts(r, from, Null, q)
            BY <1>0, <2>1, <2>2 DEF Puts
        <3>2. QED
            BY <2>3, <3>1, PtrOwnersSet
    <2>7. \A h \in Handles : /\ PtrOwners(q, h) <= PtrOwners(p, h) + Ind(Null, h)
                             /\ p[to] = Null => PtrOwners(q, h) = PtrOwners(p, h) + Ind(Null, h)
        <3> SUFFICES ASSUME NEW h \in Handles
                     PROVE  /\ PtrOwners(q, h) <= PtrOwners(p, h) + Ind(Null, h)
                            /\ p[to] = Null => PtrOwners(q, h) = PtrOwners(p, h) + Ind(Null, h)
            OBVIOUS
        <3>1. Ind(p[to], h) \in {0, 1} /\ Ind(x, h) \in {0, 1} /\ PtrOwners(p, h) \in Nat
                  /\ Ind(Null, h) = 0
              /\ (p[to] = Null => Ind(p[to], h) = 0)
            BY <1>a
        <3>2. QED
            BY <2>5, <2>6, <3>1
    <2>8. \A l \in Places : l # to /\ l # from => q[l] = p[l]
        BY <2>1, <2>2, <2>3a
    <2>9. \A l \in Places : p[l] = Null /\ l # to => q[l] = Null
        BY <2>1, <2>2, <2>3a
    <2>10. QED
        BY <1>3, <2>1, <2>4, <2>7, <2>8, <2>9 DEF to, from
<1>4. QED
    BY <1>1, <1>2, <1>3

-----------------------------------------------------------------------------
(***************************************************************************)
(* The stack of the unfinished calls.                                      *)
(***************************************************************************)
\* The inductive invariant, of any state.
Sound(hp, p, sc, fs) ==
    /\ HeapOK(hp, Constructing(fs))
    /\ CallsOK(View(hp), p, sc, fs)
    /\ OwnersOK(View(hp), p, sc, fs)

\* A stack with one more element, and one without its last.
Grows(S, s, x, t) == s \in Seq(S) /\ x \in S /\ t = Append(s, x)
Shrinks(S, s, x, t) == s \in Seq(S) /\ s # << >> /\ x = s[Len(s)] /\ t = SubSeq(s, 1, Len(s) - 1)

\* The elements of a stack that has grown.
LEMMA Pushes ==
    ASSUME NEW S, NEW s \in Seq(S), NEW x \in S, NEW t, t = Append(s, x)
    PROVE  /\ t \in Seq(S) /\ Len(t) = Len(s) + 1 /\ Len(t) \in DOMAIN t /\ t[Len(t)] = x
           /\ \A i \in DOMAIN s : i \in DOMAIN t /\ t[i] = s[i] /\ i # Len(t)
           /\ \A i \in DOMAIN t : (i \in DOMAIN s /\ t[i] = s[i]) \/ (i = Len(t) /\ t[i] = x)
<1>1. Len(s) \in Nat /\ DOMAIN s = 1 .. Len(s)
    OBVIOUS
<1>2. t \in Seq(S) /\ Len(t) = Len(s) + 1 /\ DOMAIN t = 1 .. Len(s) + 1 /\ t[Len(s) + 1] = x
    BY <1>1
<1>3. \A i \in 1 .. Len(s) : t[i] = s[i]
    OBVIOUS
<1>4. \A i \in 1 .. Len(s) + 1 : i \in 1 .. Len(s) \/ i = Len(s) + 1
    BY <1>1
<1>5. \A i \in 1 .. Len(s) : i \in 1 .. Len(s) + 1 /\ i # Len(s) + 1
    BY <1>1
<1>6. Len(s) + 1 \in 1 .. Len(s) + 1
    BY <1>1
<1>7. QED
    BY <1>1, <1>2, <1>3, <1>4, <1>5, <1>6

\* The elements of a stack that has shrunk.
LEMMA Pops ==
    ASSUME NEW S, NEW s \in Seq(S), s # << >>, NEW t, t = SubSeq(s, 1, Len(s) - 1)
    PROVE  /\ t \in Seq(S) /\ Len(t) = Len(s) - 1 /\ Len(s) \in DOMAIN s /\ s[Len(s)] \in S
           /\ \A i \in DOMAIN t : i \in DOMAIN s /\ t[i] = s[i] /\ i # Len(s)
           /\ \A i \in DOMAIN s : i # Len(s) => i \in DOMAIN t
<1> DEFINE n == Len(s)
           m == n - 1
<1>1. n \in Nat \ {0} /\ m \in Nat /\ DOMAIN s = 1 .. n /\ m + 1 = n
    OBVIOUS
<1>1a. \A i \in 1 .. n : s[i] \in S
    OBVIOUS
<1>2. t \in Seq(S)
    BY <1>1
<1>3. Len(t) = m
    <2>1. Len(SubSeq(s, 1, m)) = IF 1 <= m THEN (m - 1) + 1 ELSE 0
        BY <1>1
    <2> DEFINE len == Len(t)
    <2>2. len = IF 1 <= m THEN (m - 1) + 1 ELSE 0
        BY <2>1
    <2> HIDE DEF len, m, n
    <2>3. len = m
        BY <1>1, <2>2
    <2>4. QED
        BY <2>3 DEF len
<1>4. \A i \in 1 .. m : t[i] = s[i]
    BY <1>1
<1>5. DOMAIN t = 1 .. m
    BY <1>2, <1>3
<1> HIDE DEF m, n
<1>6. (\A i \in 1 .. m : i \in 1 .. n /\ i # n)
          /\ (\A i \in 1 .. n : i # n => i \in 1 .. m) /\ n \in 1 .. n
    BY <1>1
<1>7. s[n] \in S
    BY <1>1a, <1>6
<1>8. Len(t) = Len(s) - 1
    BY <1>3 DEF m, n
<1>9. QED
    BY <1>1, <1>2, <1>4, <1>5, <1>6, <1>7, <1>8 DEF n

\* A handle with a reference names a live object.
LEMMA LiveIs ==
    ASSUME NEW hp, NEW C, HeapOK(hp, C), NEW g \in Handles
    PROVE  /\ View(hp)[g] \in Slot /\ View(hp)[g].refs \in Nat
           /\ View(hp)[g].refs >= 1 => View(hp)[g].state = "live"
           /\ View(hp)[g].state = "destroying" => View(hp)[g].refs = 0
           /\ View(hp)[g].state # "live" => View(hp)[g].refs = 0
           /\ View(hp)[g].state # "free" =>
                /\ SlotOf(hp, g) = View(hp)[g] /\ IsUsed(hp, g)
                /\ Base(hp, g) = View(hp)[g].offset /\ Size(hp, g) = View(hp)[g].size
                /\ ReservedSize(hp, g) = AlignUp(View(hp)[g].size)
<1>1. HeapRec(hp) /\ View(hp) \in [Handles -> Slot] /\ SlotsSound(View(hp))
    BY HeapGives
<1>2. View(hp)[g] \in Slot /\ View(hp)[g].refs \in Nat
    BY <1>1 DEF Slot
<1>3. View(hp)[g].state = "free" => View(hp)[g].refs = 0
    BY <1>1, ViewIs, FreeSlotTyped DEF HeapRec
<1>4. View(hp)[g].state # "free" => (View(hp)[g].refs # 0 <=> View(hp)[g].state = "live")
    BY <1>1 DEF SlotsSound
<1>5. View(hp)[g].state \in {"free", "live", "destroying"}
    BY <1>2 DEF Slot
<1>6. View(hp)[g].state # "free" =>
                /\ SlotOf(hp, g) = View(hp)[g] /\ IsUsed(hp, g)
                /\ Base(hp, g) = View(hp)[g].offset /\ Size(hp, g) = View(hp)[g].size
                /\ ReservedSize(hp, g) = AlignUp(View(hp)[g].size)
    BY <1>1, Reads
<1>7. QED
    BY <1>2, <1>3, <1>4, <1>5, <1>6

\* An owner keeps its object alive.
LEMMA OwnedLives ==
    ASSUME NEW hp, NEW C, HeapOK(hp, C), NEW p, NEW sc, NEW fs,
           CallsOK(View(hp), p, sc, fs), OwnersOK(View(hp), p, sc, fs)
    PROVE  /\ \A l \in Places : p[l] # Null => p[l] \in Handles /\ View(hp)[p[l]].state = "live"
           /\ \A i \in DOMAIN sc : sc[i].h \in Handles /\ View(hp)[sc[i].h].state = "live"
           /\ \A i \in DOMAIN fs : OwnedBy(fs[i]) # Null => OwnedBy(fs[i]) \in Handles
                  /\ View(hp)[OwnedBy(fs[i])].state = "live"
           /\ \A g \in Handles : OwnersOf(g, p, sc, fs) \in Nat
                  /\ OwnersOf(g, p, sc, fs) <= View(hp)[g].refs
<1>1. p \in [Places -> Held] /\ sc \in Seq(Scope) /\ fs \in Seq(FrameKind)
    BY DEF CallsOK, Held, FrameKind
<1>2. \A g \in Handles : OwnersOf(g, p, sc, fs) \in Nat
          /\ OwnersOf(g, p, sc, fs) <= View(hp)[g].refs
    BY <1>1, OwnersSee DEF OwnersOK
<1>3. \A g \in Handles : OwnersOf(g, p, sc, fs) >= 1 => View(hp)[g].state = "live"
    <2> SUFFICES ASSUME NEW g \in Handles, OwnersOf(g, p, sc, fs) >= 1
            PROVE View(hp)[g].state = "live"
        OBVIOUS
    <2>1. View(hp)[g].refs \in Nat /\ (View(hp)[g].refs >= 1 => View(hp)[g].state = "live")
        BY LiveIs
    <2> DEFINE r == View(hp)[g].refs
               o == OwnersOf(g, p, sc, fs)
    <2>2. r \in Nat /\ o \in Nat /\ o <= r /\ o >= 1
        BY <1>2, <2>1
    <2> HIDE DEF r, o
    <2>3. r >= 1
        BY <2>2
    <2>4. QED
        BY <2>1, <2>3 DEF r
<1>4. \A l \in Places : p[l] # Null => p[l] \in Handles
    BY <1>1 DEF Held
<1>5. \A i \in DOMAIN sc : sc[i].h \in Handles
    <2>1. \A i \in DOMAIN sc : sc[i] \in Scope
        BY <1>1
    <2>2. QED
        BY <2>1 DEF Scope
<1>6. \A i \in DOMAIN fs : OwnedBy(fs[i]) # Null => OwnedBy(fs[i]) \in Handles
    <2>1. \A i \in DOMAIN fs : fs[i] \in FrameKind
        BY <1>1
    <2>2. \A f \in FrameKind : OwnedBy(f) # Null => OwnedBy(f) \in Handles
        BY DEF FrameKind, ReleaseFrame, MakeFrame, CompactFrame, Rest, OwnedBy, Dying
    <2>3. QED
        BY <2>1, <2>2
<1>7. \A l \in Places : p[l] # Null => View(hp)[p[l]].state = "live"
    BY <1>1, <1>3, <1>4, OwnersSee
<1>8. \A i \in DOMAIN sc : View(hp)[sc[i].h].state = "live"
    BY <1>1, <1>3, <1>5, OwnersSee
<1>9. \A i \in DOMAIN fs : OwnedBy(fs[i]) # Null => View(hp)[OwnedBy(fs[i])].state = "live"
    BY <1>1, <1>3, <1>6, OwnersSee
<1>10. QED
    BY <1>2, <1>4, <1>5, <1>6, <1>7, <1>8, <1>9

\* The objects under construction, when a call begins.
LEMMA ConstructingPushed ==
    ASSUME NEW fs \in Seq(FrameKind), NEW f \in FrameKind, NEW ft, ft = Append(fs, f)
    PROVE  /\ f.kind = "constructor" => Constructing(ft) = Constructing(fs) \cup {f.h}
           /\ f.kind # "constructor" => Constructing(ft) = Constructing(fs)
<1>1. /\ Len(ft) \in DOMAIN ft /\ ft[Len(ft)] = f
      /\ \A i \in DOMAIN fs : i \in DOMAIN ft /\ ft[i] = fs[i]
      /\ \A i \in DOMAIN ft : (i \in DOMAIN fs /\ ft[i] = fs[i]) \/ (i = Len(ft) /\ ft[i] = f)
    BY Pushes
<1>2. f.kind = "constructor" => f.h \in Handles
    BY DEF FrameKind, ReleaseFrame, MakeFrame, CompactFrame
<1>3. ASSUME NEW h \in Handles
      PROVE  (\E i \in DOMAIN ft : ft[i].kind = "constructor" /\ ft[i].h = h)
                <=> \/ \E i \in DOMAIN fs : fs[i].kind = "constructor" /\ fs[i].h = h
                    \/ f.kind = "constructor" /\ f.h = h
    BY <1>1
<1>4. QED
    BY <1>2, <1>3 DEF Constructing

\* And when one ends.
LEMMA ConstructingPopped ==
    ASSUME NEW fs, NEW f, NEW ft, Shrinks(FrameKind, fs, f, ft)
    PROVE  /\ f.kind # "constructor" => Constructing(ft) = Constructing(fs)
           /\ f.kind = "constructor" => f.h \in Constructing(fs)
                  /\ Constructing(ft) \subseteq Constructing(fs)
                                        /\ Constructing(fs) \subseteq Constructing(ft) \cup {f.h}
<1>0. f = fs[Len(fs)]
    BY DEF Shrinks
<1>1. /\ Len(fs) \in DOMAIN fs /\ f \in FrameKind
      /\ \A i \in DOMAIN ft : i \in DOMAIN fs /\ ft[i] = fs[i] /\ i # Len(fs)
      /\ \A i \in DOMAIN fs : i # Len(fs) => i \in DOMAIN ft
    BY Pops DEF Shrinks
<1>2. f.kind = "constructor" => f.h \in Handles
    BY <1>1 DEF FrameKind, ReleaseFrame, MakeFrame, CompactFrame
<1>3. ASSUME NEW h \in Handles
      PROVE  (\E i \in DOMAIN fs : fs[i].kind = "constructor" /\ fs[i].h = h)
                <=> \/ \E i \in DOMAIN ft : ft[i].kind = "constructor" /\ ft[i].h = h
                    \/ f.kind = "constructor" /\ f.h = h
    BY <1>0, <1>1
<1>4. QED
    BY <1>2, <1>3 DEF Constructing

\* A call of compact.
Compacts(f) == f.kind \in {"evacuate", "shift"}
NoneCompacts(fs) == \A i \in DOMAIN fs : ~ Compacts(fs[i])

\* The three kinds of call, and what each of them holds.
LEMMA FrameFacts ==
    ASSUME NEW f \in FrameKind
    PROVE  /\ f.kind \in {"constructor", "body", "members", "evacuate", "shift"}
           /\ Dying(f) => f \in ReleaseFrame /\ f.h \in Handles /\ f.rest \in Rest
                  /\ Pending(f) = f.rest.to
                          /\ OwnedBy(f) = f.rest.incoming
           /\ f.kind = "constructor" => f \in MakeFrame /\ f.h \in Handles /\ f.to \in Ptrs
                  /\ Pending(f) = f.to
                                        /\ OwnedBy(f) = f.h
           /\ Compacts(f) => f \in CompactFrame /\ Pending(f) = Null /\ OwnedBy(f) = Null
           /\ ~ (Dying(f) /\ f.kind = "constructor") /\ ~ (Dying(f) /\ Compacts(f))
           /\ ~ (f.kind = "constructor" /\ Compacts(f))
           /\ Dying(f) \/ f.kind = "constructor" \/ Compacts(f)
BY DEF FrameKind, ReleaseFrame, MakeFrame, CompactFrame, Dying, Compacts, Pending, OwnedBy

\* The invariant of the calls depends on few things of the heap.
LEMMA CallsKept ==
    ASSUME NEW w, NEW p, NEW sc, NEW fs, CallsOK(w, p, sc, fs), NEW w2, NEW p2 \in [Places -> Held],
           \A i \in DOMAIN fs : Dying(fs[i]) => w2[fs[i].h].state = "destroying",
           \A i \in DOMAIN sc : w2[sc[i].h].offset = w[sc[i].h].offset
    PROVE  CallsOK(w2, p2, sc, fs)
BY DEF CallsOK, Held

\* A call that is none of compact's begins, on behalf of no scoped access.
LEMMA CallsPushed ==
    ASSUME NEW w, NEW p, NEW sc, NEW fs, CallsOK(w, p, sc, fs), NoneCompacts(fs),
           NEW f \in FrameKind, ~ Compacts(f),
           f.kind = "constructor" => f.h \notin Constructing(fs),
           NEW w2, NEW p2 \in [Places -> Held],
           Dying(f) => w[f.h].state # "destroying" /\ w2[f.h].state = "destroying"
               /\ RestOK(f.rest),
           \A i \in DOMAIN fs : Dying(fs[i]) => w2[fs[i].h].state = "destroying",
           \A i \in DOMAIN sc : w2[sc[i].h].offset = w[sc[i].h].offset,
           NEW ft, ft = Append(fs, f)
    PROVE  CallsOK(w2, p2, sc, ft)
<1>1. /\ sc \in Seq(Scope) /\ fs \in Seq(FrameKind)
      /\ \A i, j \in DOMAIN fs : fs[i].kind = "constructor" /\ fs[j].kind = "constructor"
             /\ fs[i].h = fs[j].h => i = j
      /\ \A i, j \in DOMAIN fs : Dying(fs[i]) /\ Dying(fs[j]) /\ fs[i].h = fs[j].h => i = j
      /\ \A i \in DOMAIN fs : Dying(fs[i]) => w[fs[i].h].state = "destroying" /\ RestOK(fs[i].rest)
      /\ \A i \in DOMAIN sc : sc[i].ptr = w[sc[i].h].offset
    BY DEF CallsOK, FrameKind
<1>2. /\ ft \in Seq(FrameKind)
      /\ \A i \in DOMAIN ft : (i \in DOMAIN fs /\ ft[i] = fs[i]) \/ (i = Len(ft) /\ ft[i] = f)
    BY <1>1, Pushes
<1>3. \A i \in DOMAIN ft : ~ Compacts(ft[i])
    BY <1>2 DEF NoneCompacts
<1>4. \A i \in DOMAIN fs : fs[i].kind = "constructor" => fs[i].h \in Constructing(fs)
    <2>1. \A i \in DOMAIN fs : fs[i] \in FrameKind
        BY <1>1
    <2>2. QED
        BY <2>1, FrameFacts DEF Constructing
<1>5. \A i, j \in DOMAIN ft : ft[i].kind = "constructor" /\ ft[j].kind = "constructor"
          /\ ft[i].h = ft[j].h => i = j
    BY <1>1, <1>2, <1>4
<1>6. \A i, j \in DOMAIN ft : Dying(ft[i]) /\ Dying(ft[j]) /\ ft[i].h = ft[j].h => i = j
    BY <1>1, <1>2
<1>7. \A i \in DOMAIN ft : Dying(ft[i]) => w2[ft[i].h].state = "destroying" /\ RestOK(ft[i].rest)
    BY <1>1, <1>2
<1>8. \A i \in DOMAIN sc : sc[i].ptr = w2[sc[i].h].offset
    BY <1>1
<1>9. QED
    BY <1>1, <1>2, <1>3, <1>5, <1>6, <1>7, <1>8 DEF CallsOK, FrameKind, Held, Compacts

\* The last call ends.
Popping(w, sc, fs, w2, p2, ft) ==
    /\ fs # << >> /\ ft = SubSeq(fs, 1, Len(fs) - 1)
    /\ p2 \in [Places -> Held]
    /\ \A i \in DOMAIN ft : Dying(ft[i]) => w2[ft[i].h].state = "destroying"
    /\ \A i \in DOMAIN sc : w2[sc[i].h].offset = w[sc[i].h].offset

\* What is left when it has ended.
LEMMA CallsPopped ==
    ASSUME NEW w, NEW p, NEW sc, NEW fs, CallsOK(w, p, sc, fs),
           NEW w2, NEW p2, NEW ft, Popping(w, sc, fs, w2, p2, ft)
    PROVE  CallsOK(w2, p2, sc, ft) /\ NoneCompacts(ft)
<1>0. /\ fs # << >> /\ ft = SubSeq(fs, 1, Len(fs) - 1)
      /\ p2 \in [Places -> Held]
      /\ \A i \in DOMAIN ft : Dying(ft[i]) => w2[ft[i].h].state = "destroying"
      /\ \A i \in DOMAIN sc : w2[sc[i].h].offset = w[sc[i].h].offset
    BY DEF Popping
<1>1. /\ sc \in Seq(Scope) /\ fs \in Seq(FrameKind)
      /\ \A i, j \in DOMAIN fs : fs[i].kind = "constructor" /\ fs[j].kind = "constructor"
             /\ fs[i].h = fs[j].h => i = j
      /\ \A i, j \in DOMAIN fs : Dying(fs[i]) /\ Dying(fs[j]) /\ fs[i].h = fs[j].h => i = j
      /\ \A i \in DOMAIN fs : Dying(fs[i]) => w[fs[i].h].state = "destroying" /\ RestOK(fs[i].rest)
      /\ \A i \in DOMAIN fs : Compacts(fs[i]) => i = Len(fs)
      /\ \A i \in DOMAIN sc : sc[i].ptr = w[sc[i].h].offset
    BY DEF CallsOK, FrameKind, Compacts
<1>2. /\ ft \in Seq(FrameKind)
      /\ \A i \in DOMAIN ft : i \in DOMAIN fs /\ ft[i] = fs[i] /\ i # Len(fs)
    BY <1>0, <1>1, Pops
<1>3. \A i \in DOMAIN ft : ~ Compacts(ft[i])
    BY <1>1, <1>2
<1>4. \A i, j \in DOMAIN ft : ft[i].kind = "constructor" /\ ft[j].kind = "constructor"
          /\ ft[i].h = ft[j].h => i = j
    BY <1>1, <1>2
<1>5. \A i, j \in DOMAIN ft : Dying(ft[i]) /\ Dying(ft[j]) /\ ft[i].h = ft[j].h => i = j
    BY <1>1, <1>2
<1>6. \A i \in DOMAIN ft : Dying(ft[i]) => w2[ft[i].h].state = "destroying" /\ RestOK(ft[i].rest)
    BY <1>0, <1>1, <1>2
<1>7. \A i \in DOMAIN sc : sc[i].ptr = w2[sc[i].h].offset
    BY <1>0, <1>1
<1>8. QED
    BY <1>0, <1>1, <1>2, <1>3, <1>4, <1>5, <1>6, <1>7 DEF CallsOK, FrameKind, Held,
        Compacts, NoneCompacts

\* What holds when release_(h) begins: the reference of h and the one on its way
\* are no longer, or not yet, with their owners.
Ready(hp, p, sc, fs, h, rest) ==
    /\ HeapOK(hp, Constructing(fs)) /\ CallsOK(View(hp), p, sc, fs) /\ NoneCompacts(fs)
    /\ h \in Held /\ rest \in Rest /\ RestOK(rest)
    /\ \A g \in Handles :
           /\ (OwnersOf(g, p, sc, fs) + Ind(h, g)) + Ind(rest.incoming, g) <= View(hp)[g].refs
           /\ ~ DestructorsReassign =>
                (OwnersOf(g, p, sc, fs) + Ind(h, g)) + Ind(rest.incoming, g) = View(hp)[g].refs
    /\ ~ DestructorsReassign =>
        /\ \A i \in DOMAIN fs : Pending(fs[i]) # Null => p[Pending(fs[i])] = Null
               /\ Pending(fs[i]) # rest.to
        /\ \A i, j \in DOMAIN fs : Pending(fs[i]) = Pending(fs[j]) /\ Pending(fs[i]) # Null => i = j
        /\ rest.to # Null => p[rest.to] = Null

\* release_ of the last reference: a destructor begins.
Dropped(hp, p, fs, h, rest, hq, pq, ft) ==
    /\ h # Null /\ SlotOf(hp, h).refs = 1
    /\ hq = WithSlot(hp, h, [SlotOf(hp, h) EXCEPT !.refs = 0, !.state = "destroying"])
    /\ pq = p
    /\ ft = Append(fs, [kind |-> "body", h |-> h, rest |-> rest])

\* release_ of another: the count goes down, and the caller goes on.
LetGo(hp, p, fs, h, rest, hq, pq, ft) ==
    /\ ~ (h # Null /\ SlotOf(hp, h).refs = 1)
    /\ hq = IF h = Null THEN hp ELSE WithRefs(hp, h, SlotOf(hp, h).refs - 1)
    /\ pq = Finished(p, rest)
    /\ ft = fs

\* The same objects at the same addresses.
SameObjects(w, w2) ==
    \A g \in Handles : w2[g].state = w[g].state /\ w2[g].offset = w[g].offset
        /\ w2[g].size = w[g].size

\* No object begins, ends or moves, and none is written to.
Quiet(hp, hq) == hq.mem = hp.mem /\ SameObjects(View(hp), View(hq))

\* The last reference to h goes; the other objects stay as they are.
Dies(hp, hq, h) ==
    /\ h \in Handles /\ View(hp)[h].state = "live" /\ View(hq)[h].state = "destroying"
    /\ hq.mem = hp.mem
    /\ \A g \in Handles : View(hq)[g].offset = View(hp)[g].offset
           /\ View(hq)[g].size = View(hp)[g].size
    /\ \A g \in Handles : g # h => View(hq)[g].state = View(hp)[g].state

\* release_ of the last reference keeps the invariant.
LEMMA DroppedIs ==
    ASSUME NEW hp, NEW p, NEW sc, NEW fs, NEW h, NEW rest, Ready(hp, p, sc, fs, h, rest),
           NEW hq, NEW pq, NEW ft, Dropped(hp, p, fs, h, rest, hq, pq, ft)
    PROVE  Sound(hq, pq, sc, ft) /\ Dies(hp, hq, h)
<1> DEFINE w == View(hp)
           w2 == View(hq)
           C == Constructing(fs)
           f == [kind |-> "body", h |-> h, rest |-> rest]
           u == w[h]
           s == [u EXCEPT !.refs = 0, !.state = "destroying"]
<1>1. /\ HeapOK(hp, C) /\ CallsOK(w, p, sc, fs) /\ NoneCompacts(fs)
      /\ h \in Held /\ rest \in Rest /\ RestOK(rest)
      /\ \A g \in Handles :
             /\ (OwnersOf(g, p, sc, fs) + Ind(h, g)) + Ind(rest.incoming, g) <= w[g].refs
             /\ ~ DestructorsReassign =>
                  (OwnersOf(g, p, sc, fs) + Ind(h, g)) + Ind(rest.incoming, g) = w[g].refs
    BY DEF Ready
<1>2. p \in [Places -> Held] /\ sc \in Seq(Scope) /\ fs \in Seq(FrameKind)
    BY <1>1 DEF CallsOK, Held, FrameKind
<1>3. h \in Handles /\ h # Null
    BY <1>1 DEF Dropped, Held
<1>4. /\ \A g \in Handles : OwnersOf(g, p, sc, fs) \in Nat
      /\ \A x, y : Ind(x, y) \in {0, 1} /\ Ind(x, x) = 1
      /\ \A g \in Handles : w[g] \in Slot /\ w[g].refs \in Nat
    BY <1>1, <1>2, OwnersSee, LiveIs DEF Ind
<1>5. u.refs >= 1
    <2> DEFINE o == OwnersOf(h, p, sc, fs)
               k == Ind(rest.incoming, h)
               r == u.refs
    <2>1. (o + 1) + k <= r /\ o \in Nat /\ k \in {0, 1} /\ r \in Nat
        BY <1>1, <1>3, <1>4
    <2> HIDE DEF o, k, r
    <2>2. r >= 1
        BY <2>1
    <2>3. QED
        BY <2>2 DEF r
<1>6. u.state = "live" /\ SlotOf(hp, h) = u /\ u.refs = 1
    BY <1>1, <1>3, <1>5, LiveIs DEF Dropped
<1>7. hq = WithSlot(hp, h, s) /\ pq = p /\ ft = Append(fs, f)
    BY <1>6 DEF Dropped
<1>8. /\ s \in Slot /\ s.state = "destroying" /\ s.refs = 0
      /\ s.offset = u.offset /\ s.size = u.size /\ s.next = u.next
    BY <1>3, <1>4 DEF Slot
<1>9. HeapOK(hq, C) /\ hq.mem = hp.mem /\ w2 = [w EXCEPT ![h] = s]
    <2> DEFINE st == s
               uu == u
    <2>1. /\ uu = View(hp)[h] /\ uu.state # "free" /\ st \in Slot /\ st.state # "free"
          /\ (st.refs # 0 <=> st.state = "live")
          /\ st.offset = uu.offset /\ st.size = uu.size /\ st.next = uu.next
                 /\ hq = WithSlot(hp, h, st)
        BY <1>6, <1>7, <1>8
    <2> HIDE DEF st, uu
    <2>2. HeapOK(hq, C) /\ hq.mem = hp.mem /\ View(hq) = [View(hp) EXCEPT ![h] = st]
        BY <1>1, <1>3, <2>1, TouchedIs
    <2>3. QED
        BY <2>2 DEF st
<1>10. w \in [Handles -> Slot]
    BY <1>1, HeapGives
<1> HIDE DEF w, w2, C, s, f, u
<1>11. w2[h] = s /\ \A g \in Handles : g # h => w2[g] = w[g]
    BY <1>3, <1>9, <1>10
<1>12. f \in FrameKind /\ f.kind = "body" /\ f.h = h /\ f.rest = rest
    BY <1>1, <1>3 DEF f, FrameKind, ReleaseFrame
<1>13. Constructing(ft) = C /\ HeapOK(hq, Constructing(ft))
    <2>1. Constructing(ft) = C
        BY <1>2, <1>7, <1>12, ConstructingPushed DEF C
    <2>2. QED
        BY <1>9, <2>1
<1>14. Dying(f) /\ ~ Compacts(f) /\ OwnedBy(f) = rest.incoming /\ Pending(f) = rest.to
    BY <1>12, FrameFacts DEF Dying
<1>15. CallsOK(w2, pq, sc, ft)
    <2>1. w[f.h].state # "destroying" /\ w2[f.h].state = "destroying"
        BY <1>6, <1>8, <1>11, <1>12 DEF u
    <2>2. \A i \in DOMAIN fs : Dying(fs[i]) => w2[fs[i].h].state = "destroying"
        <3>1. \A i \in DOMAIN fs : Dying(fs[i]) => fs[i].h \in Handles
                  /\ w[fs[i].h].state = "destroying"
            <4>1. \A i \in DOMAIN fs : fs[i] \in FrameKind
                BY <1>2
            <4>2. QED
                BY <1>1, <4>1, FrameFacts DEF CallsOK
        <3>2. QED
            BY <1>8, <1>11, <3>1
    <2>3. \A i \in DOMAIN sc : w2[sc[i].h].offset = w[sc[i].h].offset
        <3>1. \A i \in DOMAIN sc : sc[i].h \in Handles
            <4>1. \A i \in DOMAIN sc : sc[i] \in Scope
                BY <1>2
            <4>2. QED
                BY <4>1 DEF Scope
        <3>2. QED
            BY <1>8, <1>11, <3>1 DEF u
    <2>4. pq \in [Places -> Held]
        BY <1>2, <1>7
    <2>5. QED
        BY <1>1, <1>7, <1>12, <1>14, <2>1, <2>2, <2>3, <2>4, CallsPushed
<1>16. ASSUME NEW g \in Handles
       PROVE  /\ OwnersOf(g, pq, sc, ft) <= w2[g].refs
              /\ ~ DestructorsReassign => OwnersOf(g, pq, sc, ft) = w2[g].refs
    <2> DEFINE o == OwnersOf(g, p, sc, fs)
               o2 == OwnersOf(g, pq, sc, ft)
               k == Ind(rest.incoming, g)
               j == Ind(h, g)
               r == w[g].refs
               r2 == w2[g].refs
    <2>1. o2 = o + k
        <3>1. FrameOwners(ft, g) = FrameOwners(fs, g) + k /\ FrameOwners(fs, g) \in Nat
            BY <1>2, <1>7, <1>12, <1>14, FrameOwnersPushed
        <3>2. PtrOwners(p, g) \in Nat /\ ScopeOwners(sc, g) \in Nat
            <4>1. \A x \in Scope : ScopeOwners(sc, g) \in Nat
                BY <1>2, ScopeOwnersPushed
            <4>2. [h |-> h, ptr |-> u.offset, depth |-> 0] \in Scope
                BY <1>3, <1>4 DEF Scope, u, Slot
            <4>3. QED
                BY <4>1, <4>2, PtrOwnersTyped
        <3>3. o = (PtrOwners(p, g) + ScopeOwners(sc, g)) + FrameOwners(fs, g)
              /\ o2 = (PtrOwners(p, g) + ScopeOwners(sc, g)) + FrameOwners(ft, g)
            BY <1>7, OwnersAre
        <3> HIDE DEF o, o2, k
        <3>4. k \in {0, 1}
            BY <1>4 DEF k
        <3>5. QED
            BY <3>1, <3>2, <3>3, <3>4
    <2>2. r2 = r - j
        <3>1. CASE g = h
            BY <1>4, <1>6, <1>8, <1>11, <3>1 DEF u
        <3>2. CASE g # h
            BY <1>4, <1>11, <3>2 DEF Ind
        <3>3. QED
            BY <3>1, <3>2
    <2>3. /\ (o + j) + k <= r /\ (~ DestructorsReassign => (o + j) + k = r)
          /\ o \in Nat /\ j \in {0, 1} /\ k \in {0, 1} /\ r \in Nat
        BY <1>1, <1>4
    <2> HIDE DEF o, o2, k, j, r, r2
    <2>4. o2 <= r2
        BY <2>1, <2>2, <2>3
    <2>5. (o + j) + k = r => o2 = r2
        BY <2>1, <2>2, <2>3
    <2>6. QED
        BY <2>3, <2>4, <2>5 DEF o2, r2
<1>17. ~ DestructorsReassign =>
          /\ \A i \in DOMAIN ft : Pending(ft[i]) # Null => pq[Pending(ft[i])] = Null
          /\ \A i, j \in DOMAIN ft : Pending(ft[i]) = Pending(ft[j])
                 /\ Pending(ft[i]) # Null => i = j
    <2>1. \A i \in DOMAIN ft : (i \in DOMAIN fs /\ ft[i] = fs[i]) \/ (i = Len(ft) /\ ft[i] = f)
        BY <1>2, <1>7, <1>12, Pushes
    <2>2. ~ DestructorsReassign =>
            /\ \A i \in DOMAIN fs : Pending(fs[i]) # Null => p[Pending(fs[i])] = Null
                   /\ Pending(fs[i]) # rest.to
            /\ \A i, j \in DOMAIN fs : Pending(fs[i]) = Pending(fs[j])
                   /\ Pending(fs[i]) # Null => i = j
            /\ rest.to # Null => p[rest.to] = Null
        BY DEF Ready
    <2>3. QED
        BY <1>7, <1>14, <2>1, <2>2
<1>18. OwnersOK(w2, pq, sc, ft)
    BY <1>16, <1>17 DEF OwnersOK
<1>19. Dies(hp, hq, h)
    BY <1>3, <1>6, <1>8, <1>9, <1>11 DEF Dies, w, w2, u
<1>20. QED
    BY <1>13, <1>15, <1>18, <1>19 DEF Sound, w, w2

-----------------------------------------------------------------------------
(***************************************************************************)
(* release_, and the calls of a program that let go of a reference.        *)
(***************************************************************************)
\* A count changes, and stays above 0.
LEMMA RecountedIs ==
    ASSUME NEW hp, NEW C, HeapOK(hp, C), NEW h \in Handles, View(hp)[h].state = "live",
           NEW n \in Nat \ {0}, NEW hq, hq = WithRefs(hp, h, n)
    PROVE  /\ HeapOK(hq, C) /\ hq.mem = hp.mem /\ SameObjects(View(hp), View(hq))
           /\ View(hq)[h].refs = n /\ \A g \in Handles : g # h => View(hq)[g] = View(hp)[g]
<1> DEFINE w == View(hp)
           u == w[h]
           s == [u EXCEPT !.refs = n]
<1>1. /\ u \in Slot /\ u.state = "live" /\ SlotOf(hp, h) = u /\ w \in [Handles -> Slot]
    BY LiveIs, HeapGives
<1>2. hq = WithSlot(hp, h, s)
    BY <1>1 DEF WithRefs
<1>3. s \in Slot /\ s.state = "live" /\ s.refs = n /\ s.offset = u.offset
          /\ s.size = u.size /\ s.next = u.next
    BY <1>1 DEF Slot
<1>4. u = View(hp)[h]
    OBVIOUS
<1>5. w = View(hp)
    OBVIOUS
<1> HIDE DEF s, u, w
<1>6. HeapOK(hq, C) /\ hq.mem = hp.mem /\ View(hq) = [View(hp) EXCEPT ![h] = s]
    BY <1>1, <1>2, <1>3, <1>4, TouchedIs
<1>7. View(hq)[h] = s /\ \A g \in Handles : g # h => View(hq)[g] = View(hp)[g]
    BY <1>1, <1>5, <1>6
<1>8. SameObjects(View(hp), View(hq))
    BY <1>3, <1>4, <1>7, <1>1 DEF SameObjects
<1>9. QED
    BY <1>3, <1>6, <1>7, <1>8

\* release_ of another reference keeps the invariant.
LEMMA LetGoIs ==
    ASSUME NEW hp, NEW p, NEW sc, NEW fs, NEW h, NEW rest, Ready(hp, p, sc, fs, h, rest),
           NEW hq, NEW pq, NEW ft, LetGo(hp, p, fs, h, rest, hq, pq, ft)
    PROVE  Sound(hq, pq, sc, ft) /\ Quiet(hp, hq)
<1> DEFINE w == View(hp)
           w2 == View(hq)
           C == Constructing(fs)
<1>1. /\ HeapOK(hp, C) /\ CallsOK(w, p, sc, fs) /\ NoneCompacts(fs)
      /\ h \in Held /\ rest \in Rest /\ RestOK(rest)
      /\ \A g \in Handles :
             /\ (OwnersOf(g, p, sc, fs) + Ind(h, g)) + Ind(rest.incoming, g) <= w[g].refs
             /\ ~ DestructorsReassign =>
                  (OwnersOf(g, p, sc, fs) + Ind(h, g)) + Ind(rest.incoming, g) = w[g].refs
    BY DEF Ready
<1>2. p \in [Places -> Held] /\ sc \in Seq(Scope) /\ fs \in Seq(FrameKind)
    BY <1>1 DEF CallsOK, Held, FrameKind
<1>3. /\ \A g \in Handles : OwnersOf(g, p, sc, fs) \in Nat
      /\ \A x, y : Ind(x, y) \in {0, 1} /\ Ind(x, x) = 1
      /\ \A g \in Handles : w[g] \in Slot /\ w[g].refs \in Nat /\ Ind(Null, g) = 0
    BY <1>1, <1>2, OwnersSee, LiveIs, NullIsNone DEF Ind
<1>4. pq = Finished(p, rest) /\ ft = fs
    BY DEF LetGo
<1>5. /\ HeapOK(hq, C) /\ hq.mem = hp.mem /\ SameObjects(w, w2)
      /\ \A g \in Handles : w2[g].refs = w[g].refs - Ind(h, g)
    <2>1. CASE h = Null
        <3>1. hq = hp
            BY <2>1 DEF LetGo
        <3>2. \A g \in Handles : w2[g].refs = w[g].refs - Ind(h, g)
            BY <1>3, <2>1, <3>1
        <3>3. QED
            BY <1>1, <3>1, <3>2 DEF SameObjects
    <2>2. CASE h # Null
        <3>1. h \in Handles
            BY <1>1, <2>2 DEF Held
        <3> DEFINE r == w[h].refs
                   o == OwnersOf(h, p, sc, fs)
                   k == Ind(rest.incoming, h)
        <3>2. (o + 1) + k <= r /\ o \in Nat /\ k \in {0, 1} /\ r \in Nat
            BY <1>1, <1>3, <3>1
        <3>3. r >= 1
            <4> HIDE DEF r, o, k
            <4>1. QED
                BY <3>2
        <3>4. w[h].state = "live" /\ SlotOf(hp, h) = w[h]
            BY <1>1, <3>1, <3>3, LiveIs
        <3>5. r # 1 /\ hq = WithRefs(hp, h, r - 1)
            BY <2>2, <3>4 DEF LetGo
        <3> DEFINE n == r - 1
        <3>6. n \in Nat \ {0} /\ hq = WithRefs(hp, h, n) /\ n = w[h].refs - 1
            BY <3>2, <3>3, <3>5
        <3> HIDE DEF n, C
        <3>7. HeapOK(hq, C) /\ hq.mem = hp.mem /\ SameObjects(View(hp), View(hq))
              /\ View(hq)[h].refs = n /\ \A g \in Handles : g # h => View(hq)[g] = View(hp)[g]
            <4>1. HeapOK(hp, C) /\ View(hp)[h].state = "live" /\ n \in Nat \ {0}
                      /\ hq = WithRefs(hp, h, n)
                BY <1>1, <3>4, <3>6
            <4> HIDE DEF w, w2, r, o, k
            <4>2. QED
                BY ONLY <3>1, <4>1, RecountedIs
        <3>8. ASSUME NEW g \in Handles PROVE w2[g].refs = w[g].refs - Ind(h, g)
            <4>1. CASE g = h
                BY <1>3, <3>6, <3>7, <4>1
            <4>2. CASE g # h
                <5>1. Ind(h, g) = 0 /\ w2[g].refs = w[g].refs /\ w[g].refs \in Nat
                    BY <1>3, <3>7, <4>2 DEF Ind
                <5>2. QED
                    BY <5>1
            <4>3. QED
                BY <4>1, <4>2
        <3>9. QED
            BY <3>7, <3>8
    <2>3. QED
        BY <2>1, <2>2
<1>6. /\ pq \in [Places -> Held]
      /\ \A g \in Handles : PtrOwners(pq, g) <= PtrOwners(p, g) + Ind(rest.incoming, g)
      /\ (rest.to # Null => p[rest.to] = Null) =>
            \A g \in Handles : PtrOwners(pq, g) = PtrOwners(p, g) + Ind(rest.incoming, g)
      /\ \A l \in Places : p[l] = Null /\ l # rest.to => pq[l] = Null
    BY <1>1, <1>2, <1>4, FinishedIs
<1> HIDE DEF w, w2, C
<1>7. CallsOK(w2, pq, sc, ft)
    <2>1. \A i \in DOMAIN fs : Dying(fs[i]) => w2[fs[i].h].state = "destroying"
        <3>1. \A i \in DOMAIN fs : Dying(fs[i]) => fs[i].h \in Handles
                  /\ w[fs[i].h].state = "destroying"
            <4>1. \A i \in DOMAIN fs : fs[i] \in FrameKind
                BY <1>2
            <4>2. QED
                BY <1>1, <4>1, FrameFacts DEF CallsOK
        <3>2. QED
            BY <1>5, <3>1 DEF SameObjects
    <2>2. \A i \in DOMAIN sc : w2[sc[i].h].offset = w[sc[i].h].offset
        <3>1. \A i \in DOMAIN sc : sc[i].h \in Handles
            <4>1. \A i \in DOMAIN sc : sc[i] \in Scope
                BY <1>2
            <4>2. QED
                BY <4>1 DEF Scope
        <3>2. QED
            BY <1>5, <3>1 DEF SameObjects
    <2>3. QED
        BY <1>1, <1>4, <1>6, <2>1, <2>2, CallsKept
<1>8. ASSUME NEW g \in Handles
      PROVE  /\ OwnersOf(g, pq, sc, ft) <= w2[g].refs
             /\ ~ DestructorsReassign => OwnersOf(g, pq, sc, ft) = w2[g].refs
    <2> DEFINE o == OwnersOf(g, p, sc, fs)
               o2 == OwnersOf(g, pq, sc, ft)
               k == Ind(rest.incoming, g)
               j == Ind(h, g)
               r == w[g].refs
               r2 == w2[g].refs
               a == PtrOwners(p, g)
               a2 == PtrOwners(pq, g)
               b == ScopeOwners(sc, g)
               c == FrameOwners(fs, g)
    <2>1. o = (a + b) + c /\ o2 = (a2 + b) + c
        BY <1>4, OwnersAre
    <2>2. a \in Nat /\ a2 \in Nat /\ b \in Nat /\ c \in Nat /\ k \in {0, 1} /\ j \in {0, 1}
              /\ r \in Nat
        <3>1. IsFiniteSet({i \in DOMAIN sc : sc[i].h = g})
                  /\ IsFiniteSet({i \in DOMAIN fs : Owns(fs[i], g)})
            <4>1. Len(sc) \in Nat /\ DOMAIN sc = 1 .. Len(sc) /\ Len(fs) \in Nat
                      /\ DOMAIN fs = 1 .. Len(fs)
                BY <1>2
            <4>2. IsFiniteSet(DOMAIN sc) /\ IsFiniteSet(DOMAIN fs)
                BY <4>1, IntervalCount
            <4>3. QED
                BY <4>2, FS_Subset
        <3>2. b \in Nat /\ c \in Nat
            BY <3>1, FS_CardinalityType DEF ScopeOwners, FrameOwners
        <3>3. QED
            BY <1>3, <3>2, PtrOwnersTyped
    <2>3. /\ (o + j) + k <= r /\ (~ DestructorsReassign => (o + j) + k = r)
          /\ r2 = r - j /\ a2 <= a + k
          /\ ~ DestructorsReassign => a2 = a + k
        <3>1. ~ DestructorsReassign => (rest.to # Null => p[rest.to] = Null)
            BY DEF Ready
        <3>2. QED
            BY <1>1, <1>5, <1>6, <3>1
    <2> HIDE DEF o, o2, k, j, r, r2, a, a2, b, c
    <2>4. o2 <= r2
        BY <2>1, <2>2, <2>3
    <2>5. (o + j) + k = r /\ a2 = a + k => o2 = r2
        BY <2>1, <2>2, <2>3
    <2>6. QED
        BY <2>3, <2>4, <2>5 DEF o2, r2
<1>9. ~ DestructorsReassign =>
          /\ \A i \in DOMAIN ft : Pending(ft[i]) # Null => pq[Pending(ft[i])] = Null
          /\ \A i, j \in DOMAIN ft : Pending(ft[i]) = Pending(ft[j])
                 /\ Pending(ft[i]) # Null => i = j
    <2>1. ~ DestructorsReassign =>
            /\ \A i \in DOMAIN fs : Pending(fs[i]) # Null => p[Pending(fs[i])] = Null
                   /\ Pending(fs[i]) # rest.to
            /\ \A i, j \in DOMAIN fs : Pending(fs[i]) = Pending(fs[j])
                   /\ Pending(fs[i]) # Null => i = j
        BY DEF Ready
    <2>2. \A i \in DOMAIN fs : Pending(fs[i]) # Null => Pending(fs[i]) \in Places
        <3>1. \A i \in DOMAIN fs : fs[i] \in FrameKind
            BY <1>2
        <3>2. \A f \in FrameKind : Pending(f) # Null => Pending(f) \in Places
            <4>1. \A f \in FrameKind : Dying(f) => f.rest.to \in Places \cup {Null}
                BY FrameFacts DEF Rest
            <4>2. QED
                BY <4>1, FrameFacts DEF Places
        <3>3. QED
            BY <3>1, <3>2
    <2>3. QED
        BY <1>4, <1>6, <2>1, <2>2
<1>10. OwnersOK(w2, pq, sc, ft)
    BY <1>8, <1>9 DEF OwnersOK
<1>11. QED
    BY <1>4, <1>5, <1>7, <1>10 DEF Sound, Quiet, w, w2, C

\* Release is one of the two.
LEMMA ReleaseIs ==
    ASSUME NEW hp, NEW p, NEW sc, NEW fs, NEW h, NEW rest, Release(hp, p, fs, h, rest)
    PROVE  \/ Dropped(hp, p, fs, h, rest, heap', ptr', frames')
           \/ LetGo(hp, p, fs, h, rest, heap', ptr', frames')
BY DEF Release, Dropped, LetGo

\* User code runs in no compaction.
LEMMA UserCodeRuns ==
    ASSUME CallsOK(View(heap), ptr, scopes, frames), UserCode
    PROVE  NoneCompacts(frames)
<1>1. frames \in Seq(FrameKind) /\ \A i \in DOMAIN frames : Compacts(frames[i]) => i = Len(frames)
    BY DEF CallsOK, FrameKind, Compacts
<1>2. CASE frames = << >>
    BY <1>2 DEF NoneCompacts
<1>3. CASE frames # << >>
    <2>1. frames[Len(frames)].kind \in {"body", "constructor"}
        BY <1>3 DEF UserCode, InFrame, Top
    <2>2. QED
        BY <1>1, <2>1 DEF NoneCompacts, Compacts
<1>4. QED
    BY <1>2, <1>3

\* retain_: one more reference.
LEMMA RetainedIs ==
    ASSUME NEW hp, NEW C, HeapOK(hp, C), NEW x \in Held, x # Null => View(hp)[x].state = "live",
           NEW hq, hq = Retained(hp, x)
    PROVE  /\ HeapOK(hq, C) /\ hq.mem = hp.mem /\ SameObjects(View(hp), View(hq))
           /\ \A g \in Handles : View(hq)[g].refs = View(hp)[g].refs + Ind(x, g)
<1>0. \A g \in Handles : View(hp)[g].refs \in Nat
    BY LiveIs
<1>1. CASE x = Null
    <2>1. hq = hp /\ \A g \in Handles : Ind(x, g) = 0
        BY <1>1, NullIsNone DEF Retained, Ind
    <2>2. QED
        BY <1>0, <2>1 DEF SameObjects
<1>2. CASE x # Null
    <2>1. x \in Handles /\ View(hp)[x].state = "live"
        BY <1>2 DEF Held
    <2>2. SlotOf(hp, x) = View(hp)[x]
        BY <2>1, LiveIs
    <2> DEFINE n == View(hp)[x].refs + 1
    <2>3. n \in Nat \ {0} /\ hq = WithRefs(hp, x, n)
        <3> DEFINE r == View(hp)[x].refs
        <3>1. r \in Nat
            BY <1>0, <2>1
        <3>2. r + 1 \in Nat \ {0}
            <4> HIDE DEF r
            <4>1. QED
                BY <3>1
        <3>3. hq = WithRefs(hp, x, SlotOf(hp, x).refs + 1)
            BY <1>2 DEF Retained
        <3>4. QED
            BY <2>2, <3>2, <3>3
    <2>4. n = View(hp)[x].refs + 1
        OBVIOUS
    <2> HIDE DEF n
    <2>5. HeapOK(hq, C) /\ hq.mem = hp.mem /\ SameObjects(View(hp), View(hq))
          /\ View(hq)[x].refs = n /\ \A g \in Handles : g # x => View(hq)[g] = View(hp)[g]
        BY <2>1, <2>3, RecountedIs
    <2>6. ASSUME NEW g \in Handles PROVE View(hq)[g].refs = View(hp)[g].refs + Ind(x, g)
        <3>1. CASE g = x
            BY <2>4, <2>5, <3>1 DEF Ind
        <3>2. CASE g # x
            <4>1. View(hq)[g].refs = View(hp)[g].refs /\ Ind(x, g) = 0
                BY <2>5, <3>2 DEF Ind
            <4>2. QED
                BY <1>0, <4>1
        <3>3. QED
            BY <3>1, <3>2
    <2>7. QED
        BY <2>5, <2>6
<1>3. QED
    BY <1>1, <1>2

\* An assignment or a reset of l: its handle is let go of, x is taken over.
Assigns(p, fs, l, x, rest, q) ==
    /\ l \in Places /\ x \in Held /\ q = [p EXCEPT ![l] = Null]
    /\ rest \in Rest /\ RestOK(rest) /\ rest.incoming = x /\ rest.to \in {Null, l}
    /\ ~ DestructorsReassign /\ rest.to # Null => \A i \in DOMAIN fs : Pending(fs[i]) # l

\* What an assignment has done when it calls release_.
LEMMA AssignIsReady ==
    ASSUME NEW hp, NEW p, NEW sc, NEW fs, Sound(hp, p, sc, fs), NoneCompacts(fs),
           NEW l, NEW x, NEW rest, NEW q, Assigns(p, fs, l, x, rest, q),
           x # Null => View(hp)[x].state = "live",
           NEW hq, hq = Retained(hp, x)
    PROVE  /\ Ready(hq, q, sc, fs, p[l], rest)
           /\ hq.mem = hp.mem /\ SameObjects(View(hp), View(hq))
<1> DEFINE C == Constructing(fs)
           w == View(hp)
           w2 == View(hq)
<1>1. /\ HeapOK(hp, C) /\ CallsOK(w, p, sc, fs) /\ OwnersOK(w, p, sc, fs)
      /\ l \in Places /\ x \in Held /\ q = [p EXCEPT ![l] = Null]
      /\ rest \in Rest /\ RestOK(rest) /\ rest.incoming = x /\ rest.to \in {Null, l}
    BY DEF Sound, Assigns
<1>2. /\ p \in [Places -> Held] /\ sc \in Seq(Scope) /\ fs \in Seq(FrameKind)
    BY <1>1 DEF CallsOK, Held, FrameKind
<1>3. p[l] \in Held /\ Null \in Held /\ q \in [Places -> Held]
    BY <1>1, <1>2 DEF Held
<1> HIDE DEF C
<1>4. HeapOK(hq, C) /\ hq.mem = hp.mem /\ SameObjects(w, w2)
      /\ \A g \in Handles : w2[g].refs = w[g].refs + Ind(x, g)
    BY <1>1, RetainedIs
<1>5. \A g \in Handles : w[g].refs \in Nat
    BY <1>1, LiveIs
<1> HIDE DEF w, w2
<1>6. CallsOK(w2, q, sc, fs)
    <2>1. \A i \in DOMAIN fs : Dying(fs[i]) => w2[fs[i].h].state = "destroying"
        <3>1. \A i \in DOMAIN fs : Dying(fs[i]) => fs[i].h \in Handles
                  /\ w[fs[i].h].state = "destroying"
            <4>1. \A i \in DOMAIN fs : fs[i] \in FrameKind
                BY <1>2
            <4>2. QED
                BY <1>1, <4>1, FrameFacts DEF CallsOK
        <3>2. QED
            BY <1>4, <3>1 DEF SameObjects
    <2>2. \A i \in DOMAIN sc : w2[sc[i].h].offset = w[sc[i].h].offset
        <3>1. \A i \in DOMAIN sc : sc[i].h \in Handles
            <4>1. \A i \in DOMAIN sc : sc[i] \in Scope
                BY <1>2
            <4>2. QED
                BY <4>1 DEF Scope
        <3>2. QED
            BY <1>4, <3>1 DEF SameObjects
    <2>3. QED
        BY <1>1, <1>3, <2>1, <2>2, CallsKept
<1>7. \A g \in Handles : PtrOwners(q, g) = (PtrOwners(p, g) - Ind(p[l], g)) + Ind(Null, g)
    <2>1. Puts(p, l, Null, q)
        BY <1>1, <1>2, <1>3 DEF Puts
    <2>2. QED
        BY <2>1, PtrOwnersSet
<1>8. ASSUME NEW g \in Handles
      PROVE  /\ (OwnersOf(g, q, sc, fs) + Ind(p[l], g)) + Ind(x, g) <= w2[g].refs
             /\ ~ DestructorsReassign =>
                  (OwnersOf(g, q, sc, fs) + Ind(p[l], g)) + Ind(x, g) = w2[g].refs
    <2> DEFINE o == OwnersOf(g, p, sc, fs)
               o2 == OwnersOf(g, q, sc, fs)
               k == Ind(x, g)
               j == Ind(p[l], g)
               r == w[g].refs
               r2 == w2[g].refs
               a == PtrOwners(p, g)
               a2 == PtrOwners(q, g)
               b == ScopeOwners(sc, g)
               c == FrameOwners(fs, g)
    <2>1. o = (a + b) + c /\ o2 = (a2 + b) + c
        BY OwnersAre
    <2>2. a \in Nat /\ a2 \in Nat /\ b \in Nat /\ c \in Nat /\ k \in {0, 1} /\ j \in {0, 1}
              /\ r \in Nat
        <3>1. IsFiniteSet({i \in DOMAIN sc : sc[i].h = g})
                  /\ IsFiniteSet({i \in DOMAIN fs : Owns(fs[i], g)})
            <4>1. Len(sc) \in Nat /\ DOMAIN sc = 1 .. Len(sc) /\ Len(fs) \in Nat
                      /\ DOMAIN fs = 1 .. Len(fs)
                BY <1>2
            <4>2. IsFiniteSet(DOMAIN sc) /\ IsFiniteSet(DOMAIN fs)
                BY <4>1, IntervalCount
            <4>3. QED
                BY <4>2, FS_Subset
        <3>2. b \in Nat /\ c \in Nat
            BY <3>1, FS_CardinalityType DEF ScopeOwners, FrameOwners
        <3>3. k \in {0, 1} /\ j \in {0, 1}
            BY DEF Ind
        <3>4. QED
            BY <1>5, <3>2, <3>3, PtrOwnersTyped
    <2>3. /\ o <= r /\ (~ DestructorsReassign => o = r)
          /\ r2 = r + k /\ a2 = a - j
        <3>1. Ind(Null, g) = 0
            BY NullIsNone DEF Ind
        <3>2. a2 = (a - j) + 0
            BY <1>7, <3>1
        <3> HIDE DEF a, a2, j
        <3>3. a2 = a - j
            BY <2>2, <3>2
        <3>4. QED
            BY <1>1, <1>4, <3>3 DEF OwnersOK
    <2> HIDE DEF o, o2, k, j, r, r2, a, a2, b, c
    <2>4. (o2 + j) + k <= r2
        BY <2>1, <2>2, <2>3
    <2>5. o = r => (o2 + j) + k = r2
        BY <2>1, <2>2, <2>3
    <2>6. QED
        BY <2>3, <2>4, <2>5 DEF o2, r2, j, k
<1>9. ~ DestructorsReassign =>
        /\ \A i \in DOMAIN fs : Pending(fs[i]) # Null => q[Pending(fs[i])] = Null
               /\ Pending(fs[i]) # rest.to
        /\ \A i, j \in DOMAIN fs : Pending(fs[i]) = Pending(fs[j]) /\ Pending(fs[i]) # Null => i = j
        /\ rest.to # Null => q[rest.to] = Null
    <2>1. \A i \in DOMAIN fs : Pending(fs[i]) # Null => Pending(fs[i]) \in Places
        <3>1. \A i \in DOMAIN fs : fs[i] \in FrameKind
            BY <1>2
        <3>2. \A f \in FrameKind : Pending(f) # Null => Pending(f) \in Places
            <4>1. \A f \in FrameKind : Dying(f) => f.rest.to \in Places \cup {Null}
                BY FrameFacts DEF Rest
            <4>2. QED
                BY <4>1, FrameFacts DEF Places
        <3>3. QED
            BY <3>1, <3>2
    <2>2. q[l] = Null /\ \A k \in Places : p[k] = Null => q[k] = Null
        BY <1>1, <1>2
    <2>3. ~ DestructorsReassign =>
             /\ \A i \in DOMAIN fs : Pending(fs[i]) # Null => p[Pending(fs[i])] = Null
             /\ \A i, j \in DOMAIN fs : Pending(fs[i]) = Pending(fs[j])
                    /\ Pending(fs[i]) # Null => i = j
        BY <1>1 DEF OwnersOK
    <2>4. ~ DestructorsReassign /\ rest.to # Null => \A i \in DOMAIN fs : Pending(fs[i]) # l
        BY DEF Assigns
    <2>5. QED
        BY <1>1, <2>1, <2>2, <2>3, <2>4
<1>10. QED
    BY <1>1, <1>3, <1>4, <1>6, <1>8, <1>9 DEF Ready, C, w, w2

\* The innermost scoped access is closed.
LEMMA LeaveIsReady ==
    ASSUME NEW hp, NEW p, NEW sc, NEW fs, Sound(hp, p, sc, fs), NoneCompacts(fs), sc # << >>,
           NEW sd, sd = SubSeq(sc, 1, Len(sc) - 1), NEW h, h = sc[Len(sc)].h
    PROVE  Ready(hp, p, sd, fs, h, Nothing)
<1> DEFINE w == View(hp)
<1>1. /\ HeapOK(hp, Constructing(fs)) /\ CallsOK(w, p, sc, fs) /\ OwnersOK(w, p, sc, fs)
    BY DEF Sound
<1>2. /\ p \in [Places -> Held] /\ sc \in Seq(Scope) /\ fs \in Seq(FrameKind)
    BY <1>1 DEF CallsOK, Held, FrameKind
<1>3. /\ sd \in Seq(Scope) /\ \A i \in DOMAIN sd : sd[i] = sc[i] /\ i \in DOMAIN sc
      /\ \A g : ScopeOwners(sc, g) = ScopeOwners(sd, g) + Ind(h, g)
    BY <1>2, ScopeOwnersPopped
<1>4. h \in Handles
    <2>1. sc[Len(sc)] \in Scope
        BY <1>2, Pops
    <2>2. QED
        BY <2>1 DEF Scope
<1>5. Nothing \in Rest /\ RestOK(Nothing) /\ Nothing.incoming = Null /\ Nothing.to = Null
    BY DEF Nothing, Rest, RestOK
<1> HIDE DEF w
<1>6. CallsOK(w, p, sd, fs)
    BY <1>1, <1>3 DEF CallsOK, NoneCompacts, Compacts
<1>7. ASSUME NEW g \in Handles
      PROVE  /\ (OwnersOf(g, p, sd, fs) + Ind(h, g)) + Ind(Null, g) <= w[g].refs
             /\ ~ DestructorsReassign =>
                  (OwnersOf(g, p, sd, fs) + Ind(h, g)) + Ind(Null, g) = w[g].refs
    <2> DEFINE o == OwnersOf(g, p, sc, fs)
               o2 == OwnersOf(g, p, sd, fs)
               j == Ind(h, g)
               r == w[g].refs
               a == PtrOwners(p, g)
               b == ScopeOwners(sc, g)
               b2 == ScopeOwners(sd, g)
               c == FrameOwners(fs, g)
    <2>1. o = (a + b) + c /\ o2 = (a + b2) + c /\ b = b2 + j
        BY <1>3, OwnersAre
    <2>2. a \in Nat /\ b2 \in Nat /\ c \in Nat /\ j \in {0, 1} /\ r \in Nat
        <3>1. IsFiniteSet({i \in DOMAIN sd : sd[i].h = g})
                  /\ IsFiniteSet({i \in DOMAIN fs : Owns(fs[i], g)})
            <4>1. Len(sd) \in Nat /\ DOMAIN sd = 1 .. Len(sd) /\ Len(fs) \in Nat
                      /\ DOMAIN fs = 1 .. Len(fs)
                BY <1>2, <1>3
            <4>2. IsFiniteSet(DOMAIN sd) /\ IsFiniteSet(DOMAIN fs)
                BY <4>1, IntervalCount
            <4>3. QED
                BY <4>2, FS_Subset
        <3>2. b2 \in Nat /\ c \in Nat
            BY <3>1, FS_CardinalityType DEF ScopeOwners, FrameOwners
        <3>3. j \in {0, 1}
            BY DEF Ind
        <3>4. r \in Nat
            BY <1>1, LiveIs DEF w
        <3>5. QED
            BY <3>2, <3>3, <3>4, PtrOwnersTyped
    <2>3. o <= r /\ (~ DestructorsReassign => o = r)
        BY <1>1 DEF OwnersOK
    <2>4. Ind(Null, g) = 0
        BY NullIsNone DEF Ind
    <2> HIDE DEF o, o2, j, r, a, b, b2, c
    <2>5. (o2 + j) + 0 <= r /\ (o = r => (o2 + j) + 0 = r)
        BY <2>1, <2>2, <2>3
    <2>6. QED
        BY <2>3, <2>4, <2>5 DEF o2, r, j
<1>8. ~ DestructorsReassign =>
        /\ \A i \in DOMAIN fs : Pending(fs[i]) # Null => p[Pending(fs[i])] = Null
        /\ \A i, j \in DOMAIN fs : Pending(fs[i]) = Pending(fs[j]) /\ Pending(fs[i]) # Null => i = j
    BY <1>1 DEF OwnersOK
<1>9. h \in Held
    BY <1>4 DEF Held
<1>10. QED
    BY <1>1, <1>5, <1>6, <1>7, <1>8, <1>9 DEF Ready, w

\* release_ keeps the invariant, and does to the objects what it says.
LEMMA ReleaseKeeps ==
    ASSUME NEW hp, NEW p, NEW sc, NEW fs, NEW h, NEW rest, Ready(hp, p, sc, fs, h, rest),
           Release(hp, p, fs, h, rest)
    PROVE  /\ Sound(heap', ptr', sc, frames')
           /\ Quiet(hp, heap') \/ Dies(hp, heap', h)
<1>1. \/ Dropped(hp, p, fs, h, rest, heap', ptr', frames')
      \/ LetGo(hp, p, fs, h, rest, heap', ptr', frames')
    BY ReleaseIs
<1>2. CASE Dropped(hp, p, fs, h, rest, heap', ptr', frames')
    BY <1>2, DroppedIs
<1>3. CASE LetGo(hp, p, fs, h, rest, heap', ptr', frames')
    BY <1>3, LetGoIs
<1>4. QED
    BY <1>1, <1>2, <1>3

\* A release after which the caller has nothing to do.
LEMMA NothingIs == Nothing \in Rest /\ RestOK(Nothing) /\ Nothing.incoming = Null
    /\ Nothing.to = Null
BY DEF Nothing, Rest, RestOK

\* A place a destructor may not write to is one no call is about to fill.
LEMMA WritableIs ==
    ASSUME NEW l, Writable(l), ~ DestructorsReassign, l # Null, frames \in Seq(FrameKind)
    PROVE  \A i \in DOMAIN frames : Pending(frames[i]) # l
<1>1. \A i \in DOMAIN frames : frames[i] \in FrameKind
    OBVIOUS
<1>2. QED
    BY <1>1, FrameFacts DEF Writable, Busy, Dying

\* No place is the one that means none.
PlaceIsSome == \A l \in Places : l # Null

\* ProgramAssumption says so.
LEMMA PlacesAreSome == PlaceIsSome
BY NullIsNone, ProgramAssumption DEF PlaceIsSome, Places

\* What a step that only lets go of a reference does.
LetsGo ==
    /\ Sound(heap', ptr', scopes', frames')
    /\ Quiet(heap, heap') \/ \E h \in Handles : Dies(heap, heap', h)

\* An assignment keeps the invariant, self-assignment included.
LEMMA AssignLetsGo ==
    ASSUME Sound(heap, ptr, scopes, frames), NoneCompacts(frames),
           NEW l, NEW x, NEW rest, NEW q, Assigns(ptr, frames, l, x, rest, q),
           x # Null => View(heap)[x].state = "live",
           NEW h, h = ptr[l],
           NEW hp, hp = Retained(heap, x), Release(hp, q, frames, h, rest), UNCHANGED scopes
    PROVE  LetsGo
<1>1. /\ Ready(hp, q, scopes, frames, h, rest)
      /\ hp.mem = heap.mem /\ SameObjects(View(heap), View(hp))
    BY AssignIsReady
<1>2. /\ Sound(heap', ptr', scopes, frames')
      /\ Quiet(hp, heap') \/ Dies(hp, heap', h)
    BY <1>1, ReleaseKeeps
<1>3. Quiet(heap, heap') \/ Dies(heap, heap', h)
    BY <1>1, <1>2 DEF Quiet, Dies, SameObjects
<1>4. QED
    BY <1>2, <1>3 DEF LetsGo, Dies

\* IInv is Sound of the state.
LEMMA IInvIsSound == IInv <=> Sound(heap, ptr, scopes, frames)
BY DEF IInv, Sound

\* Copy assignment.
LEMMA CopyAssignLetsGo ==
    ASSUME IInv, NEW l \in Places, NEW q \in Places, CopyAssign(l, q)
    PROVE  LetsGo
<1> DEFINE x == ptr[q]
           rest == [to |-> l, incoming |-> x, from |-> Null]
           p == [ptr EXCEPT ![l] = Null]
<1>1. Sound(heap, ptr, scopes, frames) /\ HeapOK(heap, Constructing(frames))
      /\ CallsOK(View(heap), ptr, scopes, frames) /\ OwnersOK(View(heap), ptr, scopes, frames)
    BY DEF IInv, Sound
<1>2. ptr \in [Places -> Held] /\ frames \in Seq(FrameKind) /\ NoneCompacts(frames)
    BY <1>1, UserCodeRuns DEF CallsOK, Held, FrameKind, CopyAssign
<1>3. x \in Held /\ rest \in Rest /\ RestOK(rest) /\ rest.incoming = x /\ rest.to = l
    <2>1. x \in Held
        BY <1>2
    <2>2. l # Null
        BY PlacesAreSome DEF PlaceIsSome
    <2> HIDE DEF x
    <2>3. rest \in Rest
        BY <2>1 DEF Rest, Held
    <2>4. QED
        BY <2>1, <2>2, <2>3 DEF RestOK
<1>4. Assigns(ptr, frames, l, x, rest, p)
    <2>1. ~ DestructorsReassign => \A i \in DOMAIN frames : Pending(frames[i]) # l
        BY <1>2, WritableIs, PlacesAreSome DEF CopyAssign, PlaceIsSome
    <2> HIDE DEF x, rest
    <2>2. QED
        BY <1>3, <2>1 DEF Assigns
<1>5. x # Null => View(heap)[x].state = "live"
    BY <1>1, OwnedLives
<1>6. Release(Retained(heap, x), p, frames, ptr[l], rest) /\ UNCHANGED scopes
    BY DEF CopyAssign
<1> HIDE DEF x, rest, p
<1>7. QED
    BY <1>1, <1>2, <1>4, <1>5, <1>6, AssignLetsGo

\* Move assignment, self-move included.
LEMMA MoveAssignLetsGo ==
    ASSUME IInv, NEW l \in Places, NEW q \in Places, MoveAssign(l, q)
    PROVE  LetsGo
<1> DEFINE rest == [to |-> l, incoming |-> Null, from |-> q]
           p == [ptr EXCEPT ![l] = Null]
<1>1. Sound(heap, ptr, scopes, frames) /\ HeapOK(heap, Constructing(frames))
      /\ CallsOK(View(heap), ptr, scopes, frames)
    BY DEF IInv, Sound
<1>2. ptr \in [Places -> Held] /\ frames \in Seq(FrameKind) /\ NoneCompacts(frames)
    BY <1>1, UserCodeRuns DEF CallsOK, Held, FrameKind, MoveAssign
<1>3. Null \in Held /\ rest \in Rest /\ RestOK(rest) /\ rest.incoming = Null /\ rest.to = l
    BY DEF Rest, Held, RestOK
<1>4. Assigns(ptr, frames, l, Null, rest, p)
    <2>1. ~ DestructorsReassign => \A i \in DOMAIN frames : Pending(frames[i]) # l
        BY <1>2, WritableIs, PlacesAreSome DEF MoveAssign, PlaceIsSome
    <2> HIDE DEF rest
    <2>2. QED
        BY <1>3, <2>1 DEF Assigns
<1>5. heap = Retained(heap, Null)
    BY DEF Retained
<1>6. Release(heap, p, frames, ptr[l], rest) /\ UNCHANGED scopes
    BY DEF MoveAssign
<1> HIDE DEF rest, p
<1>7. QED
    BY <1>1, <1>2, <1>4, <1>5, <1>6, AssignLetsGo

\* reset().
LEMMA ResetLetsGo ==
    ASSUME IInv, NEW l \in Places, Reset(l)
    PROVE  LetsGo
<1> DEFINE p == [ptr EXCEPT ![l] = Null]
<1>1. Sound(heap, ptr, scopes, frames) /\ HeapOK(heap, Constructing(frames))
      /\ CallsOK(View(heap), ptr, scopes, frames)
    BY DEF IInv, Sound
<1>2. NoneCompacts(frames)
    BY <1>1, UserCodeRuns DEF Reset
<1>3. Null \in Held
    BY DEF Held
<1>4. Assigns(ptr, frames, l, Null, Nothing, p)
    BY <1>3, NothingIs DEF Assigns
<1>5. heap = Retained(heap, Null)
    BY DEF Retained
<1>6. Release(heap, p, frames, ptr[l], Nothing) /\ UNCHANGED scopes
    BY DEF Reset
<1> HIDE DEF p
<1>7. QED
    BY <1>1, <1>2, <1>4, <1>5, <1>6, AssignLetsGo

\* The end of a scoped access.
LEMMA LeaveLetsGo ==
    ASSUME IInv, Leave
    PROVE  LetsGo
<1> DEFINE h == InnermostScope.h
           sd == SubSeq(scopes, 1, Len(scopes) - 1)
<1>1. Sound(heap, ptr, scopes, frames) /\ CallsOK(View(heap), ptr, scopes, frames)
    BY DEF IInv, Sound
<1>2. NoneCompacts(frames) /\ scopes # << >> /\ scopes' = sd /\ h = scopes[Len(scopes)].h
      /\ Release(heap, ptr, frames, h, Nothing)
    BY <1>1, UserCodeRuns DEF Leave, ScopeOfThisFrame, InnermostScope
<1>3. sd = SubSeq(scopes, 1, Len(scopes) - 1)
    OBVIOUS
<1> HIDE DEF sd, h
<1>4. Ready(heap, ptr, sd, frames, h, Nothing)
    BY <1>1, <1>2, <1>3, LeaveIsReady
<1>5. /\ Sound(heap', ptr', sd, frames')
      /\ Quiet(heap, heap') \/ Dies(heap, heap', h)
    BY <1>2, <1>4, ReleaseKeeps
<1>6. QED
    BY <1>2, <1>5 DEF LetsGo, Dies

-----------------------------------------------------------------------------
(***************************************************************************)
(* The other calls of a program that make and move no object.              *)
(***************************************************************************)
\* The owners are counted in natural numbers.
LEMMA OwnersCounted ==
    ASSUME NEW p, NEW sc \in Seq(Scope), NEW fs \in Seq(FrameKind), NEW g
    PROVE  PtrOwners(p, g) \in Nat /\ ScopeOwners(sc, g) \in Nat /\ FrameOwners(fs, g) \in Nat
<1>1. IsFiniteSet({i \in DOMAIN sc : sc[i].h = g})
          /\ IsFiniteSet({i \in DOMAIN fs : Owns(fs[i], g)})
    <2>1. Len(sc) \in Nat /\ DOMAIN sc = 1 .. Len(sc) /\ Len(fs) \in Nat /\ DOMAIN fs = 1 .. Len(fs)
        OBVIOUS
    <2>2. IsFiniteSet(DOMAIN sc) /\ IsFiniteSet(DOMAIN fs)
        BY <2>1, IntervalCount
    <2>3. QED
        BY <2>2, FS_Subset
<1>2. QED
    BY <1>1, FS_CardinalityType, PtrOwnersTyped DEF ScopeOwners, FrameOwners

\* A call that begins owns a reference to its handle.
LEMMA OwnersFramePushed ==
    ASSUME NEW p, NEW sc \in Seq(Scope), NEW fs, NEW f, NEW ft, Grows(FrameKind, fs, f, ft)
    PROVE  \A g \in Handles : OwnersOf(g, p, sc, ft) = OwnersOf(g, p, sc, fs) + Ind(OwnedBy(f), g)
<1> SUFFICES ASSUME NEW g \in Handles
        PROVE OwnersOf(g, p, sc, ft) = OwnersOf(g, p, sc, fs) + Ind(OwnedBy(f), g)
    OBVIOUS
<1> DEFINE a == PtrOwners(p, g)
           b == ScopeOwners(sc, g)
           c == FrameOwners(fs, g)
           c2 == FrameOwners(ft, g)
           k == Ind(OwnedBy(f), g)
<1>0. fs \in Seq(FrameKind) /\ f \in FrameKind /\ ft = Append(fs, f)
    BY DEF Grows
<1>1. c2 = c + k
    BY <1>0, FrameOwnersPushed
<1>2. a \in Nat /\ b \in Nat /\ c \in Nat /\ k \in {0, 1}
    BY <1>0, OwnersCounted DEF Ind
<1>3. OwnersOf(g, p, sc, ft) = (a + b) + c2 /\ OwnersOf(g, p, sc, fs) = (a + b) + c
    BY OwnersAre
<1> HIDE DEF a, b, c, c2, k
<1>4. (a + b) + c2 = ((a + b) + c) + k
    BY <1>1, <1>2
<1>5. QED
    BY <1>3, <1>4 DEF k

\* One that ends gives it up.
LEMMA OwnersFramePopped ==
    ASSUME NEW p, NEW sc \in Seq(Scope), NEW fs, NEW f, NEW ft, Shrinks(FrameKind, fs, f, ft)
    PROVE  \A g \in Handles : OwnersOf(g, p, sc, fs) = OwnersOf(g, p, sc, ft) + Ind(OwnedBy(f), g)
<1> SUFFICES ASSUME NEW g \in Handles
        PROVE OwnersOf(g, p, sc, fs) = OwnersOf(g, p, sc, ft) + Ind(OwnedBy(f), g)
    OBVIOUS
<1> DEFINE a == PtrOwners(p, g)
           b == ScopeOwners(sc, g)
           c == FrameOwners(ft, g)
           c2 == FrameOwners(fs, g)
           k == Ind(OwnedBy(f), g)
<1>0. fs \in Seq(FrameKind) /\ fs # << >> /\ f = fs[Len(fs)] /\ ft = SubSeq(fs, 1, Len(fs) - 1)
    BY DEF Shrinks
<1>1. c2 = c + k
    BY <1>0, FrameOwnersPopped
<1>00. ft \in Seq(FrameKind)
    BY <1>0, Pops
<1>2. a \in Nat /\ b \in Nat /\ c \in Nat /\ k \in {0, 1}
    BY <1>00, OwnersCounted DEF Ind
<1>3. OwnersOf(g, p, sc, fs) = (a + b) + c2 /\ OwnersOf(g, p, sc, ft) = (a + b) + c
    BY OwnersAre
<1> HIDE DEF a, b, c, c2, k
<1>4. (a + b) + c2 = ((a + b) + c) + k
    BY <1>1, <1>2
<1>5. QED
    BY <1>3, <1>4 DEF k

\* A scoped access that begins owns a reference to its object.
LEMMA OwnersScopePushed ==
    ASSUME NEW p, NEW sc, NEW fs \in Seq(FrameKind), NEW x, NEW sd, Grows(Scope, sc, x, sd)
    PROVE  \A g \in Handles : OwnersOf(g, p, sd, fs) = OwnersOf(g, p, sc, fs) + Ind(x.h, g)
<1> SUFFICES ASSUME NEW g \in Handles
        PROVE OwnersOf(g, p, sd, fs) = OwnersOf(g, p, sc, fs) + Ind(x.h, g)
    OBVIOUS
<1> DEFINE a == PtrOwners(p, g)
           b == ScopeOwners(sc, g)
           b2 == ScopeOwners(sd, g)
           c == FrameOwners(fs, g)
           k == Ind(x.h, g)
<1>0. sc \in Seq(Scope) /\ x \in Scope /\ sd = Append(sc, x)
    BY DEF Grows
<1>1. b2 = b + k
    BY <1>0, ScopeOwnersPushed
<1>2. a \in Nat /\ b \in Nat /\ c \in Nat /\ k \in {0, 1}
    BY <1>0, OwnersCounted DEF Ind
<1>3. OwnersOf(g, p, sd, fs) = (a + b2) + c /\ OwnersOf(g, p, sc, fs) = (a + b) + c
    BY OwnersAre
<1> HIDE DEF a, b, b2, c, k
<1>4. (a + b2) + c = ((a + b) + c) + k
    BY <1>1, <1>2
<1>5. QED
    BY <1>3, <1>4 DEF k

\* The same calls, except that the innermost destructor has reached the members.
SameCalls(fs, ft) ==
    /\ ft \in Seq(FrameKind) /\ DOMAIN ft = DOMAIN fs /\ Len(ft) = Len(fs)
    /\ \A i \in DOMAIN fs :
          /\ ft[i].kind = "constructor" <=> fs[i].kind = "constructor"
          /\ Dying(ft[i]) <=> Dying(fs[i])
          /\ Compacts(ft[i]) <=> Compacts(fs[i])
          /\ ft[i].kind = "constructor" \/ Dying(ft[i]) => ft[i].h = fs[i].h
          /\ ft[i].kind = "constructor" => ft[i].to = fs[i].to
          /\ Dying(ft[i]) => ft[i].rest = fs[i].rest

\* The invariant does not tell the two phases of a destructor apart.
LEMMA SameCallsSound ==
    ASSUME NEW hp, NEW p, NEW sc, NEW fs, Sound(hp, p, sc, fs), NEW ft, SameCalls(fs, ft)
    PROVE  Sound(hp, p, sc, ft)
<1>1. HeapOK(hp, Constructing(fs)) /\ CallsOK(View(hp), p, sc, fs) /\ OwnersOK(View(hp), p, sc, fs)
    BY DEF Sound
<1>2. Constructing(ft) = Constructing(fs)
    BY DEF SameCalls, Constructing
<1>3. CallsOK(View(hp), p, sc, ft)
    BY <1>1, SMTT(30) DEF SameCalls, CallsOK, FrameKind, Compacts
<1>4. \A i \in DOMAIN fs, g \in Handles : Owns(ft[i], g) <=> Owns(fs[i], g)
    BY DEF SameCalls, Owns
<1>5. \A g \in Handles : OwnersOf(g, p, sc, ft) = OwnersOf(g, p, sc, fs)
    <2>1. ASSUME NEW g \in Handles
          PROVE  {i \in DOMAIN ft : Owns(ft[i], g)} = {i \in DOMAIN fs : Owns(fs[i], g)}
        BY <1>4 DEF SameCalls
    <2>2. QED
        BY <2>1 DEF OwnersOf
<1>6. \A i \in DOMAIN fs : Pending(ft[i]) = Pending(fs[i])
    BY DEF SameCalls, Pending
<1>7. DOMAIN ft = DOMAIN fs
    BY DEF SameCalls
<1>8. OwnersOK(View(hp), p, sc, ft)
    BY <1>1, <1>5, <1>6, <1>7 DEF OwnersOK
<1>9. QED
    BY <1>1, <1>2, <1>3, <1>8 DEF Sound

\* The destructor's body ends: the first of the object's members is let go of, if
\* it has any.
LEMMA BodyEndsLetsGo ==
    ASSUME IInv, BodyEnds
    PROVE  LetsGo
<1> DEFINE n == Len(frames)
           ft == [frames EXCEPT ![n].kind = "members"]
           l == Top.h
           p == [ptr EXCEPT ![l] = Null]
<1>1. Sound(heap, ptr, scopes, frames) /\ CallsOK(View(heap), ptr, scopes, frames)
    BY DEF IInv, Sound
<1>2. frames \in Seq(FrameKind) /\ frames # << >> /\ Top = frames[n] /\ Top.kind = "body"
      /\ UNCHANGED scopes /\ Release(heap, p, ft, ptr[l], Nothing)
    BY <1>1 DEF BodyEnds, InFrame, CallsOK, FrameKind, Top
<1>3. Top \in FrameKind /\ n \in DOMAIN frames
    BY <1>2, Pops
<1>4. Top \in ReleaseFrame /\ l \in Handles /\ l \in Places
    BY <1>2, <1>3, FrameFacts DEF Dying, Places
<1>5. SameCalls(frames, ft) /\ NoneCompacts(ft)
    <2> DEFINE f == [Top EXCEPT !.kind = "members"]
    <2>1. f \in ReleaseFrame /\ f.kind = "members" /\ f.h = Top.h /\ f.rest = Top.rest
        BY <1>4 DEF ReleaseFrame
    <2>2. f \in FrameKind
        BY <2>1 DEF FrameKind
    <2>3. ft = [frames EXCEPT ![n] = f]
        BY <1>2
    <2> HIDE DEF f
    <2>4. ft \in Seq(FrameKind) /\ Len(ft) = Len(frames) /\ DOMAIN ft = DOMAIN frames
        BY <1>2, <1>3, <2>2, <2>3
    <2>5. ft[n] = f /\ \A i \in DOMAIN frames : i # n => ft[i] = frames[i]
        BY <1>3, <2>3
    <2>6. SameCalls(frames, ft)
        <3> HIDE DEF ft, n
        <3> SUFFICES ASSUME NEW i \in DOMAIN frames
                     PROVE  /\ ft[i].kind = "constructor" <=> frames[i].kind = "constructor"
                            /\ Dying(ft[i]) <=> Dying(frames[i])
                            /\ Compacts(ft[i]) <=> Compacts(frames[i])
                            /\ ft[i].kind = "constructor" \/ Dying(ft[i]) => ft[i].h = frames[i].h
                            /\ ft[i].kind = "constructor" => ft[i].to = frames[i].to
                            /\ Dying(ft[i]) => ft[i].rest = frames[i].rest
            BY <2>4 DEF SameCalls, n
        <3>1. CASE i # n
            BY <2>5, <3>1
        <3>2. CASE i = n
            BY <1>2, <2>1, <2>5, <3>2 DEF Dying, Compacts
        <3>3. QED
            BY <3>1, <3>2
    <2>7. NoneCompacts(ft)
        <3>1. \A i \in DOMAIN frames : Compacts(frames[i]) => i = n
            BY <1>1 DEF CallsOK, Compacts
        <3>2. ~ Compacts(frames[n])
            BY <1>2 DEF Compacts
        <3>3. \A i \in DOMAIN frames : ~ Compacts(frames[i])
            BY <3>1, <3>2
        <3>4. QED
            BY <2>6, <3>3 DEF SameCalls, NoneCompacts
    <2>8. QED
        BY <2>6, <2>7
<1> HIDE DEF ft
<1>6. Sound(heap, ptr, scopes, ft)
    BY <1>1, <1>5, SameCallsSound
<1>7. Assigns(ptr, ft, l, Null, Nothing, p)
    BY <1>4, NothingIs DEF Assigns, Held
<1>8. heap = Retained(heap, Null)
    BY DEF Retained
<1> DEFINE h == ptr[l]
<1> HIDE DEF p, l
<1>9. Ready(heap, p, scopes, ft, h, Nothing)
    BY <1>5, <1>6, <1>7, <1>8, AssignIsReady
<1>10. Release(heap, p, ft, h, Nothing)
    BY <1>2
<1> HIDE DEF h
<1>11. /\ Sound(heap', ptr', scopes, frames')
       /\ Quiet(heap, heap') \/ Dies(heap, heap', h)
    BY <1>9, <1>10, ReleaseKeeps
<1>12. QED
    BY <1>2, <1>11 DEF LetsGo, Dies

\* A scoped access takes a reference and the address the object has now.
LEMMA UnwrapKeeps ==
    ASSUME IInv, NEW l \in Places, Unwrap(l)
    PROVE  Sound(heap', ptr', scopes', frames') /\ Quiet(heap, heap')
<1> DEFINE x == ptr[l]
           w == View(heap)
           C == Constructing(frames)
           e == [h |-> x, ptr |-> Base(heap, x), depth |-> Len(frames)]
<1>1. /\ HeapOK(heap, C) /\ CallsOK(w, ptr, scopes, frames) /\ OwnersOK(w, ptr, scopes, frames)
    BY DEF IInv
<1>2. ptr \in [Places -> Held] /\ scopes \in Seq(Scope) /\ frames \in Seq(FrameKind)
          /\ NoneCompacts(frames)
    BY <1>1, UserCodeRuns DEF CallsOK, Held, FrameKind, Unwrap
<1>3. x # Null /\ heap' = Retained(heap, x) /\ scopes' = Append(scopes, e) /\ ptr' = ptr
          /\ frames' = frames
    BY DEF Unwrap
<1>4. x \in Handles /\ x \in Held /\ w[x].state = "live"
    BY <1>1, <1>3, OwnedLives DEF Held
<1>5. e \in Scope /\ e.h = x /\ e.ptr = w[x].offset
    <2>1. Base(heap, x) = w[x].offset /\ w[x] \in Slot
        BY <1>1, <1>4, LiveIs
    <2>2. Base(heap, x) \in Bytes
        BY <2>1 DEF Slot
    <2>3. Len(frames) \in Nat
        BY <1>2
    <2> HIDE DEF x
    <2>4. QED
        BY <1>4, <2>1, <2>2, <2>3 DEF Scope
<1> HIDE DEF e
<1>6. HeapOK(heap', C) /\ heap'.mem = heap.mem /\ SameObjects(w, View(heap'))
      /\ \A g \in Handles : View(heap')[g].refs = w[g].refs + Ind(x, g)
    <2> DEFINE hq == heap'
    <2>1. hq = Retained(heap, x)
        BY <1>3
    <2> HIDE DEF hq, x, C
    <2>2. HeapOK(hq, C) /\ hq.mem = heap.mem /\ SameObjects(View(heap), View(hq))
          /\ \A g \in Handles : View(hq)[g].refs = View(heap)[g].refs + Ind(x, g)
        BY <1>1, <1>4, <2>1, RetainedIs
    <2>3. QED
        BY <2>2 DEF hq
<1> DEFINE w2 == View(heap')
<1>7. /\ \A i \in DOMAIN frames : Dying(frames[i]) => frames[i].h \in Handles
      /\ \A i \in DOMAIN scopes : scopes[i].h \in Handles
    <2>1. (\A i \in DOMAIN frames : frames[i] \in FrameKind)
              /\ \A i \in DOMAIN scopes : scopes[i] \in Scope
        BY <1>2
    <2>2. QED
        BY <2>1, FrameFacts DEF Scope
<1> HIDE DEF w, w2, x
<1>8. CallsOK(w2, ptr, scopes', frames)
    <2>1. scopes' \in Seq(Scope)
              /\ \A i \in DOMAIN scopes' :
                     (i \in DOMAIN scopes /\ scopes'[i] = scopes[i]) \/ scopes'[i] = e
        BY <1>2, <1>3, <1>5, Pushes
    <2>2. \A i \in DOMAIN scopes' : scopes'[i].ptr = w2[scopes'[i].h].offset
        BY <1>1, <1>4, <1>5, <1>6, <1>7, <2>1 DEF CallsOK, SameObjects, w2
    <2>3. \A i \in DOMAIN frames : Dying(frames[i]) => w2[frames[i].h].state = "destroying"
        BY <1>1, <1>6, <1>7 DEF CallsOK, SameObjects, w2
    <2>4. QED
        BY <1>1, <1>2, <2>1, <2>2, <2>3 DEF CallsOK, NoneCompacts, Compacts
<1>9. ASSUME NEW g \in Handles
      PROVE  /\ OwnersOf(g, ptr, scopes', frames) <= w2[g].refs
             /\ ~ DestructorsReassign => OwnersOf(g, ptr, scopes', frames) = w2[g].refs
    <2> DEFINE o == OwnersOf(g, ptr, scopes, frames)
               o2 == OwnersOf(g, ptr, scopes', frames)
               k == Ind(x, g)
               r == w[g].refs
               r2 == w2[g].refs
    <2>1. o2 = o + k
        <3> DEFINE sd == scopes'
        <3>1. sd = Append(scopes, e)
            BY <1>3
        <3> HIDE DEF sd
        <3>2. Grows(Scope, scopes, e, sd)
            BY <1>2, <1>5, <3>1 DEF Grows
        <3> HIDE DEF o, o2, k, r, r2, C
        <3>3. \A y \in Handles : OwnersOf(y, ptr, sd, frames)
                  = OwnersOf(y, ptr, scopes, frames) + Ind(e.h, y)
            BY <1>2, <3>2, OwnersScopePushed
        <3>4. QED
            BY <1>5, <3>3 DEF sd, o, o2, k
    <2>2. o \in Nat /\ k \in {0, 1} /\ r \in Nat
        BY <1>1, <1>2, OwnersSee, LiveIs DEF Ind, w
    <2>3. r2 = r + k /\ o <= r /\ (~ DestructorsReassign => o = r)
        BY <1>1, <1>6 DEF OwnersOK, w2
    <2> HIDE DEF o, o2, k, r, r2
    <2>4. o2 <= r2 /\ (o = r => o2 = r2)
        BY <2>1, <2>2, <2>3
    <2>5. QED
        BY <2>3, <2>4 DEF o2, r2
<1>10. OwnersOK(w2, ptr, scopes', frames)
    BY <1>1, <1>9 DEF OwnersOK
<1>11. QED
    BY <1>3, <1>6, <1>8, <1>10 DEF Sound, Quiet, C, w, w2

\* A run of bytes is filled.
LEMMA FilledTyped ==
    ASSUME NEW mem \in [Bytes -> Values \cup {Junk}], NEW at, NEW n, NEW v \in Values \cup {Junk}
    PROVE  Filled(mem, at, n, v) \in [Bytes -> Values \cup {Junk}]
BY DEF Filled

\* A write through an address that is held changes bytes only.
LEMMA WriteThroughKeeps ==
    ASSUME IInv, NEW i \in DOMAIN scopes, NEW v \in Values, WriteThrough(i, v)
    PROVE  Sound(heap', ptr', scopes', frames') /\ View(heap') = View(heap)
<1> DEFINE m == Filled(heap.mem, scopes[i].ptr, Size(heap, scopes[i].h), v)
           C == Constructing(frames)
<1>1. /\ HeapOK(heap, C) /\ CallsOK(View(heap), ptr, scopes, frames)
             /\ OwnersOK(View(heap), ptr, scopes, frames)
    BY DEF IInv
<1>2. HeapRec(heap) /\ heap.mem \in [Bytes -> Values \cup {Junk}]
    BY <1>1, HeapGives DEF HeapRec, Heap
<1>3. m \in [Bytes -> Values \cup {Junk}]
    BY <1>2, FilledTyped
<1>4. heap' = [heap EXCEPT !.mem = m] /\ ptr' = ptr /\ scopes' = scopes /\ frames' = frames
    BY DEF WriteThrough
<1> HIDE DEF m, C
<1>5. View(heap') = View(heap) /\ HeapOK(heap', C)
    BY <1>1, <1>2, <1>3, <1>4, MemSet
<1>6. QED
    BY <1>1, <1>4, <1>5 DEF Sound, C

-----------------------------------------------------------------------------
(***************************************************************************)
(* compact.                                                                *)
(***************************************************************************)
\* Where a compaction may run: no address is held, no destructor is running.
Idle(sc, fs) == sc = << >> /\ NoneCompacts(fs) /\ \A i \in DOMAIN fs : ~ Dying(fs[i])

\* A compaction begins, or enters another phase.
LEMMA CompactionPushed ==
    ASSUME NEW hp, NEW p, NEW sc, NEW fs, Sound(hp, p, sc, fs), Idle(sc, fs),
           NEW f \in CompactFrame, NEW ft, ft = Append(fs, f)
    PROVE  Sound(hp, p, sc, ft)
<1>1. HeapOK(hp, Constructing(fs)) /\ CallsOK(View(hp), p, sc, fs) /\ OwnersOK(View(hp), p, sc, fs)
    BY DEF Sound
<1>2. /\ p \in [Places -> Held] /\ sc \in Seq(Scope) /\ fs \in Seq(FrameKind)
      /\ \A i, j \in DOMAIN fs : fs[i].kind = "constructor" /\ fs[j].kind = "constructor"
             /\ fs[i].h = fs[j].h => i = j
    BY <1>1 DEF CallsOK, Held, FrameKind
<1>3. f \in FrameKind /\ Compacts(f) /\ Pending(f) = Null /\ OwnedBy(f) = Null
          /\ ~ Dying(f) /\ f.kind # "constructor"
    <2>1. f \in FrameKind /\ Compacts(f)
        BY DEF FrameKind, CompactFrame, Compacts
    <2>2. QED
        BY <2>1, FrameFacts
<1>4. /\ ft \in Seq(FrameKind) /\ Len(ft) \in DOMAIN ft /\ ft[Len(ft)] = f
      /\ \A i \in DOMAIN ft : (i \in DOMAIN fs /\ ft[i] = fs[i]) \/ (i = Len(ft) /\ ft[i] = f)
    BY <1>2, <1>3, Pushes
<1>5. Constructing(ft) = Constructing(fs)
    BY <1>2, <1>3, ConstructingPushed
<1>6. CallsOK(View(hp), p, sc, ft)
    <2>1. \A i \in DOMAIN ft : Compacts(ft[i]) => i = Len(ft) /\ sc = << >>
              /\ \A j \in DOMAIN ft : ~ Dying(ft[j])
        BY <1>3, <1>4 DEF Idle, NoneCompacts
    <2>2. \A i, j \in DOMAIN ft : ft[i].kind = "constructor" /\ ft[j].kind = "constructor"
              /\ ft[i].h = ft[j].h => i = j
        BY <1>2, <1>3, <1>4
    <2>3. \A i \in DOMAIN ft : ~ Dying(ft[i])
        BY <1>3, <1>4 DEF Idle
    <2>4. \A i \in DOMAIN sc : sc[i].ptr = View(hp)[sc[i].h].offset
        BY <1>1 DEF CallsOK
    <2>5. QED
        BY <1>2, <1>4, <2>1, <2>2, <2>3, <2>4 DEF CallsOK, Compacts, FrameKind, Held
<1>7. \A g \in Handles : OwnersOf(g, p, sc, ft) = OwnersOf(g, p, sc, fs)
    <2>1. Grows(FrameKind, fs, f, ft)
        BY <1>2, <1>3 DEF Grows
    <2>2. \A g \in Handles : OwnersOf(g, p, sc, ft) = OwnersOf(g, p, sc, fs) + Ind(Null, g)
        BY <1>2, <1>3, <2>1, OwnersFramePushed
    <2>3. \A g \in Handles : Ind(Null, g) = 0
        BY NullIsNone DEF Ind
    <2>4. \A g \in Handles : OwnersOf(g, p, sc, fs) \in Nat
        BY <1>2, OwnersSee
    <2>5. QED
        BY <2>2, <2>3, <2>4
<1>8. OwnersOK(View(hp), p, sc, ft)
    BY <1>1, <1>3, <1>4, <1>7 DEF OwnersOK
<1>9. QED
    BY <1>1, <1>5, <1>6, <1>8 DEF Sound

\* The phase of a compaction ends.
LEMMA CompactionPopped ==
    ASSUME NEW hp, NEW p, NEW sc, NEW fs, Sound(hp, p, sc, fs), fs # << >>, Compacts(fs[Len(fs)]),
           NEW ft, ft = SubSeq(fs, 1, Len(fs) - 1)
    PROVE  /\ Sound(hp, p, sc, ft) /\ Idle(sc, ft) /\ fs[Len(fs)] \in CompactFrame
           /\ Constructing(ft) = Constructing(fs)
<1> DEFINE f == fs[Len(fs)]
<1>1. HeapOK(hp, Constructing(fs)) /\ CallsOK(View(hp), p, sc, fs) /\ OwnersOK(View(hp), p, sc, fs)
    BY DEF Sound
<1>2. /\ p \in [Places -> Held] /\ sc \in Seq(Scope) /\ fs \in Seq(FrameKind)
    BY <1>1 DEF CallsOK, Held, FrameKind
<1>3. /\ ft \in Seq(FrameKind) /\ Len(fs) \in DOMAIN fs /\ f \in FrameKind
      /\ \A i \in DOMAIN ft : i \in DOMAIN fs /\ ft[i] = fs[i] /\ i # Len(fs)
    BY <1>2, Pops
<1>4. Pending(f) = Null /\ OwnedBy(f) = Null /\ f.kind # "constructor" /\ f \in CompactFrame
    BY <1>3, FrameFacts
<1>5. f = fs[Len(fs)]
    OBVIOUS
<1> HIDE DEF f
<1>6. Constructing(ft) = Constructing(fs)
    <2>1. Shrinks(FrameKind, fs, f, ft)
        BY <1>2, <1>5 DEF Shrinks
    <2>2. QED
        BY <1>4, <2>1, ConstructingPopped
<1>7. CallsOK(View(hp), p, sc, ft) /\ NoneCompacts(ft)
    <2>1. \A i \in DOMAIN ft : Dying(ft[i]) => View(hp)[ft[i].h].state = "destroying"
        BY <1>1, <1>3 DEF CallsOK
    <2>2. Popping(View(hp), sc, fs, View(hp), p, ft)
        BY <1>2, <2>1 DEF Popping
    <2>3. QED
        BY <1>1, <2>2, CallsPopped
<1>8. Idle(sc, ft)
    <2>1. sc = << >> /\ \A j \in DOMAIN fs : ~ Dying(fs[j])
        BY <1>1, <1>3, <1>5 DEF CallsOK, Compacts
    <2>2. QED
        BY <1>3, <1>7, <2>1 DEF Idle
<1>9. \A g \in Handles : OwnersOf(g, p, sc, ft) = OwnersOf(g, p, sc, fs)
    <2>1. Shrinks(FrameKind, fs, f, ft)
        BY <1>2, <1>5 DEF Shrinks
    <2>2. \A g \in Handles : OwnersOf(g, p, sc, fs) = OwnersOf(g, p, sc, ft) + Ind(Null, g)
        BY <1>2, <1>4, <2>1, OwnersFramePopped
    <2>3. \A g \in Handles : Ind(Null, g) = 0
        BY NullIsNone DEF Ind
    <2>4. \A g \in Handles : OwnersOf(g, p, sc, ft) \in Nat
        BY <1>2, <1>3, OwnersSee
    <2>5. QED
        BY <2>2, <2>3, <2>4
<1>10. OwnersOK(View(hp), p, sc, ft)
    BY <1>1, <1>3, <1>9 DEF OwnersOK
<1>11. QED
    BY <1>1, <1>4, <1>5, <1>6, <1>7, <1>8, <1>10 DEF Sound

\* Calls and counts do not depend on where objects are, where nobody holds an
\* address.
LEMMA HeapMoved ==
    ASSUME NEW hp, NEW p, NEW sc, NEW fs, Sound(hp, p, sc, fs), Idle(sc, fs),
           NEW hq, HeapOK(hq, Constructing(fs)), Moved(View(hp), View(hq))
    PROVE  Sound(hq, p, sc, fs)
<1>1. HeapOK(hp, Constructing(fs)) /\ CallsOK(View(hp), p, sc, fs) /\ OwnersOK(View(hp), p, sc, fs)
    BY DEF Sound
<1>2. CallsOK(View(hq), p, sc, fs)
    <2>1. DOMAIN sc = {}
        BY DEF Idle
    <2>2. p \in [Places -> Held]
        BY <1>1 DEF CallsOK, Held
    <2>3. \A i \in DOMAIN fs : ~ Dying(fs[i])
        BY DEF Idle
    <2>4. QED
        BY <1>1, <2>1, <2>2, <2>3, CallsKept
<1>3. OwnersOK(View(hq), p, sc, fs)
    BY <1>1 DEF OwnersOK, Moved
<1>4. QED
    BY <1>2, <1>3 DEF Sound

\* movement_cost_from_ is a number.
LEMMA CostTyped ==
    ASSUME NEW hp, NEW C, HeapOK(hp, C), NEW k
    PROVE  MovementCost(hp, Chain(hp), k) \in Nat
<1> DEFINE c == Chain(hp)
           s == [j \in DOMAIN c |-> IF j < k THEN 0 ELSE Size(hp, c[j])]
<1>1. /\ Len(c) \in Nat /\ DOMAIN c = 1 .. Len(c) /\ View(hp) \in [Handles -> Slot]
      /\ IsChain(View(hp), hp.root, c) /\ SlotsSound(View(hp)) /\ HeapRec(hp)
    BY HeapGives
<1>2. \A j \in 1 .. Len(c) : Size(hp, c[j]) \in Nat
    <2> SUFFICES ASSUME NEW j \in 1 .. Len(c) PROVE Size(hp, c[j]) \in Nat
        OBVIOUS
    <2> HIDE DEF c
    <2>1. c[j] \in Handles /\ View(hp)[c[j]].state # "free" /\ View(hp)[c[j]].size \in Nat
        BY <1>1, ChainParts
    <2>2. QED
        BY <1>1, <2>1, Reads
<1> HIDE DEF c
<1>3. s \in Seq(Int) /\ Len(s) = Len(c) /\ \A j \in 1 .. Len(c) : s[j] >= 0
    BY <1>1, <1>2
<1>4. Total(s) \in Int /\ Total(s) >= 0
    <2> HIDE DEF s
    <2>1. QED
        BY <1>3, TotalTyped, TotalBounds
<1>5. MovementCost(hp, c, k) = Total(s)
    BY DEF MovementCost
<1>6. MovementCost(hp, c, k) \in Nat
    <2> HIDE DEF s
    <2>1. QED
        BY <1>4, <1>5
<1>7. QED
    BY <1>6 DEF c

\* The state below a compaction that is running.
LEMMA TopIs ==
    ASSUME IInv, InFrame({"evacuate", "shift"})
    PROVE  /\ Sound(heap, ptr, scopes, frames) /\ frames # << >> /\ Compacts(Top)
                  /\ Top = frames[Len(frames)]
           /\ Top \in CompactFrame /\ Below = SubSeq(frames, 1, Len(frames) - 1)
           /\ Sound(heap, ptr, scopes, Below) /\ Idle(scopes, Below)
           /\ Constructing(Below) = Constructing(frames)
           /\ Len(frames) \in Nat \ {0}
<1>1. Sound(heap, ptr, scopes, frames) /\ frames # << >> /\ Compacts(Top)
          /\ Top = frames[Len(frames)]
      /\ Below = SubSeq(frames, 1, Len(frames) - 1)
    BY DEF IInv, Sound, InFrame, Compacts, Top, Below
<1>2. frames \in Seq(FrameKind)
    BY DEF IInv, CallsOK, FrameKind
<1>3. Len(frames) \in Nat \ {0}
    BY <1>1, <1>2
<1>4. QED
    BY <1>1, <1>3, CompactionPopped

\* compact(), as it is called.
LEMMA CompactKeeps ==
    ASSUME IInv, NEW policy \in Policies, NEW b \in Budgets, Compact(policy, b)
    PROVE  Sound(heap', ptr', scopes', frames') /\ heap' = heap
<1> DEFINE f == [kind |-> IF policy = "shift" THEN "shift" ELSE "evacuate",
                 policy |-> policy, remaining |-> b, progress |-> FALSE,
                 left |-> IF policy = "shift" THEN ShiftAttempts ELSE EvacuationAttempts]
<1>1. Sound(heap, ptr, scopes, frames) /\ CallsOK(View(heap), ptr, scopes, frames)
    BY DEF IInv, Sound
<1>2. frames \in Seq(FrameKind) /\ NoneCompacts(frames) /\ scopes = << >> /\ DestructionDepth = 0
      /\ frames' = Append(frames, f) /\ heap' = heap /\ ptr' = ptr /\ scopes' = scopes
    BY <1>1, UserCodeRuns DEF CallsOK, FrameKind, Compact
<1>3. f \in CompactFrame
    BY ProgramAssumption DEF CompactFrame
<1>4. \A i \in DOMAIN frames : ~ Dying(frames[i])
    <2> DEFINE S == {i \in DOMAIN frames : frames[i].kind \in {"body", "members"}}
    <2>1. IsFiniteSet(DOMAIN frames)
        <3>1. Len(frames) \in Nat /\ DOMAIN frames = 1 .. Len(frames)
            BY <1>2
        <3>2. QED
            BY <3>1, IntervalCount
    <2>2. S \subseteq DOMAIN frames
        OBVIOUS
    <2>3. IsFiniteSet(S)
        <3> HIDE DEF S
        <3>1. QED
            BY <2>1, <2>2, FS_Subset
    <2>4. Cardinality(S) = 0
        BY <1>2 DEF DestructionDepth
    <2>5. S = {}
        <3> HIDE DEF S
        <3>1. QED
            BY <2>3, <2>4, FS_EmptySet
    <2>6. QED
        BY <2>5 DEF Dying
<1> HIDE DEF f
<1>5. Idle(scopes, frames)
    BY <1>2, <1>4 DEF Idle
<1> DEFINE ft == frames'
<1>6. ft = Append(frames, f)
    BY <1>2
<1> HIDE DEF ft
<1>7. Sound(heap, ptr, scopes, ft)
    BY <1>1, <1>3, <1>5, <1>6, CompactionPushed
<1>8. QED
    BY <1>2, <1>7 DEF ft

\* A compaction goes from one phase to the next, or returns.
LEMMA PhaseKeeps ==
    ASSUME IInv, ShiftsBegin \/ RoundBegins \/ CompactReturns
    PROVE  Sound(heap', ptr', scopes', frames') /\ heap' = heap
<1>1. InFrame({"evacuate", "shift"})
    BY DEF ShiftsBegin, RoundBegins, CompactReturns, PassOver
<1>2. Top \in CompactFrame /\ Sound(heap, ptr, scopes, Below) /\ Idle(scopes, Below)
    BY <1>1, TopIs
<1> DEFINE ft == frames'
<1>3. ASSUME NEW f \in CompactFrame, ft = Append(Below, f)
      PROVE  Sound(heap, ptr, scopes, ft)
    <2> HIDE DEF ft
    <2>1. QED
        BY <1>2, <1>3, CompactionPushed
<1>4. CASE ShiftsBegin
    <2>1. [Top EXCEPT !.kind = "shift", !.left = ShiftAttempts] \in CompactFrame
        BY <1>2, ProgramAssumption DEF CompactFrame
    <2>2. QED
        BY <1>3, <1>4, <2>1 DEF ShiftsBegin
<1>5. CASE RoundBegins
    <2>1. [Top EXCEPT !.kind = "evacuate", !.progress = FALSE, !.left = EvacuationAttempts]
              \in CompactFrame
        BY <1>2, ProgramAssumption DEF CompactFrame
    <2>2. QED
        BY <1>3, <1>5, <2>1 DEF RoundBegins
<1>6. CASE CompactReturns
    BY <1>2, <1>6 DEF CompactReturns
<1>7. QED
    BY <1>4, <1>5, <1>6

\* What a move does, whichever it is.
MovesTo(hq, cost) ==
    /\ cost \in Nat /\ cost <= Top.remaining /\ Moves(hq, cost)
    /\ HeapOK(hq, Constructing(Below)) /\ Moved(View(heap), View(hq)) /\ SameBytes(heap, hq)

\* A move that makes a heap with the same objects keeps the invariant.
LEMMA MovesKeep ==
    ASSUME IInv, InFrame({"evacuate", "shift"}), Top.left > 0,
           NEW hq, NEW cost, MovesTo(hq, cost)
    PROVE  /\ Sound(heap', ptr', scopes', frames') /\ heap' = hq
           /\ scopes = << >> /\ DestructionDepth = 0
<1>1. Top \in CompactFrame /\ Sound(heap, ptr, scopes, Below) /\ Idle(scopes, Below)
          /\ Compacts(Top)
      /\ frames # << >> /\ Top = frames[Len(frames)] /\ Below = SubSeq(frames, 1, Len(frames) - 1)
    BY TopIs
<1> DEFINE f == [Top EXCEPT !.left = @ - 1, !.progress = TRUE, !.remaining = @ - cost]
           ft == frames'
<1>2. heap' = hq /\ ft = Append(Below, f) /\ ptr' = ptr /\ scopes' = scopes
    BY DEF MovesTo, Moves
<1>3. f \in CompactFrame
    <2>1. Top.left - 1 \in Nat /\ Top.remaining - cost \in Nat
        <3> DEFINE a == Top.left
                   b == Top.remaining
        <3>1. a \in Nat /\ b \in Nat /\ a > 0 /\ cost \in Nat /\ cost <= b
            BY <1>1 DEF CompactFrame, MovesTo
        <3> HIDE DEF a, b
        <3>2. a - 1 \in Nat /\ b - cost \in Nat
            BY <3>1
        <3>3. QED
            BY <3>2 DEF a, b
    <2>2. QED
        BY <1>1, <2>1 DEF CompactFrame
<1> HIDE DEF f, ft
<1>4. Sound(hq, ptr, scopes, Below)
    BY <1>1, HeapMoved DEF MovesTo
<1>5. Sound(hq, ptr, scopes, ft)
    BY <1>1, <1>2, <1>3, <1>4, CompactionPushed
<1>6. DestructionDepth = 0
    <2>1. frames \in Seq(FrameKind)
        BY DEF IInv, CallsOK, FrameKind
    <2>2. \A i \in DOMAIN frames : ~ Dying(frames[i])
        <3>1. \A i \in DOMAIN frames : i # Len(frames) => i \in DOMAIN Below
            BY <1>1, <2>1, Pops
        <3>2. \A i \in DOMAIN Below : Below[i] = frames[i]
            BY <1>1, <2>1, Pops
        <3>3. ~ Dying(Top)
            BY <1>1 DEF Compacts, Dying
        <3>4. QED
            BY <1>1, <3>1, <3>2, <3>3 DEF Idle
    <2>3. {i \in DOMAIN frames : frames[i].kind \in {"body", "members"}} = {}
        BY <2>2 DEF Dying
    <2>4. QED
        BY <2>3, FS_EmptySet DEF DestructionDepth
<1>7. QED
    BY <1>1, <1>2, <1>5, <1>6 DEF Idle, ft

\* evacuate_once_: the move it makes.
LEMMA EvacuateOnceMoves ==
    ASSUME IInv, EvacuateOnce
    PROVE  \E i \in EvacuationExtent(heap, Chain(heap), Top.remaining) :
              /\ i \in 0 .. Len(Chain(heap)) - 1
              /\ heap' = Evacuated(heap, Chain(heap), i)
              /\ MovesTo(heap', Size(heap, Chain(heap)[Len(Chain(heap))]))
<1> DEFINE c == Chain(heap)
<1>1. PICK i \in EvacuationExtent(heap, c, Top.remaining) :
         Moves(Evacuated(heap, c, i), Size(heap, c[Len(c)]))
    BY DEF EvacuateOnce
<1>2. /\ i \in 0 .. Len(c) - 1
      /\ Size(heap, c[Len(c)]) <= Top.remaining
      /\ Span(heap, c, i) >= ReservedSize(heap, c[Len(c)])
    BY <1>1 DEF EvacuationExtent
<1>3. InFrame({"evacuate", "shift"})
    BY DEF EvacuateOnce, Attempting, InFrame
<1>4. HeapOK(heap, Constructing(Below))
    BY <1>3, TopIs DEF Sound
<1> DEFINE hq == Evacuated(heap, c, i)
           t == c[Len(c)]
           C == Constructing(Below)
<1>5. hq = Evacuated(heap, c, i) /\ t = c[Len(c)] /\ c = Chain(heap)
    OBVIOUS
<1> HIDE DEF hq, t, c, C
<1>6. HeapOK(hq, C) /\ Moved(View(heap), View(hq)) /\ SameBytes(heap, hq) /\ t \in Handles
    <2>1. Span(heap, c, i) >= ReservedSize(heap, t)
        BY <1>2, <1>5
    <2>2. HeapOK(heap, C)
        BY <1>4 DEF C
    <2>3. QED
        BY <1>2, <1>5, <2>1, <2>2, EvacuatedMoves
<1>7. Size(heap, t) \in Nat
    <2>1. /\ View(heap) \in [Handles -> Slot] /\ HeapRec(heap) /\ Len(c) \in Nat
          /\ IsChain(View(heap), heap.root, c) /\ SlotsSound(View(heap))
        BY <1>4, <1>5, HeapGives
    <2>2. Len(c) \in 1 .. Len(c)
        BY <1>2, <2>1
    <2>3. c[Len(c)] \in Handles /\ View(heap)[c[Len(c)]].state # "free"
              /\ View(heap)[c[Len(c)]].size \in Nat
        BY <2>1, <2>2, ChainParts
    <2>4. QED
        BY <1>5, <2>1, <2>3, Reads
<1>8. Moves(hq, Size(heap, t))
    BY <1>1, <1>5
<1>9. MovesTo(hq, Size(heap, t)) /\ heap' = hq
    <2>1. Size(heap, t) <= Top.remaining
        BY <1>2, <1>5
    <2>2. heap' = hq
        BY <1>8 DEF Moves
    <2>3. QED
        BY <1>6, <1>7, <1>8, <2>1, <2>2 DEF MovesTo, C
<1>10. MovesTo(heap', Size(heap, t))
    BY <1>9
<1>11. QED
    BY <1>1, <1>2, <1>5, <1>9, <1>10

\* shift_once_: the move it makes.
LEMMA ShiftOnceMoves ==
    ASSUME IInv, ShiftOnce
    PROVE  \E i \in ShiftExtent(heap, Chain(heap), Top.remaining) :
              /\ i \in 0 .. Len(Chain(heap)) - 1
              /\ heap' = Shifted(heap, Chain(heap), i)
              /\ MovesTo(heap', MovementCost(heap, Chain(heap), i + 1))
<1> DEFINE c == Chain(heap)
<1>1. PICK i \in ShiftExtent(heap, c, Top.remaining) :
         Moves(Shifted(heap, c, i), MovementCost(heap, c, i + 1))
    BY DEF ShiftOnce
<1>2. /\ i \in 0 .. Len(c) - 1
      /\ MovementCost(heap, c, i + 1) <= Top.remaining
    BY <1>1 DEF ShiftExtent
<1>3. InFrame({"evacuate", "shift"})
    BY DEF ShiftOnce, Attempting, InFrame
<1>4. HeapOK(heap, Constructing(Below))
    BY <1>3, TopIs DEF Sound
<1> DEFINE hq == Shifted(heap, c, i)
           d == Span(heap, c, i)
           C == Constructing(Below)
           m == MovementCost(heap, c, i + 1)
<1>5. hq = Shifted(heap, c, i) /\ d = Span(heap, c, i) /\ c = Chain(heap)
    OBVIOUS
<1>7. m \in Nat
    BY <1>4, CostTyped
<1>8. Moves(hq, m) /\ m <= Top.remaining
    BY <1>1, <1>2
<1> HIDE DEF hq, d, c, C
<1>6. HeapOK(hq, C) /\ Moved(View(heap), View(hq)) /\ SameBytes(heap, hq)
    <2>2. HeapOK(heap, C)
        BY <1>4 DEF C
    <2>3. QED
        BY <1>2, <1>5, <2>2, ShiftedIs
<1> HIDE DEF m
<1>9. MovesTo(hq, m) /\ heap' = hq
    <2>2. heap' = hq
        BY <1>8 DEF Moves
    <2>3. QED
        BY <1>6, <1>7, <1>8, <2>2 DEF MovesTo, C
<1>10. MovesTo(heap', m)
    BY <1>9
<1>11. QED
    BY <1>1, <1>2, <1>5, <1>9, <1>10 DEF m

\* Both keep the invariant, and move objects where no address is held.
LEMMA EvacuateOnceKeeps ==
    ASSUME IInv, EvacuateOnce \/ ShiftOnce
    PROVE  /\ Sound(heap', ptr', scopes', frames')
           /\ Moved(View(heap), View(heap')) /\ SameBytes(heap, heap')
           /\ InFrame({"evacuate", "shift"}) /\ scopes = << >> /\ DestructionDepth = 0
<1>1. \E cost : MovesTo(heap', cost)
    BY EvacuateOnceMoves, ShiftOnceMoves
<1>2. InFrame({"evacuate", "shift"}) /\ Top.left > 0
    BY DEF EvacuateOnce, ShiftOnce, Attempting, InFrame
<1> DEFINE hq == heap'
<1>3. PICK cost : MovesTo(hq, cost)
    BY <1>1
<1>4. Moved(View(heap), View(hq)) /\ SameBytes(heap, hq)
    BY <1>3 DEF MovesTo
<1> HIDE DEF hq
<1>5. Sound(heap', ptr', scopes', frames') /\ heap' = hq /\ scopes = << >> /\ DestructionDepth = 0
    BY <1>2, <1>3, MovesKeep
<1>6. QED
    BY <1>2, <1>4, <1>5

-----------------------------------------------------------------------------
(***************************************************************************)
(* The ends of a constructor and of a destructor.                          *)
(***************************************************************************)
\* What make adds to the counters when the constructor has returned.
LEMMA CountedIs ==
    ASSUME NEW hp, NEW C, HeapOK(hp, C), NEW h \in Handles, View(hp)[h].state # "free", h \in C,
           NEW D, h \notin D, \A g \in Handles : g # h => (g \in C <=> g \in D),
           NEW hq, hq = [hp EXCEPT !.reserved = @ + ReservedSize(hp, h), !.live = @ + 1]
    PROVE  HeapOK(hq, D) /\ View(hq) = View(hp) /\ hq.mem = hp.mem
<1> DEFINE w == View(hp)
           c == Chain(hp)
           a == AlignUp(w[h].size)
           r == hp.reserved
           v == hp.live
<1>1. /\ HeapRec(hp) /\ NoneEmpty(hp.tables) /\ w \in [Handles -> Slot]
      /\ IsChain(w, hp.root, c) /\ LaidOut(w, MetadataTop(hp), c) /\ SlotsSound(w)
      /\ Len(c) \in Nat /\ DOMAIN c = 1 .. Len(c) /\ MetadataTop(hp) \in Nat
    BY HeapGives
<1>2. hp \in Heap /\ r = Total(Weights(w, c, C)) /\ v = Cardinality(InUse(w) \ C)
      /\ TablesSound(hp.tables)
    BY DEF HeapOK
<1>3. ReservedSize(hp, h) = a /\ a \in Nat
    <2>1. ReservedSize(hp, h) = a
        BY <1>1, Reads
    <2>2. w[h] \in Slot
        BY <1>1
    <2> HIDE DEF w
    <2>3. QED
        BY <2>1, <2>2, SlotParts
<1>4. r \in Nat /\ v \in Nat
    BY <1>2 DEF Heap
<1>5. hq = [hp EXCEPT !.reserved = r + a, !.live = v + 1]
    BY <1>3
<1> HIDE DEF a, r, v
<1>6. r + a \in Nat /\ v + 1 \in Nat
    BY <1>3, <1>4
<1>7. hq \in Heap /\ hq.tables = hp.tables /\ hq.root = hp.root /\ hq.mem = hp.mem
      /\ hq.reserved = r + a /\ hq.live = v + 1
    BY <1>2, <1>5, <1>6 DEF Heap
<1>8. HeapRec(hq) /\ View(hq) = w /\ MetadataTop(hq) = MetadataTop(hp)
    BY <1>2, <1>7, ViewOf DEF HeapRec
<1> HIDE DEF w, c
<1>9. PICK i \in 1 .. Len(c) : c[i] = h
    BY <1>1 DEF IsChain, w
<1>10. \A j \in 1 .. Len(c) : j # i => c[j] # h /\ c[j] \in Handles
    BY <1>1, <1>9 DEF IsChain
<1>11. hq.reserved = Total(Weights(w, c, D))
    <2> DEFINE s == Weights(w, c, C)
               t == Weights(w, c, D)
    <2>1. /\ s \in Seq(Int) /\ Len(s) = Len(c)
          /\ \A k \in 1 .. Len(c) : s[k] = IF c[k] \in C THEN 0 ELSE AlignUp(w[c[k]].size)
        BY <1>1, WeightsTyped
    <2>2. /\ t \in Seq(Int) /\ Len(t) = Len(c)
          /\ \A k \in 1 .. Len(c) : t[k] = IF c[k] \in D THEN 0 ELSE AlignUp(w[c[k]].size)
        BY <1>1, WeightsTyped
    <2>3. s[i] = 0 /\ \A k \in 1 .. Len(s) : t[k] = IF k = i THEN a ELSE s[k]
        BY <1>9, <1>10, <2>1, <2>2 DEF a
    <2> HIDE DEF s, t
    <2>4. Total(t) = (Total(s) - s[i]) + a
        BY <1>3, <1>9, <2>1, <2>2, <2>3, TotalChanged
    <2>5. Total(s) \in Int
        BY <2>1, TotalTyped
    <2>6. Total(t) = Total(s) + a
        BY <1>3, <2>3, <2>4, <2>5
    <2>7. QED
        BY <1>2, <1>7, <2>6 DEF s, t
<1>12. hq.live = Cardinality(InUse(w) \ D)
    <2> DEFINE S == InUse(w) \ C
    <2>1. IsFiniteSet(InUse(w))
        BY <1>1, ChainLength
    <2>2. IsFiniteSet(S)
        <3>1. S \subseteq InUse(w)
            OBVIOUS
        <3> HIDE DEF S
        <3>2. QED
            BY <2>1, <3>1, FS_Subset
    <2>3. InUse(w) \ D = S \cup {h} /\ h \notin S
        BY DEF InUse, w
    <2> HIDE DEF S
    <2>4. Cardinality(S \cup {h}) = Cardinality(S) + 1
        BY <2>2, <2>3, FS_AddElement
    <2>5. QED
        BY <1>2, <1>7, <2>3, <2>4 DEF S
<1>13. HeapOK(hq, D)
    <2>1. NoneEmpty(hq.tables) /\ IsChain(View(hq), hq.root, c)
              /\ LaidOut(View(hq), MetadataTop(hq), c)
          /\ SlotsSound(View(hq)) /\ hq.reserved = Total(Weights(View(hq), c, D))
          /\ hq.live = Cardinality(InUse(View(hq)) \ D)
        BY <1>1, <1>7, <1>8, <1>11, <1>12
    <2>2. QED
        BY <1>8, <2>1, HeapFrom
<1>14. QED
    BY <1>7, <1>8, <1>13 DEF w

\* The last call of the stack.
Last(fs, f, ft) == /\ fs \in Seq(FrameKind) /\ fs # << >> /\ f = fs[Len(fs)]
                   /\ ft = SubSeq(fs, 1, Len(fs) - 1)

\* A constructor returns: the object is counted, and its reference goes to the
\* place make was called for.
LEMMA ConstructorReturnsKeeps ==
    ASSUME IInv, ConstructorReturns
    PROVE  /\ Sound(heap', ptr', scopes', frames')
           /\ View(heap') = View(heap) /\ heap'.mem = heap.mem
<1> DEFINE f == Top
           h == Top.h
           to == Top.to
           ft == Below
           C == Constructing(frames)
           D == Constructing(ft)
           w == View(heap)
           p == [ptr EXCEPT ![to] = h]
<1>1. HeapOK(heap, C) /\ CallsOK(w, ptr, scopes, frames) /\ OwnersOK(w, ptr, scopes, frames)
    BY DEF IInv
<1>2. /\ ptr \in [Places -> Held] /\ scopes \in Seq(Scope) /\ frames \in Seq(FrameKind)
      /\ frames # << >> /\ f = frames[Len(frames)] /\ f.kind = "constructor"
      /\ ft = SubSeq(frames, 1, Len(frames) - 1)
      /\ frames' = ft /\ ptr' = p /\ scopes' = scopes
      /\ heap' = [heap EXCEPT !.reserved = @ + ReservedSize(heap, h), !.live = @ + 1]
    BY <1>1 DEF CallsOK, Held, FrameKind, ConstructorReturns, InFrame, Top, Below
<1>3. /\ ft \in Seq(FrameKind) /\ Len(frames) \in DOMAIN frames /\ f \in FrameKind
      /\ \A i \in DOMAIN ft : i \in DOMAIN frames /\ ft[i] = frames[i] /\ i # Len(frames)
    BY <1>2, Pops
<1>4. h \in Handles /\ to \in Ptrs /\ Pending(f) = to /\ OwnedBy(f) = h
    BY <1>2, <1>3, FrameFacts
<1>5. to \in Places /\ to # Null /\ h \in Held /\ h # Null
    BY <1>4, NullIsNone, PlacesAreSome DEF Places, Held, PlaceIsSome
<1>6. w[h].state = "live"
    <2>1. OwnedBy(frames[Len(frames)]) = h
        BY <1>2, <1>4
    <2>2. QED
        BY <1>1, <1>3, <1>5, <2>1, OwnedLives
<1>7. h \in C /\ h \notin D /\ \A g \in Handles : g # h => (g \in C <=> g \in D)
    <2>1. Shrinks(FrameKind, frames, f, ft)
        BY <1>2 DEF Shrinks
    <2>2. f.h \in Constructing(frames) /\ Constructing(ft) \subseteq Constructing(frames)
          /\ Constructing(frames) \subseteq Constructing(ft) \cup {f.h}
        BY <1>2, <2>1, ConstructingPopped
    <2>3. h \notin D
        <3>1. \A i, j \in DOMAIN frames : frames[i].kind = "constructor"
                  /\ frames[j].kind = "constructor"
                                            /\ frames[i].h = frames[j].h => i = j
            BY <1>1 DEF CallsOK
        <3>2. QED
            BY <1>2, <1>3, <3>1 DEF Constructing
    <2>4. QED
        BY <2>2, <2>3
<1> DEFINE hq == heap'
<1>8. hq = [heap EXCEPT !.reserved = @ + ReservedSize(heap, h), !.live = @ + 1]
    BY <1>2
<1> HIDE DEF hq, C, D, h, to, ft, f, p
<1>9. HeapOK(hq, D) /\ View(hq) = View(heap) /\ hq.mem = heap.mem
    BY <1>1, <1>4, <1>6, <1>7, <1>8, CountedIs, ZenonT(60)
<1>10. p \in [Places -> Held]
    BY <1>2, <1>5 DEF p
<1>11. CallsOK(w, p, scopes, ft) /\ NoneCompacts(ft)
    <2>1. \A i \in DOMAIN ft : Dying(ft[i]) => w[ft[i].h].state = "destroying"
        BY <1>1, <1>3 DEF CallsOK
    <2>2. Popping(w, scopes, frames, w, p, ft)
        BY <1>2, <1>10, <2>1 DEF Popping
    <2> HIDE DEF w
    <2>3. QED
        BY <1>1, <2>2, CallsPopped
<1>12. \A g \in Handles : PtrOwners(p, g) = (PtrOwners(ptr, g) - Ind(ptr[to], g)) + Ind(h, g)
    <2>1. Puts(ptr, to, h, p)
        BY <1>2, <1>5 DEF Puts, p
    <2>2. QED
        BY <2>1, PtrOwnersSet
<1>13. ~ DestructorsReassign => ptr[to] = Null
    <2>1. Pending(frames[Len(frames)]) = to
        BY <1>2, <1>4
    <2>2. QED
        BY <1>1, <1>3, <1>5, <2>1 DEF OwnersOK
<1>14. ASSUME NEW g \in Handles
       PROVE  /\ OwnersOf(g, p, scopes, ft) <= w[g].refs
              /\ ~ DestructorsReassign => OwnersOf(g, p, scopes, ft) = w[g].refs
    <2> DEFINE o == OwnersOf(g, ptr, scopes, frames)
               o2 == OwnersOf(g, p, scopes, ft)
               o1 == OwnersOf(g, ptr, scopes, ft)
               k == Ind(h, g)
               j == Ind(ptr[to], g)
               r == w[g].refs
               a == PtrOwners(ptr, g)
               a2 == PtrOwners(p, g)
               b == ScopeOwners(scopes, g)
               c == FrameOwners(ft, g)
    <2>1. o = o1 + k
        <3>1. Shrinks(FrameKind, frames, f, ft)
            BY <1>2 DEF Shrinks
        <3>2. QED
            BY <1>2, <1>4, <3>1, OwnersFramePopped
    <2>2. o1 = (a + b) + c /\ o2 = (a2 + b) + c
        BY OwnersAre
    <2>3. a \in Nat /\ a2 \in Nat /\ b \in Nat /\ c \in Nat /\ k \in {0, 1} /\ j \in {0, 1}
              /\ r \in Nat
        <3>1. k \in {0, 1} /\ j \in {0, 1}
            BY DEF Ind
        <3>2. r \in Nat
            BY <1>1, LiveIs
        <3>3. QED
            BY <1>2, <1>3, <3>1, <3>2, OwnersCounted
    <2>4. a2 = (a - j) + k /\ o <= r /\ (~ DestructorsReassign => o = r)
        BY <1>1, <1>12 DEF OwnersOK
    <2>5. ~ DestructorsReassign => j = 0
        BY <1>13, NullIsNone DEF Ind
    <2> HIDE DEF o, o1, o2, k, j, r, a, a2, b, c
    <2>6. o2 <= r /\ (o = r /\ j = 0 => o2 = r)
        BY <2>1, <2>2, <2>3, <2>4
    <2>7. QED
        BY <2>4, <2>5, <2>6 DEF o2, r
<1>15. ~ DestructorsReassign =>
          /\ \A i \in DOMAIN ft : Pending(ft[i]) # Null => p[Pending(ft[i])] = Null
          /\ \A i, j \in DOMAIN ft : Pending(ft[i]) = Pending(ft[j])
                 /\ Pending(ft[i]) # Null => i = j
    <2>1. ~ DestructorsReassign =>
          /\ \A i \in DOMAIN frames : Pending(frames[i]) # Null => ptr[Pending(frames[i])] = Null
          /\ \A i, j \in DOMAIN frames : Pending(frames[i]) = Pending(frames[j])
                 /\ Pending(frames[i]) # Null => i = j
        BY <1>1 DEF OwnersOK
    <2>2. ~ DestructorsReassign => \A i \in DOMAIN ft : Pending(ft[i]) # to
        <3>1. Pending(frames[Len(frames)]) = to
            BY <1>2, <1>4
        <3>2. QED
            BY <1>3, <1>5, <2>1, <3>1
    <2>3. \A l \in Places : l # to => p[l] = ptr[l]
        BY <1>2 DEF p
    <2>4. \A i \in DOMAIN ft : Pending(ft[i]) # Null => Pending(ft[i]) \in Places
        <3>1. \A i \in DOMAIN ft : ft[i] \in FrameKind
            BY <1>3
        <3>2. \A x \in FrameKind : Pending(x) # Null => Pending(x) \in Places
            <4>1. \A x \in FrameKind : Dying(x) => x.rest.to \in Places \cup {Null}
                BY FrameFacts DEF Rest
            <4>2. QED
                BY <4>1, FrameFacts DEF Places
        <3>3. QED
            BY <3>1, <3>2
    <2>5. QED
        BY <1>3, <2>1, <2>2, <2>3, <2>4
<1>16. OwnersOK(w, p, scopes, ft)
    BY <1>14, <1>15 DEF OwnersOK
<1>17. QED
    BY <1>2, <1>9, <1>11, <1>16 DEF Sound, hq, D

\* The object h is gone and its slot is free; the others stay as they are.
Goes(hp, hq, h) ==
    /\ h \in Handles /\ View(hp)[h].state = "destroying" /\ View(hq)[h] = FreeSlot
    /\ \A g \in Handles : g # h =>
          /\ View(hq)[g].state = View(hp)[g].state /\ View(hq)[g].offset = View(hp)[g].offset
          /\ View(hq)[g].size = View(hp)[g].size /\ View(hq)[g].refs = View(hp)[g].refs
    /\ hq.mem = Filled(hp.mem, View(hp)[h].offset, View(hp)[h].size, Junk)

\* The end of release_, when the destructor is done.
LEMMA GoesIs ==
    ASSUME NEW hp, NEW C, HeapOK(hp, C), NEW h \in Handles,
               View(hp)[h].state = "destroying", h \notin C,
           NEW unlinked, unlinked = Unlinked(hp, h, SlotOf(hp, h).next),
           NEW hq, hq = [SlotReleased(unlinked, h) EXCEPT
                    !.reserved = @ - ReservedSize(hp, h),
                    !.live = @ - 1,
                    !.mem = Filled(@, Base(hp, h), Size(hp, h), Junk)]
    PROVE  HeapOK(hq, C) /\ Goes(hp, hq, h)
<1> DEFINE rel == SlotReleased(unlinked, h)
           m == Filled(rel.mem, Base(hp, h), Size(hp, h), Junk)
           w == View(hp)
           w2 == View(hq)
<1>1. HeapRec(hp) /\ w \in [Handles -> Slot] /\ NoneEmpty(hp.tables)
      /\ IsChain(w, hp.root, Chain(hp)) /\ DOMAIN Chain(hp) = 1 .. Len(Chain(hp))
    BY HeapGives
<1>2. Base(hp, h) = w[h].offset /\ Size(hp, h) = w[h].size /\ SlotOf(hp, h) = w[h]
    BY LiveIs
<1>3. rel.mem = hp.mem
    <2> DEFINE c == Chain(hp)
    <2>1. PICK k \in 1 .. Len(c) : c[k] = h
        BY <1>1 DEF IsChain
    <2> DEFINE x == IF k = 1 THEN Null ELSE c[k - 1]
               y == w[h].next
    <2>2. unlinked = Unlinked(hp, h, y) /\ c = Chain(hp)
        BY <1>2
    <2> HIDE DEF c
    <2>3. x = IF k = 1 THEN Null ELSE c[k - 1]
        OBVIOUS
    <2> HIDE DEF x
    <2>3a. y = View(hp)[h].next
        OBVIOUS
    <2> HIDE DEF y
    <2>4. Only(hp, unlinked) /\ View(unlinked)[h] = View(hp)[h]
        BY <2>1, <2>2, <2>3, <2>3a, UnlinkedIs
    <2>5. HeapRec(unlinked) /\ NoneEmpty(unlinked.tables) /\ unlinked.mem = hp.mem
        BY <1>1, <2>4 DEF Only
    <2>6. Present(unlinked.tables, h)
        <3>1. View(unlinked)[h].state # "free"
            BY <2>4
        <3>2. QED
            BY <2>5, <3>1, ViewIs DEF HeapRec
    <2>7. QED
        BY <2>5, <2>6, ReleasedSlotIs
<1>4. m \in [Bytes -> Values \cup {Junk}]
    BY <1>1, <1>3, FilledTyped DEF HeapRec, Heap
<1>5. hq = [rel EXCEPT !.reserved = @ - ReservedSize(hp, h), !.live = @ - 1, !.mem = m]
    OBVIOUS
<1>5a. rel = SlotReleased(Unlinked(hp, h, SlotOf(hp, h).next), h)
    OBVIOUS
<1> HIDE DEF rel, m, w, w2
<1>6. /\ HeapOK(hq, C) /\ hq.mem = m
      /\ \E x : Links(View(hp), View(hq), h, FreeSlot, x, View(hp)[h].next)
    <2>1. Removing(hp, h, m, rel, hq)
        BY <1>4, <1>5, <1>5a DEF Removing
    <2>2. HeapOK(hp, C) /\ h \notin C
        OBVIOUS
    <2>3. QED
        BY ONLY <2>1, <2>2, RemovedIs
<1>7. PICK x : Links(w, w2, h, FreeSlot, x, w[h].next)
    BY <1>6 DEF w, w2
<1>8. w2[h] = FreeSlot
    BY <1>7 DEF Links
<1>9. \A g \in Handles : g # h => /\ w2[g].state = w[g].state /\ w2[g].refs = w[g].refs
                                  /\ w2[g].offset = w[g].offset /\ w2[g].size = w[g].size
    BY <1>1, <1>7, LinksKeep
<1>10. m = Filled(hp.mem, w[h].offset, w[h].size, Junk)
    BY <1>2, <1>3 DEF m
<1>11. QED
    BY <1>6, <1>8, <1>9, <1>10 DEF Goes, w, w2

\* It keeps the invariant: no call, no place and no scope names the object.
LEMMA ReleaseEndsKeeps ==
    ASSUME IInv, ReleaseEnds
    PROVE  /\ Sound(heap', ptr', scopes', frames')
           /\ frames # << >> /\ Top \in ReleaseFrame /\ Goes(heap, heap', Top.h)
<1> DEFINE f == Top
           h == Top.h
           rest == Top.rest
           ft == Below
           C == Constructing(frames)
           w == View(heap)
           w2 == View(heap')
           q == Finished(ptr, rest)
           unlinked == Unlinked(heap, h, SlotOf(heap, h).next)
<1>1. HeapOK(heap, C) /\ CallsOK(w, ptr, scopes, frames) /\ OwnersOK(w, ptr, scopes, frames)
    BY DEF IInv
<1>2. /\ ptr \in [Places -> Held] /\ scopes \in Seq(Scope) /\ frames \in Seq(FrameKind)
      /\ frames # << >> /\ f = frames[Len(frames)] /\ f.kind = "members"
      /\ ft = SubSeq(frames, 1, Len(frames) - 1)
      /\ frames' = ft /\ ptr' = q /\ scopes' = scopes
      /\ heap' = [SlotReleased(unlinked, h) EXCEPT
                    !.reserved = @ - ReservedSize(heap, h),
                    !.live = @ - 1,
                    !.mem = Filled(@, Base(heap, h), Size(heap, h), Junk)]
    BY <1>1 DEF CallsOK, Held, FrameKind, ReleaseEnds, InFrame, Top, Below
<1>3. /\ ft \in Seq(FrameKind) /\ Len(frames) \in DOMAIN frames /\ f \in FrameKind
      /\ \A i \in DOMAIN ft : i \in DOMAIN frames /\ ft[i] = frames[i] /\ i # Len(frames)
    BY <1>2, Pops
<1>4. /\ Dying(f) /\ f \in ReleaseFrame /\ h \in Handles /\ rest \in Rest /\ Pending(f) = rest.to
      /\ OwnedBy(f) = rest.incoming /\ f.kind # "constructor"
    BY <1>2, <1>3, FrameFacts DEF Dying
<1>5. w[h].state = "destroying" /\ RestOK(rest)
    <2>1. Dying(frames[Len(frames)])
        BY <1>2, <1>4
    <2>2. QED
        BY <1>1, <1>2, <1>3, <2>1 DEF CallsOK
<1>6. h \notin C
    <2>1. \A i \in DOMAIN frames : frames[i].kind = "constructor" => w[frames[i].h].state = "live"
        <3>1. \A i \in DOMAIN frames : frames[i] \in FrameKind
            BY <1>2
        <3>2. \A i \in DOMAIN frames : frames[i].kind = "constructor"
                  => OwnedBy(frames[i]) = frames[i].h /\ frames[i].h \in Handles
            BY <3>1, FrameFacts
        <3>3. QED
            BY <1>1, <3>2, NullIsNone, OwnedLives
    <2>2. QED
        BY <1>5, <2>1 DEF Constructing
<1> DEFINE hq == heap'
<1>7. hq = [SlotReleased(unlinked, h) EXCEPT
                    !.reserved = @ - ReservedSize(heap, h),
                    !.live = @ - 1,
                    !.mem = Filled(@, Base(heap, h), Size(heap, h), Junk)]
    BY <1>2
<1>7a. unlinked = Unlinked(heap, h, SlotOf(heap, h).next)
    OBVIOUS
<1> HIDE DEF hq, C, h, rest, ft, f, q, unlinked
<1>8. HeapOK(hq, C) /\ Goes(heap, hq, h)
    BY <1>1, <1>4, <1>5, <1>6, <1>7, <1>7a, GoesIs
<1>9. /\ w2[h] = FreeSlot /\ FreeSlot.refs = 0 /\ w[h].refs = 0
      /\ \A g \in Handles : g # h =>
          /\ w2[g].state = w[g].state /\ w2[g].offset = w[g].offset /\ w2[g].refs = w[g].refs
    BY <1>1, <1>4, <1>5, <1>8, FreeSlotTyped, LiveIs DEF Goes, hq
<1>10. \A g \in Handles : w2[g].refs = w[g].refs
    BY <1>9
<1>11. /\ q \in [Places -> Held]
       /\ \A g \in Handles : PtrOwners(q, g) <= PtrOwners(ptr, g) + Ind(rest.incoming, g)
       /\ (rest.to # Null => ptr[rest.to] = Null) =>
             \A g \in Handles : PtrOwners(q, g) = PtrOwners(ptr, g) + Ind(rest.incoming, g)
       /\ \A l \in Places : ptr[l] = Null /\ l # rest.to => q[l] = Null
    BY <1>2, <1>4, <1>5, FinishedIs DEF q
<1> HIDE DEF w, w2
<1>12. CallsOK(w2, q, scopes, ft) /\ NoneCompacts(ft)
    <2>1. \A i \in DOMAIN ft : Dying(ft[i]) => w2[ft[i].h].state = "destroying"
        <3> SUFFICES ASSUME NEW i \in DOMAIN ft, Dying(ft[i]) PROVE w2[ft[i].h].state = "destroying"
            OBVIOUS
        <3>1. i \in DOMAIN frames /\ ft[i] = frames[i] /\ i # Len(frames)
                  /\ Dying(frames[i]) /\ frames[i] \in FrameKind
            BY <1>2, <1>3
        <3>2. w[frames[i].h].state = "destroying" /\ frames[i].h \in Handles
            BY <1>1, <3>1, FrameFacts DEF CallsOK
        <3>3. Dying(frames[Len(frames)]) /\ frames[Len(frames)].h = h
            BY <1>2, <1>4 DEF f, h
        <3>4. frames[i].h # h
            BY <1>1, <1>3, <3>1, <3>3 DEF CallsOK
        <3>5. QED
            BY <1>9, <3>1, <3>2, <3>4
    <2>2. \A i \in DOMAIN scopes : w2[scopes[i].h].offset = w[scopes[i].h].offset
        <3>1. \A i \in DOMAIN scopes : scopes[i].h \in Handles /\ w[scopes[i].h].state = "live"
            BY <1>1, OwnedLives DEF w
        <3>2. QED
            BY <1>5, <1>9, <3>1
    <2>3. Popping(w, scopes, frames, w2, q, ft)
        BY <1>2, <1>11, <2>1, <2>2 DEF Popping
    <2>4. QED
        BY <1>1, <2>3, CallsPopped
<1>13. ~ DestructorsReassign =>
          /\ \A i \in DOMAIN frames : Pending(frames[i]) # Null => ptr[Pending(frames[i])] = Null
          /\ \A i, j \in DOMAIN frames : Pending(frames[i]) = Pending(frames[j])
                 /\ Pending(frames[i]) # Null => i = j
    BY <1>1 DEF OwnersOK
<1>14. Pending(frames[Len(frames)]) = rest.to
    BY <1>2, <1>4
<1>15. ~ DestructorsReassign => (rest.to # Null => ptr[rest.to] = Null)
    BY <1>3, <1>13, <1>14
<1>16. ASSUME NEW g \in Handles
       PROVE  /\ OwnersOf(g, q, scopes, ft) <= w2[g].refs
              /\ ~ DestructorsReassign => OwnersOf(g, q, scopes, ft) = w2[g].refs
    <2> DEFINE o == OwnersOf(g, ptr, scopes, frames)
               o2 == OwnersOf(g, q, scopes, ft)
               o1 == OwnersOf(g, ptr, scopes, ft)
               k == Ind(rest.incoming, g)
               r == w[g].refs
               a == PtrOwners(ptr, g)
               a2 == PtrOwners(q, g)
               b == ScopeOwners(scopes, g)
               c == FrameOwners(ft, g)
    <2>1. o = o1 + k
        <3>1. Shrinks(FrameKind, frames, f, ft)
            BY <1>2 DEF Shrinks
        <3>2. QED
            BY <1>2, <1>4, <3>1, OwnersFramePopped
    <2>2. o1 = (a + b) + c /\ o2 = (a2 + b) + c
        BY OwnersAre
    <2>3. a \in Nat /\ a2 \in Nat /\ b \in Nat /\ c \in Nat /\ k \in {0, 1} /\ r \in Nat
        <3>1. k \in {0, 1}
            BY DEF Ind
        <3>2. r \in Nat
            BY <1>1, LiveIs DEF w
        <3>3. QED
            BY <1>2, <1>3, <3>1, <3>2, OwnersCounted
    <2>4. /\ a2 <= a + k /\ o <= r /\ w2[g].refs = r
          /\ ~ DestructorsReassign => o = r /\ a2 = a + k
        BY <1>1, <1>10, <1>11, <1>15 DEF OwnersOK
    <2> HIDE DEF o, o1, o2, k, r, a, a2, b, c
    <2>5. o2 <= r /\ (o = r /\ a2 = a + k => o2 = r)
        BY <2>1, <2>2, <2>3, <2>4
    <2>6. QED
        BY <2>4, <2>5 DEF o2
<1>17. ~ DestructorsReassign =>
          /\ \A i \in DOMAIN ft : Pending(ft[i]) # Null => q[Pending(ft[i])] = Null
          /\ \A i, j \in DOMAIN ft : Pending(ft[i]) = Pending(ft[j])
                 /\ Pending(ft[i]) # Null => i = j
    <2>1. \A i \in DOMAIN ft : Pending(ft[i]) # Null => Pending(ft[i]) \in Places
        <3>1. \A i \in DOMAIN ft : ft[i] \in FrameKind
            BY <1>3
        <3>2. \A x \in FrameKind : Pending(x) # Null => Pending(x) \in Places
            <4>1. \A x \in FrameKind : Dying(x) => x.rest.to \in Places \cup {Null}
                BY FrameFacts DEF Rest
            <4>2. QED
                BY <4>1, FrameFacts DEF Places
        <3>3. QED
            BY <3>1, <3>2
    <2>2. ~ DestructorsReassign => \A i \in DOMAIN ft : Pending(ft[i]) # Null
              => Pending(ft[i]) # rest.to
        BY <1>3, <1>13, <1>14
    <2>3. QED
        BY <1>3, <1>11, <1>13, <2>1, <2>2
<1>18. OwnersOK(w2, q, scopes, ft)
    BY <1>16, <1>17 DEF OwnersOK
<1>19. C = Constructing(ft)
    <2>1. Shrinks(FrameKind, frames, f, ft)
        BY <1>2 DEF Shrinks
    <2>2. QED
        BY <1>4, <2>1, ConstructingPopped DEF C
<1>20. Sound(heap', ptr', scopes', frames')
    BY <1>2, <1>8, <1>12, <1>18, <1>19 DEF Sound, hq, w2
<1>21. QED
    BY <1>2, <1>4, <1>8, <1>20 DEF h, f, hq

-----------------------------------------------------------------------------
(***************************************************************************)
(* make.                                                                   *)
(***************************************************************************)
\* The extents a make chooses among, in the heap that has the room.
LEMMA RoomSpans ==
    ASSUME NEW hp, NEW C, HeapOK(hp, C), NEW r, NEW h, Taken(hp, r, h)
    PROVE  \A i \in 0 .. Len(Chain(hp)) : Span(r, Chain(hp), i) \in Nat
<1> DEFINE w == View(hp)
           c == Chain(hp)
           top == MetadataTop(r)
<1>1. /\ w \in [Handles -> Slot] /\ IsChain(w, hp.root, c) /\ SlotsSound(w)
    BY HeapGives
<1>2. LaidOut(w, top, c) /\ top \in Nat /\ top <= Capacity /\ top % HeapAlignment = 0
    BY RoomLaidOut
<1>3. HeapRec(r) /\ View(r) = w /\ r.root = hp.root
    BY DEF Taken
<1> SUFFICES ASSUME NEW i \in 0 .. Len(c) PROVE Span(r, c, i) \in Nat
    OBVIOUS
<1> HIDE DEF w, c, top
<1>4. Above(w, c, i) \in Nat /\ Under(w, top, c, i) \in Nat /\ Under(w, top, c, i) <= Above(w, c, i)
    BY <1>1, <1>2, Extents
<1>5. Span(r, c, i) = Above(w, c, i) - Under(w, top, c, i)
    <2>1. IsChain(View(r), r.root, c) /\ SlotsSound(View(r))
        BY <1>1, <1>3
    <2>2. QED
        BY <1>3, <2>1, SpanReads DEF top
<1>6. QED
    BY <1>4, <1>5

\* What make computes before it writes anything.
Chosen(hp, n, r, h, i, off) ==
    /\ r = WithRoom(hp) /\ h = LowestFreeSlot(r)
    /\ i = BestFit(r, Chain(hp), AlignUp(n))
    /\ off = PlacementOffset(r, Chain(hp), i, AlignUp(n))

\* It is a slot and an extent that fit.
LEMMA ChosenIs ==
    ASSUME NEW hp, NEW C, HeapOK(hp, C), CanReserveSlot(hp), NEW n \in 1 .. Capacity,
           Fits(WithRoom(hp), Chain(hp), AlignUp(n)) # {},
           NEW r, NEW h, NEW i, NEW off, Chosen(hp, n, r, h, i, off)
    PROVE  Taken(hp, r, h) /\ i \in Fits(r, Chain(hp), AlignUp(n))
<1>1. HeapRec(hp) /\ NoneEmpty(hp.tables) /\ Len(Chain(hp)) \in Nat
    BY HeapGives
<1>2. Taken(hp, r, h)
    BY <1>1, RoomIs DEF Chosen
<1>3. \A j \in 0 .. Len(Chain(hp)) : Span(r, Chain(hp), j) \in Nat
    BY <1>2, RoomSpans
<1> DEFINE c == Chain(hp)
           a == AlignUp(n)
<1>4. Fits(r, c, a) # {} /\ Len(c) \in Nat /\ i = BestFit(r, c, a)
          /\ \A j \in 0 .. Len(c) : Span(r, c, j) \in Nat
    BY <1>1, <1>3 DEF Chosen
<1> HIDE DEF c, a
<1>5. i \in Fits(r, c, a)
    BY <1>4, BestFitIs
<1>6. QED
    BY <1>2, <1>5 DEF c, a

\* Descriptors are no part of the bytes.
LEMMA SplicedMem ==
    ASSUME NEW r, r \in Heap, NEW h, NEW slot, NEW c, NEW i
    PROVE  Spliced(WithSlot(r, h, slot), c, i, h).mem = r.mem
<1> DEFINE a == WithSlot(r, h, slot)
           y == IF i = Len(c) THEN Null ELSE c[i + 1]
           b == WithNext(a, h, y)
<1>1. DOMAIN a = {"tables", "root", "reserved", "live", "mem"} /\ a.mem = r.mem
    BY DEF WithSlot, Heap
<1>2. Spliced(a, c, i, h) = IF i = 0 THEN [b EXCEPT !.root = h] ELSE WithNext(b, c[i], h)
    BY DEF Spliced
<1>3. DOMAIN b = {"tables", "root", "reserved", "live", "mem"} /\ b.mem = a.mem
    <2> HIDE DEF a, y
    <2>1. QED
        BY <1>1 DEF WithNext
<1> HIDE DEF b
<1>4. [b EXCEPT !.root = h].mem = b.mem
    BY <1>3
<1>5. WithNext(b, c[i], h).mem = b.mem
    BY <1>3 DEF WithNext
<1>6. QED
    BY <1>1, <1>2, <1>3, <1>4, <1>5

\* No two objects meet.
Apartness(hp) == \A g, h \in Handles :
    View(hp)[g].state # "free" /\ View(hp)[h].state # "free" /\ g # h =>
        \/ Past(View(hp)[g]) <= View(hp)[h].offset
        \/ Past(View(hp)[h]) <= View(hp)[g].offset

\* No two objects of a heap meet, and none meets the metadata.
LEMMA ObjectsApart ==
    ASSUME NEW hp, NEW C, HeapOK(hp, C)
    PROVE  /\ Apartness(hp)
           /\ \A g \in Handles : View(hp)[g].state # "free" =>
                 /\ View(hp)[g].offset \in Nat /\ View(hp)[g].size \in Nat
                 /\ MetadataTop(hp) <= View(hp)[g].offset
                 /\ View(hp)[g].offset + View(hp)[g].size <= Past(View(hp)[g])
                 /\ View(hp)[g].offset + View(hp)[g].size <= Capacity
                 /\ Past(View(hp)[g]) \in Nat /\ View(hp)[g].size >= 1
<1> DEFINE w == View(hp)
           c == Chain(hp)
           top == MetadataTop(hp)
<1>1. /\ w \in [Handles -> Slot] /\ IsChain(w, hp.root, c) /\ SlotsSound(w) /\ LaidOut(w, top, c)
      /\ top \in Nat /\ Len(c) \in Nat /\ DOMAIN c = 1 .. Len(c) /\ top <= Capacity
             /\ top % HeapAlignment = 0
    BY HeapGives
<1> HIDE DEF w, c, top
<1>2. Apartness(hp)
    <2> SUFFICES ASSUME NEW g \in Handles, NEW h \in Handles, w[g].state # "free",
            w[h].state # "free", g # h
                 PROVE  Past(w[g]) <= w[h].offset \/ Past(w[h]) <= w[g].offset
        BY DEF Apartness, w
    <2>1. PICK i \in 1 .. Len(c) : c[i] = g
        BY <1>1 DEF IsChain
    <2>2. PICK j \in 1 .. Len(c) : c[j] = h
        BY <1>1 DEF IsChain
    <2>3. i < j \/ j < i
        BY <1>1, <2>1, <2>2
    <2>4. i < j => Past(w[c[j]]) <= w[c[i]].offset
        BY <1>1, Apart
    <2>5. j < i => Past(w[c[i]]) <= w[c[j]].offset
        BY <1>1, Apart
    <2>6. QED
        BY <2>1, <2>2, <2>3, <2>4, <2>5
<1>3. ASSUME NEW g \in Handles, w[g].state # "free"
      PROVE  /\ w[g].offset \in Nat /\ w[g].size \in Nat /\ top <= w[g].offset
             /\ w[g].offset + w[g].size <= Past(w[g])
             /\ w[g].offset + w[g].size <= Capacity /\ Past(w[g]) \in Nat /\ w[g].size >= 1
    <2>1. PICK i \in 1 .. Len(c) : c[i] = g
        BY <1>1, <1>3 DEF IsChain
    <2> DEFINE o == w[g].offset
               s == w[g].size
               a == AlignUp(w[g].size)
               t == Past(w[g])
    <2>2. o \in Nat /\ s \in Nat /\ a \in Nat /\ t = o + a /\ s <= a /\ top <= o /\ s >= 1
        <3>1. w[g] \in Slot
            BY <1>1
        <3>2. o \in Int /\ 0 <= o /\ s \in Nat /\ a \in Nat /\ s <= a /\ t = o + a
            BY <3>1, SlotParts
        <3>3. top <= o
            BY <1>1, <2>1 DEF LaidOut
        <3>4. s >= 1
            BY <1>1, <1>3 DEF SlotsSound
        <3>5. QED
            BY <3>2, <3>3, <3>4
    <2>3. t <= Capacity /\ Capacity \in Nat
        <3> DEFINE k == i - 1
        <3>1. k \in 0 .. Len(c) /\ k # Len(c) /\ k + 1 = i
            BY <1>1
        <3> HIDE DEF k
        <3>2. Under(w, top, c, k) <= Above(w, c, k) /\ Above(w, c, k) <= Capacity
              /\ Under(w, top, c, k) \in Nat /\ Above(w, c, k) \in Nat
            BY <1>1, <3>1, Extents
        <3>3. Under(w, top, c, k) = t
            BY <2>1, <3>1 DEF Under
        <3>4. Capacity \in Nat
            BY SizeFacts
        <3> HIDE DEF t
        <3>5. QED
            BY <3>2, <3>3, <3>4
    <2> HIDE DEF o, s, a, t
    <2>4. o + s <= t /\ o + s <= Capacity /\ t \in Nat
        BY <2>2, <2>3
    <2>5. QED
        BY <2>2, <2>4 DEF o, s, t
<1>4. QED
    BY <1>2, <1>3 DEF w, top

\* Every object but h has the same size and the same bytes at the same place.
Undisturbed(hp, hq, h) ==
    \A g \in Handles : g # h /\ View(hp)[g].state # "free" =>
        /\ View(hq)[g].state = View(hp)[g].state /\ View(hq)[g].offset = View(hp)[g].offset
        /\ View(hq)[g].size = View(hp)[g].size
        /\ \A b \in 0 .. View(hp)[g].size - 1 :
              hq.mem[View(hq)[g].offset + b] = hp.mem[View(hp)[g].offset + b]

\* h is a new object of n bytes, each holding v.
Appears(hp, hq, h, n, v) ==
    /\ h \in Handles /\ View(hp)[h].state = "free" /\ View(hp)[h].refs = 0
    /\ View(hq)[h].state = "live" /\ View(hq)[h].size = n /\ View(hq)[h].refs = 1
    /\ \A g \in Handles : g # h => View(hq)[g].state = View(hp)[g].state
           /\ View(hq)[g].refs = View(hp)[g].refs
    /\ \A b \in 0 .. n - 1 : hq.mem[View(hq)[h].offset + b] = v
    /\ Undisturbed(hp, hq, h)

\* The bytes a new table is built over hold no object.
LEMMA RoomUndisturbed ==
    ASSUME NEW hp, NEW C, HeapOK(hp, C), NEW r, NEW h, Taken(hp, r, h), NEW g \in Handles,
           View(hp)[g].state # "free", NEW b \in 0 .. View(hp)[g].size - 1
    PROVE  r.mem[View(hp)[g].offset + b] = hp.mem[View(hp)[g].offset + b]
               /\ View(hp)[g].offset + b \in Bytes
<1> DEFINE o == View(hp)[g].offset
           s == View(hp)[g].size
           t == MetadataTop(r)
           t0 == MetadataTop(hp)
<1>1. o \in Nat /\ s \in Nat /\ o + s <= Capacity /\ Capacity \in Nat /\ b \in Nat /\ b <= s - 1
    BY ObjectsApart, SizeFacts
<1>2. t \in Nat /\ t0 \in Nat /\ t <= o /\ TableBytes \in Nat
      /\ (Len(r.tables) = Len(hp.tables) + 1 => t = t0 + TableBytes)
    <2>1. LaidOut(View(hp), t, Chain(hp)) /\ t \in Nat
          /\ (Len(r.tables) = Len(hp.tables) + 1 => t = t0 + TableBytes)
        BY RoomLaidOut
    <2>2. IsChain(View(hp), hp.root, Chain(hp)) /\ t0 \in Nat
        BY HeapGives
    <2>3. t <= o
        BY <2>1, <2>2 DEF IsChain, LaidOut
    <2>4. QED
        BY <2>1, <2>2, <2>3, SizeFacts
<1> HIDE DEF o, s, t, t0
<1>3. o + b \in Bytes /\ o + b >= t
    BY <1>1, <1>2 DEF Bytes
<1>4. \/ r.mem[o + b] = hp.mem[o + b]
      \/ /\ Len(r.tables) = Len(hp.tables) + 1
         /\ o + b \in t0 .. t0 + TableBytes - 1
    <2>1. \A x \in Bytes : \/ r.mem[x] = hp.mem[x]
                           \/ /\ Len(r.tables) = Len(hp.tables) + 1
                              /\ x \in t0 .. t0 + TableBytes - 1
        BY DEF Taken, t0
    <2> DEFINE x == o + b
    <2>2. x \in Bytes
        BY <1>3
    <2> HIDE DEF x
    <2>3. \/ r.mem[x] = hp.mem[x]
          \/ /\ Len(r.tables) = Len(hp.tables) + 1
             /\ x \in t0 .. t0 + TableBytes - 1
        BY <2>1, <2>2
    <2>4. QED
        BY <2>3 DEF x
<1>5. Len(r.tables) = Len(hp.tables) + 1 => ~ (o + b \in t0 .. t0 + TableBytes - 1)
    BY <1>1, <1>2, <1>3
<1>6. QED
    BY <1>3, <1>4, <1>5 DEF o

\* make, up to its constructor: the new object has its bytes, and no other has
\* lost any.
LEMMA MakeAppears ==
    ASSUME NEW hp, NEW C, HeapOK(hp, C), NEW n \in 1 .. Capacity, NEW v \in Values,
           CanReserveSlot(hp), Fits(WithRoom(hp), Chain(hp), AlignUp(n)) # {},
           NEW r, NEW h, NEW i, NEW off, Chosen(hp, n, r, h, i, off), h \notin C,
           NEW slot, slot
               = [state |-> "live", refs |-> 1, offset |-> off, size |-> n, next |-> Null],
           NEW sp, sp = Spliced(WithSlot(r, h, slot), Chain(hp), i, h),
           NEW hq, hq = [sp EXCEPT !.mem = Filled(@, off, n, v)]
    PROVE  HeapOK(hq, C \cup {h}) /\ Appears(hp, hq, h, n, v)
<1> DEFINE m == Filled(r.mem, off, n, v)
           w == View(hp)
           w2 == View(hq)
<1>1. Taken(hp, r, h) /\ i \in Fits(r, Chain(hp), AlignUp(n))
          /\ off = PlacementOffset(r, Chain(hp), i, AlignUp(n))
    BY ChosenIs DEF Chosen
<1>2. r \in Heap /\ r.mem \in [Bytes -> Values \cup {Junk}] /\ w \in [Handles -> Slot]
          /\ h \in Handles /\ w[h] = FreeSlot
    BY <1>1, HeapGives DEF Taken, HeapRec, Heap
<1>3. sp.mem = r.mem
    BY <1>2, SplicedMem
<1>4. hq = [Spliced(WithSlot(r, h, slot), Chain(hp), i, h) EXCEPT !.mem = m]
          /\ m \in [Bytes -> Values \cup {Junk}]
    BY <1>2, <1>3, FilledTyped
<1>m. Making(hp, C, r, h, n, i, off, m, hq)
    BY <1>1, <1>4 DEF Making
<1>k. HeapOK(hp, C)
    OBVIOUS
<1> HIDE DEF m, w, w2
<1>5. /\ HeapOK(hq, C \cup {h}) /\ hq.mem = m
      /\ \E s \in Slot : \E x :
                /\ Links(View(hp), View(hq), h, s, x, h)
                /\ s.state = "live" /\ s.refs = 1 /\ s.offset = off /\ s.size = n
    BY ONLY <1>m, <1>k, MadeIs
<1>6. PICK s \in Slot : \E x :
                /\ Links(w, w2, h, s, x, h)
                /\ s.state = "live" /\ s.refs = 1 /\ s.offset = off /\ s.size = n
    BY <1>5 DEF w, w2
<1>7. PICK x : Links(w, w2, h, s, x, h)
    BY <1>6
<1>8. w2[h].state = "live" /\ w2[h].refs = 1 /\ w2[h].offset = off /\ w2[h].size = n
    BY <1>6, <1>7 DEF Links
<1>9. \A g \in Handles : g # h => /\ w2[g].state = w[g].state /\ w2[g].refs = w[g].refs
                                  /\ w2[g].offset = w[g].offset /\ w2[g].size = w[g].size
    BY <1>2, <1>7, LinksKeep
<1>10. w[h].state = "free" /\ w[h].refs = 0
    BY <1>2, FreeSlotTyped
<1>11. off \in Nat /\ n \in Nat /\ Capacity \in Nat /\ off + n <= Capacity
    BY <1>2, <1>5, <1>8, ObjectsApart, SizeFacts DEF w2
<1>12. \A b \in 0 .. n - 1 : hq.mem[off + b] = v
    <2> SUFFICES ASSUME NEW b \in 0 .. n - 1 PROVE m[off + b] = v
        BY <1>5
    <2>1. off + b \in Bytes /\ off + b \in off .. off + n - 1
        BY <1>11 DEF Bytes
    <2>2. QED
        BY <2>1 DEF m, Filled
<1>13. ASSUME NEW g \in Handles, g # h, w[g].state # "free", NEW b \in 0 .. w[g].size - 1
       PROVE  hq.mem[w[g].offset + b] = hp.mem[w[g].offset + b]
    <2> DEFINE o == w[g].offset
               z == w[g].size
    <2>1. r.mem[o + b] = hp.mem[o + b] /\ o + b \in Bytes
        BY <1>1, <1>13, RoomUndisturbed DEF w
    <2>2. o \in Nat /\ z \in Nat /\ b \in Nat /\ b <= z - 1
        BY <1>13, ObjectsApart DEF w
    <2>3. o + z <= off \/ off + n <= o
        <3> DEFINE t == Past(w2[g])
                   u == Past(w2[h])
        <3>1. t <= off \/ u <= o
            <4>1. w2[g].state # "free" /\ w2[h].state # "free" /\ w2[g].offset = o
                BY <1>8, <1>9, <1>13
            <4>2. Apartness(hq)
                BY <1>5, ObjectsApart
            <4>3. QED
                BY <1>2, <1>8, <1>13, <4>1, <4>2 DEF Apartness, w2
        <3>2. o + z <= t /\ off + n <= u /\ t \in Nat /\ u \in Nat
            <4>1. w2[g].state # "free" /\ w2[h].state # "free" /\ w2[g].offset = o /\ w2[g].size = z
                BY <1>8, <1>9, <1>13
            <4>2. \A y \in Handles : w2[y].state # "free" =>
                     w2[y].offset + w2[y].size <= Past(w2[y]) /\ Past(w2[y]) \in Nat
                BY <1>5, ObjectsApart DEF w2
            <4>3. w2[g].offset + w2[g].size <= Past(w2[g]) /\ Past(w2[g]) \in Nat
                  /\ w2[h].offset + w2[h].size <= Past(w2[h]) /\ Past(w2[h]) \in Nat
                BY <1>2, <4>1, <4>2
            <4>4. QED
                BY <1>8, <4>1, <4>3
        <3> HIDE DEF t, u, o, z
        <3>3. QED
            BY <1>11, <2>2, <3>1, <3>2
    <2> HIDE DEF o, z
    <2>4. ~ (o + b \in off .. off + n - 1)
        BY <1>11, <2>2, <2>3
    <2>5. m[o + b] = r.mem[o + b]
        BY <2>1, <2>4 DEF m, Filled
    <2>6. QED
        BY <1>5, <2>1, <2>5 DEF o
<1>14. Undisturbed(hp, hq, h)
    BY <1>9, <1>13 DEF Undisturbed, w, w2
<1>15. QED
    BY <1>2, <1>5, <1>8, <1>9, <1>10, <1>12, <1>14 DEF Appears, w, w2

\* A constructor's call begins: h, new, is owned by it alone.
Begins(hp, hq, p, sc, fs, h, to, f, ft) ==
    /\ Sound(hp, p, sc, fs) /\ NoneCompacts(fs)
    /\ to \in Ptrs /\ p[to] = Null
    /\ ~ DestructorsReassign => \A i \in DOMAIN fs : Pending(fs[i]) # to
    /\ f = [kind |-> "constructor", h |-> h, to |-> to]
    /\ ft = Append(fs, f)

\* The calls and the counts are sound when it has.
LEMMA BeginsIs ==
    ASSUME NEW hp, NEW hq, NEW p, NEW sc, NEW fs, NEW h, NEW to, NEW f, NEW ft,
           Begins(hp, hq, p, sc, fs, h, to, f, ft),
           HeapOK(hq, Constructing(fs) \cup {h}), NEW n, NEW v, Appears(hp, hq, h, n, v)
    PROVE  Sound(hq, p, sc, ft)
<1> DEFINE C == Constructing(fs)
           w == View(hp)
           w2 == View(hq)
<1>1. HeapOK(hp, C) /\ CallsOK(w, p, sc, fs) /\ OwnersOK(w, p, sc, fs) /\ NoneCompacts(fs)
    BY DEF Begins, Sound
<1>2. p \in [Places -> Held] /\ sc \in Seq(Scope) /\ fs \in Seq(FrameKind)
    BY <1>1 DEF CallsOK, Held, FrameKind
<1>3. h \in Handles /\ w[h].state = "free" /\ w[h].refs = 0 /\ w2[h].state = "live"
          /\ w2[h].refs = 1
      /\ (\A g \in Handles : g # h => w2[g].state = w[g].state /\ w2[g].refs = w[g].refs)
    BY DEF Appears
<1>4. \A g \in Handles : g # h /\ w[g].state # "free" => w2[g].offset = w[g].offset
    BY DEF Appears, Undisturbed
<1>5. to \in Ptrs /\ to \in Places /\ to # Null /\ p[to] = Null /\ ft = Append(fs, f)
      /\ (~ DestructorsReassign => \A i \in DOMAIN fs : Pending(fs[i]) # to)
    BY PlacesAreSome DEF Begins, Places, PlaceIsSome
<1>6. f \in FrameKind /\ f.kind = "constructor" /\ f.h = h /\ f.to = to
    BY <1>3, <1>5 DEF Begins, FrameKind, MakeFrame
<1>7. Pending(f) = to /\ OwnedBy(f) = h /\ ~ Dying(f) /\ ~ Compacts(f)
    BY <1>6, FrameFacts
<1>8. h \notin C
    <2>1. \A i \in DOMAIN fs : fs[i].kind = "constructor" => w[fs[i].h].state = "live"
        <3>1. \A i \in DOMAIN fs : fs[i] \in FrameKind
            BY <1>2
        <3>2. \A i \in DOMAIN fs : fs[i].kind = "constructor" => OwnedBy(fs[i]) = fs[i].h
                  /\ fs[i].h \in Handles
            BY <3>1, FrameFacts
        <3>3. QED
            BY <1>1, <3>2, NullIsNone, OwnedLives
    <2>2. QED
        BY <1>3, <2>1 DEF Constructing
<1>9. Constructing(ft) = C \cup {h}
    BY <1>2, <1>5, <1>6, ConstructingPushed
<1> HIDE DEF C, w, w2
<1>10. /\ \A i \in DOMAIN fs : Dying(fs[i]) => fs[i].h \in Handles
              /\ w[fs[i].h].state = "destroying"
       /\ \A i \in DOMAIN sc : sc[i].h \in Handles /\ w[sc[i].h].state = "live"
    <2>1. \A i \in DOMAIN fs : fs[i] \in FrameKind
        BY <1>2
    <2>2. QED
        BY <1>1, <2>1, FrameFacts, OwnedLives DEF CallsOK, w
<1>11. CallsOK(w2, p, sc, ft)
    <2>1. f.kind = "constructor" => f.h \notin Constructing(fs)
        BY <1>6, <1>8 DEF C
    <2>2. Dying(f) => w[f.h].state # "destroying" /\ w2[f.h].state = "destroying" /\ RestOK(f.rest)
        BY <1>7
    <2>3. \A i \in DOMAIN fs : Dying(fs[i]) => w2[fs[i].h].state = "destroying"
        BY <1>3, <1>10
    <2>4. \A i \in DOMAIN sc : w2[sc[i].h].offset = w[sc[i].h].offset
        BY <1>3, <1>4, <1>10
    <2>5. QED
        BY ONLY <1>1, <1>2, <1>5, <1>6, <1>7, <2>1, <2>2, <2>3, <2>4, CallsPushed
<1>12. ASSUME NEW g \in Handles
       PROVE  /\ OwnersOf(g, p, sc, ft) <= w2[g].refs
              /\ ~ DestructorsReassign => OwnersOf(g, p, sc, ft) = w2[g].refs
    <2> DEFINE o == OwnersOf(g, p, sc, fs)
               o2 == OwnersOf(g, p, sc, ft)
               k == Ind(h, g)
               r == w[g].refs
               r2 == w2[g].refs
    <2>1. o2 = o + k
        <3>1. Grows(FrameKind, fs, f, ft)
            BY <1>2, <1>5, <1>6 DEF Grows
        <3>2. QED
            BY <1>2, <1>7, <3>1, OwnersFramePushed
    <2>2. o \in Nat /\ k \in {0, 1} /\ r \in Nat
        BY <1>1, <1>2, OwnersSee, LiveIs DEF Ind, w
    <2>3. r2 = r + k
        <3>1. CASE g = h
            BY <1>3, <3>1 DEF Ind
        <3>2. CASE g # h
            <4>1. r2 = r /\ k = 0
                BY <1>3, <3>2 DEF Ind
            <4>2. QED
                BY <2>2, <4>1
        <3>3. QED
            BY <3>1, <3>2
    <2>4. o <= r /\ (~ DestructorsReassign => o = r)
        BY <1>1 DEF OwnersOK
    <2> HIDE DEF o, o2, k, r, r2
    <2>5. o2 <= r2 /\ (o = r => o2 = r2)
        BY <2>1, <2>2, <2>3, <2>4
    <2>6. QED
        BY <2>4, <2>5 DEF o2, r2
<1>13. ~ DestructorsReassign =>
          /\ \A i \in DOMAIN ft : Pending(ft[i]) # Null => p[Pending(ft[i])] = Null
          /\ \A i, j \in DOMAIN ft : Pending(ft[i]) = Pending(ft[j])
                 /\ Pending(ft[i]) # Null => i = j
    <2>1. \A i \in DOMAIN ft : (i \in DOMAIN fs /\ ft[i] = fs[i]) \/ (i = Len(ft) /\ ft[i] = f)
        BY <1>2, <1>5, <1>6, Pushes
    <2>2. ~ DestructorsReassign =>
          /\ \A i \in DOMAIN fs : Pending(fs[i]) # Null => p[Pending(fs[i])] = Null
          /\ \A i, j \in DOMAIN fs : Pending(fs[i]) = Pending(fs[j])
                 /\ Pending(fs[i]) # Null => i = j
        BY <1>1 DEF OwnersOK
    <2>3. QED
        BY <1>5, <1>7, <2>1, <2>2
<1>14. OwnersOK(w2, p, sc, ft)
    BY <1>12, <1>13 DEF OwnersOK
<1>15. QED
    BY <1>9, <1>11, <1>14 DEF Sound, C, w2

\* ProgramAssumption: what make is called with fits the heap.
LEMMA SizeIs == Sizes \subseteq 1 .. Capacity
BY ProgramAssumption

\* make keeps the invariant.
LEMMA MakeKeeps ==
    ASSUME IInv, NEW to \in Ptrs, NEW n \in Sizes, NEW v \in Values, Make(to, n, v)
    PROVE  /\ Sound(heap', ptr', scopes', frames')
           /\ \E h \in Handles : Appears(heap, heap', h, n, v)
           /\ frames' # frames
<1> DEFINE r == WithRoom(heap)
           h == LowestFreeSlot(r)
           i == BestFit(r, Chain(heap), AlignUp(n))
           off == PlacementOffset(r, Chain(heap), i, AlignUp(n))
           slot == [state |-> "live", refs |-> 1, offset |-> off, size |-> n, next |-> Null]
           sp == Spliced(WithSlot(r, h, slot), Chain(heap), i, h)
           f == [kind |-> "constructor", h |-> h, to |-> to]
           C == Constructing(frames)
           hq == heap'
           ft == frames'
<1>1. /\ UserCode /\ ptr[to] = Null /\ Writable(to) /\ CanReserveSlot(heap)
      /\ Fits(WithRoom(heap), Chain(heap), AlignUp(n)) # {}
      /\ hq = [sp EXCEPT !.mem = Filled(@, off, n, v)]
      /\ ft = Append(frames, f) /\ ptr' = ptr /\ scopes' = scopes
    BY DEF Make
<1>2. Sound(heap, ptr, scopes, frames) /\ HeapOK(heap, C)
          /\ CallsOK(View(heap), ptr, scopes, frames)
    BY DEF IInv, Sound
<1>3. frames \in Seq(FrameKind) /\ NoneCompacts(frames)
    BY <1>1, <1>2, UserCodeRuns DEF CallsOK, FrameKind
<1>4. n \in 1 .. Capacity
    BY SizeIs
<1>5. Chosen(heap, n, r, h, i, off)
    BY DEF Chosen
<1>6. slot = [state |-> "live", refs |-> 1, offset |-> off, size |-> n, next |-> Null]
      /\ sp = Spliced(WithSlot(r, h, slot), Chain(heap), i, h)
      /\ f = [kind |-> "constructor", h |-> h, to |-> to]
    OBVIOUS
<1> HIDE DEF r, h, i, off, slot, sp, f, C, hq, ft
<1>7. Taken(heap, r, h)
    BY <1>1, <1>2, <1>4, <1>5, ChosenIs
<1>8. h \in Handles /\ View(heap)[h].state = "free"
    BY <1>7, FreeSlotTyped DEF Taken
<1>9. h \notin C
    <2>1. \A k \in DOMAIN frames : frames[k].kind = "constructor"
              => View(heap)[frames[k].h].state = "live"
        <3>1. \A k \in DOMAIN frames : frames[k] \in FrameKind
            BY <1>3
        <3>2. \A k \in DOMAIN frames : frames[k].kind = "constructor"
                                        => OwnedBy(frames[k]) = frames[k].h
                                            /\ frames[k].h \in Handles
            BY <3>1, FrameFacts
        <3>3. OwnersOK(View(heap), ptr, scopes, frames)
            BY DEF IInv
        <3>4. QED
            BY <1>2, <3>2, <3>3, NullIsNone, OwnedLives
    <2>2. QED
        BY <1>8, <2>1 DEF Constructing, C
<1>10. HeapOK(hq, C \cup {h}) /\ Appears(heap, hq, h, n, v)
    BY ONLY <1>1, <1>2, <1>4, <1>5, <1>6, <1>9, v \in Values, MakeAppears
<1>11. ~ DestructorsReassign => \A k \in DOMAIN frames : Pending(frames[k]) # to
    <2>1. to # Null
        BY PlacesAreSome DEF PlaceIsSome, Places
    <2>2. QED
        BY <1>1, <1>3, <2>1, WritableIs
<1>12. Begins(heap, hq, ptr, scopes, frames, h, to, f, ft)
    BY <1>1, <1>2, <1>3, <1>6, <1>11 DEF Begins
<1>13. Sound(hq, ptr, scopes, ft)
    <2>1. HeapOK(hq, Constructing(frames) \cup {h})
        BY <1>10 DEF C
    <2>2. QED
        BY <1>10, <1>12, <2>1, BeginsIs
<1>14. ft # frames
    <2>1. f \in FrameKind
        BY <1>6, <1>8 DEF FrameKind, MakeFrame
    <2>2. Len(ft) = Len(frames) + 1 /\ Len(frames) \in Nat
        BY <1>1, <1>3, <2>1, Pushes
    <2>3. QED
        BY <2>2
<1>15. QED
    BY <1>1, <1>8, <1>10, <1>13, <1>14 DEF hq, ft

\* A make that finds no room: the bytes of the objects are as before.
LEMMA MakeFailsKeeps ==
    ASSUME IInv, NEW n \in Sizes, MakeFails(n)
    PROVE  /\ Sound(heap', ptr', scopes', frames') /\ heap' = [heap EXCEPT !.mem = heap'.mem]
           /\ View(heap') = View(heap)
           /\ \A g \in Handles : View(heap)[g].state # "free" =>
                \A b \in 0 .. View(heap)[g].size - 1 :
                   heap'.mem[View(heap)[g].offset + b] = heap.mem[View(heap)[g].offset + b]
<1> DEFINE r == WithRoom(heap)
           h == LowestFreeSlot(r)
           s == [FreeSlot EXCEPT !.state = "live", !.refs = 1]
           C == Constructing(frames)
           hq == heap'
<1>1. /\ CanReserveSlot(heap) /\ hq = SlotReleased(WithSlot(r, h, s), h)
      /\ ptr' = ptr /\ scopes' = scopes /\ frames' = frames
    BY DEF MakeFails
<1>2. HeapOK(heap, C) /\ CallsOK(View(heap), ptr, scopes, frames)
          /\ OwnersOK(View(heap), ptr, scopes, frames)
    BY DEF IInv
<1>3. HeapRec(heap) /\ NoneEmpty(heap.tables)
    BY <1>2, HeapGives
<1>4. s \in Slot /\ s.state # "free"
    BY FreeSlotTyped DEF Slot, FreeSlot
<1>5. Taken(heap, r, h)
    BY <1>1, <1>3, RoomIs
<1>6. r.mem \in [Bytes -> Values \cup {Junk}]
    BY <1>5 DEF Taken, HeapRec, Heap
<1> DEFINE m == r.mem
<1>7. hq = [heap EXCEPT !.mem = m] /\ hq.mem = m
    <2> HIDE DEF s
    <2>1. LET r0 == WithRoom(heap)
              h0 == LowestFreeSlot(r0)
              q0 == SlotReleased(WithSlot(r0, h0, s), h0)
          IN  q0 = [heap EXCEPT !.mem = r0.mem] /\ q0.mem = r0.mem
        BY <1>1, <1>3, <1>4, GivenBack
    <2>2. QED
        BY <1>1, <2>1
<1>8. ASSUME NEW g \in Handles, View(heap)[g].state # "free", NEW b \in 0 .. View(heap)[g].size - 1
      PROVE  m[View(heap)[g].offset + b] = heap.mem[View(heap)[g].offset + b]
    <2> HIDE DEF r, h, C
    <2>1. QED
        BY <1>2, <1>5, <1>8, RoomUndisturbed
<1> HIDE DEF m, C, hq, r, h, s
<1>9. View(hq) = View(heap) /\ HeapOK(hq, C)
    <2>1. m \in [Bytes -> Values \cup {Junk}]
        BY <1>6 DEF m
    <2>2. QED
        BY <1>2, <1>3, <1>7, <2>1, MemSet
<1>10. Sound(hq, ptr, scopes, frames)
    BY <1>2, <1>9 DEF Sound, C
<1>11. QED
    BY <1>1, <1>7, <1>8, <1>9, <1>10 DEF hq

-----------------------------------------------------------------------------
(***************************************************************************)
(* The invariant, and what follows from it.                                *)
(***************************************************************************)
\* The invariant holds in the initial state.
LEMMA InitSound == ASSUME Init PROVE IInv
<1>1. heap = FreshHeap /\ ptr = [l \in Places |-> Null] /\ scopes = << >> /\ frames = << >>
    BY DEF Init
<1>2. Constructing(frames) = {}
    BY <1>1 DEF Constructing
<1>3. HeapOK(heap, {}) /\ \A h \in Handles : View(heap)[h] = FreeSlot
    BY <1>1, FreshHeapIs
<1>4. CallsOK(View(heap), ptr, scopes, frames)
    BY <1>1 DEF CallsOK
<1>5. ASSUME NEW h \in Handles PROVE OwnersOf(h, ptr, scopes, frames) = 0 /\ View(heap)[h].refs = 0
    <2>1. /\ {l \in Places : ptr[l] = h} = {} /\ {i \in DOMAIN scopes : scopes[i].h = h} = {}
          /\ {i \in DOMAIN frames : Owns(frames[i], h)} = {}
        BY <1>1, NullIsNone
    <2>2. View(heap)[h].refs = 0
        BY <1>3, FreeSlotTyped
    <2>3. Cardinality({}) = 0
        BY FS_EmptySet
    <2>4. OwnersOf(h, ptr, scopes, frames) = (Cardinality({}) + Cardinality({})) + Cardinality({})
        BY <2>1 DEF OwnersOf
    <2>5. QED
        BY <2>2, <2>3, <2>4
<1>6. OwnersOK(View(heap), ptr, scopes, frames)
    BY <1>1, <1>5 DEF OwnersOK
<1>7. QED
    BY <1>2, <1>3, <1>4, <1>6 DEF IInv

\* The bytes of every object are as they were; the tables are too.
Unwritten(hp, hq) ==
    /\ View(hq) = View(hp)
    /\ \A g \in Handles : View(hp)[g].state # "free" =>
         \A b \in 0 .. View(hp)[g].size - 1 :
            hq.mem[View(hp)[g].offset + b] = hp.mem[View(hp)[g].offset + b]

\* Everything a step can do to the objects.
Happens ==
    \/ Quiet(heap, heap') \/ Unwritten(heap, heap')
    \/ \E h \in Handles : Dies(heap, heap', h) \/ Goes(heap, heap', h)
    \/ \E h \in Handles, n \in Sizes, v \in Values : Appears(heap, heap', h, n, v)
    \/ \E i \in DOMAIN scopes, v \in Values : WriteThrough(i, v) /\ View(heap') = View(heap)
    \/ /\ Moved(View(heap), View(heap')) /\ SameBytes(heap, heap')
       /\ InFrame({"evacuate", "shift"}) /\ scopes = << >> /\ DestructionDepth = 0

\* A step that leaves the heap alone does nothing to them.
LEMMA SameHeapIsQuiet ==
    ASSUME heap' = heap PROVE Quiet(heap, heap')
BY DEF Quiet, SameObjects

\* Every step keeps the invariant, and does one of these things.
LEMMA StepKeeps ==
    ASSUME IInv, [Next]_vars
    PROVE  Sound(heap', ptr', scopes', frames') /\ Happens
<1>1. CASE UNCHANGED vars
    <2>1. heap' = heap /\ ptr' = ptr /\ scopes' = scopes /\ frames' = frames
        BY <1>1 DEF vars
    <2>2. Sound(heap, ptr, scopes, frames) /\ Quiet(heap, heap')
        BY <2>1, IInvIsSound, SameHeapIsQuiet
    <2>3. Sound(heap', ptr', scopes', frames')
        BY <2>1, <2>2
    <2>4. QED
        BY <2>2, <2>3 DEF Happens
<1>2. ASSUME LetsGo PROVE Sound(heap', ptr', scopes', frames') /\ Happens
    BY <1>2 DEF LetsGo, Happens
<1>3. ASSUME NEW l \in Places, NEW q \in Places, CopyAssign(l, q)
      PROVE  Sound(heap', ptr', scopes', frames') /\ Happens
    BY <1>2, <1>3, CopyAssignLetsGo
<1>4. ASSUME NEW l \in Places, NEW q \in Places, MoveAssign(l, q)
      PROVE  Sound(heap', ptr', scopes', frames') /\ Happens
    BY <1>2, <1>4, MoveAssignLetsGo
<1>5. ASSUME NEW l \in Places, Reset(l)
      PROVE  Sound(heap', ptr', scopes', frames') /\ Happens
    BY <1>2, <1>5, ResetLetsGo
<1>6. ASSUME NEW l \in Places, Unwrap(l)
      PROVE  Sound(heap', ptr', scopes', frames') /\ Happens
    BY <1>6, UnwrapKeeps DEF Happens
<1>7. ASSUME NEW i \in DOMAIN scopes, NEW v \in Values, WriteThrough(i, v)
      PROVE  Sound(heap', ptr', scopes', frames') /\ Happens
    BY <1>7, WriteThroughKeeps DEF Happens
<1>8. CASE Leave
    BY <1>2, <1>8, LeaveLetsGo
<1>9. ASSUME NEW p \in Ptrs, NEW n \in Sizes, NEW v \in Values, Make(p, n, v)
      PROVE  Sound(heap', ptr', scopes', frames') /\ Happens
    BY <1>9, MakeKeeps DEF Happens
<1>10. ASSUME NEW n \in Sizes, MakeFails(n)
       PROVE  Sound(heap', ptr', scopes', frames') /\ Happens
    <2>1. Sound(heap', ptr', scopes', frames') /\ Unwritten(heap, heap')
        BY <1>10, MakeFailsKeeps DEF Unwritten
    <2>2. QED
        BY <2>1 DEF Happens
<1>11. ASSUME NEW policy \in Policies, NEW b \in Budgets, Compact(policy, b)
       PROVE  Sound(heap', ptr', scopes', frames') /\ Happens
    BY <1>11, CompactKeeps, SameHeapIsQuiet DEF Happens
<1>12. CASE BodyEnds
    BY <1>2, <1>12, BodyEndsLetsGo
<1>13. CASE ConstructorReturns
    <2>1. Sound(heap', ptr', scopes', frames') /\ View(heap') = View(heap) /\ heap'.mem = heap.mem
        BY <1>13, ConstructorReturnsKeeps
    <2>2. Quiet(heap, heap')
        BY <2>1 DEF Quiet, SameObjects
    <2>3. QED
        BY <2>1, <2>2 DEF Happens
<1>14. CASE ReleaseEnds
    <2>1. Sound(heap', ptr', scopes', frames') /\ Goes(heap, heap', Top.h)
        BY <1>14, ReleaseEndsKeeps
    <2>2. Top.h \in Handles
        BY <2>1 DEF Goes
    <2>3. QED
        BY <2>1, <2>2 DEF Happens
<1>15. CASE EvacuateOnce \/ ShiftOnce
    BY <1>15, EvacuateOnceKeeps DEF Happens
<1>16. CASE ShiftsBegin \/ RoundBegins \/ CompactReturns
    BY <1>16, PhaseKeeps, SameHeapIsQuiet DEF Happens
<1>17. CASE Program
    BY <1>3, <1>4, <1>5, <1>6, <1>7, <1>8, <1>9, <1>10, <1>11, <1>12, <1>17 DEF Program
<1>18. CASE System
    BY <1>13, <1>14, <1>15, <1>16, <1>18 DEF System
<1>19. QED
    BY <1>1, <1>17, <1>18 DEF Next

\* The inductive invariant of managed_heap.hpp: whatever a program, its
\* constructors and its destructors call, in whatever order and depth.
THEOREM InvariantHolds == Spec => []IInv
<1>1. Init => IInv
    BY InitSound
<1>2. IInv /\ [Next]_vars => IInv'
    <2> SUFFICES ASSUME IInv, [Next]_vars PROVE IInv'
        OBVIOUS
    <2>1. Sound(heap', ptr', scopes', frames')
        BY StepKeeps
    <2>2. QED
        BY <2>1 DEF Sound, IInv
<1>3. QED
    BY <1>1, <1>2, PTL DEF Spec

\* TypeOK: the tables, the counters and the stack of unfinished calls have their
\* types, for every capacity, table size and number of tables.
THEOREM TypeOKHolds == Spec => []TypeOK
<1>1. IInv => TypeOK
    BY DEF IInv, HeapOK, CallsOK, TypeOK
<1>2. QED
    BY <1>1, InvariantHolds, PTL

\* HeapSound: make, release_ and compact keep debug_assert_invariants_ true between
\* calls and inside every destructor, so that no assertion of it ever fires except
\* under a constructor, where SPEC.md and the code part (run heap_constructor).
THEOREM HeapSoundHolds == Spec => []HeapSound
<1>1. ASSUME IInv, \A i \in DOMAIN frames : frames[i].kind # "constructor"
                 PROVE DebugAssertInvariants
    <2>1. Constructing(frames) = {}
        BY <1>1 DEF Constructing
    <2>2. HeapOK(heap, {})
        BY <1>1, <2>1 DEF IInv
    <2>3. QED
        BY <2>2, CheckPasses
<1>2. IInv => HeapSound
    BY <1>1 DEF HeapSound
<1>3. QED
    BY <1>2, InvariantHolds, PTL

\* RefsExact: retain_ and release_ keep every count equal to the number of owners,
\* so that an object is destroyed with its last owner and never before.  The
\* hypothesis leaves out destructors that assign to a place whose assignment is
\* unfinished; the run heap_assign shows the reference that leaks where one does.
THEOREM RefsExactHolds == ASSUME ~ DestructorsReassign PROVE Spec => []RefsExact
<1>1. ASSUME IInv, NEW h \in Handles
      PROVE  Owners(h) = IF IsUsed(heap, h) THEN SlotOf(heap, h).refs ELSE 0
    <2>1. HeapOK(heap, Constructing(frames))
              /\ OwnersOf(h, ptr, scopes, frames) = View(heap)[h].refs
        BY <1>1 DEF IInv, OwnersOK
    <2>2. Owners(h) = OwnersOf(h, ptr, scopes, frames)
        BY DEF Owners, OwnersOf, Owns, Dying
    <2>3. HeapRec(heap)
        BY <2>1, HeapGives
    <2>4. IsUsed(heap, h) <=> View(heap)[h].state # "free"
        BY <2>3, ViewIs DEF HeapRec
    <2>5. View(heap)[h].state # "free" => SlotOf(heap, h) = View(heap)[h]
        BY <2>1, LiveIs
    <2>6. View(heap)[h].state = "free" => View(heap)[h].refs = 0
        BY <2>3, FreeSlotTyped, ViewIs DEF HeapRec
    <2>7. QED
        BY <2>1, <2>2, <2>4, <2>5, <2>6
<1>2. IInv => RefsExact
    BY <1>1 DEF RefsExact
<1>3. QED
    BY <1>2, InvariantHolds, PTL

\* The heap's own reading of an object.
LEMMA UsedAt ==
    ASSUME NEW hp, NEW C, HeapOK(hp, C), NEW h \in Handles
    PROVE  /\ IsUsed(hp, h) <=> View(hp)[h].state # "free"
           /\ IsUsed(hp, h) => SlotOf(hp, h) = View(hp)[h] /\ Base(hp, h) = View(hp)[h].offset
                               /\ Size(hp, h) = View(hp)[h].size
<1>1. HeapRec(hp)
    BY HeapGives
<1>2. IsUsed(hp, h) <=> View(hp)[h].state # "free"
    BY <1>1, ViewIs DEF HeapRec
<1>3. QED
    BY <1>2, LiveIs

\* AddressesStable: no step but a move of compact's changes the address of an
\* object, and none does while a scoped access or a destructor holds one (SPEC.md 3).
THEOREM AddressesStableHolds == Spec => AddressesStable
<1>1. ASSUME IInv, [Next]_vars, NEW h \in Handles, IsUsed(heap, h), IsUsed(heap', h),
                 Base(heap', h) # Base(heap, h)
      PROVE  InFrame({"evacuate", "shift"}) /\ scopes = << >> /\ DestructionDepth = 0
    <2> DEFINE hq == heap'
               w == View(heap)
               w2 == View(hq)
    <2>1. HeapOK(heap, Constructing(frames)) /\ HeapOK(hq, Constructing(frames'))
        BY <1>1, StepKeeps DEF IInv, Sound
    <2>2. w[h].state # "free" /\ w2[h].state # "free" /\ w2[h].offset # w[h].offset
        <3>1. hq = heap'
            OBVIOUS
        <3>2. IsUsed(hq, h) /\ Base(hq, h) # Base(heap, h)
            BY <1>1
        <3> HIDE DEF hq
        <3>3. QED
            BY <1>1, <2>1, <3>2, UsedAt
    <2>3. Happens
        BY <1>1, StepKeeps
    <2>4. FreeSlot.state = "free"
        BY FreeSlotTyped
    <2> HIDE DEF w, w2
    <2>5. ~ Quiet(heap, heap') /\ ~ Unwritten(heap, heap')
        BY <2>2 DEF Quiet, SameObjects, Unwritten, w, w2
    <2>6. ~ \E g \in Handles : Dies(heap, heap', g) \/ Goes(heap, heap', g)
        BY <2>2, <2>4 DEF Dies, Goes, w, w2
    <2>7. ~ \E g \in Handles, n \in Sizes, v \in Values : Appears(heap, heap', g, n, v)
        BY <2>2 DEF Appears, Undisturbed, w, w2
    <2>8. ~ \E i \in DOMAIN scopes, v \in Values : WriteThrough(i, v) /\ View(heap') = View(heap)
        BY <2>2 DEF w, w2
    <2>9. QED
        BY <2>3, <2>5, <2>6, <2>7, <2>8 DEF Happens
<1>2. IInv /\ [Next]_vars =>
        [ (\E h \in Handles : /\ IsUsed(heap, h) /\ IsUsed(heap', h)
                              /\ Base(heap', h) # Base(heap, h))
          => /\ InFrame({"evacuate", "shift"})
             /\ scopes = <<>> /\ DestructionDepth = 0 ]_vars
    BY <1>1
<1>3. QED
    BY <1>2, InvariantHolds, PTL DEF Spec, AddressesStable

-----------------------------------------------------------------------------
(***************************************************************************)
(* The refinement of ObjectStore.                                          *)
(***************************************************************************)
\* What ObjectStore sees of a heap.
PhaseOf(hp) == [h \in Handles |-> IF ~ IsUsed(hp, h) THEN "none"
                                  ELSE IF SlotOf(hp, h).state = "live" THEN "live"
                                  ELSE "dying"]
HeldBy(hp, h) == {hp.mem[b] : b \in Base(hp, h) .. Base(hp, h) + Size(hp, h) - 1}
Spelled(held) == IF \E v \in Values : held = {v} THEN CHOOSE v \in Values : held = {v} ELSE Junk
ValueOf(hp) == [h \in Handles |-> IF IsUsed(hp, h) THEN Spelled(HeldBy(hp, h)) ELSE Junk]

\* The abstract specification, read through the refinement mapping.
LEMMA StoreReads ==
    /\ Store!vars = <<PhaseOf(heap), ValueOf(heap)>>
    /\ Store!vars' = <<PhaseOf(heap'), ValueOf(heap')>>
    /\ Store!Init <=> /\ PhaseOf(heap) = [h \in Handles |-> "none"]
                      /\ ValueOf(heap) = [h \in Handles |-> Junk]
    /\ \A h, v : Store!Make(h, v) <=>
          /\ PhaseOf(heap)[h] = "none"
          /\ PhaseOf(heap') = [PhaseOf(heap) EXCEPT ![h] = "live"]
          /\ ValueOf(heap') = [ValueOf(heap) EXCEPT ![h] = v]
    /\ \A h, v : Store!Write(h, v) <=>
          /\ PhaseOf(heap)[h] = "live"
          /\ ValueOf(heap') = [ValueOf(heap) EXCEPT ![h] = v]
          /\ PhaseOf(heap') = PhaseOf(heap)
    /\ \A h : Store!LastReferenceGoes(h) <=>
          /\ PhaseOf(heap)[h] = "live"
          /\ PhaseOf(heap') = [PhaseOf(heap) EXCEPT ![h] = "dying"]
          /\ ValueOf(heap') = ValueOf(heap)
    /\ \A h : Store!Gone(h) <=>
          /\ PhaseOf(heap)[h] = "dying"
          /\ PhaseOf(heap') = [PhaseOf(heap) EXCEPT ![h] = "none"]
          /\ ValueOf(heap') = [ValueOf(heap) EXCEPT ![h] = Junk]
BY DEF Store!vars, Store!Init, Store!Make, Store!Write, Store!LastReferenceGoes, Store!Gone,
       PhaseOf, ValueOf, HeldBy, Spelled, Content

\* The bytes of an object, counted from its own first byte.
Payload(hp, h) == {hp.mem[View(hp)[h].offset + b] : b \in 0 .. View(hp)[h].size - 1}

\* What the store sees depends on the state of the slots and on these bytes.
LEMMA PayloadIs ==
    ASSUME NEW hp, NEW C, HeapOK(hp, C), NEW h \in Handles
    PROVE  /\ PhaseOf(hp)[h] = IF View(hp)[h].state = "free" THEN "none"
                               ELSE IF View(hp)[h].state = "live" THEN "live" ELSE "dying"
           /\ ValueOf(hp)[h] = IF View(hp)[h].state = "free" THEN Junk ELSE Spelled(Payload(hp, h))
<1>1. /\ IsUsed(hp, h) <=> View(hp)[h].state # "free"
      /\ IsUsed(hp, h) => SlotOf(hp, h) = View(hp)[h] /\ Base(hp, h) = View(hp)[h].offset
                          /\ Size(hp, h) = View(hp)[h].size
    BY UsedAt
<1>2. ASSUME View(hp)[h].state # "free" PROVE HeldBy(hp, h) = Payload(hp, h)
    <2> DEFINE o == View(hp)[h].offset
               s == View(hp)[h].size
               mem == hp.mem
    <2>1. o \in Nat /\ s \in Nat
        BY <1>2, ObjectsApart
    <2>2. HeldBy(hp, h) = {mem[b] : b \in o .. o + s - 1}
        BY <1>1, <1>2 DEF HeldBy
    <2>3. Payload(hp, h) = {mem[o + b] : b \in 0 .. s - 1}
        BY DEF Payload
    <2> HIDE DEF o, s, mem
    <2>4. \A b \in o .. o + s - 1 : b - o \in 0 .. s - 1 /\ o + (b - o) = b
        BY <2>1
    <2>5. \A b \in 0 .. s - 1 : o + b \in o .. o + s - 1
        BY <2>1
    <2>6. {mem[b] : b \in o .. o + s - 1} \subseteq {mem[o + b] : b \in 0 .. s - 1}
        <3> SUFFICES ASSUME NEW b \in o .. o + s - 1 PROVE \E k \in 0 .. s - 1 : mem[b] = mem[o + k]
            OBVIOUS
        <3>1. b - o \in 0 .. s - 1 /\ o + (b - o) = b
            BY <2>4
        <3>2. mem[b] = mem[o + (b - o)]
            BY <3>1
        <3>3. QED
            BY <3>1, <3>2
    <2>7. {mem[o + b] : b \in 0 .. s - 1} \subseteq {mem[b] : b \in o .. o + s - 1}
        BY <2>5
    <2>8. QED
        BY <2>2, <2>3, <2>6, <2>7
<1>3. QED
    BY <1>1, <1>2 DEF PhaseOf, ValueOf

\* Two heaps in which the objects look the same to the store.
LEMMA LooksAlike ==
    ASSUME NEW hp, NEW C, HeapOK(hp, C), NEW hq, NEW D, HeapOK(hq, D), NEW g \in Handles,
           View(hq)[g].state = View(hp)[g].state,
           View(hp)[g].state # "free" =>
             /\ View(hq)[g].size = View(hp)[g].size
             /\ \A b \in 0 .. View(hp)[g].size - 1 :
                   hq.mem[View(hq)[g].offset + b] = hp.mem[View(hp)[g].offset + b]
    PROVE  PhaseOf(hq)[g] = PhaseOf(hp)[g] /\ ValueOf(hq)[g] = ValueOf(hp)[g]
<1>1. View(hp)[g].state # "free" => Payload(hq, g) = Payload(hp, g)
    BY DEF Payload
<1>2. QED
    BY <1>1, PayloadIs

\* What the store sees is a function of the handles.
LEMMA StoreTyped ==
    ASSUME NEW hp
    PROVE  /\ PhaseOf(hp) = [h \in Handles |-> PhaseOf(hp)[h]]
           /\ ValueOf(hp) = [h \in Handles |-> ValueOf(hp)[h]]
BY DEF PhaseOf, ValueOf

\* Nothing happens to any object.
Alike(hp, hq) == PhaseOf(hq) = PhaseOf(hp) /\ ValueOf(hq) = ValueOf(hp)

\* It is enough to look at every object.
LEMMA AllAlike ==
    ASSUME NEW hp, NEW hq, \A g \in Handles : PhaseOf(hq)[g] = PhaseOf(hp)[g]
               /\ ValueOf(hq)[g] = ValueOf(hp)[g]
    PROVE  Alike(hp, hq)
BY DEF Alike, PhaseOf, ValueOf

\* Something happens to h and to no other object.
OnlyTo(hp, hq, h, p, v) ==
    /\ PhaseOf(hq) = [PhaseOf(hp) EXCEPT ![h] = p]
    /\ ValueOf(hq) = [ValueOf(hp) EXCEPT ![h] = v]

\* It is enough to look at every other object.
LEMMA OnlyIs ==
    ASSUME NEW hp, NEW hq, NEW h \in Handles,
           \A g \in Handles : g # h => PhaseOf(hq)[g] = PhaseOf(hp)[g]
               /\ ValueOf(hq)[g] = ValueOf(hp)[g]
    PROVE  OnlyTo(hp, hq, h, PhaseOf(hq)[h], ValueOf(hq)[h])
<1> DEFINE a == PhaseOf(hp)
           b == ValueOf(hp)
           c == PhaseOf(hq)
           d == ValueOf(hq)
<1>1. /\ a = [g \in Handles |-> a[g]] /\ b = [g \in Handles |-> b[g]]
      /\ c = [g \in Handles |-> c[g]] /\ d = [g \in Handles |-> d[g]]
    BY StoreTyped
<1> HIDE DEF a, b, c, d
<1>2. c = [a EXCEPT ![h] = c[h]] /\ d = [b EXCEPT ![h] = d[h]]
    BY <1>1 DEF a, b, c, d
<1>3. QED
    BY <1>2 DEF OnlyTo, a, b, c, d

\* A single value.
LEMMA SpelledIs ==
    ASSUME NEW v \in Values PROVE Spelled({v}) = v
<1>1. \A u \in Values : {v} = {u} <=> u = v
    OBVIOUS
<1>2. (CHOOSE u \in Values : {v} = {u}) = v
    BY <1>1
<1>3. QED
    BY <1>2 DEF Spelled

\* An object whose bytes hold one value.
LEMMA UniformPayload ==
    ASSUME NEW hp, NEW h, NEW n \in Nat, n >= 1, View(hp)[h].size = n, NEW v,
           \A b \in 0 .. n - 1 : hp.mem[View(hp)[h].offset + b] = v
    PROVE  Payload(hp, h) = {v}
<1>1. 0 \in 0 .. n - 1
    OBVIOUS
<1>2. QED
    BY <1>1 DEF Payload

\* Both heaps are heaps of the invariant.
Both(hp, hq) == (\E C : HeapOK(hp, C)) /\ \E D : HeapOK(hq, D)

\* Counts and calls are nothing to the store.
LEMMA QuietAlike ==
    ASSUME NEW hp, NEW hq, Both(hp, hq), Quiet(hp, hq)
    PROVE  Alike(hp, hq)
<1>1. ASSUME NEW g \in Handles PROVE PhaseOf(hq)[g] = PhaseOf(hp)[g]
                 /\ ValueOf(hq)[g] = ValueOf(hp)[g]
    BY LooksAlike DEF Both, Quiet, SameObjects
<1>2. QED
    BY <1>1, AllAlike

\* Nor is what happens outside the objects.
LEMMA UnwrittenAlike ==
    ASSUME NEW hp, NEW hq, Both(hp, hq), Unwritten(hp, hq)
    PROVE  Alike(hp, hq)
<1>1. ASSUME NEW g \in Handles PROVE PhaseOf(hq)[g] = PhaseOf(hp)[g]
                 /\ ValueOf(hq)[g] = ValueOf(hp)[g]
    BY LooksAlike DEF Both, Unwritten
<1>2. QED
    BY <1>1, AllAlike

\* Nor are moves: compact is invisible through handles.
LEMMA MovedAlike ==
    ASSUME NEW hp, NEW hq, Both(hp, hq), Moved(View(hp), View(hq)), SameBytes(hp, hq)
    PROVE  Alike(hp, hq)
<1>1. ASSUME NEW g \in Handles PROVE PhaseOf(hq)[g] = PhaseOf(hp)[g]
                 /\ ValueOf(hq)[g] = ValueOf(hp)[g]
    BY LooksAlike DEF Both, Moved, SameBytes
<1>2. QED
    BY <1>1, AllAlike

\* The last reference goes.
LEMMA DiesSeen ==
    ASSUME NEW hp, NEW hq, Both(hp, hq), NEW h, Dies(hp, hq, h)
    PROVE  h \in Handles /\ PhaseOf(hp)[h] = "live" /\ OnlyTo(hp, hq, h, "dying", ValueOf(hp)[h])
<1>1. h \in Handles /\ View(hp)[h].state = "live" /\ View(hq)[h].state = "destroying"
    BY DEF Dies
<1>2. PhaseOf(hp)[h] = "live" /\ PhaseOf(hq)[h] = "dying"
    BY <1>1, PayloadIs DEF Both
<1>3. ValueOf(hq)[h] = ValueOf(hp)[h]
    <2>1. Payload(hq, h) = Payload(hp, h)
        BY <1>1 DEF Payload, Dies
    <2>2. QED
        BY <1>1, <2>1, PayloadIs DEF Both
<1>4. ASSUME NEW g \in Handles, g # h
      PROVE  PhaseOf(hq)[g] = PhaseOf(hp)[g] /\ ValueOf(hq)[g] = ValueOf(hp)[g]
    BY <1>4, LooksAlike DEF Both, Dies
<1>5. QED
    BY <1>1, <1>2, <1>3, <1>4, OnlyIs

\* An object is made.
LEMMA AppearsSeen ==
    ASSUME NEW hp, NEW hq, Both(hp, hq), NEW h, NEW n \in 1 .. Capacity, NEW v \in Values,
           Appears(hp, hq, h, n, v)
    PROVE  h \in Handles /\ PhaseOf(hp)[h] = "none" /\ OnlyTo(hp, hq, h, "live", v)
<1>1. h \in Handles /\ View(hp)[h].state = "free" /\ View(hq)[h].state = "live"
      /\ View(hq)[h].size = n /\ \A b \in 0 .. n - 1 : hq.mem[View(hq)[h].offset + b] = v
    BY DEF Appears
<1>2. PhaseOf(hp)[h] = "none" /\ PhaseOf(hq)[h] = "live"
    BY <1>1, PayloadIs DEF Both
<1>3. ValueOf(hq)[h] = v
    <2>1. Payload(hq, h) = {v}
        <3>1. n \in Nat /\ n >= 1
            BY SizeFacts
        <3>2. QED
            BY <1>1, <3>1, UniformPayload
    <2>2. QED
        BY <1>1, <2>1, PayloadIs, SpelledIs DEF Both
<1>4. ASSUME NEW g \in Handles, g # h
      PROVE  PhaseOf(hq)[g] = PhaseOf(hp)[g] /\ ValueOf(hq)[g] = ValueOf(hp)[g]
    <2>1. View(hq)[g].state = View(hp)[g].state
        BY <1>4 DEF Appears
    <2>2. View(hp)[g].state # "free" =>
             /\ View(hq)[g].size = View(hp)[g].size
             /\ \A b \in 0 .. View(hp)[g].size - 1 :
                   hq.mem[View(hq)[g].offset + b] = hp.mem[View(hp)[g].offset + b]
        BY <1>4 DEF Appears, Undisturbed
    <2>3. QED
        BY <2>1, <2>2, LooksAlike DEF Both
<1>5. QED
    BY <1>1, <1>2, <1>3, <1>4, OnlyIs

\* A run of bytes inside one object touches no other object.
LEMMA RunElsewhere ==
    ASSUME NEW hp, NEW C, HeapOK(hp, C), NEW h \in Handles, View(hp)[h].state # "free", NEW v,
           NEW g \in Handles, g # h, View(hp)[g].state # "free", NEW b \in 0 .. View(hp)[g].size - 1
    PROVE  /\ View(hp)[g].offset + b \in Bytes
           /\ Filled(hp.mem, View(hp)[h].offset, View(hp)[h].size, v)[View(hp)[g].offset + b]
                = hp.mem[View(hp)[g].offset + b]
<1> DEFINE o == View(hp)[g].offset
           s == View(hp)[g].size
           t == Past(View(hp)[g])
           p == View(hp)[h].offset
           z == View(hp)[h].size
           u == Past(View(hp)[h])
<1>1. /\ o \in Nat /\ s \in Nat /\ o + s <= t /\ t \in Nat /\ o + s <= Capacity
      /\ p \in Nat /\ z \in Nat /\ p + z <= u /\ u \in Nat
    BY ObjectsApart
<1>2. t <= p \/ u <= o
    BY ObjectsApart DEF Apartness
<1>3. Capacity \in Nat /\ b \in Nat /\ b <= s - 1
    BY <1>1, SizeFacts
<1> HIDE DEF o, s, t, p, z, u
<1>4. o + b \in Bytes /\ ~ (o + b \in p .. p + z - 1)
    BY <1>1, <1>2, <1>3 DEF Bytes
<1>5. Filled(hp.mem, p, z, v)[o + b] = hp.mem[o + b]
    BY <1>4 DEF Filled
<1>6. QED
    BY <1>4, <1>5 DEF o, p, z

\* An object is gone, and its contents with it.
LEMMA GoesSeen ==
    ASSUME NEW hp, NEW hq, Both(hp, hq), NEW h, Goes(hp, hq, h)
    PROVE  h \in Handles /\ PhaseOf(hp)[h] = "dying" /\ OnlyTo(hp, hq, h, "none", Junk)
<1>1. h \in Handles /\ View(hp)[h].state = "destroying" /\ View(hq)[h].state = "free"
    BY FreeSlotTyped DEF Goes
<1>2. PhaseOf(hp)[h] = "dying" /\ PhaseOf(hq)[h] = "none" /\ ValueOf(hq)[h] = Junk
    BY <1>1, PayloadIs DEF Both
<1>3. ASSUME NEW g \in Handles, g # h
      PROVE  PhaseOf(hq)[g] = PhaseOf(hp)[g] /\ ValueOf(hq)[g] = ValueOf(hp)[g]
    <2>1. /\ View(hq)[g].state = View(hp)[g].state /\ View(hq)[g].offset = View(hp)[g].offset
          /\ View(hq)[g].size = View(hp)[g].size
          /\ hq.mem = Filled(hp.mem, View(hp)[h].offset, View(hp)[h].size, Junk)
        BY <1>3 DEF Goes
    <2>2. View(hp)[g].state # "free" =>
             \A b \in 0 .. View(hp)[g].size - 1 :
                   hq.mem[View(hq)[g].offset + b] = hp.mem[View(hp)[g].offset + b]
        <3> SUFFICES ASSUME View(hp)[g].state # "free", NEW b \in 0 .. View(hp)[g].size - 1
                     PROVE  hq.mem[View(hq)[g].offset + b] = hp.mem[View(hp)[g].offset + b]
            OBVIOUS
        <3>1. Filled(hp.mem, View(hp)[h].offset, View(hp)[h].size, Junk)[View(hp)[g].offset + b]
                = hp.mem[View(hp)[g].offset + b]
            BY <1>1, <1>3, RunElsewhere DEF Both
        <3>2. QED
            BY <2>1, <3>1
    <2>3. QED
        BY <2>1, <2>2, LooksAlike DEF Both
<1>4. QED
    BY <1>1, <1>2, <1>3, OnlyIs

\* An object is written to, and no other.
LEMMA WrittenSeen ==
    ASSUME NEW hp, NEW hq, Both(hp, hq), NEW h \in Handles, View(hp)[h].state = "live",
               NEW v \in Values,
           View(hq) = View(hp), hq.mem = Filled(hp.mem, View(hp)[h].offset, View(hp)[h].size, v)
    PROVE  PhaseOf(hp)[h] = "live" /\ OnlyTo(hp, hq, h, "live", v)
<1> DEFINE o == View(hp)[h].offset
           s == View(hp)[h].size
<1>1. o \in Nat /\ s \in Nat /\ s >= 1 /\ o + s <= Capacity /\ Capacity \in Nat
    BY ObjectsApart, SizeFacts DEF Both
<1>2. \A b \in 0 .. s - 1 : hq.mem[o + b] = v
    <2> HIDE DEF o, s
    <2> SUFFICES ASSUME NEW b \in 0 .. s - 1 PROVE hq.mem[o + b] = v
        OBVIOUS
    <2>1. o + b \in Bytes /\ o + b \in o .. o + s - 1
        BY <1>1 DEF Bytes
    <2>2. QED
        BY <2>1 DEF Filled, o, s
<1>3. PhaseOf(hp)[h] = "live" /\ PhaseOf(hq)[h] = "live"
    BY PayloadIs DEF Both
<1>4. ValueOf(hq)[h] = v
    <2>1. Payload(hq, h) = {v}
        BY <1>1, <1>2, UniformPayload
    <2>2. QED
        BY <2>1, PayloadIs, SpelledIs DEF Both
<1>5. ASSUME NEW g \in Handles, g # h
      PROVE  PhaseOf(hq)[g] = PhaseOf(hp)[g] /\ ValueOf(hq)[g] = ValueOf(hp)[g]
    <2>1. View(hp)[g].state # "free" =>
             \A b \in 0 .. View(hp)[g].size - 1 :
                   hq.mem[View(hq)[g].offset + b] = hp.mem[View(hp)[g].offset + b]
        <3> SUFFICES ASSUME View(hp)[g].state # "free", NEW b \in 0 .. View(hp)[g].size - 1
                     PROVE  hq.mem[View(hq)[g].offset + b] = hp.mem[View(hp)[g].offset + b]
            OBVIOUS
        <3>1. Filled(hp.mem, View(hp)[h].offset, View(hp)[h].size, v)[View(hp)[g].offset + b]
                = hp.mem[View(hp)[g].offset + b]
            BY <1>5, RunElsewhere DEF Both
        <3>2. QED
            BY <3>1
    <2>2. QED
        BY <2>1, LooksAlike DEF Both
<1>6. QED
    BY <1>3, <1>4, <1>5, OnlyIs

\* The two parts of a change, which may be none.
LEMMA OnlyToReads ==
    ASSUME NEW h \in Handles, NEW p, NEW v, OnlyTo(heap, heap', h, p, v)
    PROVE  /\ PhaseOf(heap') = [PhaseOf(heap) EXCEPT ![h] = p]
           /\ ValueOf(heap') = [ValueOf(heap) EXCEPT ![h] = v]
           /\ p = PhaseOf(heap)[h] => PhaseOf(heap') = PhaseOf(heap)
           /\ v = ValueOf(heap)[h] => ValueOf(heap') = ValueOf(heap)
<1>1. PhaseOf(heap') = [PhaseOf(heap) EXCEPT ![h] = p]
          /\ ValueOf(heap') = [ValueOf(heap) EXCEPT ![h] = v]
    BY DEF OnlyTo
<1>2. /\ PhaseOf(heap) = [g \in Handles |-> PhaseOf(heap)[g]]
      /\ ValueOf(heap) = [g \in Handles |-> ValueOf(heap)[g]]
    BY StoreTyped
<1>3. QED
    BY <1>1, <1>2

\* Every step of the heap is a step of the store, or none.
LEMMA StoreStep == IInv /\ [Next]_vars => [Store!Next]_(Store!vars)
<1> SUFFICES ASSUME IInv, [Next]_vars PROVE [Store!Next]_(Store!vars)
    OBVIOUS
<1>1. Happens /\ Sound(heap', ptr', scopes', frames')
    BY StepKeeps
<1>2. Both(heap, heap')
    BY <1>1 DEF Both, IInv, Sound
<1>3. ASSUME Alike(heap, heap') PROVE [Store!Next]_(Store!vars)
    BY <1>3, StoreReads DEF Alike
<1>4. CASE Quiet(heap, heap') \/ Unwritten(heap, heap')
    BY <1>2, <1>3, <1>4, QuietAlike, UnwrittenAlike
<1>5. ASSUME NEW h \in Handles, Dies(heap, heap', h) PROVE Store!Next
    <2>1. PhaseOf(heap)[h] = "live" /\ OnlyTo(heap, heap', h, "dying", ValueOf(heap)[h])
        BY <1>2, <1>5, DiesSeen
    <2>2. Store!LastReferenceGoes(h)
        BY <2>1, OnlyToReads, StoreReads
    <2>3. QED
        BY <2>2 DEF Store!Next
<1>6. ASSUME NEW h \in Handles, Goes(heap, heap', h) PROVE Store!Next
    <2>1. PhaseOf(heap)[h] = "dying" /\ OnlyTo(heap, heap', h, "none", Junk)
        BY <1>2, <1>6, GoesSeen
    <2>2. Store!Gone(h)
        BY <2>1, OnlyToReads, StoreReads
    <2>3. QED
        BY <2>2 DEF Store!Next
<1>7. ASSUME NEW h \in Handles, NEW n \in Sizes, NEW v \in Values, Appears(heap, heap', h, n, v)
      PROVE  Store!Next
    <2>1. n \in 1 .. Capacity
        BY SizeIs
    <2>2. PhaseOf(heap)[h] = "none" /\ OnlyTo(heap, heap', h, "live", v)
        BY <1>2, <1>7, <2>1, AppearsSeen
    <2>3. Store!Make(h, v)
        BY <2>2, OnlyToReads, StoreReads
    <2>4. QED
        BY <2>3 DEF Store!Next
<1>8. ASSUME NEW i \in DOMAIN scopes, NEW v \in Values, WriteThrough(i, v), View(heap') = View(heap)
      PROVE  Store!Next
    <2> DEFINE h == scopes[i].h
    <2>1. HeapOK(heap, Constructing(frames)) /\ CallsOK(View(heap), ptr, scopes, frames)
          /\ OwnersOK(View(heap), ptr, scopes, frames)
        BY DEF IInv
    <2>2. h \in Handles /\ View(heap)[h].state = "live"
        BY <2>1, OwnedLives
    <2>3. scopes[i].ptr = View(heap)[h].offset
        BY <2>1 DEF CallsOK
    <2>4. Size(heap, h) = View(heap)[h].size
        BY <2>1, <2>2, LiveIs
    <2>5. heap'.mem = Filled(heap.mem, View(heap)[h].offset, View(heap)[h].size, v)
        <3>1. heap' = [heap EXCEPT !.mem
                  = Filled(heap.mem, View(heap)[h].offset, View(heap)[h].size, v)]
            BY <1>8, <2>3, <2>4 DEF WriteThrough
        <3>2. "mem" \in DOMAIN heap
            BY <2>1 DEF HeapOK, Heap
        <3>3. QED
            BY <3>1, <3>2
    <2> HIDE DEF h
    <2>6. PhaseOf(heap)[h] = "live" /\ OnlyTo(heap, heap', h, "live", v)
        BY <1>2, <1>8, <2>2, <2>5, WrittenSeen
    <2>7. Store!Write(h, v)
        BY <2>2, <2>6, OnlyToReads, StoreReads
    <2>8. QED
        BY <2>2, <2>7 DEF Store!Next
<1>9. CASE Moved(View(heap), View(heap')) /\ SameBytes(heap, heap')
    BY <1>2, <1>3, <1>9, MovedAlike
<1>10. QED
    BY <1>1, <1>4, <1>5, <1>6, <1>7, <1>8, <1>9 DEF Happens

\* The heap starts as an empty store.
LEMMA StoreInit == Init => Store!Init
<1> SUFFICES ASSUME Init PROVE Store!Init
    OBVIOUS
<1>1. heap = FreshHeap /\ HeapOK(heap, {}) /\ \A h \in Handles : View(heap)[h] = FreeSlot
    BY FreshHeapIs DEF Init
<1>2. \A h \in Handles : PhaseOf(heap)[h] = "none" /\ ValueOf(heap)[h] = Junk
    BY <1>1, PayloadIs, FreeSlotTyped
<1>3. PhaseOf(heap) = [h \in Handles |-> "none"] /\ ValueOf(heap) = [h \in Handles |-> Junk]
    BY <1>2 DEF PhaseOf, ValueOf
<1>4. QED
    BY <1>3, StoreReads

\* ImplementsObjectStore: seen through handles, the heap is a store in which an
\* object is made, written, released and destroyed once, and keeps its contents
\* while tables come and go and compact moves it.
THEOREM KeepsObjects == Spec => ImplementsObjectStore
<1>1. Spec => Store!Init /\ [][Store!Next]_(Store!vars)
    BY StoreInit, StoreStep, InvariantHolds, PTL DEF Spec
<1>2. QED
    BY <1>1 DEF ImplementsObjectStore, Store!Spec

-----------------------------------------------------------------------------
(***************************************************************************)
(* A make that fails.                                                      *)
(***************************************************************************)
\* Two heaps that differ in their bytes only.
SameBookkeeping(hp, hq) == [hq EXCEPT !.mem = hp.mem] = hp

\* What FailedMakeLeavesNothing compares.
LEMMA SameIsSame ==
    ASSUME NEW hp, hp \in Heap, NEW hq, (\E m : hq = [hp EXCEPT !.mem = m])
    PROVE  SameBookkeeping(hp, hq)
<1>1. PICK m : hq = [hp EXCEPT !.mem = m]
    OBVIOUS
<1>2. [hq EXCEPT !.mem = hp.mem] = hp
    BY <1>1 DEF Heap
<1>3. QED
    BY <1>2 DEF SameBookkeeping

\* A heap compared with itself.
LEMMA SameItself ==
    ASSUME NEW hp, hp \in Heap PROVE SameBookkeeping(hp, hp)
BY DEF SameBookkeeping, Heap

\* A longer or a shorter stack is another one.
LEMMA StackChanges ==
    ASSUME NEW s \in Seq(FrameKind), NEW t
    PROVE  /\ \A f \in FrameKind : t = Append(s, f) => Len(t) = Len(s) + 1 /\ t # s
           /\ s # << >> /\ t = SubSeq(s, 1, Len(s) - 1) => t # s
<1>1. Len(s) \in Nat
    OBVIOUS
<1>2. ASSUME NEW f \in FrameKind, t = Append(s, f) PROVE Len(t) = Len(s) + 1 /\ t # s
    BY <1>1, <1>2, Pushes
<1>3. ASSUME s # << >>, t = SubSeq(s, 1, Len(s) - 1) PROVE t # s
    <2>1. Len(t) = Len(s) - 1
        BY <1>3, Pops, ZenonT(60)
    <2>2. QED
        BY <1>1, <2>1
<1>4. QED
    BY <1>2, <1>3

\* A release that drops nothing leaves the stack as it was.
LEMMA ReleaseWithoutCall ==
    ASSUME NEW hp, NEW p, NEW fs \in Seq(FrameKind), NEW h \in Held, NEW rest \in Rest,
           Release(hp, p, fs, h, rest), frames' = fs
    PROVE  /\ heap' = IF h = Null THEN hp ELSE WithRefs(hp, h, SlotOf(hp, h).refs - 1)
           /\ ptr' = Finished(p, rest)
<1>1. CASE Dropped(hp, p, fs, h, rest, heap', ptr', frames')
    <2> DEFINE f == [kind |-> "body", h |-> h, rest |-> rest]
    <2>1. h \in Handles
        BY <1>1 DEF Dropped, Held
    <2>2. f \in FrameKind /\ frames' = Append(fs, f)
        BY <1>1, <2>1 DEF Dropped, FrameKind, ReleaseFrame
    <2> HIDE DEF f
    <2>3. QED
        BY <2>2, StackChanges
<1>2. CASE LetGo(hp, p, fs, h, rest, heap', ptr', frames')
    BY <1>2 DEF LetGo
<1>3. QED
    BY <1>1, <1>2, ReleaseIs

\* A reference taken and given back leaves the descriptor as it was.
LEMMA CountedTwice ==
    ASSUME NEW hp, NEW C, HeapOK(hp, C), NEW x \in Handles, View(hp)[x].state = "live",
           NEW hq, hq = Retained(hp, x)
    PROVE  WithRefs(hq, x, SlotOf(hq, x).refs - 1) = hp
<1> DEFINE w == View(hp)
           u == w[x]
           r == u.refs
           s == [u EXCEPT !.refs = r + 1]
<1>1. HeapRec(hp) /\ u \in Slot /\ u.state = "live" /\ SlotOf(hp, x) = u /\ r \in Nat /\ x # Null
    BY HeapGives, LiveIs, NullIsNone
<1>2. Present(hp.tables, x)
    BY <1>1, ViewIs DEF HeapRec
<1>3. hq = WithSlot(hp, x, s)
    BY <1>1 DEF Retained, WithRefs
<1>4. s \in Slot /\ s.state = "live" /\ s.refs = r + 1
    <2> DEFINE m == r + 1
    <2>1. m \in Nat
        BY <1>1
    <2> HIDE DEF m, u
    <2>2. [u EXCEPT !.refs = m] \in Slot /\ [u EXCEPT !.refs = m].state = "live"
              /\ [u EXCEPT !.refs = m].refs = m
        BY <1>1, <2>1 DEF Slot
    <2>3. QED
        BY <2>2 DEF m
<1>5. HeapOK(hq, C) /\ View(hq)[x].state = "live" /\ View(hq)[x].refs = r + 1
    <2>1. /\ HeapOK(hq, C) /\ SameObjects(View(hp), View(hq))
          /\ \A g \in Handles : View(hq)[g].refs = View(hp)[g].refs + Ind(x, g)
        BY RetainedIs DEF Held
    <2>2. QED
        BY <1>1, <2>1 DEF SameObjects, Ind
<1>6. SlotOf(hq, x) = s
    <2>1. SlotOf(hq, x) = View(hq)[x]
        BY <1>5, LiveIs
    <2>2. View(hq) = [View(hp) EXCEPT ![x] = s]
        <3> HIDE DEF s
        <3>1. s.state # "free"
            BY <1>4
        <3>2. QED
            BY <1>1, <1>2, <1>3, <1>4, <3>1, WithSlotIs
    <2>3. View(hp) \in [Handles -> Slot]
        BY HeapGives
    <2>4. QED
        BY <2>1, <2>2, <2>3
<1>7. [s EXCEPT !.refs = s.refs - 1] = u
    <2> DEFINE m == r + 1
    <2>1. m - 1 = r
        BY <1>1
    <2>2. s = [u EXCEPT !.refs = m] /\ s.refs = m
        BY <1>4
    <2> HIDE DEF m, s
    <2>3. [s EXCEPT !.refs = s.refs - 1] = [u EXCEPT !.refs = r]
        BY <1>1, <2>1, <2>2 DEF Slot
    <2>4. [u EXCEPT !.refs = r] = u
        BY <1>1 DEF Slot
    <2>5. QED
        BY <2>3, <2>4
<1>8. WithRefs(hq, x, SlotOf(hq, x).refs - 1) = WithSlot(WithSlot(hp, x, s), x, u)
    BY <1>3, <1>6, <1>7 DEF WithRefs
<1>9. QED
    <2> HIDE DEF s
    <2>1. WithSlot(WithSlot(hp, x, s), x, u) = WithSlot(hp, x, u)
        BY <1>1, <1>2, <1>4, WithSlotTwice
    <2>2. WithSlot(hp, x, u) = hp
        BY <1>1, <1>2, WithSlotSame
    <2>3. QED
        BY <1>8, <2>1, <2>2

\* What a step finds the rest of the state to be.
AsBefore == ptr' = ptr /\ scopes' = scopes /\ frames' = frames

\* A copy assignment that leaves the places as they were leaves the heap so.
LEMMA CopyAssignSame ==
    ASSUME IInv, AsBefore, NEW l \in Places, NEW q \in Places, CopyAssign(l, q)
    PROVE  heap' = heap
<1> DEFINE x == ptr[q]
           h == ptr[l]
           p == [ptr EXCEPT ![l] = Null]
           rest == [to |-> l, incoming |-> x, from |-> Null]
           hp == Retained(heap, x)
<1>1. HeapOK(heap, Constructing(frames)) /\ CallsOK(View(heap), ptr, scopes, frames)
      /\ OwnersOK(View(heap), ptr, scopes, frames)
    BY DEF IInv
<1>2. ptr \in [Places -> Held] /\ frames \in Seq(FrameKind)
    BY <1>1 DEF CallsOK, Held, FrameKind
<1>3. x \in Held /\ h \in Held /\ l # Null /\ rest \in Rest /\ rest.to = l
          /\ rest.from = Null /\ rest.incoming = x
    <2>1. x \in Held /\ h \in Held /\ l # Null
        BY <1>2, PlacesAreSome DEF PlaceIsSome
    <2> HIDE DEF x, h
    <2>2. rest \in Rest
        BY <2>1 DEF Rest, Held
    <2>3. QED
        BY <2>1, <2>2
<1>4. Release(hp, p, frames, h, rest) /\ frames' = frames
    BY DEF CopyAssign, AsBefore
<1> HIDE DEF rest, hp, p
<1>5. heap' = (IF h = Null THEN hp ELSE WithRefs(hp, h, SlotOf(hp, h).refs - 1))
          /\ ptr' = Finished(p, rest)
    BY <1>2, <1>3, <1>4, ReleaseWithoutCall
<1>6. x = h
    <2>1. ptr' = [p EXCEPT ![l] = x]
        BY <1>3, <1>5 DEF Finished
    <2>2. p \in [Places -> Held]
        BY <1>2 DEF p, Held
    <2>3. ptr'[l] = x
        BY <2>1, <2>2
    <2>4. QED
        BY <2>3 DEF AsBefore
<1>7. CASE x = Null
    BY <1>5, <1>6, <1>7 DEF hp, Retained
<1>8. CASE x # Null
    <2>1. x \in Handles /\ View(heap)[x].state = "live"
        BY <1>1, <1>8, OwnedLives
    <2>2. WithRefs(hp, x, SlotOf(hp, x).refs - 1) = heap
        <3>1. hp = Retained(heap, x)
            BY DEF hp
        <3> HIDE DEF x
        <3>2. QED
            BY <1>1, <2>1, <3>1, CountedTwice
    <2>3. QED
        BY <1>5, <1>6, <1>8, <2>2
<1>9. QED
    BY <1>7, <1>8

\* So does a move assignment.
LEMMA MoveAssignSame ==
    ASSUME IInv, AsBefore, NEW l \in Places, NEW q \in Places, MoveAssign(l, q)
    PROVE  heap' = heap
<1> DEFINE h == ptr[l]
           p == [ptr EXCEPT ![l] = Null]
           rest == [to |-> l, incoming |-> Null, from |-> q]
<1>1. ptr \in [Places -> Held] /\ frames \in Seq(FrameKind)
    BY DEF IInv, CallsOK, Held, FrameKind
<1>2. h \in Held /\ l # Null /\ q # Null /\ rest \in Rest /\ rest.to = l /\ rest.from = q
    BY <1>1, PlacesAreSome DEF PlaceIsSome, Rest
<1>3. Release(heap, p, frames, h, rest) /\ frames' = frames /\ l # q
    BY DEF MoveAssign, AsBefore
<1> HIDE DEF rest, p
<1>4. heap' = (IF h = Null THEN heap ELSE WithRefs(heap, h, SlotOf(heap, h).refs - 1))
          /\ ptr' = Finished(p, rest)
    BY <1>1, <1>2, <1>3, ReleaseWithoutCall
<1>5. ptr' = [p EXCEPT ![l] = p[q], ![q] = Null]
    BY <1>2, <1>4 DEF Finished
<1>6. p \in [Places -> Held] /\ p[q] = ptr[q]
    BY <1>1, <1>3 DEF p, Held
<1>7. ptr'[q] = Null /\ ptr'[l] = ptr[q]
    BY <1>3, <1>5, <1>6
<1>8. h = Null
    BY <1>7 DEF AsBefore
<1>9. QED
    BY <1>4, <1>8

\* The other calls of a program always change something else.
LEMMA OthersChange ==
    ASSUME IInv, AsBefore
    PROVE  /\ \A l \in Places : ~ Reset(l) /\ ~ Unwrap(l)
           /\ ~ Leave
           /\ \A policy \in Policies, b \in Budgets : ~ Compact(policy, b)
<1>1. ptr \in [Places -> Held] /\ frames \in Seq(FrameKind) /\ scopes \in Seq(Scope)
    BY DEF IInv, CallsOK, Held, FrameKind
<1>2. ASSUME NEW l \in Places, Reset(l) PROVE FALSE
    <2> DEFINE h == ptr[l]
               p == [ptr EXCEPT ![l] = Null]
    <2>1. h \in Held /\ h # Null /\ Release(heap, p, frames, h, Nothing) /\ frames' = frames
        BY <1>1, <1>2 DEF Reset, AsBefore
    <2>2. p[l] = Null
        BY <1>1
    <2> HIDE DEF p, h
    <2>3. ptr' = Finished(p, Nothing)
        BY <1>1, <2>1, ReleaseWithoutCall, NothingIs
    <2>4. ptr' = p
        BY <2>3, NothingIs DEF Finished
    <2>5. QED
        BY <2>1, <2>2, <2>4 DEF AsBefore, h
<1>3. ASSUME NEW l \in Places, Unwrap(l) PROVE FALSE
    <2>1. Len(scopes') = Len(scopes) + 1 /\ Len(scopes) \in Nat
        BY <1>1, <1>3 DEF Unwrap
    <2>2. QED
        BY <2>1 DEF AsBefore
<1>4. ASSUME Leave PROVE FALSE
    <2>1. scopes # << >> /\ scopes' = SubSeq(scopes, 1, Len(scopes) - 1)
        BY <1>4 DEF Leave, ScopeOfThisFrame
    <2>2. Len(scopes') = Len(scopes) - 1
        BY <1>1, <2>1, Pops, ZenonT(60)
    <2>3. Len(scopes) \in Nat
        BY <1>1
    <2>4. QED
        BY <2>2, <2>3 DEF AsBefore
<1>5. ASSUME NEW policy \in Policies, NEW b \in Budgets, Compact(policy, b) PROVE FALSE
    <2>1. \E f : frames' = Append(frames, f)
        BY <1>5 DEF Compact
    <2>2. Len(frames') = Len(frames) + 1 /\ Len(frames) \in Nat
        BY <1>1, <2>1
    <2>3. QED
        BY <2>2 DEF AsBefore
<1>6. QED
    BY <1>2, <1>3, <1>4, <1>5

\* The end of a body starts another call or the members.
LEMMA BodyEndsChanges ==
    ASSUME IInv, AsBefore, BodyEnds
    PROVE  FALSE
<1> DEFINE n == Len(frames)
           ft == [frames EXCEPT ![n].kind = "members"]
           h == ptr[Top.h]
           p == [ptr EXCEPT ![Top.h] = Null]
<1>1. ptr \in [Places -> Held] /\ frames \in Seq(FrameKind)
    BY DEF IInv, CallsOK, Held, FrameKind
<1>2. frames # << >> /\ Top = frames[n] /\ frames[n].kind = "body"
      /\ Release(heap, p, ft, h, Nothing)
    BY DEF BodyEnds, InFrame, Top
<1>3. n \in Nat /\ n \in DOMAIN frames /\ n >= 1 /\ frames[n] \in FrameKind
    BY <1>1, <1>2
<1>4. frames[n] \in ReleaseFrame /\ frames[n].h \in Handles
    BY <1>2, <1>3, FrameFacts DEF Dying
<1>5. [frames[n] EXCEPT !.kind = "members"] \in FrameKind
    BY <1>4 DEF ReleaseFrame, FrameKind
<1>6. ft \in Seq(FrameKind) /\ Len(ft) = n /\ ft[n].kind = "members"
    <2>1. ft = [frames EXCEPT ![n] = [frames[n] EXCEPT !.kind = "members"]]
        OBVIOUS
    <2>2. ft[n] = [frames[n] EXCEPT !.kind = "members"] /\ ft \in Seq(FrameKind) /\ Len(ft) = n
        BY <1>1, <1>3, <1>5, <2>1
    <2>3. QED
        BY <1>4, <2>2 DEF ReleaseFrame
<1>7. h \in Held
    BY <1>1, <1>2, <1>4 DEF Places
<1> HIDE DEF ft, n, h, p
<1>8. CASE Dropped(heap, p, ft, h, Nothing, heap', ptr', frames')
    <2> DEFINE f == [kind |-> "body", h |-> h, rest |-> Nothing]
    <2>1. f \in FrameKind /\ frames' = Append(ft, f)
        BY <1>7, <1>8, NothingIs DEF Dropped, Held, FrameKind, ReleaseFrame
    <2> HIDE DEF f
    <2>2. Len(frames') = n + 1
        BY <1>6, <2>1, Pushes
    <2>3. QED
        BY <1>3, <2>2 DEF AsBefore, n
<1>9. CASE LetGo(heap, p, ft, h, Nothing, heap', ptr', frames')
    BY <1>2, <1>6, <1>9 DEF LetGo, AsBefore
<1>10. QED
    BY <1>2, <1>8, <1>9, ReleaseIs

\* Every step of the heap itself changes the stack.
LEMMA SystemChanges ==
    ASSUME IInv, AsBefore
    PROVE  ~ System
<1>1. frames \in Seq(FrameKind)
    BY DEF IInv, CallsOK, FrameKind
<1>2. ASSUME frames # << >>, frames' = Below PROVE FALSE
    BY <1>1, <1>2, StackChanges DEF AsBefore, Below
<1>3. ASSUME ConstructorReturns \/ ReleaseEnds \/ CompactReturns PROVE FALSE
    BY <1>2, <1>3 DEF ConstructorReturns, ReleaseEnds, CompactReturns, PassOver, InFrame
<1>4. ASSUME InFrame({"evacuate", "shift"}), NEW f, frames' = Append(Below, f) PROVE f = Top
    <2>0. frames # << >> /\ Len(frames) \in Nat
        BY <1>1, <1>4 DEF InFrame
    <2> DEFINE b == Below
               s == frames
               S == FrameKind
    <2>0a. b = SubSeq(s, 1, Len(s) - 1) /\ s \in Seq(S) /\ s # << >>
        BY <1>1, <2>0 DEF Below
    <2> HIDE DEF b, s, S
    <2>0c. b \in Seq(S)
        BY ONLY <2>0a, Pops
    <2>0d. Len(b) = Len(s) - 1
        BY ONLY <2>0a, Pops, ZenonT(60)
    <2>0b. b \in Seq(S) /\ Len(b) = Len(s) - 1
        BY <2>0c, <2>0d
    <2>1. Below \in Seq(FrameKind) /\ Len(Below) = Len(frames) - 1 /\ Len(frames) \in Nat
        BY <2>0, <2>0b DEF b, s, S
    <2>2. frames'[Len(Below) + 1] = f
        BY <1>4, <2>1
    <2>3. Len(Below) + 1 = Len(frames)
        BY <2>1
    <2>4. QED
        BY <2>2, <2>3 DEF AsBefore, Top
<1>5. ASSUME InFrame({"evacuate", "shift"}) PROVE Top \in CompactFrame
    BY <1>5, TopIs
<1>6. ASSUME EvacuateOnce \/ ShiftOnce PROVE FALSE
    <2>1. InFrame({"evacuate", "shift"}) /\ Top.left > 0
        BY <1>6 DEF EvacuateOnce, ShiftOnce, Attempting, InFrame
    <2>2. PICK cost : frames' = Append(Below, [Top EXCEPT !.left = @ - 1, !.progress = TRUE,
                                                          !.remaining = @ - cost])
        BY <1>6 DEF EvacuateOnce, ShiftOnce, Moves
    <2> DEFINE g == [Top EXCEPT !.left = Top.left - 1, !.progress = TRUE,
            !.remaining = Top.remaining - cost]
    <2>2a. frames' = Append(Below, g)
        BY <2>2
    <2>2b. Top \in CompactFrame => g.left = Top.left - 1
        BY DEF CompactFrame
    <2> HIDE DEF g
    <2>3. g = Top
        BY <1>4, <2>1, <2>2a
    <2>4. Top.left = Top.left - 1 /\ Top.left \in Nat
        BY <1>5, <2>1, <2>2b, <2>3 DEF CompactFrame
    <2>5. QED
        BY <2>4
<1>7. ASSUME ShiftsBegin \/ RoundBegins PROVE FALSE
    <2>1. InFrame({"evacuate", "shift"}) /\ Top \in CompactFrame
        BY <1>5, <1>7 DEF ShiftsBegin, RoundBegins, PassOver
    <2>2. CASE ShiftsBegin
        <3>1. Top.kind = "evacuate" /\ [Top EXCEPT !.kind = "shift", !.left = ShiftAttempts] = Top
            BY <1>4, <2>1, <2>2 DEF ShiftsBegin
        <3>2. QED
            BY <2>1, <3>1 DEF CompactFrame
    <2>3. CASE RoundBegins
        <3>1. Top.kind = "shift"
              /\ [Top EXCEPT !.kind = "evacuate", !.progress = FALSE,
                     !.left = EvacuationAttempts] = Top
            BY <1>4, <2>1, <2>3 DEF RoundBegins
        <3>2. QED
            BY <2>1, <3>1 DEF CompactFrame
    <2>4. QED
        BY <1>7, <2>2, <2>3
<1>8. QED
    BY <1>3, <1>6, <1>7 DEF System

\* FailedMakeLeavesNothing: a make that finds no extent has taken a slot, and
\* perhaps pushed a table; when it returns null, tables, chain and counters are as
\* before the call, and only bytes no object holds differ.
THEOREM FailedMakeLeavesNothingHolds == Spec => FailedMakeLeavesNothing
<1>1. ASSUME IInv, [Next]_vars, UNCHANGED <<ptr, scopes, frames>>
      PROVE  [heap' EXCEPT !.mem = heap.mem] = heap
    <2>0. AsBefore /\ heap \in Heap
        BY <1>1 DEF AsBefore, IInv, HeapOK
    <2>1. ASSUME heap' = heap PROVE SameBookkeeping(heap, heap')
        BY <2>0, <2>1, SameItself
    <2>2. ASSUME UNCHANGED vars PROVE SameBookkeeping(heap, heap')
        BY <2>1, <2>2 DEF vars
    <2>3. ASSUME NEW l \in Places, NEW q \in Places, CopyAssign(l, q) \/ MoveAssign(l, q)
          PROVE  SameBookkeeping(heap, heap')
        BY <1>1, <2>0, <2>1, <2>3, CopyAssignSame, MoveAssignSame
    <2>4. ASSUME NEW i \in DOMAIN scopes, NEW v \in Values, WriteThrough(i, v)
          PROVE  SameBookkeeping(heap, heap')
        <3>1. \E m : heap' = [heap EXCEPT !.mem = m]
            BY <2>4 DEF WriteThrough
        <3>2. QED
            BY <2>0, <3>1, SameIsSame
    <2>5. ASSUME NEW n \in Sizes, MakeFails(n) PROVE SameBookkeeping(heap, heap')
        <3>1. \E m : heap' = [heap EXCEPT !.mem = m]
            BY <1>1, <2>5, MakeFailsKeeps
        <3>2. QED
            BY <2>0, <3>1, SameIsSame
    <2>6. ASSUME NEW p \in Ptrs, NEW n \in Sizes, NEW v \in Values, Make(p, n, v) PROVE FALSE
        BY <1>1, <2>0, <2>6, MakeKeeps DEF AsBefore
    <2>7. ASSUME Program PROVE SameBookkeeping(heap, heap')
        BY <1>1, <2>0, <2>3, <2>4, <2>5, <2>6, <2>7, OthersChange, BodyEndsChanges DEF Program
    <2>8. ~ System
        BY <1>1, <2>0, SystemChanges
    <2>9. SameBookkeeping(heap, heap')
        BY <1>1, <2>2, <2>7, <2>8 DEF Next
    <2>10. QED
        BY <2>9 DEF SameBookkeeping
<1>2. IInv /\ [Next]_vars =>
        [ UNCHANGED <<ptr, scopes, frames>> => [heap' EXCEPT !.mem = heap.mem] = heap ]_vars
    BY <1>1
<1>3. QED
    BY <1>2, InvariantHolds, PTL DEF Spec, FailedMakeLeavesNothing

-----------------------------------------------------------------------------
(***************************************************************************)
(* The moves of a compaction.                                              *)
(***************************************************************************)
\* A move out of a state of the invariant raises objects and is paid for.
LEMMA MovesRaise ==
    ASSUME IInv, EvacuateOnce \/ ShiftOnce
    PROVE  \E cost \in Nat :
              /\ cost <= Top.remaining /\ Moves(heap', cost)
              /\ Raises(heap, heap') /\ BytesMoved(heap, heap') = cost
<1> DEFINE c == Chain(heap)
           hq == heap'
           C == Constructing(Below)
<1>1. InFrame({"evacuate", "shift"})
    BY DEF EvacuateOnce, ShiftOnce, Attempting, InFrame
<1>2. HeapOK(heap, C)
    BY <1>1, TopIs DEF Sound
<1>3. CASE EvacuateOnce
    <2>1. PICK i \in EvacuationExtent(heap, c, Top.remaining) :
              /\ i \in 0 .. Len(c) - 1
              /\ hq = Evacuated(heap, c, i)
              /\ MovesTo(hq, Size(heap, c[Len(c)]))
        BY <1>3, EvacuateOnceMoves
    <2> DEFINE t == c[Len(c)]
    <2>2. Span(heap, c, i) >= ReservedSize(heap, t)
        BY <2>1 DEF EvacuationExtent
    <2>3. t = c[Len(c)] /\ c = Chain(heap)
        OBVIOUS
    <2> HIDE DEF t, c, C, hq
    <2>4. Raises(heap, hq) /\ BytesMoved(heap, hq) = Size(heap, t)
        BY <1>2, <2>1, <2>2, <2>3, EvacuationRaises
    <2>5. MovesTo(hq, Size(heap, t))
        BY <2>1, <2>3
    <2>6. QED
        BY <2>4, <2>5 DEF MovesTo, hq
<1>4. CASE ShiftOnce
    <2>1. PICK i \in ShiftExtent(heap, c, Top.remaining) :
              /\ i \in 0 .. Len(c) - 1
              /\ hq = Shifted(heap, c, i)
              /\ MovesTo(hq, MovementCost(heap, c, i + 1))
        BY <1>4, ShiftOnceMoves
    <2>2. Span(heap, c, i) # 0
        BY <2>1 DEF ShiftExtent
    <2>3. c = Chain(heap)
        OBVIOUS
    <2> HIDE DEF c, C, hq
    <2>4. Raises(heap, hq) /\ BytesMoved(heap, hq) = MovementCost(heap, c, i + 1)
        BY <1>2, <2>1, <2>2, <2>3, ShiftRaises
    <2>5. QED
        BY <2>1, <2>4 DEF MovesTo, hq
<1>5. QED
    BY <1>3, <1>4

\* MovesMakeProgress: evacuate_once_ and shift_once_ lower no object, enlarge the
\* bottom span, and move exactly the bytes they take from the budget, which they
\* never overdraw (SPEC.md 44 and 45).
THEOREM MovesMakeProgressHolds == Spec => MovesMakeProgress
<1>1. ASSUME IInv, EvacuateOnce \/ ShiftOnce
      PROVE  /\ \A h \in Used(heap) : Base(heap', h) >= Base(heap, h)
             /\ BottomFreeSpan(heap') > BottomFreeSpan(heap)
             /\ frames'[Len(frames)].remaining = Top.remaining - MovedBytes
             /\ Top.remaining >= MovedBytes
    <2> DEFINE hq == heap'
               w == View(heap)
               w2 == View(hq)
    <2>1. InFrame({"evacuate", "shift"})
        BY <1>1 DEF EvacuateOnce, ShiftOnce, Attempting, InFrame
    <2>2. PICK cost \in Nat : /\ cost <= Top.remaining /\ Moves(heap', cost)
                              /\ Raises(heap, heap') /\ BytesMoved(heap, heap') = cost
        BY <1>1, MovesRaise
    <2>3. MovedBytes = cost
        BY <2>2 DEF MovedBytes, BytesMoved
    <2>4. Top.remaining \in Nat /\ Top.remaining >= MovedBytes
        <3>1. Top.remaining \in Nat
            BY <1>1, <2>1, TopIs DEF CompactFrame
        <3>2. QED
            BY <2>2, <2>3, <3>1
    <2>5. \A h \in Used(heap) : Base(heap', h) >= Base(heap, h)
        <3>1. SUFFICES ASSUME NEW h \in Used(heap) PROVE Base(hq, h) >= Base(heap, h)
            OBVIOUS
        <3>2. h \in Handles /\ IsUsed(heap, h)
            BY DEF Used
        <3>3. HeapOK(heap, Constructing(frames)) /\ HeapOK(hq, Constructing(frames'))
                  /\ Moved(w, w2)
            BY <1>1, EvacuateOnceKeeps DEF IInv, Sound
        <3>4. Raises(heap, hq)
            BY <2>2
        <3> HIDE DEF hq
        <3>5. w[h].state # "free" /\ Base(heap, h) = w[h].offset
            BY <3>2, <3>3, UsedAt
        <3>6. w2[h].state # "free"
            BY <3>2, <3>3, <3>5 DEF Moved
        <3>7. IsUsed(hq, h)
            BY <3>2, <3>3, <3>6, UsedAt
        <3>8. Base(hq, h) = w2[h].offset
            BY <3>2, <3>3, <3>7, UsedAt
        <3>9. QED
            BY <3>2, <3>4, <3>5, <3>8 DEF Raises
    <2>6. frames'[Len(frames)].remaining = Top.remaining - MovedBytes
        <3> DEFINE f == [Top EXCEPT !.left = @ - 1, !.progress = TRUE, !.remaining = @ - cost]
                   S == FrameKind
                   s == frames
                   b == Below
        <3>1. frames' = Append(Below, f) /\ Top \in CompactFrame
            BY <1>1, <2>1, <2>2, TopIs DEF Moves
        <3>2. f.remaining = Top.remaining - cost
            BY <3>1 DEF CompactFrame
        <3>3. s \in Seq(S) /\ s # << >> /\ b = SubSeq(s, 1, Len(s) - 1) /\ Len(s) \in Nat
            BY <1>1, <2>1, TopIs DEF IInv, CallsOK, FrameKind
        <3> HIDE DEF f, s, S, b
        <3>4. b \in Seq(S)
            BY ONLY <3>3, Pops
        <3>5. Len(b) = Len(s) - 1
            BY ONLY <3>3, Pops, ZenonT(60)
        <3>6. Append(b, f)[Len(b) + 1] = f
            BY <3>4
        <3>7. Len(b) + 1 = Len(s)
            BY <3>3, <3>5
        <3>8. frames'[Len(s)] = f
            BY <3>1, <3>6, <3>7 DEF b
        <3>9. QED
            BY <2>3, <3>2, <3>8 DEF s
    <2>7. QED
        BY <2>2, <2>4, <2>5, <2>6 DEF Raises
<1>2. IInv /\ [Next]_vars =>
        [ (EvacuateOnce \/ ShiftOnce) =>
        /\ \A h \in Used(heap) : Base(heap', h) >= Base(heap, h)
        /\ BottomFreeSpan(heap') > BottomFreeSpan(heap)
        /\ frames'[Len(frames)].remaining = Top.remaining - MovedBytes
        /\ Top.remaining >= MovedBytes ]_vars
    BY <1>1
<1>3. QED
    BY <1>2, InvariantHolds, PTL DEF Spec, MovesMakeProgress
=============================================================================
