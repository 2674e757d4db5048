---------------------------- MODULE CacheProofs ----------------------------
(***************************************************************************)
(* Proofs about the Cache, for every set of layers, coordinates, values,   *)
(* fill arguments and areas, and for every capacity.                       *)
(***************************************************************************)
EXTENDS Cache, CacheSlotsProofs, FiniteSetTheorems

\* The type invariant is inductive only together with consistency: that a
\* scan returns a slot at all, and one of the right origin, is part of both.
IInv == TypeOK /\ SlotsConsistent

USE DEF SlotArrays

LEMMA InitIInv == Init => IInv
BY EmptySlotsConsistent DEF Init, IInv, TypeOK, SlotsConsistent, Calls

LEMMA FillKeepsIInv ==
    ASSUME IInv, NEW l \in Layers, NEW chunk \in Chunks, NEW values \in Spans,
           Fill(l, chunk, values)
    PROVE  IInv'
<1> DEFINE ok == CanFill(slots, l, chunk, values)
<1>1. slots \in SlotArrays /\ Consistent(slots)
    BY DEF IInv, TypeOK, SlotsConsistent
<1>2. ok \in BOOLEAN
    BY DEF CanFill, Accepts, MayOverwrite
<1>3. reply' \in [call : Calls, ok : BOOLEAN]
    BY <1>2 DEF Fill, Answer, Calls
<1>4. CASE ok
    <2>1. chunk.origin \in AlignedOrigins /\ values \in Plane
        BY <1>4, SpansAssumption DEF CanFill, Accepts
    <2>2. HasSlot(slots, chunk.origin) \/ FreeSlots(slots) # {}
        BY <1>4 DEF CanFill
    <2>3. slots' = Filled(slots, l, chunk.origin, values)
        BY <1>4 DEF Fill
    <2>4. QED
        BY <1>1, <1>3, <2>1, <2>2, <2>3, FilledConsistent
           DEF IInv, TypeOK, SlotsConsistent
<1>5. CASE ~ ok
    <2>1. slots' = slots
        BY <1>5 DEF Fill
    <2>2. QED
        BY <1>1, <1>3, <2>1 DEF IInv, TypeOK, SlotsConsistent
<1>6. QED
    BY <1>4, <1>5

LEMMA SetKeepsIInv ==
    ASSUME IInv, NEW l \in Layers, NEW o, NEW c \in Cells, NEW v \in Values,
           Set(l, o, c, v)
    PROVE  IInv'
<1>1. slots \in SlotArrays /\ Consistent(slots) /\ Resident(slots, l, o)
    BY DEF IInv, TypeOK, SlotsConsistent, Set
<1>2. slots' = WithCell(slots, l, o, c, v) /\ reply' = [call |-> "set", ok |-> TRUE]
    BY DEF Set, Answer
<1>3. slots' \in SlotArrays /\ Consistent(slots')
    BY <1>1, <1>2, WithCellConsistent
<1>4. QED
    BY <1>2, <1>3 DEF IInv, TypeOK, SlotsConsistent, Calls

LEMMA MarkCleanKeepsIInv ==
    ASSUME IInv, NEW l \in Layers, NEW o, MarkClean(l, o)
    PROVE  IInv'
<1>1. slots \in SlotArrays /\ Consistent(slots) /\ HasSlot(slots, o)
    BY DEF IInv, TypeOK, SlotsConsistent, MarkClean, IsDirty, Resident
<1>2. slots' = Cleaned(slots, l, o) /\ reply' = [call |-> "mark_clean", ok |-> TRUE]
    BY DEF MarkClean, Answer
<1>3. slots' \in SlotArrays /\ Consistent(slots')
    BY <1>1, <1>2, CleanedConsistent
<1>4. QED
    BY <1>2, <1>3 DEF IInv, TypeOK, SlotsConsistent, Calls

LEMMA InvalidateKeepsIInv ==
    ASSUME IInv, NEW area, Invalidate(area)
    PROVE  IInv'
<1>1. slots \in SlotArrays /\ Consistent(slots)
    BY DEF IInv, TypeOK, SlotsConsistent
<1>2. slots' = Discarded(slots, area) \/ slots' = slots
    BY DEF Invalidate
<1>3. slots' \in SlotArrays /\ Consistent(slots')
    BY <1>1, <1>2, DiscardedConsistent
<1>4. reply' \in [call : Calls, ok : BOOLEAN]
    BY DEF Invalidate, Answer, Calls, CanDiscard
<1>5. QED
    BY <1>3, <1>4 DEF IInv, TypeOK, SlotsConsistent

LEMMA InvalidateAllKeepsIInv ==
    ASSUME IInv, InvalidateAll
    PROVE  IInv'
<1>1. slots' = EmptySlots \/ slots' = slots
    BY DEF InvalidateAll
<1>2. slots' \in SlotArrays /\ Consistent(slots')
    BY <1>1, EmptySlotsConsistent DEF IInv, TypeOK, SlotsConsistent
<1>3. reply' \in [call : Calls, ok : BOOLEAN]
    BY DEF InvalidateAll, Answer, Calls, HasDirty
<1>4. QED
    BY <1>2, <1>3 DEF IInv, TypeOK, SlotsConsistent

LEMMA NextKeepsIInv == IInv /\ [Next]_vars => IInv'
<1> SUFFICES ASSUME IInv, [Next]_vars PROVE IInv'
    OBVIOUS
<1>1. CASE \E l \in Layers, chunk \in Chunks, values \in Spans : Fill(l, chunk, values)
    BY <1>1, FillKeepsIInv
<1>2. CASE \E l \in Layers, o \in AlignedOrigins, c \in Cells, v \in Values : Set(l, o, c, v)
    BY <1>2, SetKeepsIInv
<1>3. CASE \E l \in Layers, o \in AlignedOrigins : MarkClean(l, o)
    BY <1>3, MarkCleanKeepsIInv
<1>4. CASE \E area \in Areas : Invalidate(area)
    BY <1>4, InvalidateKeepsIInv
<1>5. CASE InvalidateAll
    BY <1>5, InvalidateAllKeepsIInv
<1>6. CASE UNCHANGED vars
    BY <1>6 DEF IInv, TypeOK, SlotsConsistent, vars
<1>7. QED
    BY <1>1, <1>2, <1>3, <1>4, <1>5, <1>6 DEF Next

LEMMA Invariance == Spec => []IInv
BY InitIInv, NextKeepsIInv, PTL DEF Spec

\* No sequence of fills, writes, write-backs and invalidations leaves the slot
\* array or a reply outside its type, whatever spans fill() is offered.
THEOREM TypeCorrect == Spec => []TypeOK
<1>1. IInv => TypeOK
    BY DEF IInv
<1>2. QED
    BY <1>1, Invariance, PTL

\* The slot array is a map from canonical origins to planes for ever: never
\* two slots for one chunk, never a dirty plane that is not resident, never a
\* slot taken and left without a plane.
THEOREM Consistency == Spec => []SlotsConsistent
<1>1. IInv => SlotsConsistent
    BY DEF IInv
<1>2. QED
    BY <1>1, Invariance, PTL

-----------------------------------------------------------------------------
(***************************************************************************)
(* Dirty planes survive.  The scan for an origin keeps returning the slot  *)
(* it returned before the call, so it is enough to look at that one slot.  *)
(***************************************************************************)
\* The slot behind a dirty key.
LEMMA DirtySlot ==
    ASSUME IInv, NEW k \in DirtyKeys
    PROVE  \E i \in SlotIds :
               /\ i = FindSlot(slots, k[2])
               /\ k[1] \in Layers /\ k[2] \in AlignedOrigins /\ k = <<k[1], k[2]>>
               /\ slots[i] \in Slot
               /\ slots[i].occupied /\ slots[i].origin = k[2]
               /\ slots[i].resident[k[1]] /\ slots[i].dirty[k[1]]
               /\ PlaneAt(slots, k[1], k[2]) = slots[i].planes[k[1]]
<1>1. k \in Layers \X AlignedOrigins /\ IsDirty(slots, k[1], k[2])
    BY DEF DirtyKeys
<1>2. HasSlot(slots, k[2])
    BY <1>1 DEF IsDirty, Resident
<1>3. slots \in SlotArrays
    BY DEF IInv, TypeOK
<1>4. QED
    BY <1>1, <1>2, <1>3, FindSlotHolds DEF IsDirty, Resident, PlaneAt

\* What the scan finds for the origin of a slot in use.
LEMMA SlotAnswers ==
    ASSUME NEW s, OneSlotPerOrigin(s), NEW i \in SlotIds, s[i].occupied, NEW l
    PROVE  /\ Resident(s, l, s[i].origin) <=> s[i].resident[l]
           /\ IsDirty(s, l, s[i].origin) <=> s[i].resident[l] /\ s[i].dirty[l]
           /\ PlaneAt(s, l, s[i].origin) = s[i].planes[l]
BY FoundIsTheHolder DEF Resident, IsDirty, PlaneAt

\* A key whose slot is left alone, or changed elsewhere only, stays dirty with
\* the plane of that slot.
LEMMA StaysDirty ==
    ASSUME OneSlotPerOrigin(slots'),
           NEW l \in Layers, NEW o \in AlignedOrigins, NEW i \in SlotIds,
           slots'[i].occupied, slots'[i].origin = o,
           slots'[i].resident[l], slots'[i].dirty[l]
    PROVE  /\ <<l, o>> \in DirtyKeys'
           /\ Resident(slots', l, o)
           /\ PlaneAt(slots', l, o) = slots'[i].planes[l]
<1>1. /\ Resident(slots', l, o)
      /\ IsDirty(slots', l, o)
      /\ PlaneAt(slots', l, o) = slots'[i].planes[l]
    BY SlotAnswers
<1>2. DirtyKeys' = {k \in Layers \X AlignedOrigins : IsDirty(slots', k[1], k[2])}
    BY DEF DirtyKeys
<1>3. QED
    BY <1>1, <1>2

\* What DirtyNeverDiscarded says of one key and one step.
Survives(k) ==
    /\ k \in DirtyKeys' \/ (reply'.call = "mark_clean" /\ DirtyKeys' = DirtyKeys \ {k})
    /\ Resident(slots', k[1], k[2])
    /\ \/ PlaneAt(slots', k[1], k[2]) = PlaneAt(slots, k[1], k[2])
       \/ /\ reply'.call = "set"
          /\ \E c \in Cells, v \in Values :
                 PlaneAt(slots', k[1], k[2]) = [PlaneAt(slots, k[1], k[2]) EXCEPT ![c] = v]

LEMMA UnchangedSlotSurvives ==
    ASSUME IInv, IInv', NEW k \in DirtyKeys,
           slots'[FindSlot(slots, k[2])] = slots[FindSlot(slots, k[2])]
    PROVE  Survives(k)
<1>1. OneSlotPerOrigin(slots')
    BY DEF IInv, SlotsConsistent, Consistent
<1>2. PICK i \in SlotIds :
          /\ slots'[i] = slots[i]
          /\ k[1] \in Layers /\ k[2] \in AlignedOrigins /\ k = <<k[1], k[2]>>
          /\ slots[i].occupied /\ slots[i].origin = k[2]
          /\ slots[i].resident[k[1]] /\ slots[i].dirty[k[1]]
          /\ PlaneAt(slots, k[1], k[2]) = slots[i].planes[k[1]]
    BY DirtySlot
<1>3. /\ <<k[1], k[2]>> \in DirtyKeys'
      /\ Resident(slots', k[1], k[2])
      /\ PlaneAt(slots', k[1], k[2]) = slots'[i].planes[k[1]]
    BY <1>1, <1>2, StaysDirty
<1>4. QED
    BY <1>2, <1>3 DEF Survives

LEMMA FillSurvives ==
    ASSUME IInv, IInv', NEW k \in DirtyKeys,
           NEW l \in Layers, NEW chunk \in Chunks, NEW values \in Spans,
           Fill(l, chunk, values)
    PROVE  Survives(k)
<1> DEFINE o == chunk.origin
           ok == CanFill(slots, l, chunk, values)
<1>0. OneSlotPerOrigin(slots')
    BY DEF IInv, SlotsConsistent, Consistent
<1>1. PICK i \in SlotIds :
          /\ i = FindSlot(slots, k[2])
          /\ k[1] \in Layers /\ k[2] \in AlignedOrigins /\ k = <<k[1], k[2]>>
          /\ slots[i] \in Slot
          /\ slots[i].occupied /\ slots[i].origin = k[2]
          /\ slots[i].resident[k[1]] /\ slots[i].dirty[k[1]]
          /\ PlaneAt(slots, k[1], k[2]) = slots[i].planes[k[1]]
    BY DirtySlot
<1>2. CASE ~ ok
    <2>1. slots' = slots
        BY <1>2 DEF Fill
    <2>2. QED
        BY <2>1, UnchangedSlotSurvives
<1>3. CASE ok /\ HasSlot(slots, o) /\ FindSlot(slots, o) = i
    <2>1. o = k[2]
        BY <1>1, <1>3, FindSlotHolds
    <2>2. k[1] # l
        BY <1>1, <1>3, <2>1 DEF CanFill, MayOverwrite
    <2>3. slots' = [slots EXCEPT ![i] = Installed(@, l, values)]
        BY <1>3 DEF Fill, Filled
    <2>4. slots'[i] = Installed(slots[i], l, values)
        BY <2>3 DEF IInv, TypeOK
    <2>5. /\ slots'[i].occupied /\ slots'[i].origin = k[2]
          /\ slots'[i].resident[k[1]] /\ slots'[i].dirty[k[1]]
          /\ slots'[i].planes[k[1]] = slots[i].planes[k[1]]
        BY <1>1, <2>2, <2>4 DEF Installed, Slot
    <2>6. QED
        BY <1>0, <1>1, <2>5, StaysDirty DEF Survives
<1>4. CASE ok /\ HasSlot(slots, o) /\ FindSlot(slots, o) # i
    <2>1. slots'[i] = slots[i]
        BY <1>4 DEF Fill, Filled, IInv, TypeOK
    <2>2. QED
        BY <1>1, <2>1, UnchangedSlotSurvives
<1>5. CASE ok /\ ~ HasSlot(slots, o)
    <2>1. FindFreeSlot(slots) # i
        BY <1>1, <1>5, FreeSlotIsFree DEF CanFill
    <2>2. slots'[i] = slots[i]
        BY <1>5, <2>1 DEF Fill, Filled, IInv, TypeOK
    <2>3. QED
        BY <1>1, <2>2, UnchangedSlotSurvives
<1>6. QED
    BY <1>2, <1>3, <1>4, <1>5

LEMMA SetSurvives ==
    ASSUME IInv, IInv', NEW k \in DirtyKeys,
           NEW l \in Layers, NEW o, NEW c \in Cells, NEW v \in Values, Set(l, o, c, v)
    PROVE  Survives(k)
<1> DEFINE j == FindSlot(slots, o)
<1>1. OneSlotPerOrigin(slots')
    BY DEF IInv, SlotsConsistent, Consistent
<1>2. PICK i \in SlotIds :
          /\ i = FindSlot(slots, k[2])
          /\ k[1] \in Layers /\ k[2] \in AlignedOrigins /\ k = <<k[1], k[2]>>
          /\ slots[i] \in Slot
          /\ slots[i].occupied /\ slots[i].origin = k[2]
          /\ slots[i].resident[k[1]] /\ slots[i].dirty[k[1]]
          /\ PlaneAt(slots, k[1], k[2]) = slots[i].planes[k[1]]
    BY DirtySlot
<1>3. slots' \in {slots, [slots EXCEPT ![j].planes[l][c] = v, ![j].dirty[l] = TRUE]}
    BY DEF Set, WithCell
<1>4. CASE slots'[i] = slots[i]
    BY <1>2, <1>4, UnchangedSlotSurvives
<1>5. CASE slots'[i] # slots[i]
    <2>1. j = i /\ slots'[i] = [slots[i] EXCEPT !.planes[l][c] = v, !.dirty[l] = TRUE]
        BY <1>3, <1>5 DEF IInv, TypeOK
    <2>2. /\ slots'[i].occupied /\ slots'[i].origin = k[2]
          /\ slots'[i].resident[k[1]] /\ slots'[i].dirty[k[1]]
        BY <1>2, <2>1 DEF Slot
    <2>3. slots'[i].planes[k[1]]
              \in {slots[i].planes[k[1]], [slots[i].planes[k[1]] EXCEPT ![c] = v]}
        BY <1>2, <2>1 DEF Slot
    <2>4. /\ k \in DirtyKeys'
          /\ Resident(slots', k[1], k[2])
          /\ PlaneAt(slots', k[1], k[2]) = slots'[i].planes[k[1]]
        BY <1>1, <1>2, <2>2, StaysDirty
    <2>5. reply'.call = "set"
        BY DEF Set, Answer
    <2>6. QED
        BY <1>2, <2>3, <2>4, <2>5 DEF Survives
<1>6. QED
    BY <1>4, <1>5

\* mark_clean() touches the dirty bit of one layer in one slot.
LEMMA MarkCleanSurvives ==
    ASSUME IInv, IInv', NEW k \in DirtyKeys,
           NEW l \in Layers, NEW o \in AlignedOrigins, MarkClean(l, o)
    PROVE  Survives(k)
<1> DEFINE j == FindSlot(slots, o)
<1>1. OneSlotPerOrigin(slots') /\ OneSlotPerOrigin(slots)
    BY DEF IInv, SlotsConsistent, Consistent
<1>2. PICK i \in SlotIds :
          /\ i = FindSlot(slots, k[2])
          /\ k[1] \in Layers /\ k[2] \in AlignedOrigins /\ k = <<k[1], k[2]>>
          /\ slots[i] \in Slot
          /\ slots[i].occupied /\ slots[i].origin = k[2]
          /\ slots[i].resident[k[1]] /\ slots[i].dirty[k[1]]
          /\ PlaneAt(slots, k[1], k[2]) = slots[i].planes[k[1]]
    BY DirtySlot
<1>3. /\ IsDirty(slots, l, o)
      /\ j \in SlotIds /\ slots[j].occupied /\ slots[j].origin = o
    BY FindSlotHolds DEF MarkClean, IsDirty, Resident
<1>4. /\ slots' = [slots EXCEPT ![j].dirty[l] = FALSE]
      /\ slots'[j] = [slots[j] EXCEPT !.dirty[l] = FALSE]
      /\ \A m \in SlotIds \ {j} : slots'[m] = slots[m]
    BY <1>3 DEF MarkClean, Cleaned, IInv, TypeOK
<1>5. \A m \in SlotIds :
          /\ slots'[m].occupied = slots[m].occupied /\ slots'[m].origin = slots[m].origin
          /\ slots'[m].resident = slots[m].resident /\ slots'[m].planes = slots[m].planes
          /\ \A n \in Layers : slots'[m].dirty[n] <=>
                                   slots[m].dirty[n] /\ ~ (m = j /\ n = l)
    BY <1>3, <1>4 DEF IInv, TypeOK, Slot
<1>6. CASE i = j /\ k[1] = l
    <2>1. k = <<l, o>>
        BY <1>2, <1>3, <1>6
    <2>2. Resident(slots', l, o) /\ PlaneAt(slots', l, o) = slots'[i].planes[l]
        <3>1. slots'[i].occupied /\ slots'[i].origin = o /\ slots'[i].resident[l]
            BY <1>2, <1>3, <1>5, <1>6
        <3>2. QED
            BY <1>1, <3>1, SlotAnswers
    <2>3. ASSUME NEW n \in Layers, NEW p \in AlignedOrigins
          PROVE  IsDirty(slots', n, p) <=> IsDirty(slots, n, p) /\ <<n, p>> # <<l, o>>
        <3>1. CASE \E m \in SlotIds : slots[m].occupied /\ slots[m].origin = p
            <4>1. PICK m \in SlotIds : slots[m].occupied /\ slots[m].origin = p
                BY <3>1
            <4>2. IsDirty(slots, n, p) <=> slots[m].resident[n] /\ slots[m].dirty[n]
                BY <1>1, <4>1, SlotAnswers
            <4>3. IsDirty(slots', n, p) <=> slots'[m].resident[n] /\ slots'[m].dirty[n]
                BY <1>1, <1>5, <4>1, SlotAnswers
            <4>4. m = j <=> p = o
                BY <1>1, <1>3, <4>1 DEF OneSlotPerOrigin
            <4>5. QED
                BY <1>5, <4>2, <4>3, <4>4
        <3>2. CASE ~ \E m \in SlotIds : slots[m].occupied /\ slots[m].origin = p
            BY <1>5, <3>2 DEF IsDirty, Resident, HasSlot, Holders
        <3>3. QED
            BY <3>1, <3>2
    <2>4. DirtyKeys' = DirtyKeys \ {k}
        <3>1. DirtyKeys' = {x \in Layers \X AlignedOrigins : IsDirty(slots', x[1], x[2])}
            BY DEF DirtyKeys
        <3>2. \A x \in Layers \X AlignedOrigins :
                  IsDirty(slots', x[1], x[2]) <=> IsDirty(slots, x[1], x[2]) /\ x # k
            BY <2>1, <2>3
        <3>3. QED
            BY <3>1, <3>2 DEF DirtyKeys
    <2>5. reply'.call = "mark_clean"
        BY DEF MarkClean, Answer
    <2>6. QED
        BY <1>2, <1>5, <1>6, <2>1, <2>2, <2>4, <2>5 DEF Survives
<1>7. CASE ~ (i = j /\ k[1] = l)
    <2>1. /\ slots'[i].occupied /\ slots'[i].origin = k[2]
          /\ slots'[i].resident[k[1]] /\ slots'[i].dirty[k[1]]
          /\ slots'[i].planes = slots[i].planes
        BY <1>2, <1>5, <1>7
    <2>2. QED
        BY <1>1, <1>2, <2>1, StaysDirty DEF Survives
<1>8. QED
    BY <1>6, <1>7

\* The first pass of an invalidation refuses as soon as it meets the plane.
LEMMA InvalidateSurvives ==
    ASSUME IInv, IInv', NEW k \in DirtyKeys,
           (\E area \in Areas : Invalidate(area)) \/ InvalidateAll
    PROVE  Survives(k)
<1>1. PICK i \in SlotIds :
          /\ i = FindSlot(slots, k[2])
          /\ k[1] \in Layers
          /\ slots[i].resident[k[1]] /\ slots[i].dirty[k[1]]
    BY DirtySlot
<1>2. SlotDirty(slots[i]) /\ HasDirty(slots)
    BY <1>1 DEF SlotDirty, HasDirty
<1>3. slots'[i] = slots[i]
    <2>1. CASE InvalidateAll
        BY <1>2, <2>1 DEF InvalidateAll
    <2>2. CASE \E area \in Areas : Invalidate(area)
        BY <1>2, <2>2 DEF Invalidate, CanDiscard, Discarded
    <2>3. QED
        BY <2>1, <2>2
<1>4. QED
    BY <1>1, <1>3, UnchangedSlotSurvives

LEMMA StepSurvives ==
    ASSUME IInv, IInv', Next, NEW k \in DirtyKeys
    PROVE  Survives(k)
<1>1. CASE \E l \in Layers, chunk \in Chunks, values \in Spans : Fill(l, chunk, values)
    BY <1>1, FillSurvives
<1>2. CASE \E l \in Layers, o \in AlignedOrigins, c \in Cells, v \in Values : Set(l, o, c, v)
    BY <1>2, SetSurvives
<1>3. CASE \E l \in Layers, o \in AlignedOrigins : MarkClean(l, o)
    BY <1>3, MarkCleanSurvives
<1>4. CASE (\E area \in Areas : Invalidate(area)) \/ InvalidateAll
    BY <1>4, InvalidateSurvives
<1>5. QED
    BY <1>1, <1>2, <1>3, <1>4 DEF Next

\* A dirty plane survives every call on the cache: only a set() changes its
\* values, only mark_clean() on it makes it clean, and neither a fill of any
\* layer nor an invalidation of any area discards it.
THEOREM DirtySurvives == Spec => DirtyNeverDiscarded
<1>1. IInv /\ IInv' /\ [Next]_vars => [\A k \in DirtyKeys : Survives(k)]_vars
    BY StepSurvives
<1>2. Spec => [][\A k \in DirtyKeys : Survives(k)]_vars
    BY <1>1, Invariance, PTL DEF Spec
<1>3. QED
    BY <1>2 DEF DirtyNeverDiscarded, Survives

-----------------------------------------------------------------------------
(***************************************************************************)
(* The cache implements ResidentPlanes.                                    *)
(***************************************************************************)
\* What the slot array answers for the keys is what the promise keeps.
LEMMA KeysAnswer ==
    ASSUME NEW l \in Layers, NEW o \in AlignedOrigins
    PROVE  /\ <<l, o>> \in ResidentKeys <=> Resident(slots, l, o)
           /\ <<l, o>> \in DirtyKeys <=> IsDirty(slots, l, o)
           /\ Resident(slots, l, o) => Planes[<<l, o>>] = PlaneOf(slots, l, o)
BY DEF ResidentKeys, DirtyKeys, Planes, PlaneAt, PlaneOf

\* The new array holds the planes K with the values F, and D of them dirty.
Shows(K, D, F) ==
    \A m \in Layers, p \in AlignedOrigins :
        /\ <<m, p>> \in K <=> Resident(slots', m, p)
        /\ <<m, p>> \in D <=> IsDirty(slots', m, p)
        /\ <<m, p>> \in K => F[<<m, p>>] = PlaneOf(slots', m, p)

LEMMA PlanesBecome ==
    ASSUME NEW K \in SUBSET (Layers \X AlignedOrigins), NEW D \in SUBSET (Layers \X AlignedOrigins),
           NEW F, F = [k \in K |-> F[k]], Shows(K, D, F)
    PROVE  ResidentKeys' = K /\ DirtyKeys' = D /\ Planes' = F
<1>1. ResidentKeys' = {k \in Layers \X AlignedOrigins : Resident(slots', k[1], k[2])}
    BY DEF ResidentKeys
<1>2. DirtyKeys' = {k \in Layers \X AlignedOrigins : IsDirty(slots', k[1], k[2])}
    BY DEF DirtyKeys
<1>3. \A k \in Layers \X AlignedOrigins : k[1] \in Layers /\ k[2] \in AlignedOrigins /\ k = <<k[1], k[2]>>
    OBVIOUS
<1>4. ResidentKeys' = K /\ DirtyKeys' = D
    BY <1>1, <1>2, <1>3 DEF Shows
<1>5. Planes' = [k \in ResidentKeys' |-> PlaneOf(slots', k[1], k[2])]
    BY DEF Planes, PlaneAt, PlaneOf
<1>6. \A k \in K : F[k] = PlaneOf(slots', k[1], k[2])
    BY <1>3 DEF Shows
<1>7. Planes' = F
    BY <1>4, <1>5, <1>6
<1>8. QED
    BY <1>4, <1>7

Held == {i \in SlotIds : slots[i].occupied}

OriginsHeld == {k[2] : k \in ResidentKeys}

\* Every slot in use holds an origin of its own, and a plane of it.
LEMMA OriginsAreHeld ==
    ASSUME IInv
    PROVE  /\ \A o \in AlignedOrigins : o \in OriginsHeld <=> HasSlot(slots, o)
           /\ FreeSlots(slots) = {} => Cardinality(OriginsHeld) = Capacity
           /\ FreeSlots(slots) # {} => Cardinality(OriginsHeld) < Capacity
<1>1. /\ slots \in SlotArrays /\ OneSlotPerOrigin(slots)
      /\ \A i \in SlotIds : WellFormed(slots[i])
    BY DEF IInv, TypeOK, SlotsConsistent, Consistent
<1>2. ASSUME NEW i \in Held PROVE slots[i].origin \in OriginsHeld /\ slots[i].origin \in AlignedOrigins
    <2>1. PICK l \in Layers : slots[i].resident[l]
        BY <1>1, <1>2 DEF WellFormed, Held
    <2>2. slots[i].origin \in AlignedOrigins /\ Resident(slots, l, slots[i].origin)
        BY <1>1, <1>2, <2>1, HolderAnswers DEF WellFormed, Held
    <2>3. <<l, slots[i].origin>> \in ResidentKeys
        BY <2>1, <2>2, KeysAnswer
    <2>4. QED
        BY <2>2, <2>3 DEF OriginsHeld
<1>3. ASSUME NEW o \in OriginsHeld PROVE \E i \in Held : slots[i].origin = o
    <2>1. HasSlot(slots, o)
        BY <1>3 DEF OriginsHeld, ResidentKeys, Resident
    <2>2. QED
        BY <2>1, FindSlotHolds DEF Held
<1>4. \A o \in AlignedOrigins : o \in OriginsHeld <=> HasSlot(slots, o)
    <2>1. ASSUME NEW o \in AlignedOrigins, HasSlot(slots, o) PROVE o \in OriginsHeld
        BY <1>2, <2>1, FindSlotHolds DEF Held
    <2>2. ASSUME NEW o \in OriginsHeld PROVE HasSlot(slots, o)
        BY <2>2 DEF OriginsHeld, ResidentKeys, Resident
    <2>3. QED
        BY <2>1, <2>2
<1> DEFINE f == [i \in Held |-> slots[i].origin]
<1>5. f \in Bijection(Held, OriginsHeld)
    <2>1. f \in [Held -> OriginsHeld]
        BY <1>2
    <2>2. \A i, j \in Held : f[i] = f[j] => i = j
        BY <1>1 DEF OneSlotPerOrigin, Held
    <2>3. \A o \in OriginsHeld : \E i \in Held : f[i] = o
        BY <1>3
    <2> HIDE DEF f
    <2>4. QED
        BY <2>1, <2>2, <2>3 DEF Bijection, Injection, Surjection, IsInjective
<1>6. IsFiniteSet(SlotIds) /\ Cardinality(SlotIds) = Capacity
    BY CapacityAssumption, FS_Interval DEF SlotIds
<1>7. Held \in SUBSET SlotIds
    BY DEF Held
<1>8. /\ IsFiniteSet(Held) /\ Cardinality(Held) <= Capacity
      /\ Cardinality(Held) = Capacity => Held = SlotIds
    BY <1>6, <1>7, FS_Subset
<1>9. Cardinality(OriginsHeld) = Cardinality(Held) /\ Cardinality(Held) \in Nat
    BY <1>5, <1>8, FS_Bijection, FS_CardinalityType DEF ExistsBijection
<1>10. FreeSlots(slots) = {} <=> Held = SlotIds
    BY DEF FreeSlots, Held
<1>11. QED
    BY <1>4, <1>6, <1>8, <1>9, <1>10, CapacityAssumption

\* The promise counts as the cache does.
LEMMA SameCount == \A S : Promise!Cardinality(S) = Cardinality(S)
BY DEF Promise!Cardinality, Cardinality

-----------------------------------------------------------------------------
\* fill(): installs the plane, or is refused for one of the stated reasons.
LEMMA FillPromised ==
    ASSUME IInv, NEW l \in Layers, NEW chunk \in Chunks, NEW values \in Spans,
           Fill(l, chunk, values)
    PROVE  Promise!Next
<1> DEFINE o == chunk.origin
           k == <<l, o>>
<1>1. slots \in SlotArrays /\ Consistent(slots)
    BY DEF IInv, TypeOK, SlotsConsistent
<1>2. CASE CanFill(slots, l, chunk, values)
    <2>1. /\ o \in AlignedOrigins /\ values \in Plane
          /\ HasSlot(slots, o) \/ FreeSlots(slots) # {}
          /\ MayOverwrite(slots, l, o)
        BY <1>2, SpansAssumption DEF CanFill, Accepts
    <2>2. slots' = Filled(slots, l, o, values) /\ reply' = [call |-> "fill", ok |-> TRUE]
        BY <1>2 DEF Fill, Answer, CanFill
    <2> DEFINE K == ResidentKeys \cup {k}
               F == [x \in K |-> IF x = k THEN values ELSE Planes[x]]
    <2>3. k \in Layers \X AlignedOrigins
        BY <2>1
    <2>4. K \in SUBSET (Layers \X AlignedOrigins) /\ DirtyKeys \in SUBSET (Layers \X AlignedOrigins)
        BY <2>3 DEF ResidentKeys, DirtyKeys
    <2>5. ASSUME NEW m \in Layers, NEW p \in AlignedOrigins
          PROVE  /\ <<m, p>> \in K <=> Resident(slots', m, p)
                 /\ <<m, p>> \in DirtyKeys <=> IsDirty(slots', m, p)
                 /\ <<m, p>> \in K => F[<<m, p>>] = PlaneOf(slots', m, p)
        <3>1. /\ Resident(slots', m, p) <=> Resident(slots, m, p) \/ (m = l /\ p = o)
              /\ IsDirty(slots', m, p) <=> IsDirty(slots, m, p)
              /\ Resident(slots, m, p) /\ ~ (m = l /\ p = o) => PlaneOf(slots', m, p) = PlaneOf(slots, m, p)
              /\ PlaneOf(slots', l, o) = values
            BY <1>1, <2>1, <2>2, FilledAnswers
        <3>2. <<m, p>> = k <=> m = l /\ p = o
            OBVIOUS
        <3>3. QED
            BY <3>1, <3>2, KeysAnswer
    <2>6. F = [x \in K |-> F[x]]
        OBVIOUS
    <2>7. Shows(K, DirtyKeys, F)
        BY <2>5 DEF Shows
    <2> HIDE DEF K, F
    <2>8. ResidentKeys' = K /\ DirtyKeys' = DirtyKeys /\ Planes' = F
        BY <2>4, <2>6, <2>7, PlanesBecome
    <2>9. k \notin DirtyKeys
        <3>1. ~ IsDirty(slots, l, o)
            BY <2>1 DEF MayOverwrite, IsDirty, Resident
        <3>2. QED
            BY <2>1, <3>1, KeysAnswer
    <2>10. DOMAIN Planes = ResidentKeys /\ Promise!Spaces = OriginsHeld
        BY DEF Planes, Promise!Spaces, OriginsHeld
    <2>11. o \in Promise!Spaces \/ Cardinality(Promise!Spaces) < Capacity
        BY <2>1, <2>10, OriginsAreHeld
    <2>12. Promise!Fill(l, o, values)
        BY <2>2, <2>8, <2>9, <2>10, <2>11, SameCount DEF Promise!Fill, Promise!Answer, K, F
    <2>13. values \in [Cells -> Values]
        BY <2>1 DEF Plane
    <2>14. QED
        BY <2>1, <2>12, <2>13 DEF Promise!Next
<1>3. CASE ~ CanFill(slots, l, chunk, values)
    <2>1. slots' = slots
        BY <1>3 DEF Fill
    <2>2. UNCHANGED <<Planes, DirtyKeys>>
        BY <2>1 DEF Planes, DirtyKeys, ResidentKeys, PlaneAt
    <2>3. CASE ~ Accepts(l, chunk, values)
        <3>1. reply' = [call |-> "misfit", ok |-> FALSE]
            BY <1>3, <2>3 DEF Fill, Answer, CanFill
        <3>2. QED
            BY <2>2, <3>1 DEF Promise!Next, Promise!FillMisfit, Promise!Refuse, Promise!Answer
    <2>4. CASE Accepts(l, chunk, values)
        <3>1. reply' = [call |-> "fill", ok |-> FALSE] /\ o \in AlignedOrigins
            BY <1>3, <2>4 DEF Fill, Answer, CanFill, Accepts, MayOverwrite
        <3>2. ~ (HasSlot(slots, o) \/ FreeSlots(slots) # {}) \/ ~ MayOverwrite(slots, l, o)
            BY <1>3, <2>4 DEF CanFill
        <3>3. Promise!Spaces = OriginsHeld
            BY DEF Planes, Promise!Spaces, OriginsHeld
        <3>4. k \in DirtyKeys \/ (o \notin Promise!Spaces /\ Cardinality(Promise!Spaces) = Capacity)
            <4>1. CASE ~ MayOverwrite(slots, l, o)
                <5>1. HasSlot(slots, o) /\ slots[FindSlot(slots, o)].dirty[l]
                    BY <4>1 DEF MayOverwrite
                <5>2. slots[FindSlot(slots, o)].resident[l]
                    BY <1>1, <5>1, FindSlotHolds DEF Consistent, WellFormed
                <5>3. IsDirty(slots, l, o)
                    BY <5>1, <5>2 DEF IsDirty, Resident
                <5>4. QED
                    BY <3>1, <5>3, KeysAnswer
            <4>2. CASE ~ HasSlot(slots, o) /\ FreeSlots(slots) = {}
                BY <3>1, <3>3, <4>2, OriginsAreHeld
            <4>3. QED
                BY <3>2, <4>1, <4>2
        <3>5. Promise!FillRefused(l, o)
            BY <2>2, <3>1, <3>4, SameCount DEF Promise!FillRefused, Promise!Refuse, Promise!Answer
        <3>6. QED
            BY <3>1, <3>5 DEF Promise!Next
    <2>5. QED
        BY <2>3, <2>4
<1>4. QED
    BY <1>2, <1>3

\* set(): one value of one plane, dirty when it is another.
LEMMA SetPromised ==
    ASSUME IInv, NEW l \in Layers, NEW o \in AlignedOrigins, NEW c \in Cells, NEW v \in Values,
           Set(l, o, c, v)
    PROVE  Promise!Next
<1> DEFINE k == <<l, o>>
           D == IF Planes[k][c] = v THEN DirtyKeys ELSE DirtyKeys \cup {k}
           F == [Planes EXCEPT ![k][c] = v]
<1>1. slots \in SlotArrays /\ Consistent(slots)
    BY DEF IInv, TypeOK, SlotsConsistent
<1>2. /\ Resident(slots, l, o) /\ slots' = WithCell(slots, l, o, c, v)
      /\ reply' = [call |-> "set", ok |-> TRUE]
    BY DEF Set, Answer
<1>3. k \in ResidentKeys /\ Planes[k] = PlaneOf(slots, l, o) /\ DOMAIN Planes = ResidentKeys
    BY <1>2, KeysAnswer DEF Planes
<1>4. /\ ResidentKeys \in SUBSET (Layers \X AlignedOrigins)
      /\ D \in SUBSET (Layers \X AlignedOrigins)
    BY <1>3 DEF ResidentKeys, DirtyKeys
<1>5. /\ F = [x \in ResidentKeys |-> F[x]]
      /\ F[k] = PlaneWith(PlaneOf(slots, l, o), c, v)
      /\ \A x \in ResidentKeys : x # k => F[x] = Planes[x]
    <2>1. Planes = [x \in ResidentKeys |-> Planes[x]]
        BY DEF Planes
    <2>2. F = [Planes EXCEPT ![k] = PlaneWith(PlaneOf(slots, l, o), c, v)]
        BY <1>3 DEF PlaneWith
    <2> HIDE DEF F
    <2>3. QED
        BY <1>3, <2>1, <2>2
<1>6. ASSUME NEW m \in Layers, NEW p \in AlignedOrigins
      PROVE  /\ <<m, p>> \in ResidentKeys <=> Resident(slots', m, p)
             /\ <<m, p>> \in D <=> IsDirty(slots', m, p)
             /\ <<m, p>> \in ResidentKeys => F[<<m, p>>] = PlaneOf(slots', m, p)
    <2>1. /\ Resident(slots', m, p) <=> Resident(slots, m, p)
          /\ IsDirty(slots', m, p) <=>
                 IsDirty(slots, m, p) \/ (m = l /\ p = o /\ PlaneOf(slots, l, o)[c] # v)
          /\ Resident(slots, m, p) =>
                 PlaneOf(slots', m, p) = IF m = l /\ p = o
                                         THEN PlaneWith(PlaneOf(slots, l, o), c, v)
                                         ELSE PlaneOf(slots, m, p)
        BY <1>1, <1>2, WithCellAnswers
    <2>2. <<m, p>> = k <=> m = l /\ p = o
        OBVIOUS
    <2>3. /\ <<m, p>> \in ResidentKeys <=> Resident(slots, m, p)
          /\ <<m, p>> \in DirtyKeys <=> IsDirty(slots, m, p)
          /\ Resident(slots, m, p) => Planes[<<m, p>>] = PlaneOf(slots, m, p)
        BY KeysAnswer
    <2> HIDE DEF F
    <2>4. <<m, p>> \in D <=> IsDirty(slots', m, p)
        BY <1>3, <2>1, <2>2, <2>3
    <2>5. <<m, p>> \in ResidentKeys => F[<<m, p>>] = PlaneOf(slots', m, p)
        BY <1>5, <2>1, <2>2, <2>3
    <2>6. QED
        BY <2>1, <2>3, <2>4, <2>5
<1>7. Shows(ResidentKeys, D, F)
    BY <1>6 DEF Shows
<1> HIDE DEF D, F
<1>8. DirtyKeys' = D /\ Planes' = F
    BY <1>4, <1>5, <1>7, PlanesBecome
<1>9. Promise!Set(k, c, v)
    BY <1>2, <1>8 DEF Promise!Set, Promise!Answer, D, F
<1>10. QED
    BY <1>3, <1>9 DEF Promise!Next

\* mark_clean(): the key and no other.
LEMMA MarkCleanPromised ==
    ASSUME IInv, NEW l \in Layers, NEW o \in AlignedOrigins, MarkClean(l, o)
    PROVE  Promise!Next
<1> DEFINE k == <<l, o>>
           D == DirtyKeys \ {k}
           F == Planes
<1>1. slots \in SlotArrays /\ Consistent(slots)
    BY DEF IInv, TypeOK, SlotsConsistent
<1>2. /\ IsDirty(slots, l, o) /\ HasSlot(slots, o) /\ slots' = Cleaned(slots, l, o)
      /\ reply' = [call |-> "mark_clean", ok |-> TRUE]
    BY DEF MarkClean, Answer, IsDirty, Resident
<1>3. k \in DirtyKeys
    BY <1>2, KeysAnswer
<1>4. /\ ResidentKeys \in SUBSET (Layers \X AlignedOrigins)
      /\ D \in SUBSET (Layers \X AlignedOrigins)
      /\ F = [x \in ResidentKeys |-> F[x]]
    BY DEF ResidentKeys, DirtyKeys, Planes
<1>5. ASSUME NEW m \in Layers, NEW p \in AlignedOrigins
      PROVE  /\ <<m, p>> \in ResidentKeys <=> Resident(slots', m, p)
             /\ <<m, p>> \in D <=> IsDirty(slots', m, p)
             /\ <<m, p>> \in ResidentKeys => F[<<m, p>>] = PlaneOf(slots', m, p)
    <2>1. /\ Resident(slots', m, p) <=> Resident(slots, m, p)
          /\ IsDirty(slots', m, p) <=> IsDirty(slots, m, p) /\ ~ (m = l /\ p = o)
          /\ Resident(slots, m, p) => PlaneOf(slots', m, p) = PlaneOf(slots, m, p)
        BY <1>1, <1>2, CleanedAnswers
    <2>2. <<m, p>> = k <=> m = l /\ p = o
        OBVIOUS
    <2>3. QED
        BY <2>1, <2>2, KeysAnswer
<1>6. Shows(ResidentKeys, D, F)
    BY <1>5 DEF Shows
<1> HIDE DEF D, F
<1>7. ResidentKeys' = ResidentKeys /\ DirtyKeys' = D /\ Planes' = F
    BY <1>4, <1>6, PlanesBecome
<1>8. Promise!MarkClean(k)
    BY <1>2, <1>7 DEF Promise!MarkClean, Promise!Answer, D, F
<1>9. QED
    BY <1>3, <1>8 DEF Promise!Next

\* What is left of the planes when those of an area go.
LEMMA AreaPromised ==
    ASSUME IInv, NEW area \in Areas \cup {AlignedOrigins},
           reply' = [call |-> "invalidate", ok |-> TRUE],
           \A m \in Layers, p \in AlignedOrigins :
               /\ IsDirty(slots, m, p) => p \notin area
               /\ Resident(slots', m, p) <=> Resident(slots, m, p) /\ p \notin area
               /\ IsDirty(slots', m, p) <=> IsDirty(slots, m, p) /\ p \notin area
               /\ Resident(slots', m, p) => PlaneOf(slots', m, p) = PlaneOf(slots, m, p)
    PROVE  Promise!Next
<1> DEFINE gone == {k \in ResidentKeys : k[2] \in area}
           K == ResidentKeys \ gone
           F == [k \in K |-> Planes[k]]
<1>1. DOMAIN Planes = ResidentKeys
    BY DEF Planes
<1>2. /\ K \in SUBSET (Layers \X AlignedOrigins)
      /\ DirtyKeys \in SUBSET (Layers \X AlignedOrigins)
      /\ F = [k \in K |-> F[k]]
    BY DEF ResidentKeys, DirtyKeys
<1>3. ASSUME NEW m \in Layers, NEW p \in AlignedOrigins
      PROVE  /\ <<m, p>> \in K <=> Resident(slots', m, p)
             /\ <<m, p>> \in DirtyKeys <=> IsDirty(slots', m, p)
             /\ <<m, p>> \in K => F[<<m, p>>] = PlaneOf(slots', m, p)
    <2>1. <<m, p>> \in gone <=> Resident(slots, m, p) /\ p \in area
        BY KeysAnswer
    <2>2. QED
        BY <2>1, KeysAnswer
<1>4. Shows(K, DirtyKeys, F)
    BY <1>3 DEF Shows
<1> HIDE DEF K, F
<1>5. ResidentKeys' = K /\ DirtyKeys' = DirtyKeys /\ Planes' = F
    BY <1>2, <1>4, PlanesBecome
<1>6. gone \cap DirtyKeys = {}
    BY DEF DirtyKeys
<1>7. Promise!Invalidate(area)
    BY <1>1, <1>5, <1>6 DEF Promise!Invalidate, Promise!Answer, F, K
<1>8. QED
    BY <1>7 DEF Promise!Next

\* A dirty plane in the area keeps the whole of it.
LEMMA AreaRefused ==
    ASSUME IInv, NEW area \in Areas \cup {AlignedOrigins}, slots' = slots,
           reply' = [call |-> "invalidate", ok |-> FALSE],
           NEW m \in Layers, NEW p \in AlignedOrigins, IsDirty(slots, m, p), p \in area
    PROVE  Promise!Next
<1> DEFINE gone == {k \in ResidentKeys : k[2] \in area}
<1>1. DOMAIN Planes = ResidentKeys
    BY DEF Planes
<1>2. UNCHANGED <<Planes, DirtyKeys>>
    BY DEF Planes, DirtyKeys, ResidentKeys, PlaneAt
<1>3. <<m, p>> \in gone /\ <<m, p>> \in DirtyKeys
    BY KeysAnswer DEF IsDirty
<1>4. gone \cap DirtyKeys # {}
    BY <1>3
<1>5. Promise!Invalidate(area)
    BY <1>1, <1>2, <1>4 DEF Promise!Invalidate, Promise!Refuse, Promise!Answer
<1>6. QED
    BY <1>5 DEF Promise!Next

\* invalidate(): the first pass refuses for a dirty plane of the area.
LEMMA InvalidatePromised ==
    ASSUME IInv, NEW area \in Areas, Invalidate(area)
    PROVE  Promise!Next
<1>1. slots \in SlotArrays /\ Consistent(slots)
    BY DEF IInv, TypeOK, SlotsConsistent
<1>2. CASE CanDiscard(slots, area)
    <2>1. slots' = Discarded(slots, area) /\ reply' = [call |-> "invalidate", ok |-> TRUE]
        BY <1>2 DEF Invalidate, Answer
    <2>2. ASSUME NEW m \in Layers, NEW p \in AlignedOrigins, IsDirty(slots, m, p)
          PROVE  p \notin area
        <3>1. PICK i \in SlotIds : /\ slots[i].occupied /\ slots[i].origin = p
                                   /\ slots[i].resident[m] /\ slots[i].dirty[m]
            BY <2>2, FindSlotHolds DEF IsDirty, Resident
        <3>2. SlotDirty(slots[i])
            BY <3>1 DEF SlotDirty
        <3>3. QED
            BY <1>2, <3>1, <3>2 DEF CanDiscard, Hit
    <2>3. QED
        BY <1>1, <2>1, <2>2, DiscardedAnswers, AreaPromised
<1>3. CASE ~ CanDiscard(slots, area)
    <2>1. slots' = slots /\ reply' = [call |-> "invalidate", ok |-> FALSE]
        BY <1>3 DEF Invalidate, Answer, CanDiscard
    <2>2. PICK i \in SlotIds : /\ slots[i].occupied /\ slots[i].origin \in area
                               /\ SlotDirty(slots[i])
        BY <1>3 DEF CanDiscard, Hit
    <2>3. PICK m \in Layers : slots[i].resident[m] /\ slots[i].dirty[m]
        BY <2>2 DEF SlotDirty
    <2>4. slots[i].origin \in AlignedOrigins /\ IsDirty(slots, m, slots[i].origin)
        BY <1>1, <2>2, <2>3, HolderAnswers DEF Consistent, WellFormed
    <2>5. QED
        BY <2>1, <2>2, <2>4, AreaRefused
<1>4. QED
    BY <1>2, <1>3

\* invalidate_all(): the area is the whole map.
LEMMA InvalidateAllPromised ==
    ASSUME IInv, InvalidateAll
    PROVE  Promise!Next
<1>1. slots \in SlotArrays /\ Consistent(slots)
    BY DEF IInv, TypeOK, SlotsConsistent
<1>2. HasDirty(slots) <=> \E m \in Layers, p \in AlignedOrigins : IsDirty(slots, m, p)
    BY <1>1, HasDirtyMeans
<1>3. CASE HasDirty(slots)
    <2>1. slots' = slots /\ reply' = [call |-> "invalidate", ok |-> FALSE]
        BY <1>3 DEF InvalidateAll, Answer
    <2>2. QED
        BY <1>2, <1>3, <2>1, AreaRefused
<1>4. CASE ~ HasDirty(slots)
    <2>1. slots' = EmptySlots /\ reply' = [call |-> "invalidate", ok |-> TRUE]
        BY <1>4 DEF InvalidateAll, Answer, HasDirty
    <2>2. \A m \in Layers, p \in AlignedOrigins : ~ Resident(slots', m, p) /\ ~ IsDirty(slots', m, p)
        BY <2>1, EmptySlotsAnswer
    <2>3. QED
        BY <1>2, <1>4, <2>1, <2>2, AreaPromised
<1>5. QED
    BY <1>3, <1>4

-----------------------------------------------------------------------------
LEMMA InitPromised == Init => Promise!Init
<1> SUFFICES ASSUME Init PROVE Promise!Init
    OBVIOUS
<1>1. \A m, p : ~ Resident(slots, m, p) /\ ~ IsDirty(slots, m, p)
    BY EmptySlotsAnswer DEF Init
<1>2. ResidentKeys = {} /\ DirtyKeys = {}
    BY <1>1 DEF ResidentKeys, DirtyKeys
<1>3. Planes = <<>>
    BY <1>2 DEF Planes
<1>4. QED
    BY <1>2, <1>3 DEF Init, Promise!Init

LEMMA StepPromised == IInv /\ [Next]_vars => [Promise!Next]_(Promise!vars)
<1> SUFFICES ASSUME IInv, [Next]_vars PROVE [Promise!Next]_(Promise!vars)
    OBVIOUS
<1>1. CASE \E l \in Layers, chunk \in Chunks, values \in Spans : Fill(l, chunk, values)
    BY <1>1, FillPromised
<1>2. CASE \E l \in Layers, o \in AlignedOrigins, c \in Cells, v \in Values : Set(l, o, c, v)
    BY <1>2, SetPromised
<1>3. CASE \E l \in Layers, o \in AlignedOrigins : MarkClean(l, o)
    BY <1>3, MarkCleanPromised
<1>4. CASE \E area \in Areas : Invalidate(area)
    BY <1>4, InvalidatePromised
<1>5. CASE InvalidateAll
    BY <1>5, InvalidateAllPromised
<1>6. CASE UNCHANGED vars
    BY <1>6 DEF vars, Promise!vars, Planes, DirtyKeys, ResidentKeys, PlaneAt
<1>7. QED
    BY <1>1, <1>2, <1>3, <1>4, <1>5, <1>6 DEF Next

\* Every call on the cache acts on the planes it shows as ResidentPlanes says:
\* a fill or an invalidation happens whole or not at all and is refused for a
\* stated reason only, no plane but the one addressed changes, and the cache
\* never holds more origins than it has slots.
THEOREM KeepsPromise == Spec => ImplementsResidentPlanes
<1>1. Spec => Promise!Init /\ [][Promise!Next]_(Promise!vars)
    BY InitPromised, StepPromised, Invariance, PTL DEF Spec
<1>2. QED
    BY <1>1 DEF ImplementsResidentPlanes, Promise!Spec
=============================================================================
