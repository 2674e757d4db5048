-------------------------- MODULE CacheSlotsProofs --------------------------
(***************************************************************************)
(* Lemmas about the operators of CacheSlots, for every set of layers,      *)
(* coordinates and values and every capacity: what a scan finds, and that  *)
(* each operation of the cache keeps the array typed and consistent.       *)
(***************************************************************************)
EXTENDS CacheSlots, WellFoundedInduction, TLAPS

SlotArrays == [SlotIds -> Slot]

-----------------------------------------------------------------------------
\* A linear scan finds a slot whenever there is one to find.
LEMMA FirstIsMember ==
    ASSUME NEW ids \in SUBSET SlotIds, ids # {}
    PROVE  First(ids) \in ids
<1> DEFINE R == OpToRel(<, Nat)
<1>1. ids \subseteq Nat
    BY CapacityAssumption DEF SlotIds
<1>2. PICK i \in ids : \A j \in ids : ~ (<<j, i>> \in R)
    <2>1. IsWellFoundedOn(R, Nat)
        BY NatLessThanWellFounded
    <2>2. QED
        BY <1>1, <2>1, WFMin
<1>3. \A j \in ids : i <= j
    <2>1. TAKE j \in ids
    <2>2. i \in Nat /\ j \in Nat
        BY <1>1
    <2>3. ~ (j < i)
        BY <1>2, <2>2 DEF OpToRel
    <2>4. QED
        BY <2>2, <2>3
<1>4. QED
    BY <1>3 DEF First

\* find_slot() returns a slot in use that holds the origin it looked for.
LEMMA FindSlotHolds ==
    ASSUME NEW s, NEW o, HasSlot(s, o)
    PROVE  /\ FindSlot(s, o) \in SlotIds
           /\ s[FindSlot(s, o)].occupied
           /\ s[FindSlot(s, o)].origin = o
BY FirstIsMember DEF HasSlot, FindSlot, Holders

\* In a consistent array it returns the only such slot.
LEMMA FoundIsTheHolder ==
    ASSUME NEW s, OneSlotPerOrigin(s),
           NEW i \in SlotIds, s[i].occupied
    PROVE  HasSlot(s, s[i].origin) /\ FindSlot(s, s[i].origin) = i
<1>1. HasSlot(s, s[i].origin)
    BY DEF HasSlot, Holders
<1>2. QED
    BY <1>1, FindSlotHolds DEF OneSlotPerOrigin

\* find_free_slot() returns a slot that is not in use.
LEMMA FreeSlotIsFree ==
    ASSUME NEW s, FreeSlots(s) # {}
    PROVE  FindFreeSlot(s) \in SlotIds /\ ~ s[FindFreeSlot(s)].occupied
BY FirstIsMember DEF FindFreeSlot, FreeSlots

-----------------------------------------------------------------------------
LEMMA EmptySlotIsSlot == EmptySlot \in Slot /\ WellFormed(EmptySlot)
BY OriginsAssumption, ValuesAssumption
   DEF EmptySlot, Slot, NoLayers, Plane, WellFormed

\* The array of a new or wholly invalidated cache.
LEMMA EmptySlotsConsistent == EmptySlots \in SlotArrays /\ Consistent(EmptySlots)
BY EmptySlotIsSlot
   DEF EmptySlots, SlotArrays, Consistent, OneSlotPerOrigin, EmptySlot

\* Replacing one slot by a well-formed one keeps the array consistent when no
\* other slot holds the new one's origin.
LEMMA ReplacedConsistent ==
    ASSUME NEW s \in SlotArrays, Consistent(s),
           NEW i \in SlotIds, NEW slot \in Slot, WellFormed(slot),
           slot.occupied => \A j \in SlotIds \ {i} :
                                s[j].occupied => s[j].origin # slot.origin
    PROVE  /\ [s EXCEPT ![i] = slot] \in SlotArrays
           /\ Consistent([s EXCEPT ![i] = slot])
<1> DEFINE t == [s EXCEPT ![i] = slot]
<1>1. t \in SlotArrays
    BY DEF SlotArrays
<1>2. t[i] = slot /\ \A j \in SlotIds \ {i} : t[j] = s[j]
    BY DEF SlotArrays
<1>3. \A j \in SlotIds : WellFormed(t[j])
    BY <1>2 DEF Consistent
<1>4. OneSlotPerOrigin(t)
    BY <1>2 DEF Consistent, OneSlotPerOrigin
<1>5. QED
    BY <1>1, <1>3, <1>4 DEF Consistent

\* A slot in use may be replaced by one of the same origin.
LEMMA UpdatedConsistent ==
    ASSUME NEW s \in SlotArrays, Consistent(s),
           NEW i \in SlotIds, s[i].occupied,
           NEW slot \in Slot, WellFormed(slot), slot.origin = s[i].origin
    PROVE  /\ [s EXCEPT ![i] = slot] \in SlotArrays
           /\ Consistent([s EXCEPT ![i] = slot])
<1>1. \A j \in SlotIds \ {i} : s[j].occupied => s[j].origin # slot.origin
    BY DEF Consistent, OneSlotPerOrigin
<1>2. QED
    BY <1>1, ReplacedConsistent

-----------------------------------------------------------------------------
(***************************************************************************)
(* The operations.                                                         *)
(***************************************************************************)
LEMMA InstalledIsSlot ==
    ASSUME NEW slot \in Slot, NEW l \in Layers, NEW values \in Plane
    PROVE  Installed(slot, l, values) \in Slot
BY DEF Installed, Slot

LEMMA ClaimedIsSlot ==
    ASSUME NEW slot \in Slot, NEW o \in Origins
    PROVE  Claimed(slot, o) \in Slot
BY DEF Claimed, Slot, NoLayers

\* A fill that is accepted keeps the array consistent: it reuses the slot of
\* its origin, and claims a free one only when there is none.
LEMMA FilledConsistent ==
    ASSUME NEW s \in SlotArrays, Consistent(s),
           NEW l \in Layers, NEW o \in AlignedOrigins, NEW values \in Plane,
           HasSlot(s, o) \/ FreeSlots(s) # {}
    PROVE  /\ Filled(s, l, o, values) \in SlotArrays
           /\ Consistent(Filled(s, l, o, values))
<1>1. CASE HasSlot(s, o)
    <2> DEFINE i == FindSlot(s, o)
               slot == Installed(s[i], l, values)
    <2>1. i \in SlotIds /\ s[i].occupied /\ s[i].origin = o
        BY <1>1, FindSlotHolds
    <2>2. s[i] \in Slot /\ WellFormed(s[i])
        BY <2>1 DEF SlotArrays, Consistent
    <2>3. slot \in Slot
        BY <2>2, InstalledIsSlot
    <2>4. WellFormed(slot) /\ slot.origin = s[i].origin
        BY <2>1, <2>2 DEF Installed, WellFormed, Slot
    <2>5. Filled(s, l, o, values) = [s EXCEPT ![i] = slot]
        BY <1>1 DEF Filled
    <2> HIDE DEF i, slot
    <2>6. QED
        BY <2>1, <2>3, <2>4, <2>5, UpdatedConsistent, ZenonT(60)
<1>2. CASE ~ HasSlot(s, o)
    <2> DEFINE i == FindFreeSlot(s)
               slot == Installed(Claimed(s[i], o), l, values)
    <2>1. i \in SlotIds
        BY <1>2, FreeSlotIsFree
    <2>2. s[i] \in Slot
        BY <2>1 DEF SlotArrays
    <2>3. Claimed(s[i], o) \in Slot
        BY <2>2, ClaimedIsSlot, OriginsAssumption
    <2>4. slot \in Slot
        BY <2>3, InstalledIsSlot
    <2>5. WellFormed(slot) /\ slot.origin = o
        BY <2>2, <2>3 DEF Installed, Claimed, WellFormed, Slot, NoLayers
    <2>6. \A j \in SlotIds : s[j].occupied => s[j].origin # o
        BY <1>2 DEF HasSlot, Holders
    <2>7. Filled(s, l, o, values) = [s EXCEPT ![i] = slot]
        BY <1>2 DEF Filled
    <2> HIDE DEF i, slot
    <2>8. QED
        BY <2>1, <2>4, <2>5, <2>6, <2>7, ReplacedConsistent, ZenonT(60)
<1>3. QED
    BY <1>1, <1>2

\* set() makes dirty only a plane that is resident.
LEMMA WithCellConsistent ==
    ASSUME NEW s \in SlotArrays, Consistent(s),
           NEW l \in Layers, NEW o, NEW c \in Cells, NEW v \in Values,
           Resident(s, l, o)
    PROVE  /\ WithCell(s, l, o, c, v) \in SlotArrays
           /\ Consistent(WithCell(s, l, o, c, v))
<1> DEFINE i == FindSlot(s, o)
           slot == [s[i] EXCEPT !.planes[l][c] = v, !.dirty[l] = TRUE]
<1>1. i \in SlotIds /\ s[i].occupied /\ s[i].resident[l]
    BY FindSlotHolds DEF Resident
<1>2. s[i] \in Slot /\ WellFormed(s[i])
    BY <1>1 DEF SlotArrays, Consistent
<1>3. slot \in Slot
    BY <1>2 DEF Slot, Plane
<1>4. WellFormed(slot) /\ slot.origin = s[i].origin
    BY <1>1, <1>2 DEF WellFormed, Slot
<1>5. [s EXCEPT ![i].planes[l][c] = v, ![i].dirty[l] = TRUE] = [s EXCEPT ![i] = slot]
    BY <1>1 DEF SlotArrays
<1>6. WithCell(s, l, o, c, v) \in {s, [s EXCEPT ![i] = slot]}
    BY <1>5 DEF WithCell
<1> HIDE DEF i, slot
<1>7. QED
    BY <1>1, <1>3, <1>4, <1>6, UpdatedConsistent

LEMMA CleanedConsistent ==
    ASSUME NEW s \in SlotArrays, Consistent(s),
           NEW l \in Layers, NEW o, HasSlot(s, o)
    PROVE  /\ Cleaned(s, l, o) \in SlotArrays
           /\ Consistent(Cleaned(s, l, o))
<1> DEFINE i == FindSlot(s, o)
           slot == [s[i] EXCEPT !.dirty[l] = FALSE]
<1>1. i \in SlotIds /\ s[i].occupied
    BY FindSlotHolds
<1>2. s[i] \in Slot /\ WellFormed(s[i])
    BY <1>1 DEF SlotArrays, Consistent
<1>3. slot \in Slot
    BY <1>2 DEF Slot
<1>4. WellFormed(slot) /\ slot.origin = s[i].origin
    BY <1>1, <1>2 DEF WellFormed, Slot
<1>5. Cleaned(s, l, o) = [s EXCEPT ![i] = slot]
    BY <1>1 DEF Cleaned, SlotArrays
<1> HIDE DEF i, slot
<1>6. QED
    BY <1>1, <1>3, <1>4, <1>5, UpdatedConsistent

LEMMA DiscardedConsistent ==
    ASSUME NEW s \in SlotArrays, Consistent(s), NEW area
    PROVE  /\ Discarded(s, area) \in SlotArrays
           /\ Consistent(Discarded(s, area))
<1> DEFINE t == Discarded(s, area)
<1>1. \A i \in SlotIds : t[i] = s[i] \/ t[i] = EmptySlot
    BY DEF Discarded
<1>2. t \in SlotArrays
    BY EmptySlotIsSlot DEF Discarded, SlotArrays
<1>3. \A i \in SlotIds : WellFormed(t[i])
    BY <1>1, EmptySlotIsSlot DEF Consistent
<1>4. OneSlotPerOrigin(t)
    BY <1>1 DEF Consistent, OneSlotPerOrigin, EmptySlot
<1>5. QED
    BY <1>2, <1>3, <1>4 DEF Consistent

-----------------------------------------------------------------------------
(***************************************************************************)
(* What the lookups answer after an operation: the change that was asked   *)
(* for, and nothing else.                                                  *)
(***************************************************************************)
\* The plane find_slot() leads to.
PlaneOf(s, l, o) == s[FindSlot(s, o)].planes[l]

\* What the scan finds for the origin of a slot in use.
LEMMA HolderAnswers ==
    ASSUME NEW s, OneSlotPerOrigin(s), NEW i \in SlotIds, s[i].occupied, NEW l
    PROVE  /\ Resident(s, l, s[i].origin) <=> s[i].resident[l]
           /\ IsDirty(s, l, s[i].origin) <=> s[i].resident[l] /\ s[i].dirty[l]
           /\ PlaneOf(s, l, s[i].origin) = s[i].planes[l]
BY FoundIsTheHolder DEF Resident, IsDirty, PlaneOf

\* Nothing is found for an origin that no slot in use holds.
LEMMA NoHolderAnswers ==
    ASSUME NEW s, NEW o, \A i \in SlotIds : s[i].occupied => s[i].origin # o, NEW l
    PROVE  ~ Resident(s, l, o) /\ ~ IsDirty(s, l, o)
BY DEF Resident, IsDirty, HasSlot, Holders

\* An array that differs from s in one slot, which holds o afterwards and held
\* o or nothing before, gives the answers of s for every other origin.
LEMMA OneSlotChanged ==
    ASSUME NEW s, NEW t, OneSlotPerOrigin(s), OneSlotPerOrigin(t),
           NEW i \in SlotIds, NEW o,
           t[i].occupied, t[i].origin = o, s[i].occupied => s[i].origin = o,
           \A j \in SlotIds \ {i} : t[j] = s[j],
           NEW m, NEW p, p # o
    PROVE  /\ Resident(t, m, p) <=> Resident(s, m, p)
           /\ IsDirty(t, m, p) <=> IsDirty(s, m, p)
           /\ Resident(s, m, p) => PlaneOf(t, m, p) = PlaneOf(s, m, p)
<1>1. CASE \E j \in SlotIds : s[j].occupied /\ s[j].origin = p
    <2>1. PICK j \in SlotIds : s[j].occupied /\ s[j].origin = p
        BY <1>1
    <2>2. t[j] = s[j]
        BY <2>1
    <2>3. QED
        BY <2>1, <2>2, HolderAnswers
<1>2. CASE ~ \E j \in SlotIds : s[j].occupied /\ s[j].origin = p
    <2>1. \A j \in SlotIds : t[j].occupied => t[j].origin # p
        BY <1>2
    <2>2. QED
        BY <1>2, <2>1, NoHolderAnswers
<1>3. QED
    BY <1>1, <1>2

\* fill(): the plane asked for becomes resident with the values given and
\* clean; every other plane is as it was.
LEMMA FilledAnswers ==
    ASSUME NEW s \in SlotArrays, Consistent(s),
           NEW l \in Layers, NEW o \in AlignedOrigins, NEW values \in Plane,
           HasSlot(s, o) \/ FreeSlots(s) # {}, MayOverwrite(s, l, o),
           NEW m \in Layers, NEW p
    PROVE  LET t == Filled(s, l, o, values)
           IN  /\ Resident(t, m, p) <=> Resident(s, m, p) \/ (m = l /\ p = o)
               /\ IsDirty(t, m, p) <=> IsDirty(s, m, p)
               /\ Resident(s, m, p) /\ ~ (m = l /\ p = o) => PlaneOf(t, m, p) = PlaneOf(s, m, p)
               /\ PlaneOf(t, l, o) = values
<1> DEFINE t == Filled(s, l, o, values)
<1>1. OneSlotPerOrigin(s) /\ OneSlotPerOrigin(t)
    BY FilledConsistent DEF Consistent
<1>2. PICK i \in SlotIds :
          /\ \A j \in SlotIds \ {i} : t[j] = s[j]
          /\ s[i].occupied => s[i].origin = o
          /\ t[i].occupied /\ t[i].origin = o
          /\ t[i].resident[l] /\ t[i].planes[l] = values
          /\ ~ t[i].dirty[l] 
          /\ s[i].occupied <=> HasSlot(s, o)
          /\ s[i].occupied => /\ \A n \in Layers \ {l} : /\ t[i].resident[n] = s[i].resident[n]
                                                         /\ t[i].planes[n] = s[i].planes[n]
                              /\ \A n \in Layers : t[i].dirty[n] = s[i].dirty[n]
          /\ ~ s[i].occupied => \A n \in Layers \ {l} : ~ t[i].resident[n]
    <2>1. CASE HasSlot(s, o)
        <3> DEFINE i == FindSlot(s, o)
        <3>1. i \in SlotIds /\ s[i].occupied /\ s[i].origin = o
            BY <2>1, FindSlotHolds
        <3>2. ~ s[i].dirty[l]
            BY <2>1 DEF MayOverwrite
        <3>3. t = [s EXCEPT ![i] = Installed(s[i], l, values)]
            BY <2>1 DEF Filled
        <3>4. t[i] = Installed(s[i], l, values) /\ \A j \in SlotIds \ {i} : t[j] = s[j]
            BY <3>1, <3>3 DEF SlotArrays
        <3>5. s[i] \in Slot
            BY <3>1 DEF SlotArrays
        <3>6. /\ t[i].occupied /\ t[i].origin = o
              /\ t[i].resident[l] /\ t[i].planes[l] = values /\ ~ t[i].dirty[l]
              /\ \A n \in Layers \ {l} : /\ t[i].resident[n] = s[i].resident[n]
                                          /\ t[i].planes[n] = s[i].planes[n]
              /\ \A n \in Layers : t[i].dirty[n] = s[i].dirty[n]
            <4> HIDE DEF i, t
            <4>1. QED
                BY <3>1, <3>2, <3>4, <3>5 DEF Installed, Slot
        <3> HIDE DEF i, t
        <3>7. QED
            BY <2>1, <3>1, <3>4, <3>6
    <2>2. CASE ~ HasSlot(s, o)
        <3> DEFINE i == FindFreeSlot(s)
        <3>1. i \in SlotIds /\ ~ s[i].occupied
            BY <2>2, FreeSlotIsFree
        <3>2. t = [s EXCEPT ![i] = Installed(Claimed(s[i], o), l, values)]
            BY <2>2 DEF Filled
        <3>3. /\ t[i] = Installed(Claimed(s[i], o), l, values)
              /\ \A j \in SlotIds \ {i} : t[j] = s[j]
            BY <3>1, <3>2 DEF SlotArrays
        <3>4. s[i] \in Slot
            BY <3>1 DEF SlotArrays
        <3>5. /\ t[i].occupied /\ t[i].origin = o
              /\ t[i].resident[l] /\ t[i].planes[l] = values /\ ~ t[i].dirty[l]
              /\ \A n \in Layers \ {l} : ~ t[i].resident[n]
            <4> HIDE DEF i, t
            <4>1. QED
                BY <3>1, <3>3, <3>4 DEF Installed, Claimed, Slot, NoLayers
        <3> HIDE DEF i, t
        <3>6. QED
            BY <2>2, <3>1, <3>3, <3>5
    <2>3. QED
        BY <2>1, <2>2
<1> HIDE DEF t
<1>3. CASE p # o
    <2>1. /\ Resident(t, m, p) <=> Resident(s, m, p)
          /\ IsDirty(t, m, p) <=> IsDirty(s, m, p)
          /\ Resident(s, m, p) => PlaneOf(t, m, p) = PlaneOf(s, m, p)
        BY <1>1, <1>2, <1>3, OneSlotChanged
    <2>2. PlaneOf(t, l, o) = values
        BY <1>1, <1>2, HolderAnswers
    <2>3. QED
        BY <1>3, <2>1, <2>2 DEF t
<1>4. CASE p = o
    <2>1. /\ \A n : Resident(t, n, o) <=> t[i].resident[n]
          /\ \A n : IsDirty(t, n, o) <=> t[i].resident[n] /\ t[i].dirty[n]
          /\ \A n : PlaneOf(t, n, o) = t[i].planes[n]
        BY <1>1, <1>2, HolderAnswers
    <2>2. CASE s[i].occupied
        <3>1. /\ Resident(s, m, o) <=> s[i].resident[m]
              /\ IsDirty(s, m, o) <=> s[i].resident[m] /\ s[i].dirty[m]
              /\ PlaneOf(s, m, o) = s[i].planes[m]
            BY <1>1, <1>2, <2>2, HolderAnswers
        <3>2. QED
            BY <1>2, <1>4, <2>1, <2>2, <3>1 DEF t
    <2>3. CASE ~ s[i].occupied
        <3>1. ~ Resident(s, m, o) /\ ~ IsDirty(s, m, o)
            BY <1>2, <2>3 DEF IsDirty, Resident
        <3>2. QED
            BY <1>2, <1>4, <2>1, <2>3, <3>1 DEF t
    <2>4. QED
        BY <2>2, <2>3
<1>5. QED
    BY <1>3, <1>4

\* The plane, and the slot, that set() leaves where it has found one.
PlaneWith(plane, c, v) == [plane EXCEPT ![c] = v]

Overwritten(slot, l, c, v) == [slot EXCEPT !.planes[l][c] = v, !.dirty[l] = TRUE]

LEMMA OverwrittenParts ==
    ASSUME NEW slot \in Slot, NEW l \in Layers, NEW c, NEW v,
           NEW new, new = Overwritten(slot, l, c, v)
    PROVE  /\ new.occupied = slot.occupied /\ new.origin = slot.origin
           /\ new.resident = slot.resident
           /\ new.planes[l] = PlaneWith(slot.planes[l], c, v) /\ new.dirty[l]
           /\ \A n \in Layers \ {l} : /\ new.planes[n] = slot.planes[n]
                                       /\ new.dirty[n] = slot.dirty[n]
<1> DEFINE planes == [slot.planes EXCEPT ![l] = PlaneWith(slot.planes[l], c, v)]
           dirty == [slot.dirty EXCEPT ![l] = TRUE]
<1>1. new = [slot EXCEPT !.planes = planes, !.dirty = dirty]
    BY DEF Slot, Overwritten, PlaneWith
<1>2. /\ planes[l] = PlaneWith(slot.planes[l], c, v) /\ dirty[l]
      /\ \A n \in Layers \ {l} : planes[n] = slot.planes[n] /\ dirty[n] = slot.dirty[n]
    BY DEF Slot
<1> HIDE DEF planes, dirty
<1>3. /\ new.occupied = slot.occupied /\ new.origin = slot.origin
      /\ new.resident = slot.resident /\ new.planes = planes /\ new.dirty = dirty
    BY <1>1 DEF Slot
<1>4. QED
    BY <1>2, <1>3

\* set(): one cell of one resident plane, which becomes dirty unless the value
\* was there already.
LEMMA WithCellAnswers ==
    ASSUME NEW s \in SlotArrays, Consistent(s),
           NEW l \in Layers, NEW o, NEW c \in Cells, NEW v \in Values,
           Resident(s, l, o), NEW m \in Layers, NEW p
    PROVE  LET t == WithCell(s, l, o, c, v)
           IN  /\ Resident(t, m, p) <=> Resident(s, m, p)
               /\ IsDirty(t, m, p) <=>
                      IsDirty(s, m, p) \/ (m = l /\ p = o /\ PlaneOf(s, l, o)[c] # v)
               /\ Resident(s, m, p) =>
                      PlaneOf(t, m, p) = IF m = l /\ p = o
                                         THEN PlaneWith(PlaneOf(s, l, o), c, v)
                                         ELSE PlaneOf(s, m, p)
<1> DEFINE t == WithCell(s, l, o, c, v)
<1>1. OneSlotPerOrigin(s) /\ OneSlotPerOrigin(t)
    BY WithCellConsistent DEF Consistent
<1>2. PICK i \in SlotIds :
          /\ i = FindSlot(s, o)
          /\ s[i].occupied /\ s[i].origin = o /\ s[i].resident[l] /\ s[i] \in Slot
    BY FindSlotHolds DEF Resident, SlotArrays
<1>3. PlaneOf(s, l, o) = s[i].planes[l] /\ s[i].planes[l] \in Plane
    BY <1>2 DEF PlaneOf, Slot
<1>4. CASE s[i].planes[l][c] = v
    <2>1. t = s
        BY <1>2, <1>4 DEF WithCell, ValueAt
    <2>2. PlaneWith(PlaneOf(s, l, o), c, v) = PlaneOf(s, l, o)
        BY <1>3, <1>4 DEF Plane, PlaneWith
    <2>3. PlaneOf(s, l, o)[c] = v
        BY <1>3, <1>4
    <2> HIDE DEF t
    <2>4. QED
        BY <2>1, <2>2, <2>3 DEF t
<1>5. CASE s[i].planes[l][c] # v
    <2>1. t = [s EXCEPT ![i].planes[l][c] = v, ![i].dirty[l] = TRUE]
        BY <1>2, <1>5 DEF WithCell, ValueAt
    <2>2. /\ t[i] = Overwritten(s[i], l, c, v)
          /\ \A j \in SlotIds \ {i} : t[j] = s[j]
        BY <1>2, <2>1 DEF SlotArrays, Overwritten
    <2> HIDE DEF t
    <2>3. /\ t[i].occupied /\ t[i].origin = o
          /\ \A n \in Layers : /\ t[i].resident[n] = s[i].resident[n]
                               /\ n # l => t[i].planes[n] = s[i].planes[n]
                               /\ n # l => t[i].dirty[n] = s[i].dirty[n]
          /\ t[i].planes[l] = PlaneWith(s[i].planes[l], c, v)
          /\ t[i].dirty[l]
        <3>1. /\ t[i].occupied = s[i].occupied /\ t[i].origin = s[i].origin
              /\ t[i].resident = s[i].resident
              /\ t[i].planes[l] = PlaneWith(s[i].planes[l], c, v) /\ t[i].dirty[l]
              /\ \A n \in Layers \ {l} : /\ t[i].planes[n] = s[i].planes[n]
                                          /\ t[i].dirty[n] = s[i].dirty[n]
            <4>1. s[i] \in Slot /\ t[i] = Overwritten(s[i], l, c, v)
                BY <1>2, <2>2
            <4>2. QED
                BY ONLY <4>1, l \in Layers, OverwrittenParts
        <3>2. QED
            BY <1>2, <3>1
    <2>4. CASE p # o
        <3>1. /\ Resident(t, m, p) <=> Resident(s, m, p)
              /\ IsDirty(t, m, p) <=> IsDirty(s, m, p)
              /\ Resident(s, m, p) => PlaneOf(t, m, p) = PlaneOf(s, m, p)
            <4>1. s[i].occupied => s[i].origin = o
                BY <1>2
            <4>2. \A j \in SlotIds \ {i} : t[j] = s[j]
                BY <2>2
            <4>3. t[i].occupied /\ t[i].origin = o
                BY <2>3
            <4>4. QED
                BY <1>1, <2>4, <4>1, <4>2, <4>3, OneSlotChanged
        <3>2. QED
            BY <2>4, <3>1 DEF t
    <2>5. CASE p = o
        <3>1. /\ Resident(t, m, o) <=> t[i].resident[m]
              /\ IsDirty(t, m, o) <=> t[i].resident[m] /\ t[i].dirty[m]
              /\ PlaneOf(t, m, o) = t[i].planes[m]
            BY <1>1, <1>2, <2>3, HolderAnswers
        <3>2. /\ Resident(s, m, o) <=> s[i].resident[m]
              /\ IsDirty(s, m, o) <=> s[i].resident[m] /\ s[i].dirty[m]
              /\ PlaneOf(s, m, o) = s[i].planes[m]
            BY <1>1, <1>2, HolderAnswers
        <3>3. QED
            BY <1>2, <1>3, <1>5, <2>3, <2>5, <3>1, <3>2 DEF t
    <2>6. QED
        BY <2>4, <2>5
<1>6. QED
    BY <1>4, <1>5

\* mark_clean(): the dirty bit of one plane, and nothing else.
LEMMA CleanedAnswers ==
    ASSUME NEW s \in SlotArrays, Consistent(s),
           NEW l \in Layers, NEW o, HasSlot(s, o), NEW m \in Layers, NEW p
    PROVE  LET t == Cleaned(s, l, o)
           IN  /\ Resident(t, m, p) <=> Resident(s, m, p)
               /\ IsDirty(t, m, p) <=> IsDirty(s, m, p) /\ ~ (m = l /\ p = o)
               /\ Resident(s, m, p) => PlaneOf(t, m, p) = PlaneOf(s, m, p)
<1> DEFINE t == Cleaned(s, l, o)
<1>1. OneSlotPerOrigin(s) /\ OneSlotPerOrigin(t)
    BY CleanedConsistent DEF Consistent
<1>2. PICK i \in SlotIds :
          i = FindSlot(s, o) /\ s[i].occupied /\ s[i].origin = o /\ s[i] \in Slot
    BY FindSlotHolds DEF SlotArrays
<1>3. /\ t[i] = [s[i] EXCEPT !.dirty[l] = FALSE]
      /\ \A j \in SlotIds \ {i} : t[j] = s[j]
    BY <1>2 DEF Cleaned, SlotArrays
<1>4. /\ t[i].occupied /\ t[i].origin = o
      /\ t[i].resident = s[i].resident /\ t[i].planes = s[i].planes
      /\ \A n \in Layers : t[i].dirty[n] <=> s[i].dirty[n] /\ n # l
    BY <1>2, <1>3 DEF Slot
<1> HIDE DEF t
<1>5. CASE p # o
    <2>1. /\ Resident(t, m, p) <=> Resident(s, m, p)
          /\ IsDirty(t, m, p) <=> IsDirty(s, m, p)
          /\ Resident(s, m, p) => PlaneOf(t, m, p) = PlaneOf(s, m, p)
        <3>1. s[i].occupied => s[i].origin = o
            BY <1>2
        <3>2. \A j \in SlotIds \ {i} : t[j] = s[j]
            BY <1>3
        <3>3. t[i].occupied /\ t[i].origin = o
            BY <1>4
        <3>4. QED
            BY <1>1, <1>5, <3>1, <3>2, <3>3, OneSlotChanged
    <2>2. QED
        BY <1>5, <2>1 DEF t
<1>6. CASE p = o
    <2>1. /\ Resident(t, m, o) <=> t[i].resident[m]
          /\ IsDirty(t, m, o) <=> t[i].resident[m] /\ t[i].dirty[m]
          /\ PlaneOf(t, m, o) = t[i].planes[m]
        BY <1>1, <1>2, <1>4, HolderAnswers
    <2>2. /\ Resident(s, m, o) <=> s[i].resident[m]
          /\ IsDirty(s, m, o) <=> s[i].resident[m] /\ s[i].dirty[m]
          /\ PlaneOf(s, m, o) = s[i].planes[m]
        BY <1>1, <1>2, HolderAnswers
    <2>3. QED
        BY <1>4, <1>6, <2>1, <2>2 DEF t
<1>7. QED
    BY <1>5, <1>6

\* invalidate(): the planes of the area go, the others stay as they are.
LEMMA DiscardedAnswers ==
    ASSUME NEW s \in SlotArrays, Consistent(s), NEW area, NEW m \in Layers, NEW p
    PROVE  LET t == Discarded(s, area)
           IN  /\ Resident(t, m, p) <=> Resident(s, m, p) /\ p \notin area
               /\ IsDirty(t, m, p) <=> IsDirty(s, m, p) /\ p \notin area
               /\ Resident(s, m, p) /\ p \notin area => PlaneOf(t, m, p) = PlaneOf(s, m, p)
<1> DEFINE t == Discarded(s, area)
<1>1. OneSlotPerOrigin(s) /\ OneSlotPerOrigin(t)
    BY DiscardedConsistent DEF Consistent
<1>2. \A j \in SlotIds : t[j] = IF s[j].occupied /\ s[j].origin \in area
                               THEN EmptySlot ELSE s[j]
    BY DEF Discarded, Hit
<1> HIDE DEF t
<1>3. CASE p \notin area /\ \E j \in SlotIds : s[j].occupied /\ s[j].origin = p
    <2>1. PICK j \in SlotIds : s[j].occupied /\ s[j].origin = p /\ t[j] = s[j]
        BY <1>2, <1>3
    <2>2. /\ Resident(t, m, p) <=> Resident(s, m, p)
          /\ IsDirty(t, m, p) <=> IsDirty(s, m, p)
          /\ PlaneOf(t, m, p) = PlaneOf(s, m, p)
        BY <1>1, <2>1, HolderAnswers
    <2>3. QED
        BY <1>3, <2>2 DEF t
<1>4. CASE p \in area \/ ~ \E j \in SlotIds : s[j].occupied /\ s[j].origin = p
    <2>1. \A j \in SlotIds : t[j].occupied => t[j].origin # p
        BY <1>2, <1>4 DEF EmptySlot
    <2>2. ~ Resident(t, m, p) /\ ~ IsDirty(t, m, p)
        BY <2>1, NoHolderAnswers
    <2>3. p \notin area => ~ Resident(s, m, p) /\ ~ IsDirty(s, m, p)
        BY <1>4, NoHolderAnswers
    <2>4. QED
        BY <2>2, <2>3 DEF t
<1>5. QED
    BY <1>3, <1>4

\* Nothing is resident in a new cache.
LEMMA EmptySlotsAnswer ==
    ASSUME NEW m, NEW p
    PROVE  ~ Resident(EmptySlots, m, p) /\ ~ IsDirty(EmptySlots, m, p)
BY NoHolderAnswers DEF EmptySlots, EmptySlot

\* A cache with no dirty slot has no dirty plane, and the other way round.
LEMMA HasDirtyMeans ==
    ASSUME NEW s \in SlotArrays, Consistent(s)
    PROVE  HasDirty(s) <=> \E m \in Layers, p \in AlignedOrigins : IsDirty(s, m, p)
<1>1. ASSUME HasDirty(s)
      PROVE  \E m \in Layers, p \in AlignedOrigins : IsDirty(s, m, p)
    <2>1. PICK i \in SlotIds, m \in Layers : s[i].resident[m] /\ s[i].dirty[m]
        BY <1>1 DEF HasDirty, SlotDirty
    <2>2. s[i].occupied /\ s[i].origin \in AlignedOrigins
        BY <2>1 DEF Consistent, WellFormed
    <2>3. IsDirty(s, m, s[i].origin)
        BY <2>1, <2>2, HolderAnswers DEF Consistent
    <2>4. QED
        BY <2>2, <2>3
<1>2. ASSUME NEW m \in Layers, NEW p, IsDirty(s, m, p)
      PROVE  HasDirty(s)
    BY <1>2, FindSlotHolds DEF IsDirty, Resident, HasDirty, SlotDirty
<1>3. QED
    BY <1>1, <1>2
=============================================================================
