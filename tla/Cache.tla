------------------------------- MODULE Cache -------------------------------
(***************************************************************************)
(* Landor's bounded Cache (src/world/cache.hpp) as a component of its own: *)
(* the slot array and the calls its owner makes on it.  Its const members  *)
(* (contains, dirty, value, tile, dirty_chunks) change nothing and are the *)
(* operators of CacheSlots.  A call is made in any order, with any         *)
(* arguments that satisfy the preconditions the code asserts.              *)
(***************************************************************************)
EXTENDS CacheSlots, FiniteSets

CONSTANTS
    Chunks,  \* the chunks handed to fill(), canonical or not
    Spans,   \* the value spans handed to fill(), of any length
    Areas    \* the areas handed to invalidate(), by the chunks they intersect

ASSUME ChunksAssumption == Chunks \subseteq Chunk
ASSUME SpansAssumption == \A f \in Spans : DOMAIN f = Cells => f \in Plane
ASSUME AreasAssumption == Areas \subseteq SUBSET Origins

VARIABLES
    slots,   \* m_slots
    reply    \* the last call and the bool it returned (TRUE for void)

vars == <<slots, reply>>

Calls == {"none", "fill", "misfit", "set", "mark_clean", "invalidate"}

TypeOK ==
    /\ slots \in [SlotIds -> Slot]
    /\ reply \in [call : Calls, ok : BOOLEAN]

Init ==
    /\ slots = EmptySlots
    /\ reply = [call |-> "none", ok |-> TRUE]

Answer(call, ok) == reply' = [call |-> call, ok |-> ok]

-----------------------------------------------------------------------------
\* A later layer's fill takes a fresh slot for the same origin.
SecondSlotFilled(l, chunk, values) ==
    LET fits == Accepts(l, chunk, values)
        ok == fits /\ (FreeSlots(slots) # {} \/ Resident(slots, l, chunk.origin))
    IN  /\ slots' = IF ~ ok THEN slots
                    ELSE IF Resident(slots, l, chunk.origin)
                    THEN Filled(slots, l, chunk.origin, values)
                    ELSE [slots EXCEPT ![FindFreeSlot(slots)] =
                              Installed(Claimed(@, chunk.origin), l, values)]
        /\ Answer(IF fits THEN "fill" ELSE "misfit", ok)

\* fill() without the test of the span's size.
FillAnySize(l, chunk, values) ==
    LET fits == /\ chunk.layer = l /\ chunk.side = ChunkSide
                /\ chunk.origin \in AlignedOrigins
        ok == /\ fits
              /\ HasSlot(slots, chunk.origin) \/ FreeSlots(slots) # {}
              /\ MayOverwrite(slots, l, chunk.origin)
    IN  /\ slots' = IF ok THEN Filled(slots, l, chunk.origin, values) ELSE slots
        /\ Answer(IF fits THEN "fill" ELSE "misfit", ok)

Fill(l, chunk, values) ==
    LET ok == CanFill(slots, l, chunk, values)
    IN  /\ slots' = IF ok THEN Filled(slots, l, chunk.origin, values) ELSE slots
        /\ Answer(IF Accepts(l, chunk, values) THEN "fill" ELSE "misfit", ok)

Set(l, o, c, v) ==
    /\ Resident(slots, l, o)
    /\ slots' = WithCell(slots, l, o, c, v)
    /\ Answer("set", TRUE)

\* The layer index is ignored: every plane of the slot is marked clean.
CleanWholeSlot(l, o) ==
    /\ IsDirty(slots, l, o)
    /\ slots' = [slots EXCEPT ![FindSlot(slots, o)].dirty = NoLayers]
    /\ Answer("mark_clean", TRUE)

MarkClean(l, o) ==
    /\ IsDirty(slots, l, o)
    /\ slots' = Cleaned(slots, l, o)
    /\ Answer("mark_clean", TRUE)

\* One pass that discards as it goes and stops at the first dirty slot.
InvalidateInOnePass(area) ==
    LET blocked == {i \in Hit(slots, area) : SlotDirty(slots[i])}
        swept == {i \in Hit(slots, area) : \A j \in blocked : i < j}
    IN  /\ slots' = [i \in SlotIds |-> IF i \in swept THEN EmptySlot ELSE slots[i]]
        /\ Answer("invalidate", blocked = {})

Invalidate(area) ==
    LET ok == CanDiscard(slots, area)
    IN  /\ slots' = IF ok THEN Discarded(slots, area) ELSE slots
        /\ Answer("invalidate", ok)

InvalidateAll ==
    /\ slots' = IF HasDirty(slots) THEN slots ELSE EmptySlots
    /\ Answer("invalidate", ~ HasDirty(slots))

Next ==
    \/ \E l \in Layers, chunk \in Chunks, values \in Spans : Fill(l, chunk, values)
    \/ \E l \in Layers, o \in AlignedOrigins, c \in Cells, v \in Values : Set(l, o, c, v)
    \/ \E l \in Layers, o \in AlignedOrigins : MarkClean(l, o)
    \/ \E area \in Areas : Invalidate(area)
    \/ InvalidateAll

Spec == Init /\ [][Next]_vars

-----------------------------------------------------------------------------
\* Under every sequence of calls the slot array stays a map from origins to
\* planes: one well-formed slot per canonical chunk (cache.hpp:33-53).
SlotsConsistent == Consistent(slots)

PlaneAt(s, l, o) == s[FindSlot(s, o)].planes[l]

ResidentKeys == {k \in Layers \X AlignedOrigins : Resident(slots, k[1], k[2])}

DirtyKeys == {k \in Layers \X AlignedOrigins : IsDirty(slots, k[1], k[2])}

\* A dirty plane survives every call: it stays resident, only a set() changes
\* its values, one cell at a time, and only mark_clean() on exactly that plane
\* makes it clean, leaving its values as they were (cache.hpp:45-52).
DirtyNeverDiscarded ==
    [][\A k \in DirtyKeys :
          /\ k \in DirtyKeys' \/ (reply'.call = "mark_clean" /\ DirtyKeys' = DirtyKeys \ {k})
          /\ Resident(slots', k[1], k[2])
          /\ \/ PlaneAt(slots', k[1], k[2]) = PlaneAt(slots, k[1], k[2])
             \/ /\ reply'.call = "set"
                /\ \E c \in Cells, v \in Values :
                       PlaneAt(slots', k[1], k[2])
                           = [PlaneAt(slots, k[1], k[2]) EXCEPT ![c] = v]]_vars

-----------------------------------------------------------------------------
(***************************************************************************)
(* The cache implements ResidentPlanes: a key is resident when the slot    *)
(* that find_slot() returns for its origin has the layer's bit set.  To    *)
(* invalidate_all() every chunk is in the area.                            *)
(***************************************************************************)
Planes == [k \in ResidentKeys |-> PlaneAt(slots, k[1], k[2])]

Promise == INSTANCE ResidentPlanes WITH
    Areas <- Areas \cup {AlignedOrigins},
    plane <- Planes,
    dirty <- DirtyKeys

\* Every call acts on the visible planes as ResidentPlanes says: all or
\* nothing, refused for the stated reasons only, and never more origins than
\* the capacity (cache.hpp:41-52).
ImplementsResidentPlanes == Promise!Spec
=============================================================================
