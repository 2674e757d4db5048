----------------------------- MODULE CacheSlots -----------------------------
(***************************************************************************)
(* The slot array of Landor's bounded Cache (src/world/cache.hpp) and the  *)
(* pure operators its member functions are made of.  A slot holds one      *)
(* canonical spatial chunk, identified by its origin, and one plane of     *)
(* values per layer with a resident bit and a dirty bit of its own.        *)
(*                                                                         *)
(* Every operator takes the slot array `s' as an argument, so that Cache   *)
(* (the component alone) and Map (the component inside its owner) use the  *)
(* same definitions.  Coordinates are opaque here: which origins are       *)
(* aligned is a parameter, and Geometry computes it for Map.               *)
(***************************************************************************)
EXTENDS Integers, Sequences, Ordering

CONSTANTS
    Layers,          \* the layer types of the template parameter pack
    Origins,         \* the coordinates a Chunk may carry as its origin
    AlignedOrigins,  \* those for which Chunk::aligned() holds
    Home,            \* coord_type{}, the origin of a value-initialized slot
    Cells,           \* the local cells of one plane
    Values,          \* the layers' value_type
    Zero,            \* value_type{}, what a value-initialized plane holds
    Capacity,        \* number of spatial slots
    Sides,           \* the side lengths a Chunk may carry
    ChunkSide        \* CacheChunkSide, the one side this cache accepts

ASSUME CapacityAssumption == Capacity \in Nat \ {0}
ASSUME OriginsAssumption == AlignedOrigins \subseteq Origins /\ Home \in Origins
ASSUME ValuesAssumption == Zero \in Values
ASSUME SidesAssumption == ChunkSide \in Sides

SlotIds == 1 .. Capacity

Plane == [Cells -> Values]

NoLayers == [l \in Layers |-> FALSE]

Slot == [occupied : BOOLEAN,
         origin   : Origins,
         resident : [Layers -> BOOLEAN],
         dirty    : [Layers -> BOOLEAN],
         planes   : [Layers -> Plane]]

\* Slot {}: what the array starts from and what an invalidation leaves.
EmptySlot == [occupied |-> FALSE,
              origin   |-> Home,
              resident |-> NoLayers,
              dirty    |-> NoLayers,
              planes   |-> [l \in Layers |-> [c \in Cells |-> Zero]]]

EmptySlots == [i \in SlotIds |-> EmptySlot]

\* A Chunk as Cache sees it: { layer, origin, side }.
Chunk == [layer : Layers, origin : Origins, side : Sides]

-----------------------------------------------------------------------------
(***************************************************************************)
(* Lookups: linear scans that stop at the first match.                     *)
(***************************************************************************)
Holders(s, o) == {i \in SlotIds : s[i].occupied /\ s[i].origin = o}

FreeSlots(s) == {i \in SlotIds : ~ s[i].occupied}

First(ids) == CHOOSE i \in ids : \A j \in ids : i <= j

HasSlot(s, o) == Holders(s, o) # {}

FindSlot(s, o) == First(Holders(s, o))

FindFreeSlot(s) == First(FreeSlots(s))

\* contains<LayerT>(position), for the canonical origin of position.
Resident(s, l, o) == HasSlot(s, o) /\ s[FindSlot(s, o)].resident[l]

\* dirty<LayerT>(position)
IsDirty(s, l, o) == Resident(s, l, o) /\ s[FindSlot(s, o)].dirty[l]

\* value<LayerT>(position); asserted precondition: Resident(s, l, o).
ValueAt(s, l, o, c) == s[FindSlot(s, o)].planes[l][c]

SlotDirty(slot) == \E l \in Layers : slot.resident[l] /\ slot.dirty[l]

HasDirty(s) == \E i \in SlotIds : SlotDirty(s[i])

\* dirty_chunks<LayerT>(): the origins of the dirty planes, in slot order.
DirtyChunks(s, l) ==
    LET listed == {i \in SlotIds : s[i].occupied /\ s[i].resident[l] /\ s[i].dirty[l]}
        ids == InOrder(listed, [i \in listed |-> i])
    IN  [k \in DOMAIN ids |-> s[ids[k]].origin]

-----------------------------------------------------------------------------
(***************************************************************************)
(* fill<LayerT>(chunk, values).  It answers TRUE exactly when CanFill, and *)
(* the array then becomes Filled.                                          *)
(***************************************************************************)
Accepts(l, chunk, values) ==
    /\ chunk.layer = l
    /\ chunk.side = ChunkSide
    /\ chunk.origin \in AlignedOrigins
    /\ DOMAIN values = Cells

\* A plane that is dirty is never overwritten.
MayOverwrite(s, l, o) == HasSlot(s, o) => ~ s[FindSlot(s, o)].dirty[l]

CanFill(s, l, chunk, values) ==
    /\ Accepts(l, chunk, values)
    /\ HasSlot(s, chunk.origin) \/ FreeSlots(s) # {}
    /\ MayOverwrite(s, l, chunk.origin)

\* A free slot taken over for origin o keeps its old plane contents.
Claimed(slot, o) ==
    [slot EXCEPT !.occupied = TRUE, !.origin = o,
                 !.resident = NoLayers, !.dirty = NoLayers]

Installed(slot, l, values) ==
    [slot EXCEPT !.planes[l] = values, !.resident[l] = TRUE]

Filled(s, l, o, values) ==
    IF HasSlot(s, o)
    THEN [s EXCEPT ![FindSlot(s, o)] = Installed(@, l, values)]
    ELSE [s EXCEPT ![FindFreeSlot(s)] = Installed(Claimed(@, o), l, values)]

\* set<LayerT>(position, value): an equal value leaves a clean plane clean.
WithCell(s, l, o, c, v) ==
    IF ValueAt(s, l, o, c) = v
    THEN s
    ELSE [s EXCEPT ![FindSlot(s, o)].planes[l][c] = v,
                   ![FindSlot(s, o)].dirty[l] = TRUE]

\* mark_clean<LayerT>(chunk): the write-back hook.
Cleaned(s, l, o) == [s EXCEPT ![FindSlot(s, o)].dirty[l] = FALSE]

(***************************************************************************)
(* invalidate(area).  An area is given by the origins of the chunks it     *)
(* intersects.  The first pass refuses, the second discards.               *)
(***************************************************************************)
Hit(s, area) == {i \in SlotIds : s[i].occupied /\ s[i].origin \in area}

CanDiscard(s, area) == \A i \in Hit(s, area) : ~ SlotDirty(s[i])

Discarded(s, area) ==
    [i \in SlotIds |-> IF i \in Hit(s, area) THEN EmptySlot ELSE s[i]]

-----------------------------------------------------------------------------
(***************************************************************************)
(* What makes the slot array a map from origins to planes.                 *)
(***************************************************************************)
\* A slot in use holds a canonical chunk and at least one plane (a fill never
\* fails after it has claimed a slot, so none is lost to an empty chunk), and
\* a dirty plane is a resident plane of a slot in use.
WellFormed(slot) ==
    /\ slot.occupied => slot.origin \in AlignedOrigins
    /\ slot.occupied => \E l \in Layers : slot.resident[l]
    /\ \A l \in Layers : slot.resident[l] => slot.occupied
    /\ \A l \in Layers : slot.dirty[l] => slot.resident[l]

\* No two slots hold the same chunk: find_slot() stops at the first match, so
\* the planes of a second one could never be read, flushed or invalidated.
OneSlotPerOrigin(s) ==
    \A i, j \in SlotIds :
        s[i].occupied /\ s[j].occupied /\ s[i].origin = s[j].origin => i = j

Consistent(s) ==
    /\ \A i \in SlotIds : WellFormed(s[i])
    /\ OneSlotPerOrigin(s)
=============================================================================
