-------------------------------- MODULE Map --------------------------------
(***************************************************************************)
(* Landor's Map (src/world/map.hpp): checked access to a layered world     *)
(* through a bounded cache, mutation, placements, and the explicit flush   *)
(* of dirty planes into the runtime overlay sources.                       *)
(*                                                                         *)
(* The program is single threaded.  A call that only reads, mutates the    *)
(* cache or changes a placement is one step.  A flush makes a storage call *)
(* at a time: each may fail, a failed write may leave part of its bytes,   *)
(* and the process may end between any two of them (Restart), after which  *)
(* a new Map finds the runtime storage as it was left.                     *)
(***************************************************************************)
EXTENDS Resolution

CONSTANTS
    LayerOrder,      \* the layers in declared template order
    Capacity,        \* CacheCapacity
    MaxPlacements,
    \* Inputs of the calls:
    AccessAt,        \* positions handed to value(), at() and set()
    SetValues,       \* values handed to set()
    PlaceAt,         \* positions handed to place() and set_position()
    TurnTo,          \* rotations handed to the placement calls
    MirrorTo,        \* reflections handed to the placement calls
    PatchIds,        \* PatchIds handed to place(), known or not
    StoredBefore     \* runtime sources an earlier session may have left

ASSUME OrderAssumption ==
    /\ LayerOrder \in Seq(Layers)
    /\ Range(LayerOrder) = Layers /\ Len(LayerOrder) = Cardinality(Layers)

ASSUME BoundsAssumption == Capacity \in Nat \ {0} /\ MaxPlacements \in Nat

ASSUME InputsAssumption ==
    /\ AccessAt \subseteq Coord /\ PlaceAt \subseteq Coord
    /\ SetValues \subseteq Bytes
    /\ TurnTo \subseteq Rotations /\ MirrorTo \subseteq Reflections

VARIABLES
    slots,        \* m_cache
    placements,   \* m_placements, the occupied prefix in array order
    nextId,       \* m_next_placement_id
    runtime,      \* the runtime storage: bound layer -> source
    flush,        \* the flush in progress
    reply         \* the last call's error, "ok", or "restarted"

vars == <<slots, placements, nextId, runtime, flush, reply>>

INSTANCE CacheSlots WITH
    Origins <- Coord,
    AlignedOrigins <- {o \in Coord : Aligned(o, Side)},
    Home <- <<0, 0>>,
    Cells <- PlaneCells(Side),
    Values <- Bytes,
    Sides <- {Side},
    ChunkSide <- Side

Placement == [id : Nat \ {0}, patch : DOMAIN Catalogue, position : Coord,
              rotation : Rotations, reflection : Reflections]

Errors == {"OutOfBounds", "CacheFull", "LayerSourceError", "AuthoredLayerSourceError",
           "RuntimeLayerSourceError", "UnknownPatch", "CapacityFull", "DirtyState",
           "UnknownPlacement", "UnencodableValue", "MissingRuntimeBinding"}

(***************************************************************************)
(* A flush walks `layers' (one layer for flush<L>(), all of them for       *)
(* flush_all()), and for the first of them the dirty chunks in `todo'.     *)
(* `layout' says that this layer's source is open; `runs' are the writes   *)
(* left for the first chunk, `pc' the next thing to do.                    *)
(***************************************************************************)
FlushSteps == {"idle", "layer", "plane", "bind", "create", "header", "rows", "reopen", "write"}

Idle == [pc |-> "idle", scope |-> <<>>, layers |-> <<>>, todo |-> <<>>,
         layout |-> FALSE, runs |-> <<>>]

NoSource == [form |-> "absent", rows |-> {}, cells |-> Blank]

\* A source that is not there has no content.
ASSUME StorageAssumption ==
    \A source \in StoredBefore :
        source \in RuntimeSource /\ (source.form = "absent" => source = NoSource)

Run == [x : 0 .. Side - 1, y : 0 .. Side - 1, size : 1 .. Side]

TypeOK ==
    /\ slots \in [SlotIds -> Slot]
    /\ placements \in Seq(Placement) /\ Len(placements) <= MaxPlacements
    /\ nextId \in Nat \ {0}
    /\ runtime \in [Bound -> RuntimeSource]
    /\ flush \in [pc : FlushSteps, scope : Seq(Layers), layers : Seq(Layers),
                  todo : Seq(Coord), layout : BOOLEAN, runs : Seq(Run)]
    /\ reply \in Errors \cup {"ok", "restarted"}

Init ==
    /\ slots = EmptySlots
    /\ placements = <<>>
    /\ nextId = 1
    /\ runtime \in [Bound -> StoredBefore]
    /\ flush = Idle
    /\ reply = "ok"

Ready == flush.pc = "idle"

ChunkAt(w) == ChunkOrigin(w, Side)

ChunkFor(l, w) == [layer |-> l, origin |-> ChunkAt(w), side |-> Side]

LocalCell(w) == <<w[1] - ChunkAt(w)[1], w[2] - ChunkAt(w)[2]>>

-----------------------------------------------------------------------------
(***************************************************************************)
(* Access                                                                  *)
(***************************************************************************)
\* ensure_resident<LayerT>(position).  `fault' is a storage call that fails.
EnsureResident(s, l, w, fault) ==
    LET o == ChunkAt(w)
        r == Resolve(placements, runtime, l, o)
        Outcome(t, e) == [slots |-> t, error |-> e]
    IN  IF Resident(s, l, o) THEN Outcome(s, NoError)
        ELSE IF fault /\ r.io THEN Outcome(s, "LayerSourceError")
        ELSE IF r.error # NoError THEN Outcome(s, r.error)
        ELSE IF CanFill(s, l, ChunkFor(l, w), r.plane)
        THEN Outcome(Filled(s, l, o, r.plane), NoError)
        ELSE Outcome(s, "CacheFull")

\* The layers a Tile needs, in declared order, stopping at the first error;
\* what is resident by then stays resident.
EnsureTile(s, w, faulty) ==
    LET load[k \in 0 .. Len(LayerOrder)] ==
            IF k = 0 THEN [slots |-> s, error |-> NoError]
            ELSE IF load[k - 1].error # NoError THEN load[k - 1]
            ELSE EnsureResident(load[k - 1].slots, LayerOrder[k], w, LayerOrder[k] \in faulty)
    IN  load[Len(LayerOrder)]

Return(error) == reply' = IF error = NoError THEN "ok" ELSE error

ReadValue(l, w) ==
    /\ Ready
    /\ IF ~ AreaContains(MapArea, w)
       THEN UNCHANGED slots /\ Return("OutOfBounds")
       ELSE \E fault \in BOOLEAN :
                LET r == EnsureResident(slots, l, w, fault)
                IN  slots' = r.slots /\ Return(r.error)
    /\ UNCHANGED <<placements, nextId, runtime, flush>>

ReadTile(w) ==
    /\ Ready
    /\ IF ~ AreaContains(MapArea, w)
       THEN UNCHANGED slots /\ Return("OutOfBounds")
       ELSE \E faulty \in SUBSET Layers :
                LET r == EnsureTile(slots, w, faulty)
                IN  slots' = r.slots /\ Return(r.error)
    /\ UNCHANGED <<placements, nextId, runtime, flush>>

\* The value is stored in the cache only; any byte is accepted.
SetValue(l, w, v) ==
    /\ Ready
    /\ IF ~ AreaContains(MapArea, w)
       THEN UNCHANGED slots /\ Return("OutOfBounds")
       ELSE \E fault \in BOOLEAN :
                LET r == EnsureResident(slots, l, w, fault)
                IN  /\ slots' = IF r.error = NoError
                                THEN WithCell(r.slots, l, ChunkAt(w), LocalCell(w), v)
                                ELSE r.slots
                    /\ Return(r.error)
    /\ UNCHANGED <<placements, nextId, runtime, flush>>

-----------------------------------------------------------------------------
(***************************************************************************)
(* Placements                                                              *)
(***************************************************************************)
\* invalidate_all() after the change instead of a condition of it.
KeepsCache == slots' = slots

\* The whole-cache invalidation every placement change is subject to.
ClearsCache == slots' = EmptySlots

Refused(error) == Return(error) /\ UNCHANGED <<slots, placements, nextId>>

\* place() without the test of the fixed capacity.
PlaceBeyondCapacity(patch, position, rotation, reflection) ==
    /\ Ready
    /\ IF patch \notin DOMAIN Catalogue THEN Refused("UnknownPatch")
       ELSE IF HasDirty(slots) THEN Refused("DirtyState")
       ELSE /\ ClearsCache
            /\ placements' = Append(placements,
                   [id |-> nextId, patch |-> patch, position |-> position,
                    rotation |-> rotation, reflection |-> reflection])
            /\ nextId' = nextId + 1
            /\ Return(NoError)
    /\ UNCHANGED <<runtime, flush>>

\* place() that ignores the bool invalidate_all() returns.
PlaceOverDirty(patch, position, rotation, reflection) ==
    /\ Ready
    /\ IF patch \notin DOMAIN Catalogue THEN Refused("UnknownPatch")
       ELSE IF Len(placements) = MaxPlacements THEN Refused("CapacityFull")
       ELSE /\ ClearsCache
            /\ placements' = Append(placements,
                   [id |-> nextId, patch |-> patch, position |-> position,
                    rotation |-> rotation, reflection |-> reflection])
            /\ nextId' = nextId + 1
            /\ Return(NoError)
    /\ UNCHANGED <<runtime, flush>>

Place(patch, position, rotation, reflection) ==
    /\ Ready
    /\ IF patch \notin DOMAIN Catalogue THEN Refused("UnknownPatch")
       ELSE IF Len(placements) = MaxPlacements THEN Refused("CapacityFull")
       ELSE IF HasDirty(slots) THEN Refused("DirtyState")
       ELSE /\ ClearsCache
            /\ placements' = Append(placements,
                   [id |-> nextId, patch |-> patch, position |-> position,
                    rotation |-> rotation, reflection |-> reflection])
            /\ nextId' = nextId + 1
            /\ Return(NoError)
    /\ UNCHANGED <<runtime, flush>>

\* place(patch): at the natural position, not turned.  An unknown patch has
\* none, and is refused before one is needed.
PlaceNaturally(patch) ==
    LET position == IF patch \in DOMAIN Catalogue
                    THEN Catalogue[patch].natural ELSE <<0, 0>>
    IN  Place(patch, position, "none", "none")

\* The four setters differ in the components that are changed: an equal value
\* is a success with no effect, even while the cache is dirty.
Change(id, changed) ==
    LET found == {i \in DOMAIN placements : placements[i].id = id}
    IN  /\ Ready
        /\ IF found = {} THEN Refused("UnknownPlacement")
           ELSE LET i == First(found)
                IN  IF changed[placements[i]] = placements[i] THEN Refused(NoError)
                    ELSE IF HasDirty(slots) THEN Refused("DirtyState")
                    ELSE /\ ClearsCache
                         /\ placements' = [placements EXCEPT ![i] = changed[@]]
                         /\ Return(NoError)
                         /\ UNCHANGED nextId
        /\ UNCHANGED <<runtime, flush>>

SetPosition(id, position) ==
    Change(id, [p \in Placement |-> [p EXCEPT !.position = position]])

SetRotation(id, rotation) ==
    Change(id, [p \in Placement |-> [p EXCEPT !.rotation = rotation]])

SetReflection(id, reflection) ==
    Change(id, [p \in Placement |-> [p EXCEPT !.reflection = reflection]])

SetOrientation(id, rotation, reflection) ==
    Change(id, [p \in Placement |-> [p EXCEPT !.rotation = rotation, !.reflection = reflection]])

-----------------------------------------------------------------------------
(***************************************************************************)
(* Flush                                                                   *)
(***************************************************************************)
Layer == Head(flush.layers)

Chunk1 == Head(flush.todo)

At(pc) == flush.pc = pc

Goto(pc) == flush' = [flush EXCEPT !.pc = pc]

\* Every early return: the call ends, and the chunk it was at stays dirty.
FlushReturn(error) == flush' = Idle /\ Return(error)

\* The layer is begun again instead, until storage answers.
FailureRetried ==
    /\ Goto("layer")
    /\ UNCHANGED <<slots, placements, nextId, runtime, reply>>

StorageFails ==
    /\ FlushReturn("LayerSourceError")
    /\ UNCHANGED <<slots, placements, nextId, runtime>>

BeginFlush(layers) ==
    /\ Ready
    /\ flush' = [Idle EXCEPT !.pc = "layer", !.scope = layers, !.layers = layers]
    /\ UNCHANGED <<slots, placements, nextId, runtime, reply>>

\* The enumeration without its dirty test: every resident plane is walked.
AllResidentListed ==
    LET listed == {o \in {slots[i].origin : i \in SlotIds} : Resident(slots, Layer, o)}
    IN  /\ At("layer")
        /\ IF flush.layers = <<>>
           THEN FlushReturn(NoError)
           ELSE /\ flush' = [flush EXCEPT !.pc = "plane", !.layout = FALSE,
                                          !.todo = SetToSeq(listed)]
                /\ UNCHANGED reply
        /\ UNCHANGED <<slots, placements, nextId, runtime>>

\* flush<LayerT>() collects its dirty chunks once; the walk ends with success
\* when no layer is left.
FlushLayer ==
    /\ At("layer")
    /\ IF flush.layers = <<>>
       THEN FlushReturn(NoError)
       ELSE /\ flush' = [flush EXCEPT !.pc = "plane", !.layout = FALSE,
                                      !.todo = DirtyChunks(slots, Layer)]
            /\ UNCHANGED reply
    /\ UNCHANGED <<slots, placements, nextId, runtime>>

Live(l, o, cell) == ValueAt(slots, l, o, cell)

\* The in-map cells whose live value is not the backing answer.
Differences(l, o, plane) == {cell \in InMap(o) : Live(l, o, cell) # plane[cell]}

\* The run still pending at the end of a row is never finished.
RunsInsideRows(cells) ==
    LET Ends == {c \in cells : c[1] < Side - 1 /\ <<c[1] + 1, c[2]>> \notin cells}
        Start(c) == CHOOSE x \in 0 .. c[1] :
                        /\ \A i \in x .. c[1] : <<i, c[2]>> \in cells
                        /\ <<x - 1, c[2]>> \notin cells
        RunTo(c) == [x |-> Start(c), y |-> c[2], size |-> c[1] - Start(c) + 1]
    IN  SetToSeq({RunTo(c) : c \in Ends})

\* Maximal stretches of adjacent differing cells of a row, in row-major order.
Runs(cells) ==
    LET Starts == {c \in cells : <<c[1] - 1, c[2]>> \notin cells}
        SizeFrom(s) == CHOOSE n \in 1 .. Side :
                           /\ \A i \in 0 .. n - 1 : <<s[1] + i, s[2]>> \in cells
                           /\ <<s[1] + n, s[2]>> \notin cells
        runs == {[x |-> s[1], y |-> s[2], size |-> SizeFrom(s)] : s \in Starts}
    IN  InOrder(runs, [r \in runs |-> r.y * Side + r.x])

\* The binding is all that is asked before the writes.
BindingOnly(l, o, cells) == IF l \notin Bound THEN "MissingRuntimeBinding" ELSE NoError

\* What stops a plane with differences before anything is created or written.
Preflight(l, o, cells) ==
    IF \E cell \in cells : ~ HasContribution(Live(l, o, cell)) THEN "UnencodableValue"
    ELSE IF l \notin Bound THEN "MissingRuntimeBinding"
    ELSE NoError

NextChunk == [flush EXCEPT !.pc = "plane", !.todo = Tail(@), !.runs = <<>>]

\* Steps 2 to 6 for one dirty chunk: resolve it afresh, compare, preflight.
FlushPlane ==
    /\ At("plane") /\ flush.todo # <<>>
    /\ LET r == Resolve(placements, runtime, Layer, Chunk1)
           cells == Differences(Layer, Chunk1, r.plane)
           blocked == Preflight(Layer, Chunk1, cells)
       IN  \/ r.io /\ StorageFails
           \/ r.error # NoError /\ FlushReturn(r.error) /\ UNCHANGED slots
           \/ /\ r.error = NoError /\ cells = {}
              /\ slots' = Cleaned(slots, Layer, Chunk1)
              /\ flush' = NextChunk
              /\ UNCHANGED reply
           \/ /\ r.error = NoError /\ cells # {}
              /\ IF blocked # NoError
                 THEN FlushReturn(blocked)
                 ELSE /\ flush' = [flush EXCEPT !.runs = Runs(cells),
                                      !.pc = IF flush.layout THEN "write" ELSE "bind"]
                      /\ UNCHANGED reply
              /\ UNCHANGED slots
    /\ UNCHANGED <<placements, nextId, runtime>>

FlushNextLayer ==
    /\ At("plane") /\ flush.todo = <<>>
    /\ flush' = [flush EXCEPT !.pc = "layer", !.layers = Tail(@)]
    /\ UNCHANGED <<slots, placements, nextId, runtime, reply>>

\* exists() is not asked, and the creation replaces what is there.
BindSourceUnasked ==
    /\ At("bind")
    /\ \/ StorageFails
       \/ Goto("create") /\ UNCHANGED <<slots, runtime, reply>>
    /\ UNCHANGED <<placements, nextId>>

\* The bound source is resolved once per layer: open it, or create it.
BindSource ==
    /\ At("bind")
    /\ \/ StorageFails
       \/ /\ LET form == runtime[Layer].form
             IN  IF form = "absent" THEN Goto("create") /\ UNCHANGED reply
                 ELSE IF RuntimeFormError(form) # NoError
                 THEN FlushReturn(RuntimeFormError(form))
                 ELSE /\ flush' = [flush EXCEPT !.pc = "write", !.layout = TRUE]
                      /\ UNCHANGED reply
          /\ UNCHANGED <<slots, runtime>>
    /\ UNCHANGED <<placements, nextId>>

SetForm(form) == runtime' = [runtime EXCEPT ![Layer].form = form]

\* Storage::create(): a file of space bytes and no metadata yet.  When it
\* fails it removes the partial file as a best effort.
CreateSource ==
    /\ At("create")
    /\ \/ SetForm("broken") /\ Goto("header") /\ UNCHANGED <<slots, reply>>
       \/ /\ \E left \in {"absent", "broken"} : SetForm(left)
          /\ FlushReturn("LayerSourceError") /\ UNCHANGED slots
    /\ UNCHANGED <<placements, nextId>>

\* The metadata block, in one write; a failed one may still have landed.
WriteHeader ==
    /\ At("header")
    /\ \/ SetForm("ready") /\ Goto("rows") /\ UNCHANGED <<slots, reply>>
       \/ /\ \E left \in {"broken", "ready"} : SetForm(left)
          /\ FlushReturn("LayerSourceError") /\ UNCHANGED slots
    /\ UNCHANGED <<placements, nextId>>

\* One structural LF per row, from the first row to the last.
WriteRowEnd ==
    LET row == First(MapRows \ runtime[Layer].rows)
        Ended == [runtime EXCEPT ![Layer].rows = @ \cup {row}]
    IN  /\ At("rows")
        /\ \/ /\ runtime' = Ended
              /\ Goto(IF Ended[Layer].rows = MapRows THEN "reopen" ELSE "rows")
              /\ UNCHANGED <<slots, reply>>
           \/ /\ runtime' \in {runtime, Ended}
              /\ FlushReturn("LayerSourceError") /\ UNCHANGED slots
        /\ UNCHANGED <<placements, nextId>>

\* The new source is opened and validated like any other.
ReopenSource ==
    /\ At("reopen")
    /\ \/ StorageFails
       \/ /\ flush' = [flush EXCEPT !.pc = "write", !.layout = TRUE]
          /\ UNCHANGED <<slots, placements, nextId, runtime, reply>>

\* The whole-map offset is left out of the row: local and world y confused.
WrittenAtLocalRow(run, n) ==
    LET new == [w \in {<<Chunk1[1] + x, MapArea.min[2] + run.y>> :
                           x \in run.x .. run.x + n - 1} |->
                   Live(Layer, Chunk1, <<w[1] - Chunk1[1], run.y>>)]
    IN  [runtime EXCEPT ![Layer].cells =
            [w \in MapCells |-> IF w \in DOMAIN new THEN new[w] ELSE @[w]]]

\* The runtime source after the first n cells of a run have been written.
Written(run, n) ==
    LET cells == {<<x, run.y>> : x \in run.x .. run.x + n - 1}
        new == [w \in {CellWorld(Chunk1, cell) : cell \in cells} |->
                   Live(Layer, Chunk1, LocalCell(w))]
    IN  [runtime EXCEPT ![Layer].cells =
            [w \in MapCells |-> IF w \in DOMAIN new THEN new[w] ELSE @[w]]]

\* write_cells(): the row's LF is checked before the run is written.
WriteRun ==
    /\ At("write") /\ flush.runs # <<>>
    /\ LET run == Head(flush.runs)
           row == Chunk1[2] + run.y
       IN  \/ /\ row \in runtime[Layer].rows
              /\ runtime' = Written(run, run.size)
              /\ flush' = [flush EXCEPT !.runs = Tail(@)]
              /\ UNCHANGED reply
           \/ /\ runtime' \in {runtime} \cup
                     {Written(run, n) : n \in IF row \in runtime[Layer].rows
                                              THEN 0 .. run.size ELSE {}}
              /\ FlushReturn("LayerSourceError")
    /\ UNCHANGED <<slots, placements, nextId>>

\* The written plane is not marked clean.
FinishUnmarked ==
    /\ At("write") /\ flush.runs = <<>>
    /\ flush' = NextChunk
    /\ UNCHANGED <<slots, placements, nextId, runtime, reply>>

\* Only now that the whole plane has been written is it clean.
FinishPlane ==
    /\ At("write") /\ flush.runs = <<>>
    /\ slots' = Cleaned(slots, Layer, Chunk1)
    /\ flush' = NextChunk
    /\ UNCHANGED <<placements, nextId, runtime, reply>>

FlushStep ==
    \/ FlushLayer \/ FlushPlane \/ FlushNextLayer
    \/ BindSource \/ CreateSource \/ WriteHeader \/ WriteRowEnd \/ ReopenSource
    \/ WriteRun \/ FinishPlane

\* The process ends and a new Map is built over the same storage.
Restart ==
    /\ slots' = EmptySlots
    /\ placements' = <<>>
    /\ nextId' = 1
    /\ flush' = Idle
    /\ reply' = "restarted"
    /\ UNCHANGED runtime

-----------------------------------------------------------------------------
Access ==
    \/ \E l \in Layers, w \in AccessAt : ReadValue(l, w)
    \/ \E w \in AccessAt : ReadTile(w)
    \/ \E l \in Layers, w \in AccessAt, v \in SetValues : SetValue(l, w, v)

Management ==
    \/ \E patch \in PatchIds : PlaceNaturally(patch)
    \/ \E patch \in PatchIds, position \in PlaceAt, rotation \in TurnTo,
          reflection \in MirrorTo : Place(patch, position, rotation, reflection)
    \/ \E id \in 0 .. MaxPlacements, position \in PlaceAt : SetPosition(id, position)
    \/ \E id \in 0 .. MaxPlacements, rotation \in TurnTo : SetRotation(id, rotation)
    \/ \E id \in 0 .. MaxPlacements, reflection \in MirrorTo : SetReflection(id, reflection)
    \/ \E id \in 0 .. MaxPlacements, rotation \in TurnTo, reflection \in MirrorTo :
           SetOrientation(id, rotation, reflection)

BeginAnyFlush ==
    \/ \E l \in Layers : BeginFlush(<<l>>)
    \/ BeginFlush(LayerOrder)

Next == Access \/ Management \/ BeginAnyFlush \/ FlushStep \/ Restart

\* A flush that has begun runs to its end: it is a call of the only thread.
Spec == Init /\ [][Next]_vars /\ WF_vars(FlushStep)

-----------------------------------------------------------------------------
(***************************************************************************)
(* What the Map promises                                                   *)
(***************************************************************************)
MapOrigins == {ChunkAt(w) : w \in MapCells}

Backing(l, w) == BackingAt(placements, runtime, l, w)

ResidentAt(l, w) == Resident(slots, l, ChunkAt(w))

DirtyAt(l, w) == IsDirty(slots, l, ChunkAt(w))

\* What value<L>() returns for every position whose sources can be read.
View(s, ps, r) ==
    [l \in Layers |-> [w \in MapCells |->
        IF Resident(s, l, ChunkAt(w)) THEN ValueAt(s, l, ChunkAt(w), LocalCell(w))
        ELSE BackingAt(ps, r, l, w)]]

Shown(l, w) == View(slots, placements, runtime)[l][w]

\* The passes of resolve_chunk() compute the stated precedence (overlay, then
\* the topmost contributing placement, then fallback) for every cell of every
\* chunk, padding stays value-initialized, and they fail exactly when a source
\* that must be read for one of the cells cannot be (map.hpp:1285-1325).
ResolutionMatchesReference ==
    \A l \in Layers, o \in MapOrigins :
        LET r == Resolve(placements, runtime, l, o)
        IN  /\ r.error = NoError <=>
                   \A w \in Positions(o) : Readable(placements, runtime, l, w)
            /\ r.error = NoError =>
                   r.plane = [cell \in PlaneCells(Side) |->
                       IF cell \in InMap(o) THEN Backing(l, CellWorld(o, cell)) ELSE Zero]

\* A clean resident plane shows the backing answer of now: no placement
\* change, flush, failed flush or overlay write leaves a stale plane behind.
CleanPlaneIsFresh ==
    \A l \in Layers, w \in MapCells :
        ResidentAt(l, w) /\ ~ DirtyAt(l, w) => Shown(l, w) = Backing(l, w)

\* The chunks a flush has enumerated and not yet finished are still resident
\* and dirty when their turn comes, as value() and mark_clean() assert.
WorkListStaysDirty ==
    \A k \in DOMAIN flush.todo : IsDirty(slots, Layer, flush.todo[k])

\* The world a caller sees changes only where set() wrote it, when a placement
\* changed, or with a new session: never by loading, failing or flushing,
\* partial writes of a failed flush included.
ViewStable ==
    [][\/ reply' = "restarted"
       \/ placements' # placements
       \/ LET before == View(slots, placements, runtime)
              after == View(slots', placements', runtime')
          IN  after # before =>
                 /\ Ready /\ flush'.pc = "idle"
                 /\ \E l \in Layers, w \in AccessAt \cap MapCells, v \in SetValues :
                        /\ after = [before EXCEPT ![l][w] = v]
                        /\ IsDirty(slots', l, ChunkAt(w))
      ]_<<slots, placements, runtime>>

\* Only differences are persisted: an overlay byte changes only to the live
\* value of a dirty plane, one that can be stored and that is not the backing
\* answer already; the overlay stays sparse and no byte is ever retracted.
OnlyDifferencesPersisted ==
    [][\A l \in Bound, w \in MapCells :
          runtime'[l].cells[w] # runtime[l].cells[w] =>
              /\ ~ Ready /\ DirtyAt(l, w) /\ DirtyAt(l, w)'
              /\ runtime'[l].cells[w] = Shown(l, w)
              /\ HasContribution(Shown(l, w))
              /\ Shown(l, w) # Backing(l, w)]_runtime

\* The structure of a source, its form and its row ends, changes only while the
\* source is being made for a plane that has something to store and nothing
\* that cannot be stored: from absent to present, then to one that opens, then a
\* row end more, and all that before a cell is written.  One that opens is never
\* created again.
SourcesAppearForCause ==
    [][\A l \in Bound :
          LET old == runtime[l]
              new == runtime'[l]
              differing == {w \in MapCells : /\ ChunkAt(w) = Chunk1
                                             /\ Shown(l, w) # Backing(l, w)}
          IN  new.form # old.form \/ new.rows # old.rows =>
                  /\ <<old.form, new.form>> \in
                         {<<"absent", "broken">>, <<"broken", "ready">>, <<"ready", "ready">>}
                  /\ old.rows \subseteq new.rows /\ old.cells = Blank
                  /\ ~ Ready /\ l = Layer
                  /\ differing # {}
                  /\ \A w \in differing : HasContribution(Shown(l, w)) /\ DirtyAt(l, w)]_runtime

\* A dirty plane is given up only by a new session, or by a flush once the
\* backing answer has become what the plane shows.
DirtyOnlyFlushedAway ==
    [][\A l \in Layers, o \in MapOrigins :
          IsDirty(slots, l, o) /\ ~ IsDirty(slots', l, o) =>
              \/ reply' = "restarted"
              \/ ~ Ready /\ \A w \in Positions(o) : Shown(l, w) = Backing(l, w)'
      ]_slots

\* A flush that reports success leaves no dirty plane in the layers it was
\* asked to flush.
FlushSuccessCleans ==
    [][~ Ready /\ Ready' /\ reply' = "ok" =>
          \A l \in Range(flush.scope), o \in MapOrigins : ~ IsDirty(slots', l, o)]_vars

\* Every flush call returns, whatever storage does.
FlushReturns == ~ Ready ~> Ready

(***************************************************************************)
(* Statements of the documentation that the code does not keep.            *)
(***************************************************************************)
\* CacheFull says that the cache cannot accept another slot
\* (map_result.hpp:21-23).
CacheFullMeansFull == reply = "CacheFull" => FreeSlots(slots) = {}

\* The answer for a cell is never lost to the creation of a source: every
\* position stays readable between calls (DESIGN_DECISIONS.md:422, 426).
AnswersStayAvailable ==
    Ready => \A l \in Layers, w \in MapCells : Readable(placements, runtime, l, w)
=============================================================================
