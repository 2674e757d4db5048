# Landor: specification, model checking and proofs

Landor is the world model of a game: a two-dimensional area of tiles, each with
one byte per *layer* (terrain, water, fire, ...).  The answer for a position is
assembled from several sources, kept in a bounded cache while it is used, changed
there, and written back by an explicit flush.  This directory holds a TLA+ model
of that behaviour, the TLC runs that check it and the TLAPS proofs about it.  A
moving heap that the program ships with and does not use yet
(`src/include/managed_heap`) is modelled beside it.
Every definition is translated from the source under `src/src` and
`src/include`; the documents (`src/dev-docs`, the heap's `SPEC.md` and
`USER_GUIDE.md`) are used only as the source of the claims the runs test.

The program is a set of header-only C++23 templates run by a single thread.
There is no locking to model.  What makes it hard is the relation between four
pieces of state that must not drift apart: the cache, the placements, the
overlay files and the chunk being flushed.

## 1. Inventory

| Component (source) | State | Operations | Talks to |
|---|---|---|---|
| Cache (`world/cache.hpp`) | fixed array of slots; a slot has an origin and, per layer, resident and dirty flags and a plane | `fill`, `set`, `mark_clean`, `invalidate(position)`, `invalidate(area)`, `invalidate_all`, `value`, `is_resident`, `is_dirty`, `dirty_chunks` | called by Map only |
| Map (`world/map.hpp`, `map_result.hpp`, `map_persistence.hpp`) | the cache, the placements, the next placement id | `value`, `at`, `set`, `place`, `set_position`, `set_rotation`, `set_reflection`, `set_orientation`, `flush<L>`, `flush_all` | Cache, resolution, storage |
| Chunk resolution (`map.hpp` `resolve_chunk`, `layer_fallback.hpp`, `authored_layer_source.hpp`) | none; reads the placements and the sources | the runtime pass, the patch pass, the fallback pass | layer sources |
| Geometry (`coord.hpp`, `area.hpp`, `chunk.hpp`, `placement.hpp`, `orientation.hpp`) | none | wrapping arithmetic, turns, neighbours and distances of coordinates; containment, intersection, union and split of areas; alignment to chunks; local/world transforms of a placement | used everywhere |
| Runtime overlay sources (`runtime_layer_source.hpp`) | a file per bound layer | open and validate, materialize | layer source format |
| Layer source format (`layer_source.hpp`) | metadata block, rows of cells each ended by LF; the scan's state between two bounded reads | `open_layer_source`, `read_cells`, `write_cells`, `create_blank_layer_source` | storage contract |
| Storage (`storage/*`, `platform/storage/*`) | files under a root | `size`, `read`, `write`, `create` | operating system |
| Managed heap (`include/managed_heap`) | one byte array: descriptor tables that grow up from its bottom, objects linked from its top down; counters; a static active instance per heap type | `make`, copy, move, assignment and `reset` of `managed_ptr`, `scoped_access`, `release_` with the destructor it runs, `compact` with three policies; construction, move and end of a heap | calls back constructors and destructors; not used by the rest yet |
| Tile, Patch, PatchSet, Place, Layer | value types | accessors | Map |
| `main.cpp`, build files | - | prints | - |

How they interact.  `value(position)` aligns the position to a chunk.  When the
plane of that layer and chunk is not resident, Map resolves the whole chunk and
`fill`s the cache.  `resolve_chunk` makes three passes over the cells of the
chunk that are inside the map: overlay bytes win; cells left over take the
topmost placement that contributes; the rest take the fallback.  A space byte
contributes nothing.  `set` changes the cache only and makes the plane dirty.
A change of a placement invalidates the whole cache and is refused while any
plane is dirty.  `flush<L>` lists the dirty chunks of a layer, resolves each one
again, writes the cells whose live value is not the resolved one, in runs of
adjacent cells, and then marks the plane clean.  An absent overlay file is
created the first time a layer has something to store.

What is hard, and what would make each component correct:

* **Cache.**  A slot is shared by all layers of a chunk, so that taking or
  discarding it for one layer touches the others; invalidation is all or
  nothing, judged before anything is dropped.  Correct: one slot per chunk,
  dirty implies resident, no taken slot without a plane, and no call but
  `mark_clean` makes a dirty plane clean.
* **Map access and placements.**  A plane filled before a placement changes must
  not be seen after it.  Correct: a clean plane always equals what the sources
  say now.
* **Flush.**  It is a long sequence of storage calls, each of which can fail,
  leave part of a run behind, or be the last thing the process does.  Correct:
  the world a caller sees does not move; only differences are stored; a plane
  stops being dirty only when storage says what it shows; success means that
  nothing is dirty; it returns.
* **Resolution.**  Early exits skip sources once every cell is decided.
  Correct: the result is the stated precedence cell by cell, and an error is
  reported exactly when a source that is needed cannot be read.
* **Geometry.**  Alignment rounds towards minus infinity in a bounded scalar;
  placement turns and mirrors must be undone exactly.  An area decides questions
  about all its cells from two corners, at the edges of the scalar too.
* **Layer source format.**  The metadata is scanned through reads of bounded size,
  which may cut a line, a number or the terminator anywhere; the parser carries
  its state from one to the next.  Offsets and sizes are products that must not
  leave their types.  Correct: an open means what the whole text means; a
  read returns what was written; no write touches the structure of the file.
* **Storage backend.**  `create` fills a file block by block and cleans up
  after a failure as a best effort; a failed write leaves a prefix behind.
  Correct: what a caller is told to be complete is complete.
* **Managed heap.**  The last `release_` runs a destructor, which may use the heap
  again before the call that ran it has finished.  Tables and objects grow towards
  each other in the same bytes; compaction moves objects and links them anew
  while the chain is walked.  Correct: tables and objects never meet, counters and
  counts agree with a full walk, a handle finds its object and its contents
  wherever it was moved, nothing moves under an address in use.

The complete list of hazards, each at its line and with the properties that
cover it, is in `PROJECT.json`.

## 2. Plan

Modules in the order they are written; entries 1 to 10 exist.

1. `CacheSlots`: the slot array as pure operators; `Cache`: its calls as actions.
2. `ResidentPlanes`: what a cache promises without slots; `Cache` implements it.
3. `Geometry`, `Resolution`: chunks, transforms, and the passes of a resolution.
4. `Map`: access, placements and flush over storage that fails and restarts.
5. `CacheSlotsProofs`, `CacheProofs`, `GeometryProofs`.
6. `StorageFilesystem`: the backend; `LayerFormat`, `LayerSource`: the streaming
   scan and the operations of a layer source, composed with the backend.
   `LayerSourceProofs`: the scan against the meaning of a text, the offsets and sizes
   of a layout, and every safety property of the operations.
7. `HeapLayout`, `ManagedHeap`: the heap and the program that uses it;
   `ObjectStore`: what it promises; `ManagedHeap` implements it.  `HeapLayoutProofs`: what
   each operation does to the layout; `ManagedHeapProofs`: the invariant of the heap, its
   safety properties and the refinement.
8. `HeapInstances`, `HeapInstancesProofs`: the registration of the active heap.
9. `Areas`, `Coords`: the algebra of areas and coordinates, with its theorems in
   `GeometryProofs`.
10. `Ordering`, `MapProofs`: the passes against the reference, and the invariant of
    `Map` with every safety property its runs check; in `CacheProofs`, the refinement of
    `ResidentPlanes`.
11. *Next*: a run in which two layers are bound to the same file, once the
    repository says what it should mean; `Patch` stacks and `PatchSet` lookups
    if they come to hold state.

Every safety property, action property and refinement that a passing run checks is a theorem
for all values of the constants; the three liveness properties are what is left to TLC.

## 3. The modules and the code

### CacheSlots, Cache, ResidentPlanes

`slots` is the array `m_slots`: `used`, `origin`, and `resident`, `dirty` and
`cells` per layer.  `CacheSlots` has one operator per const member and per
effect (`FindSlot`, `FreeSlots`, `CanFill`, `Filled`, `WithCell`, `Cleaned`,
`Discarded`, `DirtyChunks`).  Loops over the array are folded into sets and
"the first index with"; the order of slots matters only to `DirtyChunks`.

`Cache` has one action per call: `Fill`, `Set`, `MarkClean`, `Invalidate` (by
position and by area) and `InvalidateAll`.  The guards of the actions include
the documented preconditions (`set` asserts residence), since a
call that breaks an assertion is not a behaviour of the program.  Arguments
that the code refuses (an unaligned origin, a wrong side, a resident layer) are
inputs, with `FALSE` as the answer.

`ResidentPlanes` is the abstract cache: a partial map from (layer, origin) to a
plane with a dirty flag, no slots, and a bound on the number of origins.  `Planes`
is what `Cache` shows of it: the keys that some slot answers for, each with what
the slot answers.  `invalidate_all` is there the invalidation of an area that holds
every aligned origin.

### Geometry, Resolution

`Geometry` has the scalars with their width: `ChunkOrigin` floors and then
wraps as the cast in `Chunk::align_down` does.  `WorldToLocal` and
`LocalToWorld` follow `placement.hpp`, mirror first and then turn.

`Resolution` models a source by what its readers distinguish: whether it is
absent, broken (its metadata cannot be accepted), mismatched (it has another
area), or ready; which of its rows have their LF; and its cells.  `Resolve` has
the passes, the early exits and the order in which errors are met;
`io` says whether a storage call was made that may fail.  Cells
outside the map are padding and stay value-initialized.  Beside it stands
`BackingAt`, the answer for one cell by the documented precedence, as reference.

`Ordering` has the one operator for a scan or a sort by a key: `InOrder`, the members
of a finite set as a sequence by ascending key.  The placements by precedence, the dirty
slots by index and the pending cells of a plane by rows are instances of it.

### Map

Variables: `slots` (the cache), `placements` (the occupied prefix, in order),
`nextId`, `runtime` (one source per bound layer), `flush` (the call in
progress) and `reply`.

`ReadValue`, `ReadTile`, `SetValue`, `Place`, `PlaceNaturally` and the four
setters are one step each: nothing happens between their storage calls but
reads, and a fault at any of them is a choice inside the step.  `ReadTile`
loads layer by layer, and keeps what it has loaded when a later one fails.

A flush is a step per storage call that changes a file: `BeginFlush`,
`FlushLayer` (list the dirty chunks once), `FlushPlane` (resolve, compare,
preflight), `BindSource`, `CreateSource`, `WriteHeader`, `WriteRowEnd` (one LF
per row), `ReopenSource`, `WriteRun`, `FinishPlane` and `FlushNextLayer`.  Each
step may fail.  A failed write leaves any prefix of the run behind.
`Restart` ends the process between any two steps: the cache and the placements
are gone, storage stays.

### StorageFilesystem, LayerFormat, LayerSource

`disk` is what is at each source's path; a source id outside the table is
possible and refused.  `SizeOutcomes`, `ReadOutcomes` and `WriteOutcomes` are the sets of
what those calls may do in a state, failures and torn prefixes included, because
nothing of them is visible before they return.  `create` is visible: it is
`CreateBegins`, a `FillBlock` per block, `CreateFails` with its cleanup,
`CreateSucceeds`, and `CreateInterrupted` where the process ends within it.

In `LayerFormat` a text is a sequence of marks (LF, space, colon, dot, the three
keys, bytes the format does not know) and whole integer tokens; digits are not
put together one by one.  `ScanBlock` is the metadata scan with the record of state that
the code keeps from one bounded read to the next (key so far, payload,
whether the last byte was LF, records seen, first error), and `Finalized` the size
arithmetic with its overflow tests.  `Meaning` is the reference: the result
read off the whole text at once, by its lines.

`LayerSource` composes the two.  `op` is the operation in progress, and each
storage call it makes is a step: `Open`, `OpenSizes`, `OpenReads`, `OpenRunsOut`;
`CreateBlank`, `FileCreated`, `MetadataWritten`, `RowEnded`, `BlankReopened`;
`ReadCells`, `CellsRead`, `TerminatorRead`; `WriteCells`, `TerminatorRead`,
`CellsWritten`.  `held` is the layout a caller has from an open, `cells` what it knows of
the cells since, with `Unclear` for the range of a failed write.  `Restart` ends the
process between any two storage calls or within a `create`.

### HeapLayout, ManagedHeap, ObjectStore, HeapInstances

`HeapLayout` has the bytes: the tables in the order of their addresses, each with
an id and its slots; the chain of objects, followed through `next` from the
root; the counters; and `mem`, what object bytes hold.  Its operators
are the helpers of the header: the lowest free slot, a pushed table and its id,
reclamation of an empty table by moving the last one into its place, best
fit, splice and unlink, evacuation of one object and shift of a run of them.

`ManagedHeap` adds the program.  `ptr` holds the handle of each variable and of one
member per object, `scopes` the addresses that open scoped accesses cache, and
`frames` the stack of heap calls that have not finished, since `make`, `release_` and
`compact` run user code or take several visible steps.  `Release` is `release_`:
at the last reference the slot turns to *destroying* and a `body` frame is
pushed, in which the destructor may do anything the program may; `BodyEnds` starts the
members, `ReleaseEnds` gives the bytes and the slot back and finishes the
assignment that was waiting.  `Make` and `MakeFails`, `ConstructorReturns`,
`Unwrap`, `WriteThrough` and `Leave` (scoped access), `Compact`, then
`EvacuateOnce`, `ShiftOnce`, `ShiftsBegin`, `RoundBegins` and `CompactReturns` are the rest.

`ObjectStore` is the heap without bytes, addresses, tables or counts: a handle names
an object from the moment it is made until its destructor has run, and the
object holds the value last written to it.

`HeapInstances` is about the `basic_heap` objects themselves.  A `managed_ptr`
holds no heap; it looks its object up in the active instance, a static pointer
that construction sets, a move carries along and destruction clears.  Objects are
counted there and not placed.

### Areas, Coords

Areas are pairs of corners; one operator per member function, with the
constructor that sorts its corners as `AreaOf`.  `Coords` computes every expression
exactly and casts the result, which is what the code does for scalars narrower than
`int`.  These modules have no state and no run; what they say is proved.

## 4. The runs

| Run | Question | Result |
|---|---|---|
| `cache` (`MCCache`) | do arbitrary calls keep the array consistent, keep dirty planes, and implement `ResidentPlanes`? | holds, 6 225 states |
| `map_flush` (`MCMapFlush`) | write-back of a bound layer over two chunks, faults and restarts at every storage call | holds, 22 773 states |
| `map_layers` (`MCMapLayers`) | two layers, one of them not bound: `flush_all` fails fast without harm, tiles load layer by layer, over sources an earlier session left | holds, 72 470 states |
| `map_placement` (`MCMapPlacement`) | two placements, turned and mirrored, one with a broken source; passes against the reference | holds, 13 350 states |
| `map_limit` (`MCMapLimit`) | does CacheFull mean that the cache is full? | **violated** |
| `map_unread` (`MCMapFlush`, `MCMapUnread.cfg`) | does creating a source never cost an answer? | **violated** |
| `layer_source` (`MCLayerSource`) | scan, creation, reads and writes of a source over the backend, from 1 865 texts, with faults, torn writes and restarts | holds, 237 076 states |
| `layer_wide` (`MCLayerSourceWide.cfg`) | is every value beyond its width refused as Overflow? | **violated** |
| `heap` (`MCHeap`) | handles, members, scopes, destructors that call back, table growth and reclamation, both kinds of move | holds, 121 198 states |
| `heap_rounds` (`MCHeapRounds.cfg`) | do the rounds of the hybrid policy end, and do contents follow their objects? | holds, 76 906 states |
| `heap_constructor` (`MCHeapConstructor.cfg`) | do the heap's assertions hold when a constructor uses the heap? | **violated** |
| `heap_assign` (`MCHeapAssign.cfg`) | is every object destroyed when its last reference goes? | **violated** |

Properties checked, beside one type invariant per module (that of `Map` in `map_flush`):

* `SlotsConsistent`, `DirtyNeverDiscarded`, `ImplementsResidentPlanes` of the cache.
* `ResolutionMatchesReference`: passes with early exits = precedence per cell,
  errors exactly where a needed source cannot be read.
* `CleanPlaneIsFresh`: a clean plane shows the answer of now.
* `ViewStable`: what `value` returns changes only by `set` at that cell, a
  placement change or a new session; no load, failure or flush moves it.
* `OnlyDifferencesPersisted`: what may be stored, when.
* `SourcesAppearForCause`: the form and the row ends of a source change only while it
  is made, in that order and before a cell is written, for a plane with something to
  store and nothing that cannot be; a source that opens is never created again.
* `DirtyOnlyFlushedAway`, `FlushSuccessCleans`: what makes a plane clean, and
  what success promises.
* `WorkListStaysDirty`: the chunks collected before the writes still satisfy,
  when their turn comes, what `value` and `mark_clean` assert.
* `FlushReturns`: a flush ends.
* `OpenMatchesMeaning`: an open that storage lets finish returns what the whole text
  means, wherever its reads cut it.
* `ReadsWhatWasWritten`: every cell a read returns is the one last
  written there, through failed and torn writes of other cells.
* `BlankIsWhole`: a creation that reports success has left the complete text.
* `StructureSurvives`: no write, failed or not, changes a source's size, metadata or
  row ends, and a file that is no layer source is left alone.
* `OperationsReturn`: every operation ends, however storage fails.
* `HeapSound`: between calls and inside every destructor the heap passes its own
  full check, and the free extents of the chain add up to `free_space()`.
* `RefsExact`: a count is the number of owners, waiting assignments included.
* `AddressesStable`: no object moves except in a compaction, with no scope open and
  no destructor running.
* `MovesMakeProgress`: a move raises objects, enlarges the bottom span and is paid in
  full out of the budget.
* `FailedMakeLeavesNothing`: a `make` that finds no room gives back the slot and the
  table it took.
* `ImplementsObjectStore`, `CompactionEnds`.

### Bounds, and why they are enough

* `cache`: 2 slots, 3 aligned origins and an unaligned one, 2 layers, 1 cell of
  2 values, sides right and wrong.  One chunk more than slots, so that `fill` meets
  a full array; two layers, so that a slot is shared; three chunks, so that an
  area invalidation covers some of the slots and not others.  Chunks and layers
  are symmetric, the home origin of empty slots is not permuted.
* `map_flush`: a 2 x 2 map at y = 1..2 with chunks of side 2, so that it lies across
  two chunks and both have rows of padding; local and world rows differ, and runs of
  one and of two cells occur.  Values are the space (which cannot be stored) and
  a contribution; one placement can change the backing answer.
* `map_layers`: chunks of one cell, so that what varies is the layer and the
  step.  Earlier sessions may have left no source, a broken one, one of another area, or one
  without its row ends (a crash after the header).
* `map_placement`: a 3 x 1 map, one slot for two chunks, room for two
  placements, so that both capacities are reached.  A half turn and a mirror,
  a patch whose source is broken and an id that no patch has.
* `map_limit`: four-bit scalars and chunks of side 3, which does not divide 16.
* `layer_source`: the texts an earlier session left are all sequences of up to two
  lines, and the three records in every order with a fourth line in every place, the lines
  being the good records and thirteen odd ones (unsupported version, missing and extra
  parts, zero, negative and huge numbers, empty and unknown keys), each with the
  right data, a byte too few and none.  Files have at most `SizeMax` = 31 bytes, so
  that a blank source of 5 x 5 does not fit; reads of 4 cut records of
  five symbols and an LF everywhere; blocks of 16 make a creation take two fills.  64-bit values
  are scaled to `WideMax` = 1023, coordinates to -4..3.
* `heap`: 14 bytes with alignment 2, tables of 4 bytes and 2 descriptors, objects of
  1 and 3 bytes (one unit of alignment and two, both with padding).  The third object
  needs a second table, pushed into the free bytes: after two small objects it fits
  and the heap is full, after a large and a small one the table fits and the
  object does not, so that `make` must undo the push.  When the objects of the first
  table go first, the second is moved into its place.  Budgets 3 and 100 pay for one large object
  and for anything.  Two symmetric variables, one scope, two unfinished calls (a
  destructor in a destructor), two references an object.
* `heap_rounds`, `heap_constructor`, `heap_assign`: 10 bytes and one descriptor a
  table, so that every object costs a table; all three policies.  `heap_rounds` has two
  contents and three references, the other two allow what they are named for.

The bounds named in the modules: `MaxPlacements` (no call removes a placement, so that ids
are bounded by it), `MaxRefs`, `MaxScopes` and `MaxDepth`.  In the passing heap
runs constructors do not use the heap (`ConstructorsUseHeap`) and a destructor does
not assign to the variable whose own assignment runs it
(`DestructorsReassign`); the two violated runs show what happens otherwise.

### Fairness

There is one thread, and a call that has been made takes its next step.  That is
the only fairness: `WF_vars(FlushStep)` in `Map`, `WF_vars(Steps)` in
`LayerSource` and `WF_vars(System)` in `ManagedHeap`, where user code that the
heap has called back is not forced to return.  Callers need not do anything,
storage need not succeed, and a restart may occur at any time.  `FlushReturns` follows
because every step shortens the work list, the runs, the rows or the layers;
`OperationsReturn` because an open reads on in a file of fixed size; `CompactionEnds`
because a round that made no progress is the last one.

### Findings

* *Lowest coordinates* (`map_limit`).  `Chunk::align_down` computes the floor in a
  wider type and casts it back.  When the side does not divide the range of the
  scalar, a position in the lowest partial chunk gets a wrapped origin that is
  not aligned; `fill` refuses it and `Map` reports `CacheFull`, documented as "the
  bounded Cache cannot accept another spatial slot", with an empty cache.
* *A source half created* (`map_unread`).  `create_blank_layer_source` creates the
  file, then writes its metadata and row ends.  When a storage call fails after
  the creation the file stays, malformed, and every read of a cell of that layer
  that is not resident fails from then on.  (TLC's shortest trace gets there one call
  earlier, by a `create` that fails together with its best-effort clean-up.)  The design decision D-38 states that
  creating the file "changes the world's answer for no cell" and that a
  bound-but-absent source is no failure any more.  It excludes crash atomicity, so
  the run leaves restarts possible and yet the shortest counterexample has none:
  one storage error is enough.
* *Wide numbers* (`layer_wide`).  `parse_int_token` accumulates an unsigned 64-bit
  magnitude and casts it to the signed type without a test.  A position token above
  the signed range is read as a negative position, where `Overflow` is documented.
* *Constructors that use the heap* (`heap_constructor`).  `make` puts the slot into the
  table and the chain before it runs the constructor, and counts the object only
  after it.  A heap call made by the constructor ends with
  `debug_assert_invariants_` failing: a debug build aborts.
* *Assignment over a running destructor* (`heap_assign`).  `managed_ptr::operator=`
  releases the old object and then stores its new handle.  What the old object's
  destructor stored in that `managed_ptr` meanwhile is overwritten unreleased,
  and its object is never destroyed, against SPEC.md 28.

Two more disagreements were met while modelling and are visible in the definitions, without
a run.  `Area::split` of a single cell gives a second half that
contains a cell outside the area, because the constructor sorts the corners it is
given (`area.hpp:138-141` speaks of two halves of "this area"); `SplitPartitions` therefore
asks for more than one cell.  And `coord.hpp:79` calls the wrap of `operator+` defined, which is so
for 8- and 16-bit scalars, promoted to `int`; for `std::int32_t` the
addition itself overflows, which is why `Coords` is limited to narrower scalars.

## 5. The proofs

`CacheSlotsProofs` has the lemmas about the operators and `CacheProofs` the
theorems, for every capacity, every set of layers, origins, cells and values,
under the assumptions named in `CacheSlots` and `Cache`, which TLC evaluates in
the run `cache`.

* `TypeCorrect`: `Spec => []TypeOK`.
* `Consistency`: `Spec => []SlotsConsistent`.
* `DirtySurvives`: `Spec => DirtyNeverDiscarded`.

The inductive invariant is `IInv == TypeOK /\ SlotsConsistent`; neither half
is enough for the third theorem.  `OneSlotPerOrigin` is what makes "the slot of a
chunk" a function: `IsDirty` asks the first slot with an origin, and only when
it is the one slot with it does a change of some other slot leave the answer alone.
Its proof turns on `fill`, which takes a free slot only if no used slot has the
origin.  That the first index of a non-empty set of slots is a member of it
(`FirstIsMember`) is proved by well-foundedness of `<` on the naturals
(`WFMin`).  After that each call has a lemma that its effect keeps `Consistent`
(`FilledConsistent`, `WithCellConsistent`, `CleanedConsistent`,
`DiscardedConsistent`), and each theorem has one step per action.

`KeepsPromise`: `Spec => ImplementsResidentPlanes`.  The argument is key by key: for each
call, what the slot array answers afterwards for the key it was about
(`PlanesBecome`), and that the answers for all other keys are the old ones.  Two facts
carry the rest.  `KeysAnswer`: a key is resident exactly when the one slot with its origin
has the layer.  `OriginsAreHeld`: the slots in use and the origins they hold are
in bijection, so that the bound the abstract cache puts on origins is the array's own
bound on slots; a `fill` refused for want of a free slot is therefore one the promise
refuses too, and no other is.

`GeometryProofs` is about the pure functions, for every width of the scalars.

* `LocalRecovered`, `WorldRecovered`: `world_to_local` and `local_to_world` undo
  each other wherever they have a result.  Turn and mirror are undone one by one
  (`RotateUndone`, `ReflectUndone`); the range tests cannot fail on the way back.
* `ChunkContainsPosition`: if the chunk side divides the lowest scalar, the floor
  of `align_down` stays in range (`FloorInRange`), the cast changes nothing
  (`WrapInRange`), and the chunk is aligned and contains the position.  Without
  the condition this is what `map_limit` refutes.

It has the algebra too, for every width.  For areas:
`IntersectsWhenShared`, `IntersectionIsCommon`, `CoversAllCells`, `UnionIsLeast`,
`SplitPartitions` (each a statement about all cells, where the code looks at
corners) and `ChunkAreaContainsPosition`, by which the far corner of a chunk does not wrap
when the side divides the range.  For coordinates:
`ArithmeticUndone`, `TurnsCompose`, `TurnsAgree`, `NeighboursUndone`,
`WrapModInRange`, `DivisionRecovers`, `DistancesBound`.  They rest on two
facts: `WrapIs`, a value in range that differs by a multiple of the modulus
*is* the wrapped one, and `WrapAbsorbs`, an inner cast disappears under an outer one.

The first part of `LayerSourceProofs` is about the streaming scan, for every text, every width of the integers and
every cut of the text into blocks.  `Meaning` reads a text as a whole, line by line; the
scan knows one byte and what it has kept.  `Tracks` relates the two: no terminator so far; every
complete line is well formed and the records kept are what those lines say; and the
state of the line in progress (start, key, unknown, record with its payload) is what its bytes
so far make it.  After an error, `Failed` names the line that decides it and says that
no way for the line to end would make it another error: the scan reports in the middle of
a line what `Meaning` reports of the whole one.  `ScanStep`: a byte keeps `Tracks`, unless it is
the second LF in a row, and then (`TextEnds`) the scan's result is `Meaning`.  `BlockTracks`
lifts this to a block of any length, `RunsOut` is the text without a terminator.

All of it is for texts that are `Unwrapped`: nowhere in the metadata is `P:` followed, in the place of a
coordinate, by a number between the largest int64 and the largest uint64.  On such a position record
the code and the format part, which is the finding of the run `layer_wide`.

The rest of `LayerSourceProofs` is about the operations, for every number of sources, every size, and every
interleaving of calls, failures, torn writes and restarts.  First the layout:
`OffsetsDistinct`: no two places of the grid, terminators included, share a byte; it is
the uniqueness of quotient and remainder (`PairsDistinct`).  `RangeStaysInRow`: every byte of a
range that `read_cells` and `write_cells` accept is a cell of that row and no
terminator.  `AcceptedLayoutFits`: what `finalize` accepts has the size of the file and no offset
beyond the offset type, for all dimensions the parser lets through.  The inductive
invariant of the operations is

    IInv == StorageTypeOK /\ ... /\ OpenOK /\ CreateOK /\ HeldOK /\ RangeOK /\ AnswerOK

`OpenOK`: an open in progress `Tracks` the text as it is on disk, and that of a creation has the
blank text in front of it.  `CreateOK`: the new file is exactly as far as the creation has
come, spaces, then the metadata, then the LF of `row` rows (`PartText`); `NextPart` is its step.
`HeldOK`: the file has the size its layout promises and each cell is what is known of it.
`RangeOK`, `AnswerOK`: what a read has in hand is what is in the file.  A write of cells keeps
`HeldOK` because its bytes fall on its own cells (`OffsetsDistinct`), and a
torn one only makes its own cells unknown.  That a blank source opens again as what was
asked for is `BlankMeans`, the meaning of its metadata line by line, and needs no
hypothesis: its numbers are sizes and coordinates and never wrap.

| Theorem | Property of the runs |
|---|---|
| `TypeCorrect`, `ReadsAreTrue`, `BlanksAreWhole` | `TypeOK`, `ReadsWhatWasWritten`, `BlankIsWhole` |
| `OpensMatch`, `StructureIsSafe`, both under `NarrowTexts` | `OpenMatchesMeaning`, `StructureSurvives` |

`NarrowTexts`: the texts that earlier sessions left are `Unwrapped`.  Under it `Narrowed` is invariant: no
file ever is anything else, since what the operations write cannot change metadata
(`MeaningKept`), and the layout held is what its text means.  The texts of the run
`layer_source` satisfy `NarrowTexts`; those of `layer_wide` do not.

`HeapInstancesProofs` is about any number of heaps, moves and storages:
`EveryHandleResolves` (`Spec => []HandlesResolve`) and `ObjectsAreKept`
(`Spec => ObjectsKept`), under `NullIsNone`: the null pointer is no heap and no
storage.  That every object left lies in the storage of the active heap is
inductive only with `Registered` (the active instance is the one valid heap) and
`CountsAgree` (its count is the number of objects in its storage): the destructor
looks at its own count, and it is through `CountsAgree` that a count of zero leaves
no handle behind.

The first part of `MapProofs` is about the passes, for every catalogue, every sequence of placements
and every content of the sources.  `ResolveMatchesReference`: a resolution ends
without error exactly when every source needed for one of its cells can be read,
and then each cell is the answer of the stated precedence; `ResolveTyped` is its
type.  The patch pass is a walk down the placements, the topmost first, that stops when
no cell is left; what it has done after `k` of them is known cell by cell for all `k`,
by the least `k` at which it would fail to hold (`LeastNatural`, `UpTo`), since the induction
theorems of the library are not available.  The same argument gives that the sort and
the iteration exist at all (`InOrderSorts`, `IterationExists`).

The rest of `MapProofs` is about the whole of `Map`: every map, layer set, catalogue, capacity and storage
content, and every interleaving of calls, faults, torn writes and restarts.  Its one
hypothesis beyond the modules' assumptions is `GridFits`, that no chunk of the map starts
below the range of the scalar; `map_limit` is the counterexample without it.  The
inductive invariant is

    IInv == TypeOK /\ PlacementsOK /\ SourcesOK /\ CacheOK /\ FlushOK

`CacheOK` says that the slot array is consistent (through the lemmas of
`CacheSlotsProofs`, instantiated) and its clean planes fresh; `FlushOK` says what
the flush knows at each of its places: `CreationOK` how far the source has come,
`TodoOK` which chunks are still dirty, `DoneOK` which layers are already clean, `RunsOK` that
the pending runs are exactly the cells where the live value differs from the sources.
Without the last, a plane marked clean need not be fresh; without `CreationOK`, a source that is being
created might decide a cell before it is reopened.  Every step is then one of
six kinds (`StepKinds`): an access by a caller, a placement change while nothing is dirty, a restart, a plane
that is settled, a step on a source, or one that moves neither cache nor storage.  Each theorem asks
which kinds could disturb it:

| Theorem | Property of the runs |
|---|---|
| `TypeCorrect`, `CleanIsFresh`, `WorkListDirty`, `ResolutionCorrect` | `TypeOK`, `CleanPlaneIsFresh`, `WorkListStaysDirty`, `ResolutionMatchesReference` |
| `SuccessCleans`, `DirtyGoesFlushed` | `FlushSuccessCleans`, `DirtyOnlyFlushedAway` |
| `DifferencesPersist`, `SourcesAppear` | `OnlyDifferencesPersisted`, `SourcesAppearForCause` |
| `ViewIsStable` | `ViewStable` |

`HeapLayoutProofs` and `ManagedHeapProofs` are about the managed heap, for every capacity,
size of a table, number of descriptors in one, alignment, set of values, places, sizes, policies
and budgets, and for every nesting of calls, constructors and destructors.  Constructors may
use the heap (`ConstructorsUseHeap` is not restricted).  The inductive invariant is

    IInv == HeapOK(heap, Constructing(frames)) /\ CallsOK(...) /\ OwnersOK(...)

* `HeapOK`: the tables have distinct ids and none is empty unless it is the only one; the chain lists each
  descriptor in use once, from high to low, with aligned bases above the tables; an object is
  live exactly as long as its count is not zero; `reserved` and `live` are the sums over the
  chain.  The set `Constructing` is what makes this inductive: an object whose constructor runs is
  in the chain and not in the counters, and any number of them may be.
* `CallsOK`: what an unfinished call relies on after the user code it ran.  The objects of
  the destructor frames are still in state *destroying*, so that `ReleaseEnds` takes out of the
  chain the object it was called for; a compaction is the innermost call, with no scope and
  no destructor below it; the address in a scope is the object's.
* `OwnersOK`: the owners of a handle are counted over variables, members, scopes and unfinished calls,
  and there are as many as references.  Without the references in flight, that is the `incoming` of
  an assignment and the object under construction, it is not inductive.  If destructors may assign to the
  place under assignment (`DestructorsReassign`) there may be fewer owners than references, never
  more: that is the leak of the run `heap_assign`, and the reason why `RefsExactHolds` has
  `~ DestructorsReassign` as its hypothesis.  The other theorems do not need it.

The proof goes through the `View`: each handle has a slot, wherever its table is and whichever tables
come and go (`PushedIs`, `ReclaimedIs`, `ReleasedSlotIs`).  A splice is then one insertion
into a sequence, an unlink one deletion (`ChainInserted`, `ChainDeleted`), an evacuation both, and
each keeps chain, order and sums (`MadeIs`, `RemovedIs`, `EvacuatedMoves`).  `ChainIs`: a sequence that
fits the links *is* the walk from the root.  A shift is a recursion over the objects below
a gap; what the heap looks like when the first `j` of them have been raised is said by
`Raising`, whose step (`RaisedOneIs`) shows that a copy never overwrites an object that has not moved, and
`ShiftedIs` is its end.  On top of it, `Ready` is the state in which `release_` begins, with
the reference taken from its owner and not yet given back, and every call that lets go of
a reference comes down to it (`ReleaseKeeps`).  `StepKeeps` says for every step that it keeps `IInv` and
does one of seven things to the objects (`Happens`): nothing, the last reference of one goes, one is gone, one
appears, one is written, all keep their bytes while they move, or bytes outside every object change.
`AddressesStable` and the refinement are read off that list.

| Theorem | Property of the runs |
|---|---|
| `InvariantHolds` | `IInv`, from which the others follow |
| `TypeOKHolds`, `HeapSoundHolds`, `RefsExactHolds` | `TypeOK`, `HeapSound`, `RefsExact` |
| `AddressesStableHolds`, `MovesMakeProgressHolds` | `AddressesStable`, `MovesMakeProgress` |
| `FailedMakeLeavesNothingHolds` | `FailedMakeLeavesNothing` (by `GivenBack`: a slot taken and given back leaves the tables as they were) |
| `KeepsObjects` | `ImplementsObjectStore` |

`HeapSound` has as its condition that no constructor is running; together with the theorem, the run
`heap_constructor` says that this is the one case in which an assertion of
`debug_assert_invariants_` can fail.

The assumptions on constants that these proofs rest on are in the modules and evaluated by
TLC: the list of layers names each of them once (`OrderAssumption`), the corners of the map
are coordinates in order (`AreaAssumption`), fallbacks and readable authored cells are
bytes (`FallbackAssumption`, `CatalogueAssumption`), and what callers and earlier sessions bring has the
types of the interface (`InputsAssumption`, `StorageAssumption`).  For layer sources: the marks of the
format are distinct bytes and no numbers, the accumulator is wide enough for the size
arithmetic of two 32-bit dimensions, and every coordinate is below the largest int64 (`FormatAssumption`); a text is a
sequence of bytes and an extent and a position have the types of the interface
(`OperationAssumption`).

For the heap: sizes are from 1 to the capacity, the tables are aligned and one fits
(`LayoutAssumption`), the mark of a byte that belongs to no object is no value
(`JunkAssumption`), and variables are finitely many and no handles (`ProgramAssumption`).

Only model-checked: `FlushReturns`, `OperationsReturn` and `CompactionEnds`.  They are liveness
under fairness, which is out of the prover's reach, as `ENABLED` is.  For the third, the part
that is safety is proved: `MovesMakeProgress`, by which no move can be undone by a later one.  What a fold computes
for every input cannot be proved either; where the models iterate (the scan of a block, the walk
of the chain, its sums, the shift of a run) they use recursive functions, whose existence
and values are proved by the least number at which they would fail (`ScanningExists`,
`SumsExist`, `RaisedExists`).

## 6. Not modelled

* Two layers bound to one file.  The code does not forbid it; the model gives each
  bound layer a source of its own.  Nothing in the repository says what the layers
  should then read.
* Within the layer format, digits and their formatting: an integer token is one symbol.
  Within the backend, names and directories beyond "something is there", and
  `exists`, which changes nothing and is used by its answer.
* Within geometry, observers without arithmetic of their own: dot product, component
  clamp, sign tests.
* Two threads, or a source changed by another process: the code is single
  threaded and claims nothing about either.
* Tile, Patch, PatchSet, Place and Layer accessors, `main`, build and test files, the heap's
  `example.cpp`: no state changes of their own.  The private
  `invalidate(position)` and `invalidate(area)` of Map have no caller.
* Formatting of metadata, file names and diagnostics.
