----------------------------- MODULE Resolution -----------------------------
(***************************************************************************)
(* How Map answers a cache miss (Map::resolve_chunk, src/world/map.hpp):   *)
(* the runtime overlay of the layer, then the authored placements from the *)
(* highest PlacementId down, then the fallback provider.  Each pass fills  *)
(* the in-map cells the passes before it left open, and a source is opened *)
(* only when it can still supply one of them.                              *)
(*                                                                         *)
(* A .layer source is abstracted to its form, the rows whose structural LF *)
(* is in place, and the byte of each cell (src/world/layer_source.hpp).    *)
(***************************************************************************)
EXTENDS Geometry, Sequences, FiniteSets, SequencesExt, Ordering

CONSTANTS
    Layers,      \* the layer types, by LayerId
    Bound,       \* the layers that have a RuntimeLayerBinding
    MapArea,     \* Map::area()
    Side,        \* CacheChunkSide
    Bytes,       \* the layers' value_type, and the bytes of a source
    Zero,        \* value_type{}
    Space,       \* 0x20: no contribution
    LF,          \* 0x0A: structural
    Catalogue,   \* PatchId -> [area, natural, source: bound layers -> source]
    Authored,    \* authored source -> [form, rows, cells]
    FallbackAt   \* layer -> position -> byte, the terminal provider

ASSUME BoundAssumption == Bound \subseteq Layers
ASSUME SideAssumption == Side \in Nat \ {0}
ASSUME BytesAssumption == {Zero, Space, LF} \subseteq Bytes

NoError == "none"

\* What a resolution may end in.
SourceErrors == {"LayerSourceError", "AuthoredLayerSourceError", "RuntimeLayerSourceError"}

\* What opening and validating a source says of its form: "broken" fails the
\* parse, "mismatched" parses with a geometry that is not the expected one.
Forms == {"absent", "broken", "mismatched", "ready"}

MapCells == (MapArea.min[1] .. MapArea.max[1]) \X (MapArea.min[2] .. MapArea.max[2])

MapRows == MapArea.min[2] .. MapArea.max[2]

\* The runtime overlay source of one layer covers the whole map; cells and
\* rows are addressed by world position (the code subtracts the area minimum).
RuntimeSource == [form : Forms, rows : SUBSET MapRows, cells : [MapCells -> Bytes]]

\* The patches are written for the map: a natural position is a coordinate, and
\* a readable source has a byte for every cell of its patch.
ASSUME AreaAssumption ==
    /\ MapArea.min \in Coord /\ MapArea.max \in Coord
    /\ \A d \in 1 .. 2 : MapArea.min[d] <= MapArea.max[d]

ASSUME FallbackAssumption == \A l \in Layers, w \in MapCells : FallbackAt[l][w] \in Bytes

ASSUME CatalogueAssumption ==
    \A patch \in DOMAIN Catalogue :
        /\ Catalogue[patch].natural \in Coord
        /\ \A l \in DOMAIN Catalogue[patch].source :
               LET source == Authored[Catalogue[patch].source[l]]
               IN  /\ source.form \in Forms
                   /\ source.form = "ready" =>
                          \A c \in Coord : AreaContains(Catalogue[patch].area, c) =>
                              source.cells[c] \in Bytes

HasContribution(b) == b # Space /\ b # LF

\* read_cells() of single cells fails when one of them is a LF, or when the
\* row of one of them has not got its LF.
ReadFails(source, cells) ==
    \E c \in cells : c[2] \notin source.rows \/ source.cells[c] = LF

CanRead(source, c) == source.form = "ready" /\ ~ ReadFails(source, {c})

\* Every cell the space byte: what Storage::create() leaves.
Blank == [c \in MapCells |-> Space]

-----------------------------------------------------------------------------
\* The cells of a canonical chunk that are positions of the map; the others
\* are cache padding.
InMap(o) ==
    {cell \in PlaneCells(Side) :
        CellWorld(o, cell) # NoCoord /\ AreaContains(MapArea, CellWorld(o, cell))}

Positions(o) == {CellWorld(o, cell) : cell \in InMap(o)}

\* A pass works on the values resolved so far and on the error that ended the
\* resolution; io says that storage has been used.
Pass == [values : UNION {[S -> Bytes] : S \in SUBSET PlaneCells(Side)},
         error : SourceErrors \cup {NoError}, io : BOOLEAN]

Unresolved(o, pass) == InMap(o) \ DOMAIN pass.values

\* Every byte found resolves its cell, the space byte included.
ContributeAll(pass, found) ==
    [pass EXCEPT
        !.io = TRUE,
        !.values = [cell \in DOMAIN pass.values \cup DOMAIN found |->
            IF cell \in DOMAIN found THEN found[cell] ELSE pass.values[cell]]]

\* The cells of `found' that carry a contribution become resolved.
Contribute(pass, found) ==
    LET new == {cell \in DOMAIN found : HasContribution(found[cell])}
    IN  [pass EXCEPT
            !.io = TRUE,
            !.values = [cell \in DOMAIN pass.values \cup new |->
                IF cell \in new THEN found[cell] ELSE pass.values[cell]]]

Failed(pass, error) == [pass EXCEPT !.io = TRUE, !.error = error]

\* The error of opening and validating a present runtime source, if any.
RuntimeFormError(form) ==
    CASE form = "broken"     -> "LayerSourceError"
      [] form = "mismatched" -> "RuntimeLayerSourceError"
      [] OTHER               -> NoError

\* The runtime pass: skipped when the layer has no binding or the bound source
\* has not been created yet.
RuntimePass(runtime, l, o, pass) ==
    IF l \notin Bound THEN pass
    ELSE IF runtime[l].form = "absent" THEN [pass EXCEPT !.io = TRUE]
    ELSE LET source == runtime[l]
             error == RuntimeFormError(source.form)
         IN  IF error # NoError THEN Failed(pass, error)
             ELSE IF ReadFails(source, Positions(o))
             THEN Failed(pass, "LayerSourceError")
             ELSE Contribute(pass, [cell \in Unresolved(o, pass) |->
                                       source.cells[CellWorld(o, cell)]])

-----------------------------------------------------------------------------
\* A placement reaches a position when the position transforms back into the
\* local area of its patch.
Reaches(p, w) ==
    LET local == WorldToLocal(p, w)
    IN  local # NoCoord /\ AreaContains(Catalogue[p.patch].area, local)

SourceOf(p, l) == Authored[Catalogue[p.patch].source[l]]

BindsLayer(p, l) == l \in DOMAIN Catalogue[p.patch].source

AuthoredFormError(form) ==
    CASE form \in {"absent", "broken"} -> "LayerSourceError"
      [] form = "mismatched"           -> "AuthoredLayerSourceError"
      [] OTHER                         -> NoError

LocalOf(p, o, cell) == WorldToLocal(p, CellWorld(o, cell))

Candidates(o, pass, p) == {cell \in Unresolved(o, pass) : Reaches(p, CellWorld(o, cell))}

\* A source opened whenever the patch binds the layer, needed or not.
AlwaysOpened(l, o, pass, p) == pass.error = NoError /\ BindsLayer(p, l)

\* With no open cell in reach, the source of a placement stays closed.
Opened(l, o, pass, p) ==
    pass.error = NoError /\ BindsLayer(p, l) /\ Candidates(o, pass, p) # {}

\* One placement's turn.
PlacementPass(l, o, pass, p) ==
    LET source == SourceOf(p, l)
        candidates == Candidates(o, pass, p)
    IN  IF ~ Opened(l, o, pass, p) THEN pass
        ELSE IF AuthoredFormError(source.form) # NoError
        THEN Failed(pass, AuthoredFormError(source.form))
        ELSE IF ReadFails(source, {LocalOf(p, o, cell) : cell \in candidates})
        THEN Failed(pass, "LayerSourceError")
        ELSE Contribute(pass, [cell \in candidates |-> source.cells[LocalOf(p, o, cell)]])

\* Array order instead of descending PlacementId.
ByArrayOrder(placements) == placements

\* The live placements by descending PlacementId (std::sort).
ByPrecedence(placements) ==
    InOrder(Range(placements), [p \in Range(placements) |-> - p.id])

\* The last pass: the fallback for what is still open, value_type{} for the
\* padding.
Complete(l, o, pass) ==
    [cell \in PlaneCells(Side) |->
        CASE cell \in DOMAIN pass.values -> pass.values[cell]
          [] cell \in Unresolved(o, pass) -> FallbackAt[l][CellWorld(o, cell)]
          [] OTHER -> Zero]

\* resolve_chunk<LayerT>(chunk): the plane or the exact error, and whether a
\* storage call was made on the way (so that one of them could have failed).
Resolve(placements, runtime, l, o) ==
    LET start == [values |-> [cell \in {} |-> Zero], error |-> NoError, io |-> FALSE]
        turns == ByPrecedence(placements)
        pass[k \in 0 .. Len(turns)] ==
            IF k = 0 THEN RuntimePass(runtime, l, o, start)
            ELSE PlacementPass(l, o, pass[k - 1], turns[k])
        last == pass[Len(turns)]
    IN  [plane |-> Complete(l, o, last), error |-> last.error, io |-> last.io]

-----------------------------------------------------------------------------
(***************************************************************************)
(* The answer as the design states it, cell by cell and with no passes:    *)
(* the reference the algorithm is compared with.                           *)
(***************************************************************************)
\* The byte the runtime overlay stores for a position.
Overlay(runtime, l, w) ==
    IF l \in Bound /\ CanRead(runtime[l], w)
    THEN runtime[l].cells[w]
    ELSE Space

Covering(placements, l, w) ==
    {p \in Range(placements) : BindsLayer(p, l) /\ Reaches(p, w)}

AuthoredByte(p, l, w) ==
    LET source == SourceOf(p, l)
        local == WorldToLocal(p, w)
    IN  IF CanRead(source, local) THEN source.cells[local] ELSE Space

Contributing(placements, l, w) ==
    {p \in Covering(placements, l, w) : HasContribution(AuthoredByte(p, l, w))}

Topmost(ps) == CHOOSE p \in ps : \A q \in ps : q.id <= p.id

\* What the world shows at w below the cache.
BackingAt(placements, runtime, l, w) ==
    IF HasContribution(Overlay(runtime, l, w))
    THEN Overlay(runtime, l, w)
    ELSE IF Contributing(placements, l, w) # {}
    THEN AuthoredByte(Topmost(Contributing(placements, l, w)), l, w)
    ELSE FallbackAt[l][w]

\* The placements whose source must be read to answer for w.
Consulted(placements, runtime, l, w) ==
    {p \in Covering(placements, l, w) :
        /\ ~ HasContribution(Overlay(runtime, l, w))
        /\ \A q \in Contributing(placements, l, w) : q.id <= p.id}

RuntimeReadable(runtime, l, w) ==
    l \in Bound /\ runtime[l].form # "absent"
        => CanRead(runtime[l], w)

\* Every source that must be read to answer for w can be read there.
Readable(placements, runtime, l, w) ==
    /\ RuntimeReadable(runtime, l, w)
    /\ \A p \in Consulted(placements, runtime, l, w) :
           CanRead(SourceOf(p, l), WorldToLocal(p, w))
=============================================================================
