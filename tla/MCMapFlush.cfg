\* Two chunks and room for both; a bound layer , and one placement.
CONSTANTS
    terrain = terrain
    hill = hill
    MinScalar <- MCMinScalar
    MaxScalar = 3
    Layers = {terrain}
    Bound = {terrain}
    MapArea <- MCArea
    Side = 2
    Bytes <- MCBytes
    Zero = 0
    Space = 32
    LF = 10
    Catalogue <- MCCatalogue
    Authored <- MCAuthored
    FallbackAt <- MCFallback
    LayerOrder <- MCOrder
    Capacity = 2
    MaxPlacements = 1
    AccessAt <- MCAccess
    SetValues = {32, 66}
    PlaceAt = {}
    TurnTo = {}
    MirrorTo = {}
    PatchIds = {hill}
    StoredBefore <- MCStored
SPECIFICATION Spec
INVARIANTS
    TypeOK
    CleanPlaneIsFresh
    WorkListStaysDirty
PROPERTIES
    ViewStable
    OnlyDifferencesPersisted
    SourcesAppearForCause
    DirtyOnlyFlushedAway
    FlushSuccessCleans
    FlushReturns
