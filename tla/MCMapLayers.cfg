\* One cell per chunk, so that all that varies is which layer is at which step.
CONSTANTS
    terrain = terrain
    fire = fire
    camp = camp
    MinScalar <- MCMinScalar
    MaxScalar = 1
    Layers = {terrain, fire}
    Bound = {terrain}
    MapArea <- MCArea
    Side = 1
    Bytes <- MCBytes
    Zero = 0
    Space = 32
    LF = 10
    Catalogue <- MCCatalogue
    Authored <- MCAuthored
    FallbackAt <- MCFallback
    LayerOrder <- MCOrder
    Capacity = 2
    MaxPlacements = 1
    AccessAt <- MCAccess
    SetValues = {66}
    PlaceAt = {}
    TurnTo = {}
    MirrorTo = {}
    PatchIds = {camp}
    StoredBefore <- MCStored
SPECIFICATION Spec
INVARIANTS
    WorkListStaysDirty
PROPERTIES
    ViewStable
    OnlyDifferencesPersisted
    FlushSuccessCleans
    FlushReturns
