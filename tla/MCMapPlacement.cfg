\* One slot for two chunks, and room for two placements: both fill up.
CONSTANTS
    terrain = terrain
    road = road
    ruin = ruin
    lost = lost
    MinScalar <- MCMinScalar
    MaxScalar = 3
    Layers = {terrain}
    Bound = {}
    MapArea <- MCArea
    Side = 2
    Bytes <- MCBytes
    Zero = 0
    Space = 32
    LF = 10
    Catalogue <- MCCatalogue
    Authored <- MCAuthored
    FallbackAt <- MCFallback
    LayerOrder <- MCOrder
    Capacity = 1
    MaxPlacements = 2
    AccessAt <- MCAccess
    SetValues = {66}
    PlaceAt <- MCPlaceAt
    TurnTo = {"none", "r180"}
    MirrorTo = {"none", "x"}
    PatchIds = {road, ruin, lost}
    StoredBefore <- MCStored
SPECIFICATION Spec
INVARIANTS
    ResolutionMatchesReference
    CleanPlaneIsFresh
PROPERTIES
    ViewStable
    DirtyOnlyFlushedAway
