\* Scalars of four bits, chunks of side three, an empty cache of two slots.
CONSTANTS
    terrain = terrain
    MinScalar <- MCMinScalar
    MaxScalar = 7
    Layers = {terrain}
    Bound = {}
    MapArea <- MCArea
    Side = 3
    Bytes <- MCBytes
    Zero = 0
    Space = 32
    LF = 10
    Catalogue <- MCNone
    Authored <- MCNone
    FallbackAt <- MCFallback
    LayerOrder <- MCOrder
    Capacity = 2
    MaxPlacements = 0
    AccessAt <- MCAccess
    SetValues = {65}
    PlaceAt = {}
    TurnTo = {}
    MirrorTo = {}
    PatchIds = {}
    StoredBefore <- MCStored
SPECIFICATION Spec
INVARIANT CacheFullMeansFull
