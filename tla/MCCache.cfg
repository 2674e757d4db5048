\* Two slots, three chunks: one chunk too many, so that fill() refuses.
CONSTANTS
    o1 = o1
    o2 = o2
    o3 = o3
    askew = askew
    a = a
    b = b
    terrain = terrain
    water = water
    Layers = {terrain, water}
    Origins <- MCOrigins
    AlignedOrigins <- MCAligned
    Home = o1
    Cells <- MCCells
    Values = {a, b}
    Zero = a
    Capacity = 2
    Sides = {2, 3}
    ChunkSide = 2
    Chunks <- MCChunks
    Spans <- MCSpans
    Areas <- MCAreas
SYMMETRY Swaps
SPECIFICATION Spec
INVARIANTS
    TypeOK
    SlotsConsistent
PROPERTIES
    DirtyNeverDiscarded
    ImplementsResidentPlanes
