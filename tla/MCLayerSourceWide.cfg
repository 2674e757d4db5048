\* One text per position, from a small one to the largest 64-bit token.
CONSTANTS
    file = file
    x = x
    LF = LF
    Space = Space
    Colon = Colon
    Dot = Dot
    V = V
    D = D
    P = P
    Others = {x}
    SizeMax = 31
    Uint32Max = 31
    WideMax = 1023
    CoordMin <- MCCoordMin
    CoordMax = 3
    MaxPayload = 4
    Sources = {file}
    Bytes <- MCBytes
    BlockBytes = 16
    ReadSize = 4
    Unknown = Unknown
    Unclear = Unclear
    Texts <- MCWideTexts
    Extents <- MCExtents
    Origins <- MCOrigins
    Fragments <- MCFragments
SPECIFICATION Spec
INVARIANT WideValuesOverflow
