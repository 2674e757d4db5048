\* Files of up to 31 bytes, read four at a time and filled sixteen at a time.
CONSTANTS
    file = file
    x = x
    LF = LF
    Space = Space
    Colon = Colon
    Dot = Dot
    V = V
    D = D
    P = P
    Others = {x}
    SizeMax = 31
    Uint32Max = 31
    WideMax = 1023
    CoordMin <- MCCoordMin
    CoordMax = 3
    MaxPayload = 4
    Sources = {file}
    Bytes <- MCBytes
    BlockBytes = 16
    ReadSize = 4
    Unknown = Unknown
    Unclear = Unclear
    Texts <- MCTexts
    Extents <- MCExtents
    Origins <- MCOrigins
    Fragments <- MCFragments
SPECIFICATION Spec
INVARIANTS
    TypeOK
    OpenMatchesMeaning
    ReadsWhatWasWritten
    BlankIsWhole
PROPERTIES
    StructureSurvives
    OperationsReturn
