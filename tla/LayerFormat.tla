---------------------------- MODULE LayerFormat ----------------------------
(***************************************************************************)
(* The version 1.0 dense layer source (world/layer_source.hpp): metadata   *)
(* lines, each ended by LF, an empty line, and height rows of width cells, *)
(* each ended by LF.  This module has the pure part: the scan of the       *)
(* metadata, byte by byte, with the little state it keeps between bytes,   *)
(* and the arithmetic of the layout.                                       *)
(*                                                                         *)
(* A byte is a mark (one of the constants below), another byte, or an      *)
(* integer: a whole integer token, decimal or hexadecimal, stands as one   *)
(* element of the text, its value.                                         *)
(***************************************************************************)
EXTENDS Integers, Sequences, SequencesExt

CONSTANTS
    LF, Space, Colon, Dot, V, D, P,  \* the bytes the format knows
    Others,                          \* bytes it does not
    Uint32Max,                       \* also of storage::Size and storage::Offset
    WideMax,                         \* the largest uint64
    CoordMin, CoordMax,              \* of a Coord32
    MaxPayload                       \* k_max_known_payload

Marks == {LF, Space, Colon, Dot, V, D, P} \cup Others
Keys == {V, D, P}

\* A record of two integers, with what separates them, is a legal payload.
ASSUME FormatAssumption ==
    /\ IsInjective(<<LF, Space, Colon, Dot, V, D, P>>)
    /\ Marks \cap Int = {}
    /\ Uint32Max \in Nat /\ WideMax \in Nat /\ WideMax % 2 = 1
    /\ (Uint32Max + 1) * Uint32Max <= WideMax
    /\ CoordMin \in Int /\ CoordMax \in Int
    /\ -(WideMax \div 2) - 1 < CoordMin /\ CoordMax < WideMax \div 2
    /\ MaxPayload \in Nat /\ MaxPayload >= 3

FormatErrors ==
    {"MissingTerminator", "MalformedMetadata", "MissingRecord", "DuplicateRecord",
     "UnsupportedVersion", "ZeroDimension", "Overflow", "SizeMismatch"}

-----------------------------------------------------------------------------
(***************************************************************************)
(* Integers of a payload.                                                  *)
(***************************************************************************)
\* A conversion of uint64 to int64.
AsSigned(n) == IF n > WideMax \div 2 THEN n - (WideMax + 1) ELSE n

\* parse_int_token: the value, as a set that is empty when there is none.
ParseInt(text, negativeAllowed) ==
    {AsSigned(n) : n \in {m \in Range(text) :
        /\ Len(text) = 1 /\ m \notin Marks
        /\ m <= WideMax
        /\ m < 0 => negativeAllowed /\ -m <= WideMax \div 2 + 1}}

\* parse_two_ints and parse_version: two integers around the first separator.
ParsePair(text, separator, negativeAllowed) ==
    UNION {ParseInt(SubSeq(text, 1, i - 1), negativeAllowed)
               \X ParseInt(SubSeq(text, i + 1, Len(text)), negativeAllowed) :
           i \in {j \in DOMAIN text :
                    text[j] = separator /\ \A k \in 1 .. j - 1 : text[k] # separator}}

-----------------------------------------------------------------------------
(***************************************************************************)
(* The scan.  `line' is the LineState, `core' what the records said.       *)
(***************************************************************************)
NoRecords == [version |-> FALSE, dimensions |-> <<>>, position |-> <<>>]

ScanStart == [offset |-> 0, newline |-> FALSE, ended |-> FALSE, error |-> "none",
              line |-> "start", key |-> Space, colon |-> FALSE, payload |-> <<>>,
              core |-> NoRecords]

\* record_error: the first one stays.
RecordError(s, error) == IF s.error = "none" THEN [s EXCEPT !.error = error] ELSE s

\* The rest of the line is streamed away and is not malformed for its colon.
SkipRest(s) == [s EXCEPT !.line = "unknown", !.colon = TRUE]

VersionLine(s) ==
    LET pair == ParsePair(s.payload, Dot, FALSE) IN
    IF pair = {} THEN RecordError(s, "MalformedMetadata")
    ELSE IF pair # {<<1, 0>>} THEN RecordError(s, "UnsupportedVersion")
    ELSE [s EXCEPT !.core.version = TRUE]

DimensionsLine(s) ==
    LET pair == ParsePair(s.payload, Space, FALSE) IN
    IF pair = {} THEN RecordError(s, "MalformedMetadata")
    ELSE LET d == CHOOSE d \in pair : TRUE IN
         IF 0 \in {d[1], d[2]} THEN RecordError(s, "ZeroDimension")
         ELSE [s EXCEPT !.core.dimensions = d]

PositionLine(s) ==
    LET pair == ParsePair(s.payload, Space, TRUE) IN
    IF pair = {} THEN RecordError(s, "MalformedMetadata")
    ELSE LET p == CHOOSE p \in pair : TRUE IN
         IF \E i \in 1 .. 2 : p[i] < CoordMin \/ p[i] > CoordMax
         THEN RecordError(s, "Overflow")
         ELSE [s EXCEPT !.core.position = p]

\* finish_line: what the line said, by the state it ended in.
LineSays(s) ==
    CASE s.line \in {"start", "key"} -> RecordError(s, "MalformedMetadata")
      [] s.line = "unknown" ->
             IF s.colon THEN s ELSE RecordError(s, "MalformedMetadata")
      [] s.line = "record" /\ s.key = V -> VersionLine(s)
      [] s.line = "record" /\ s.key = D -> DimensionsLine(s)
      [] s.line = "record" /\ s.key = P -> PositionLine(s)

LineFinished(s) ==
    [LineSays(s) EXCEPT !.line = "start", !.key = Space, !.colon = FALSE,
                        !.payload = <<>>]

Seen(core, key) ==
    \/ key = V /\ core.version
    \/ key = D /\ core.dimensions # <<>>
    \/ key = P /\ core.position # <<>>

\* The second byte of a line decides whether its first was a key.
KeyDecided(s, b) ==
    IF b # Colon THEN [s EXCEPT !.line = "unknown", !.colon = FALSE]
    ELSE IF Seen(s.core, s.key) THEN SkipRest(RecordError(s, "DuplicateRecord"))
    ELSE [s EXCEPT !.line = "record", !.payload = <<>>]

PayloadGrows(s, b) ==
    IF Len(s.payload) = MaxPayload
    THEN SkipRest(RecordError(s, "MalformedMetadata"))
    ELSE [s EXCEPT !.payload = Append(@, b)]

InLine(s, b) ==
    CASE s.line = "start" /\ b \in Keys -> [s EXCEPT !.key = b, !.line = "key"]
      [] s.line = "start" /\ b \notin Keys ->
             [s EXCEPT !.colon = (b = Colon), !.line = "unknown"]
      [] s.line = "key" -> KeyDecided(s, b)
      [] s.line = "unknown" -> [s EXCEPT !.colon = @ \/ b = Colon]
      [] s.line = "record" -> PayloadGrows(s, b)

\* One byte of the metadata.  The second of two LFs ends it.
ScanByte(s, b) ==
    IF s.ended THEN s
    ELSE LET t == [s EXCEPT !.offset = @ + 1, !.newline = (b = LF)] IN
         IF b # LF THEN InLine(t, b)
         ELSE IF s.newline THEN [t EXCEPT !.ended = TRUE]
         ELSE LineFinished(t)

\* A block in which a terminator begun in the block before is forgotten.
ScanBlockAfresh(s, bytes) ==
    LET scans[k \in 0 .. Len(bytes)] ==
            IF k = 0 THEN {[s EXCEPT !.newline = FALSE]}
            ELSE {ScanByte(scan, bytes[k]) : scan \in scans[k - 1]}
    IN  scans[Len(bytes)]

\* One block of the metadata: the set of the one scan it leads to.
ScanBlock(s, bytes) ==
    LET scans[k \in 0 .. Len(bytes)] ==
            IF k = 0 THEN {s} ELSE {ScanByte(scan, bytes[k]) : scan \in scans[k - 1]}
    IN  scans[Len(bytes)]

-----------------------------------------------------------------------------
(***************************************************************************)
(* The layout.                                                             *)
(***************************************************************************)
Failure(error) == [error |-> error]

Layout(w, h, p, offset) ==
    [error |-> "none", width |-> w, height |-> h, position |-> p, offset |-> offset]

\* An unsigned value that was kept as a signed one.
AsUnsigned(n) == IF n < 0 THEN n + WideMax + 1 ELSE n

\* finalize: the records are there, and the size they promise is the size.
Finalized(core, offset, total) ==
    IF ~ core.version \/ core.dimensions = <<>> \/ core.position = <<>>
    THEN Failure("MissingRecord")
    ELSE LET w == AsUnsigned(core.dimensions[1])
             h == AsUnsigned(core.dimensions[2])
         IN  IF w > Uint32Max \/ h > Uint32Max \/ offset + h * (w + 1) > Uint32Max
             THEN Failure("Overflow")
             ELSE IF offset + h * (w + 1) # total THEN Failure("SizeMismatch")
             ELSE Layout(w, h, core.position, offset)

ScanResult(s, total) ==
    IF s.error # "none" THEN Failure(s.error)
    ELSE Finalized(s.core, s.offset, total)

\* cell_offset, of a cell within the grid.
CellOffset(layout, x, y) == layout.offset + y * (layout.width + 1) + x

\* The offset of the LF that ends a row.
TerminatorOffset(layout, y) == layout.offset + y * (layout.width + 1) + layout.width

\* The metadata block create_blank_layer_source writes.
Metadata(w, h, p) ==
    <<V, Colon, 1, Dot, 0, LF, D, Colon, w, Space, h, LF,
      P, Colon, p[1], Space, p[2], LF, LF>>

-----------------------------------------------------------------------------
(***************************************************************************)
(* What a text means, without a scan: by the places of its LFs.            *)
(***************************************************************************)
\* The place of the LF that ends the line before the empty one.
Ends(t) == {i \in 1 .. Len(t) - 1 : t[i] = LF /\ t[i + 1] = LF}
End(t) == CHOOSE i \in Ends(t) : \A j \in Ends(t) : i <= j

\* The lines up to an end, by the place each begins at.
LineStarts(t, end) == {i \in 1 .. end : i = 1 \/ t[i - 1] = LF}

LineAt(t, i) ==
    SubSeq(t, i, (CHOOSE j \in i .. Len(t) :
                    t[j] = LF /\ \A k \in i .. j - 1 : t[k] # LF) - 1)

IsRecord(line) == Len(line) >= 2 /\ line[1] \in Keys /\ line[2] = Colon

\* The two integers, as they are written, around the first separator.
WrittenPairs(payload, separator, least) ==
    {<<payload[1], payload[3]>> : dummy \in
        {i \in {2} : Len(payload) = 3 /\ payload[2] = separator
                     /\ \A j \in {1, 3} : payload[j] \notin Marks
                                          /\ payload[j] \in least .. WideMax}}

\* What is wrong with a record's payload, if anything.
PayloadError(key, payload) ==
    LET pairs == IF key = V THEN WrittenPairs(payload, Dot, 0)
                 ELSE WrittenPairs(payload, Space,
                                   IF key = D THEN 0 ELSE -(WideMax \div 2) - 1)
    IN  IF pairs = {} THEN "MalformedMetadata"
        ELSE LET pair == CHOOSE q \in pairs : TRUE IN
             IF key = V THEN IF pair = <<1, 0>> THEN "none" ELSE "UnsupportedVersion"
             ELSE IF key = D THEN IF 0 \in {pair[1], pair[2]} THEN "ZeroDimension" ELSE "none"
             ELSE IF {pair[1], pair[2]} \subseteq CoordMin .. CoordMax
                  THEN "none" ELSE "Overflow"

Payload(line) == SubSeq(line, 3, Len(line))

\* The good lines of a key among the lines that begin in S.
GoodLines(t, S, key) ==
    {i \in S : /\ IsRecord(LineAt(t, i)) /\ LineAt(t, i)[1] = key
               /\ PayloadError(key, Payload(LineAt(t, i))) = "none"}

LineError(t, S, i) ==
    LET line == LineAt(t, i) IN
    IF ~ IsRecord(line)
    THEN IF \E j \in DOMAIN line : line[j] = Colon THEN "none" ELSE "MalformedMetadata"
    ELSE IF GoodLines(t, {j \in S : j < i}, line[1]) # {} THEN "DuplicateRecord"
    ELSE PayloadError(line[1], Payload(line))

\* The first line with an error decides; then the records, then the size.
Meaning(t) ==
    IF Ends(t) = {} THEN Failure("MissingTerminator")
    ELSE LET S == LineStarts(t, End(t))
             wrong == {i \in S : LineError(t, S, i) # "none"}
             said(key) == LET i == CHOOSE i \in GoodLines(t, S, key) : TRUE
                              line == LineAt(t, i)
                          IN  <<line[3], line[5]>>
         IN  IF wrong # {}
             THEN Failure(LineError(t, S, CHOOSE i \in wrong : \A j \in wrong : i <= j))
             ELSE IF \E key \in Keys : GoodLines(t, S, key) = {}
             THEN Failure("MissingRecord")
             ELSE Finalized([version |-> TRUE, dimensions |-> said(D),
                             position |-> said(P)], End(t) + 1, Len(t))
=============================================================================
