---------------------------- MODULE LayerSource ----------------------------
(***************************************************************************)
(* The operations on a dense layer source over the filesystem backend:     *)
(* open_layer_source, a loop of bounded metadata reads;                    *)
(* create_blank_layer_source, which creates the file, writes its metadata  *)
(* and then one LF a row; read_cells and write_cells, which look at the    *)
(* terminator of the row they touch.  Every call to storage is a step and  *)
(* may fail, and the process may end before any of them.                   *)
(***************************************************************************)
EXTENDS LayerFormat, StorageFilesystem

CONSTANTS
    ReadSize,   \* layer_source_metadata_read_size
    Unknown,    \* a SourceId outside the source table
    Unclear,    \* stands for a cell of which nothing is known
    Texts,      \* what an earlier session left at the path, of files
    Extents,    \* the <<width, height>> a blank source is asked for
    Origins,    \* and its natural position
    Fragments   \* the cells a write is given

ASSUME OperationAssumption ==
    /\ ReadSize \in Nat \ {0}
    /\ Uint32Max = SizeMax
    /\ Unknown \notin Sources
    /\ Marks \subseteq Bytes /\ Bytes \subseteq Marks \cup Int /\ Unclear \notin Bytes
    /\ 0 .. SizeMax \subseteq Bytes /\ CoordMin .. CoordMax \subseteq Bytes
    /\ Texts \subseteq Seq(Bytes) /\ Fragments \subseteq Seq(Bytes)
    /\ Extents \subseteq (0 .. SizeMax) \X (0 .. SizeMax)
    /\ Origins \subseteq (CoordMin .. CoordMax) \X (CoordMin .. CoordMax)

VARIABLES
    op,      \* the operation in progress
    answer,  \* what the last one returned
    held,    \* the layout the caller has from the last open
    cells    \* what is known of the cells of that layout: what the writes
             \* that succeeded and the creation put there

vars == <<disk, creation, reply, op, answer, held, cells>>

NoOp == [kind |-> "none"]
NoAnswer == [of |-> "none", error |-> "none"]
NotHeld == [source |-> Unknown, layout |-> Layout(0, 0, <<0, 0>>, 0)]

Init ==
    /\ disk \in [Sources -> {Absent, [kind |-> "directory", bytes |-> <<>>]}
                             \cup {File(t) : t \in Texts}]
    /\ creation = Idle
    /\ reply = "none"
    /\ op = NoOp
    /\ answer = NoAnswer
    /\ held = NotHeld
    /\ cells = <<>>

Idling == op = NoOp
Doing(kind) == op.kind = kind

Begin(request) == op' = request /\ answer' = NoAnswer
Return(result) == op' = NoOp /\ answer' = result

-----------------------------------------------------------------------------
(***************************************************************************)
(* open_layer_source.                                                      *)
(***************************************************************************)
\* The caller's own open, and the one that ends a creation, of `asked'.
Opening(s, asked) == [kind |-> "open", source |-> s, total |-> 0, sized |-> FALSE,
                      scan |-> ScanStart, asked |-> asked]

Open(s) ==
    /\ Idling
    /\ Begin(Opening(s, <<>>))
    /\ held' = NotHeld /\ cells' = <<>>
    /\ UNCHANGED storageVars

OpenReturns(result) ==
    /\ Return([of |-> "open", error |-> result.error, source |-> op.source,
               asked |-> op.asked, result |-> result])
    /\ IF result.error # "none" THEN UNCHANGED <<held, cells>>
       ELSE /\ held' = [source |-> op.source, layout |-> result]
            /\ cells' = [c \in (0 .. result.width - 1) \X (0 .. result.height - 1) |->
                            IF op.asked = <<>> THEN Unclear ELSE Space]
    /\ UNCHANGED storageVars

OpenSizes ==
    /\ Doing("open") /\ ~ op.sized
    /\ \E out \in SizeOutcomes(op.source) :
           IF out.error # "none" THEN OpenReturns(Failure("StorageFailed"))
           ELSE /\ op' = [op EXCEPT !.sized = TRUE, !.total = out.size]
                /\ UNCHANGED <<storageVars, answer, held, cells>>

\* One bounded read, and the scan of what it brought.
OpenReads ==
    /\ Doing("open") /\ op.sized /\ op.scan.offset < op.total
    /\ LET left == op.total - op.scan.offset
           wanted == IF left < ReadSize THEN left ELSE ReadSize
       IN  \E out \in ReadOutcomes(op.source, op.scan.offset, wanted) :
               IF out.error # "none" THEN OpenReturns(Failure("StorageFailed"))
               ELSE \E s \in ScanBlock(op.scan, out.bytes) :
                        IF s.ended THEN OpenReturns(ScanResult(s, op.total))
                        ELSE /\ op' = [op EXCEPT !.scan = s]
                             /\ UNCHANGED <<storageVars, answer, held, cells>>

\* The loop goes on until the offset is past the size, with empty reads.
OpenRunsOutBeyond ==
    /\ Doing("open") /\ op.sized /\ op.scan.offset > op.total
    /\ OpenReturns(Failure("MissingTerminator"))

\* The text has been read and its metadata did not end.
OpenRunsOut ==
    /\ Doing("open") /\ op.sized /\ op.scan.offset >= op.total
    /\ OpenReturns(Failure("MissingTerminator"))

-----------------------------------------------------------------------------
(***************************************************************************)
(* create_blank_layer_source.                                              *)
(***************************************************************************)
BlankLayout(extent, p) ==
    Layout(extent[1], extent[2], p, Len(Metadata(extent[1], extent[2], p)))

BlankSize(extent, p) ==
    BlankLayout(extent, p).offset + extent[2] * (extent[1] + 1)

Creating(pc) == Doing("create") /\ op.pc = pc

CreateReturns(error) == Return([of |-> "create", error |-> error])

\* What fails before storage is touched, and what create() itself refuses.
CreateBlankRefused(s, extent, p) ==
    /\ Idling
    /\ \/ /\ 0 \in {extent[1], extent[2]}
          /\ CreateReturns("ZeroDimension") /\ UNCHANGED storageVars
       \/ /\ 0 \notin {extent[1], extent[2]} /\ BlankSize(extent, p) > SizeMax
          /\ CreateReturns("Overflow") /\ UNCHANGED storageVars
       \/ /\ 0 \notin {extent[1], extent[2]} /\ BlankSize(extent, p) <= SizeMax
          /\ CreateRefused(s) /\ CreateReturns("StorageFailed")
    /\ held' = NotHeld /\ cells' = <<>>

CreateBlank(s, extent, p) ==
    /\ Idling
    /\ 0 \notin {extent[1], extent[2]} /\ BlankSize(extent, p) <= SizeMax
    /\ CreateBegins(s, BlankSize(extent, p), Space)
    /\ Begin([kind |-> "create", pc |-> "file", source |-> s, extent |-> extent,
              origin |-> p, row |-> 0])
    /\ held' = NotHeld /\ cells' = <<>>

\* create(), step by step.
FileCreated ==
    /\ Creating("file")
    /\ CreateSteps
    /\ IF creation' # Idle THEN UNCHANGED <<op, answer>>
       ELSE IF reply' = "none"
       THEN op' = [op EXCEPT !.pc = "metadata"] /\ UNCHANGED answer
       ELSE CreateReturns("StorageFailed")
    /\ UNCHANGED <<held, cells>>

\* One write of the creation: it goes on, or storage has failed.
WriteOf(offset, data, goesOn) ==
    /\ \E out \in WriteOutcomes(op.source, offset, data) :
           /\ disk' = out.disk
           /\ IF out.error = "none" THEN op' = goesOn /\ UNCHANGED answer
              ELSE CreateReturns("StorageFailed")
    /\ UNCHANGED <<creation, reply, held, cells>>

MetadataWritten ==
    /\ Creating("metadata")
    /\ WriteOf(0, Metadata(op.extent[1], op.extent[2], op.origin),
               [op EXCEPT !.pc = "rows"])

RowEnded ==
    /\ Creating("rows") /\ op.row < op.extent[2]
    /\ WriteOf(TerminatorOffset(BlankLayout(op.extent, op.origin), op.row), <<LF>>,
               [op EXCEPT !.row = @ + 1])

\* The source is reopened when its last row has no LF yet.
BlankReopenedEarly ==
    /\ Creating("rows") /\ op.row >= op.extent[2] - 1
    /\ op' = Opening(op.source, <<op.extent, op.origin>>)
    /\ UNCHANGED <<storageVars, answer, held, cells>>

\* The result is what the reader makes of the new source.
BlankReopened ==
    /\ Creating("rows") /\ op.row >= op.extent[2]
    /\ op' = Opening(op.source, <<op.extent, op.origin>>)
    /\ UNCHANGED <<storageVars, answer, held, cells>>

-----------------------------------------------------------------------------
(***************************************************************************)
(* read_cells and write_cells, on the layout the caller holds.             *)
(***************************************************************************)
\* The bounds with one cell too many in a row.
InGridOrTerminator(layout, y, x, n) ==
    y < layout.height /\ x <= layout.width /\ n <= layout.width - x + 1

\* The bounds that need no storage.
InGrid(layout, y, x, n) ==
    y < layout.height /\ x <= layout.width /\ n <= layout.width - x

HasLayout == Idling /\ held # NotHeld

CellsReturn(of, error, bytes) ==
    Return([of |-> of, error |-> error, y |-> op.y, x |-> op.x, bytes |-> bytes])

\* A range is refused, an empty one is done at once, and LFs are no cells.
ReadCells(y, x, n) ==
    /\ HasLayout
    /\ IF InGrid(held.layout, y, x, n) /\ n > 0
       THEN Begin([kind |-> "read", pc |-> "cells", y |-> y, x |-> x, n |-> n,
                   bytes |-> <<>>])
       ELSE Return([of |-> "read", y |-> y, x |-> x, bytes |-> <<>>,
                    error |-> IF InGrid(held.layout, y, x, n) THEN "none"
                              ELSE "OutOfRange"])
    /\ UNCHANGED <<storageVars, held, cells>>

CellsRead ==
    /\ Doing("read") /\ op.pc = "cells"
    /\ \E out \in ReadOutcomes(held.source, CellOffset(held.layout, op.x, op.y), op.n) :
           IF out.error # "none" THEN CellsReturn("read", "StorageFailed", <<>>)
           ELSE IF LF \in Range(out.bytes)
           THEN CellsReturn("read", "MalformedData", <<>>)
           ELSE /\ op' = [op EXCEPT !.pc = "terminator", !.bytes = out.bytes]
                /\ UNCHANGED answer
    /\ UNCHANGED <<storageVars, held, cells>>

WriteCells(y, x, data) ==
    /\ HasLayout
    /\ IF InGrid(held.layout, y, x, Len(data)) /\ data # <<>> /\ LF \notin Range(data)
       THEN Begin([kind |-> "write", pc |-> "terminator", y |-> y, x |-> x,
                   bytes |-> data])
       ELSE Return([of |-> "write", y |-> y, x |-> x, bytes |-> <<>>,
                    error |-> IF ~ InGrid(held.layout, y, x, Len(data)) THEN "OutOfRange"
                              ELSE IF data = <<>> THEN "none" ELSE "MalformedData"])
    /\ UNCHANGED <<storageVars, held, cells>>

\* The touched row must end in LF; that ends a read, and lets a write begin.
TerminatorRead ==
    /\ op.kind \in {"read", "write"} /\ op.pc = "terminator"
    /\ \E out \in ReadOutcomes(held.source, TerminatorOffset(held.layout, op.y), 1) :
           IF out.error # "none" THEN CellsReturn(op.kind, "StorageFailed", <<>>)
           ELSE IF out.bytes # <<LF>> THEN CellsReturn(op.kind, "MalformedData", <<>>)
           ELSE IF op.kind = "read" THEN CellsReturn("read", "none", op.bytes)
           ELSE op' = [op EXCEPT !.pc = "cells"] /\ UNCHANGED answer
    /\ UNCHANGED <<storageVars, held, cells>>

\* What is known of the cells of a row once values stand from column x on.
Known(y, x, values) ==
    [c \in DOMAIN cells |->
        IF c[2] = y /\ c[1] - x + 1 \in DOMAIN values THEN values[c[1] - x + 1]
        ELSE cells[c]]

CellsWritten ==
    /\ Doing("write") /\ op.pc = "cells"
    /\ \E out \in WriteOutcomes(held.source, CellOffset(held.layout, op.x, op.y), op.bytes) :
           /\ disk' = out.disk
           /\ IF out.error = "none"
              THEN /\ CellsReturn("write", "none", <<>>)
                   /\ cells' = Known(op.y, op.x, op.bytes)
              ELSE /\ CellsReturn("write", "StorageFailed", <<>>)
                   /\ cells' = Known(op.y, op.x, [i \in DOMAIN op.bytes |-> Unclear])
    /\ UNCHANGED <<creation, reply, held>>

-----------------------------------------------------------------------------
\* The process ends between any two calls to storage, or within a creation,
\* and a new one begins.  Its end within a write leaves what a failed write
\* may leave.
Restart ==
    /\ op' = NoOp /\ answer' = NoAnswer
    /\ held' = NotHeld /\ cells' = <<>>
    /\ IF creation = Idle THEN UNCHANGED storageVars ELSE CreateInterrupted

Callers ==
    \/ \E s \in Sources \cup {Unknown} :
           \/ Open(s)
           \/ \E extent \in Extents, p \in Origins :
                  CreateBlank(s, extent, p) \/ CreateBlankRefused(s, extent, p)
    \/ \E y \in 0 .. held.layout.height, x \in 0 .. held.layout.width + 1 :
           \/ \E n \in 0 .. held.layout.width + 1 : ReadCells(y, x, n)
           \/ \E data \in Fragments : WriteCells(y, x, data)
    \/ Restart

\* What goes on by itself in an operation.
Steps ==
    \/ OpenSizes \/ OpenReads \/ OpenRunsOut
    \/ FileCreated \/ MetadataWritten \/ RowEnded \/ BlankReopened
    \/ CellsRead \/ TerminatorRead \/ CellsWritten

Next == Callers \/ Steps

Spec == Init /\ [][Next]_vars /\ WF_vars(Steps)

-----------------------------------------------------------------------------
(***************************************************************************)
(* Properties.                                                             *)
(***************************************************************************)
\* The operations, their answers and the layout held; a create() is only ever
\* in progress for create_blank_layer_source.
TypeOK ==
    /\ StorageTypeOK
    /\ op.kind \in {"none", "open", "create", "read", "write"}
    /\ answer.of \in {"none", "open", "create", "read", "write"}
    /\ answer.error \in FormatErrors
                            \cup {"none", "StorageFailed", "OutOfRange", "MalformedData"}
    /\ creation # Idle => Creating("file")
    /\ held # NotHeld =>
            /\ IsFile(held.source)
            /\ DOMAIN cells = (0 .. held.layout.width - 1) \X (0 .. held.layout.height - 1)
            /\ Range(cells) \subseteq Bytes \cup {Unclear}

Text(s) == disk[s].bytes

\* LAYER_SOURCE_FORMAT.md: an open that storage lets finish returns what the
\* text means, however its bounded reads cut lines, keys, payloads and the
\* terminator apart.
OpenMatchesMeaning ==
    answer.of = "open" /\ answer.error # "StorageFailed" =>
        answer.result = Meaning(Text(answer.source))

\* A read that succeeds returns every cell as the last write that succeeded,
\* or the blank creation, left it: through failed and torn writes of other
\* cells, and in whatever pieces the cells were written.
ReadsWhatWasWritten ==
    answer.of = "read" /\ answer.error = "none" =>
        \A i \in DOMAIN answer.bytes :
            cells[<<answer.x + i - 1, answer.y>>] \in {Unclear, answer.bytes[i]}

\* The places of a text that hold no cell of its layout.
Structural(layout) ==
    {i \in 1 .. layout.offset + layout.height * (layout.width + 1) :
        i <= layout.offset \/ (i - layout.offset) % (layout.width + 1) = 0}

\* Outside a creation of its own, a source keeps its size, its metadata and
\* what ends every row, whatever is written and however a write fails, and a
\* file that is no layer source is left alone; a creation never takes the
\* place of a source.
StructureSurvives ==
    [][ \A s \in Sources :
            disk'[s] # disk[s] /\ disk[s].kind # "absent"
            /\ ~ (Doing("create") /\ op.source = s) =>
                LET layout == Meaning(Text(s)) IN
                /\ disk'[s].kind = "file" /\ layout.error = "none"
                /\ Len(disk'[s].bytes) = Len(disk[s].bytes)
                /\ \A i \in Structural(layout) : disk'[s].bytes[i] = disk[s].bytes[i] ]_vars

\* A blank source as a whole.
BlankText(extent, p) ==
    Metadata(extent[1], extent[2], p)
        \o [i \in 1 .. extent[2] * (extent[1] + 1) |->
                IF i % (extent[1] + 1) = 0 THEN LF ELSE Space]

\* A creation that succeeds has left the whole text of a blank source, and
\* has opened it with the extent and position it was asked for.
BlankIsWhole ==
    answer.of = "open" /\ answer.error = "none" /\ answer.asked # <<>> =>
        LET extent == answer.asked[1]
            p == answer.asked[2]
        IN  /\ Text(answer.source) = BlankText(extent, p)
            /\ answer.result = BlankLayout(extent, p)

\* Every operation returns, however storage fails.
OperationsReturn == op # NoOp ~> op = NoOp

\* layer_source.hpp 57: a parsed value that exceeds the supported widths is
\* reported as Overflow.
WideValuesOverflow ==
    answer.of = "open" /\ answer.error # "StorageFailed" =>
        (Meaning(Text(answer.source)).error = "Overflow" => answer.error = "Overflow")
=============================================================================
