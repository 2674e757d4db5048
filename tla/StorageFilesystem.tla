------------------------- MODULE StorageFilesystem -------------------------
(***************************************************************************)
(* The host-filesystem storage backend (platform/storage/                  *)
(* storage_filesystem.cpp): sources are files of bytes under a root.       *)
(*                                                                         *)
(* size(), read() and write() are given by the outcomes they may have in a *)
(* state: every system call they make may fail, and a failing write may    *)
(* have replaced any prefix of its range.  create() is a run of steps, one *)
(* per block it fills, because the process may end between two of them.    *)
(* There is one caller; its call in progress is `creation'.                *)
(***************************************************************************)
EXTENDS Integers, Sequences, SequencesExt

CONSTANTS
    Sources,    \* the SourceIds of the source table
    Bytes,      \* what a byte of a file may hold
    SizeMax,    \* the largest storage::Size and storage::Offset
    BlockBytes  \* k_fill_block_bytes

ASSUME StorageAssumption ==
    /\ SizeMax \in Nat \ {0}
    /\ BlockBytes \in Nat \ {0}

VARIABLES
    disk,      \* what is at each source's path
    creation,  \* the create() in progress
    reply      \* the Error of the last create()

storageVars == <<disk, creation, reply>>

Absent == [kind |-> "absent", bytes |-> <<>>]
File(bytes) == [kind |-> "file", bytes |-> bytes]

Entry == [kind : {"absent", "directory", "file"}, bytes : Seq(Bytes)]

Idle == [source |-> "none", size |-> 0, value |-> "none", remaining |-> 0]

StorageTypeOK ==
    /\ disk \in [Sources -> Entry]
    /\ creation \in {Idle} \cup [source : Sources, size : 0 .. SizeMax,
                                 value : Bytes, remaining : 0 .. SizeMax]
    /\ reply \in {"none", "invalid_source", "already_exists", "read_failed",
                  "write_failed"}

IsFile(s) == s \in Sources /\ disk[s].kind = "file"

-----------------------------------------------------------------------------
(***************************************************************************)
(* size(), read(), write(): their outcomes, one of which a call takes.     *)
(***************************************************************************)
\* source_file_size: what stops every call before it looks at its range.
SizeErrors(s) ==
    IF s \notin Sources THEN {"invalid_source"}
    ELSE {"read_failed"} \cup
         (IF IsFile(s) /\ Len(disk[s].bytes) > SizeMax THEN {"out_of_range"} ELSE {})

\* The file is there and its size fits the logical type.
Sized(s) == IsFile(s) /\ Len(disk[s].bytes) <= SizeMax

SizeOutcomes(s) ==
    [error : SizeErrors(s), size : {0}] \cup
    (IF Sized(s) THEN {[error |-> "none", size |-> Len(disk[s].bytes)]} ELSE {})

\* The subtraction-style test of a range, which cannot overflow.
InRange(s, offset, n) ==
    offset <= Len(disk[s].bytes) /\ n <= Len(disk[s].bytes) - offset

Read(s, offset, n) == SubSeq(disk[s].bytes, offset + 1, offset + n)

ReadOutcomes(s, offset, n) ==
    [error : SizeErrors(s), bytes : {<<>>}] \cup
    (IF ~ Sized(s) THEN {}
     ELSE IF InRange(s, offset, n)
          THEN {[error |-> "none", bytes |-> Read(s, offset, n)]}
          ELSE {[error |-> "out_of_range", bytes |-> <<>>]})

\* bytes with its range from offset replaced.
Patched(bytes, offset, data) ==
    SubSeq(bytes, 1, offset) \o data
        \o SubSeq(bytes, offset + Len(data) + 1, Len(bytes))

\* The prefixes of data a failed write may leave behind.
Torn(data) == {SubSeq(data, 1, k) : k \in 0 .. Len(data)}

\* write() that does not look at what close() says.
WriteOutcomesUnflushed(s, offset, data) ==
    [error : SizeErrors(s), disk : {disk}] \cup
    (IF ~ Sized(s) THEN {}
     ELSE IF ~ InRange(s, offset, Len(data))
          THEN {[error |-> "out_of_range", disk |-> disk]}
     ELSE {[error |-> "none", disk |-> [disk EXCEPT ![s].bytes = Patched(@, offset, part)]] :
              part \in Torn(data)})

WriteOutcomes(s, offset, data) ==
    [error : SizeErrors(s), disk : {disk}] \cup
    (IF ~ Sized(s) THEN {}
     ELSE IF ~ InRange(s, offset, Len(data))
          THEN {[error |-> "out_of_range", disk |-> disk]}
     ELSE {[error |-> "none",
            disk |-> [disk EXCEPT ![s].bytes = Patched(@, offset, data)]]}
          \cup (IF data = <<>> THEN {}
                ELSE {[error |-> "write_failed",
                       disk |-> [disk EXCEPT ![s].bytes = Patched(@, offset, part)]] :
                         part \in Torn(data)}))

-----------------------------------------------------------------------------
(***************************************************************************)
(* create(): never over something that is there, then block by block.      *)
(***************************************************************************)
Refused(error) ==
    /\ reply' = error
    /\ UNCHANGED <<disk, creation>>

\* The path is free, its parents are there or made, and the file is opened.
CreateBegins(s, size, value) ==
    /\ creation = Idle
    /\ s \in Sources /\ disk[s] = Absent
    /\ disk' = [disk EXCEPT ![s] = File(<<>>)]
    /\ creation' = [source |-> s, size |-> size, value |-> value, remaining |-> size]
    /\ UNCHANGED reply

\* Everything that ends create() before it has a file of its own.
CreateRefused(s) ==
    /\ creation = Idle
    /\ \/ s \notin Sources /\ Refused("invalid_source")
       \/ s \in Sources /\ Refused("read_failed")
       \/ s \in Sources /\ disk[s].kind = "file" /\ Refused("already_exists")
       \/ s \in Sources /\ disk[s].kind # "file" /\ Refused("write_failed")

\* Every block in full, the last one too.
FillWholeBlock ==
    /\ creation # Idle /\ creation.remaining # 0
    /\ disk' = [disk EXCEPT ![creation.source].bytes =
                    @ \o [k \in 1 .. BlockBytes |-> creation.value]]
    /\ creation' = [creation EXCEPT !.remaining = @ - BlockBytes]
    /\ UNCHANGED reply

\* The bytes of the next block.
BlockLength ==
    IF creation.remaining < BlockBytes THEN creation.remaining ELSE BlockBytes

\* The next block of the fill byte, or what is left of it.
FillBlock ==
    /\ creation # Idle /\ creation.remaining # 0
    /\ disk' = [disk EXCEPT ![creation.source].bytes =
                    @ \o [k \in 1 .. BlockLength |-> creation.value]]
    /\ creation' = [creation EXCEPT !.remaining = @ - BlockLength]
    /\ UNCHANGED reply

\* A block, the close or the last look at the size fails.  The partial file
\* is removed as a best effort; what is left of it otherwise is some prefix.
CreateFails ==
    /\ creation # Idle
    /\ \E left \in {Absent} \cup
                   {File([k \in 1 .. n |-> creation.value]) :
                        n \in 0 .. Len(disk[creation.source].bytes) + BlockLength} :
           disk' = [disk EXCEPT ![creation.source] = left]
    /\ creation' = Idle
    /\ reply' = "write_failed"

\* Filled, closed, and of the promised size.
CreateSucceeds ==
    /\ creation # Idle /\ creation.remaining = 0
    /\ Len(disk[creation.source].bytes) = creation.size
    /\ creation' = Idle
    /\ reply' = "none"
    /\ UNCHANGED disk

CreateSteps == FillBlock \/ CreateFails \/ CreateSucceeds

\* The process ends in the middle: the stream's buffer is lost with it.
CreateInterrupted ==
    /\ creation # Idle
    /\ \E n \in 0 .. Len(disk[creation.source].bytes) :
           disk' = [disk EXCEPT ![creation.source].bytes = SubSeq(@, 1, n)]
    /\ creation' = Idle
    /\ UNCHANGED reply
=============================================================================
