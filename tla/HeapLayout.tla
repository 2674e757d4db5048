----------------------------- MODULE HeapLayout -----------------------------
(***************************************************************************)
(* The storage of a ManagedHeap (include/managed_heap/managed_heap.hpp)    *)
(* and the pure operators its member functions are made of: the stack of   *)
(* descriptor tables that grows up from byte 0, the objects that grow down *)
(* from Capacity, and the chain root -> next that visits the objects from  *)
(* the highest address to the lowest.                                      *)
(*                                                                         *)
(* A heap `hp' is a record: tables (physical order, bottom up), root, the  *)
(* two counters the code keeps beside them, and the payload bytes.  Bytes  *)
(* no live object owns are Junk.  A descriptor table is named by its id,   *)
(* never by its place, because reclamation moves tables.  A table's `used' *)
(* count is the number of its slots that are not free.                     *)
(***************************************************************************)
EXTENDS Integers, Sequences, FiniteSets

CONSTANTS
    Capacity,             \* bytes of caller-supplied storage
    TableBytes,           \* sizeof(descriptor_table)
    DescriptorsPerTable,
    HeapAlignment,
    Values,               \* what a payload byte of a live object may hold
    Junk                  \* what any other byte holds

ASSUME LayoutAssumption ==
    /\ DescriptorsPerTable \in Nat \ {0} /\ HeapAlignment \in Nat \ {0}
    /\ TableBytes \in Nat \ {0} /\ TableBytes % HeapAlignment = 0
    /\ Capacity \in Nat /\ Capacity % HeapAlignment = 0 /\ TableBytes <= Capacity
ASSUME JunkAssumption == Junk \notin Values

Null == -1                                  \* null_handle
MaxTables == Capacity \div TableBytes       \* max_physical_tables_
Handles == 0 .. MaxTables * DescriptorsPerTable - 1
Entries == 0 .. DescriptorsPerTable - 1
Bytes == 0 .. Capacity - 1

Slot == [state  : {"free", "live", "destroying"},
         refs   : Nat,
         offset : Bytes,
         size   : 0 .. Capacity,
         next   : Handles \cup {Null}]

FreeSlot == [state |-> "free", refs |-> 0, offset |-> 0, size |-> 0, next |-> Null]

Table == [id : Nat, slot : [Entries -> Slot]]

EmptyTable(id) == [id |-> id, slot |-> [e \in Entries |-> FreeSlot]]

Heap == [tables : Seq(Table), root : Handles \cup {Null}, reserved : Nat,
         live : Nat, mem : [Bytes -> Values \cup {Junk}]]

\* A heap as its constructor leaves it: one resident, empty table.
FreshHeap == [tables |-> <<EmptyTable(0)>>, root |-> Null, reserved |-> 0,
              live |-> 0, mem |-> [b \in Bytes |-> Junk]]

-----------------------------------------------------------------------------
(***************************************************************************)
(* Handles: a table id and an entry.                                       *)
(***************************************************************************)
TableId(h) == h \div DescriptorsPerTable
Entry(h) == h % DescriptorsPerTable
HandleOf(id, e) == id * DescriptorsPerTable + e

\* find_table_index_by_id_.
TableIndex(ts, id) ==
    CHOOSE i \in DOMAIN ts : ts[i].id = id /\ \A j \in 1 .. i - 1 : ts[j].id # id

IsUsed(hp, h) ==
    \E i \in DOMAIN hp.tables :
        /\ hp.tables[i].id = TableId(h)
        /\ hp.tables[i].slot[Entry(h)].state # "free"

Used(hp) == {h \in Handles : IsUsed(hp, h)}

SlotOf(hp, h) == hp.tables[TableIndex(hp.tables, TableId(h))].slot[Entry(h)]

PutSlot(ts, h, s) == [ts EXCEPT ![TableIndex(ts, TableId(h))].slot[Entry(h)] = s]
PutNext(ts, h, n) == [ts EXCEPT ![TableIndex(ts, TableId(h))].slot[Entry(h)].next = n]
PutBase(ts, h, b) == [ts EXCEPT ![TableIndex(ts, TableId(h))].slot[Entry(h)].offset = b]

WithSlot(hp, h, s) == [hp EXCEPT !.tables = PutSlot(@, h, s)]
WithNext(hp, h, n) == [hp EXCEPT !.tables = PutNext(@, h, n)]
WithBase(hp, h, b) == [hp EXCEPT !.tables = PutBase(@, h, b)]

\* reserved_size_for_: the size rounded up to the heap's alignment.
AlignUp(n) ==
    ((n + HeapAlignment - 1) \div HeapAlignment) * HeapAlignment

Base(hp, h) == SlotOf(hp, h).offset
Size(hp, h) == SlotOf(hp, h).size
ReservedSize(hp, h) == AlignUp(Size(hp, h))
TopOf(hp, h) == Base(hp, h) + ReservedSize(hp, h)
MetadataTop(hp) == Len(hp.tables) * TableBytes

-----------------------------------------------------------------------------
(***************************************************************************)
(* The spatial chain and the free extents between its objects.  Extent i   *)
(* lies below the i-th object of the chain and above the one after it:     *)
(* extent 0 is the top span, extent Len(c) the bottom span, and in a heap  *)
(* without objects the two are the same extent.                            *)
(***************************************************************************)
Chain(hp) ==
    LET N == MaxTables * DescriptorsPerTable
        after == [h \in Handles \cup {Null} |->
                    IF h # Null /\ IsUsed(hp, h) THEN SlotOf(hp, h).next ELSE Null]
        at[n \in 0 .. N] == IF n = 0 THEN hp.root ELSE after[at[n - 1]]
        length == Cardinality({n \in 0 .. N - 1 : at[n] # Null})
    IN  [n \in 1 .. length |-> at[n - 1]]

High(hp, c, i) == IF i = 0 THEN Capacity ELSE Base(hp, c[i])
Low(hp, c, i) == IF i = Len(c) THEN MetadataTop(hp) ELSE TopOf(hp, c[i + 1])
Span(hp, c, i) == High(hp, c, i) - Low(hp, c, i)

BottomFreeSpan(hp) == LET c == Chain(hp) IN Span(hp, c, Len(c))

\* What a walk that adds up a number per object comes to.
Total(s) ==
    LET sum[i \in 0 .. Len(s)] == IF i = 0 THEN 0 ELSE sum[i - 1] + s[i]
    IN  sum[Len(s)]

\* Top span, interior holes and bottom span together.
FreeExtents(hp, c) == Total([i \in 1 .. Len(c) + 1 |-> Span(hp, c, i - 1)])

\* free_space(): from the counters alone.
FreeSpace(hp) == Capacity - MetadataTop(hp) - hp.reserved

-----------------------------------------------------------------------------
(***************************************************************************)
(* Descriptor slots.                                                       *)
(***************************************************************************)
Least(S) == CHOOSE n \in S : \A k \in S : n <= k

FreeEntries(table) == {e \in Entries : table.slot[e].state = "free"}

RoomyTables(hp) == {i \in DOMAIN hp.tables : FreeEntries(hp.tables[i]) # {}}

\* push_descriptor_table_: the bottom span must hold another table.
CanPush(hp) ==
    Len(hp.tables) < MaxTables /\ BottomFreeSpan(hp) >= TableBytes

\* allocate_table_id_: the lowest id no table carries.
FreshTableId(hp) ==
    Least({n \in 0 .. MaxTables : \A i \in DOMAIN hp.tables : hp.tables[i].id # n})

\* The table is built over whatever the bytes above the metadata held.
Pushed(hp) ==
    [hp EXCEPT !.tables = Append(@, EmptyTable(FreshTableId(hp))),
               !.mem = [b \in Bytes |-> IF b \in MetadataTop(hp) ..
                                                 MetadataTop(hp) + TableBytes - 1
                                        THEN Junk ELSE @[b]]]

CanReserveSlot(hp) == RoomyTables(hp) # {} \/ CanPush(hp)

\* The heap in which reserve_descriptor_slot_ finds its slot.
WithRoom(hp) == IF RoomyTables(hp) # {} THEN hp ELSE Pushed(hp)

\* The slot it takes: the first free entry of the lowest table with one.
LowestFreeSlot(hp) ==
    LET table == hp.tables[Least(RoomyTables(hp))]
    IN  HandleOf(table.id, Least(FreeEntries(table)))

\* reclaim_empty_table_: the last physical table fills the hole; one always
\* stays.
Reclaimed(hp, i) ==
    IF Len(hp.tables) <= 1 THEN hp
    ELSE [hp EXCEPT !.tables =
            SubSeq([@ EXCEPT ![i] = hp.tables[Len(hp.tables)]], 1, Len(@) - 1)]

\* The slot becomes free and its table stays.
SlotReleasedOnly(hp, h) == WithSlot(hp, h, FreeSlot)

\* The slot becomes free, and a table left empty is reclaimed.
SlotReleased(hp, h) ==
    LET freed == WithSlot(hp, h, FreeSlot)
        i == TableIndex(hp.tables, TableId(h))
    IN  IF FreeEntries(freed.tables[i]) = Entries THEN Reclaimed(freed, i) ELSE freed

-----------------------------------------------------------------------------
(***************************************************************************)
(* Placement.                                                              *)
(***************************************************************************)
\* A run of n bytes set to v.
Filled(mem, at, n, v) ==
    [b \in Bytes |-> IF b \in at .. at + n - 1 THEN v ELSE mem[b]]

\* memmove; no code reads the bytes left behind again.
Carried(mem, from, to, n) ==
    [b \in Bytes |-> IF b \in to .. to + n - 1 THEN mem[from + b - to]
                     ELSE IF b \in from .. from + n - 1 THEN Junk ELSE mem[b]]

Fits(hp, c, r) == {i \in 0 .. Len(c) : Span(hp, c, i) >= r}

\* find_best_fit_: the smallest extent that fits, the highest among equals.
BestFit(hp, c, r) ==
    CHOOSE i \in Fits(hp, c, r) :
        \A j \in Fits(hp, c, r) : \/ Span(hp, c, i) < Span(hp, c, j)
                                  \/ Span(hp, c, i) = Span(hp, c, j) /\ i <= j

\* placement_offset_: against the object above in the bottom span and in an
\* empty heap, against the object below everywhere else.
PlacementOffset(hp, c, i, r) ==
    IF i = Len(c) THEN High(hp, c, i) - r ELSE Low(hp, c, i)

\* splice_descriptor_: h enters the chain in extent i.
Spliced(hp, c, i, h) ==
    LET below == WithNext(hp, h, IF i = Len(c) THEN Null ELSE c[i + 1])
    IN  IF i = 0 THEN [below EXCEPT !.root = h] ELSE WithNext(below, c[i], h)

\* unlink_descriptor_.
Unlinked(hp, h, next) ==
    IF hp.root = h THEN [hp EXCEPT !.root = next]
    ELSE WithNext(hp, CHOOSE u \in Used(hp) : SlotOf(hp, u).next = h, next)

-----------------------------------------------------------------------------
(***************************************************************************)
(* Compaction.                                                             *)
(***************************************************************************)
\* find_evacuation_destination_: the highest of the extents above the tail
\* that fit it, as a set of at most one; none when the budget is too small.
EvacuationExtent(hp, c, budget) ==
    {i \in 0 .. Len(c) - 1 :
        /\ Size(hp, c[Len(c)]) <= budget
        /\ Span(hp, c, i) >= ReservedSize(hp, c[Len(c)])
        /\ \A j \in 0 .. i - 1 : Span(hp, c, j) < ReservedSize(hp, c[Len(c)])}

\* The tail relinked below the extent's old lower neighbour, itself included.
RelinkedBelowItself(hp, c, i) ==
    LET n == Len(c)
        cut == IF n = 1 THEN [hp EXCEPT !.root = Null] ELSE WithNext(hp, c[n - 1], Null)
    IN  IF i = 0 THEN [WithNext(cut, c[n], hp.root) EXCEPT !.root = c[n]]
        ELSE WithNext(WithNext(cut, c[n], c[i + 1]), c[i], c[n])

\* The tail leaves the end of the chain and enters it again in extent i.
Relinked(hp, c, i) ==
    LET n == Len(c)
        cut == IF n = 1 THEN [hp EXCEPT !.root = Null] ELSE WithNext(hp, c[n - 1], Null)
        below == WithNext(cut, c[n], IF i + 1 = n THEN Null ELSE c[i + 1])
    IN  IF i = 0 THEN [below EXCEPT !.root = c[n]] ELSE WithNext(below, c[i], c[n])

\* evacuate_once_: the tail moves to the high edge of extent i.
Evacuated(hp, c, i) ==
    LET tail == c[Len(c)]
        to == High(hp, c, i) - ReservedSize(hp, tail)
    IN  [Relinked(WithBase(hp, tail, to), c, i) EXCEPT
            !.mem = Carried(@, Base(hp, tail), to, Size(hp, tail))]

\* movement_cost_from_ with the first object only.
FirstObjectCost(hp, c, i) == Size(hp, c[i])

\* movement_cost_from_: the payload bytes of the chain from its i-th object.
MovementCost(hp, c, i) ==
    Total([k \in DOMAIN c |-> IF k < i THEN 0 ELSE Size(hp, c[k])])

\* Where shift_once_ starts: the highest hole, the top gap counted as one,
\* below which everything can be moved within the budget.
ShiftExtent(hp, c, budget) ==
    LET affordable == {i \in 0 .. Len(c) - 1 :
            Span(hp, c, i) # 0 /\ MovementCost(hp, c, i + 1) <= budget}
    IN  {i \in affordable : \A j \in affordable : i <= j}

\* One object of hp raised by delta, in a heap where others already are.
RaisedOne(raised, hp, h, delta) ==
    [raised EXCEPT
        !.tables = PutBase(@, h, Base(hp, h) + delta),
        !.mem = Carried(@, Base(hp, h), Base(hp, h) + delta, Size(hp, h))]

\* The objects from the k-th of the chain on, lowest first.
RaisedFromTheTail(hp, c, k, delta) ==
    LET raised[i \in k .. Len(c) + 1] ==
            IF i = Len(c) + 1 THEN hp ELSE RaisedOne(raised[i + 1], hp, c[i], delta)
    IN  raised[k]

\* The objects from the k-th of the chain on, highest first.
Raised(hp, c, k, delta) ==
    LET raised[i \in k - 1 .. Len(c)] ==
            IF i = k - 1 THEN hp ELSE RaisedOne(raised[i - 1], hp, c[i], delta)
    IN  raised[Len(c)]

\* shift_once_: everything below extent i closes it.
Shifted(hp, c, i) == Raised(hp, c, i + 1, Span(hp, c, i))
=============================================================================
