-------------------------- MODULE HeapLayoutProofs --------------------------
(***************************************************************************)
(* What the operations of the managed heap do to its layout, for every     *)
(* capacity, size of a table, alignment and set of values.                 *)
(*                                                                         *)
(* HeapOK is what they keep: the tables are sound, the chain lists every   *)
(* descriptor in use from high to low, the objects lie apart and above the *)
(* tables, and the counters agree.  View forgets the tables: each handle   *)
(* has a slot, and what is said of slots and links is said of the view.    *)
(* Each function of HeapLayout is then described by what it does to the    *)
(* view and the chain, and its result is a heap again.                     *)
(*                                                                         *)
(* The library's induction theorems take an operator and cannot be used    *)
(* here.  Where a fact needs induction, the set of the numbers for which   *)
(* it fails has a least member (LeastNatural), or every number up to a     *)
(* bound is in the set of those for which it holds (UpTo).                 *)
(***************************************************************************)
EXTENDS HeapLayout, FiniteSetTheorems, WellFoundedInduction, NaturalsInduction, TLAPS

-----------------------------------------------------------------------------
(***************************************************************************)
(* The invariant of a heap.                                                *)
(***************************************************************************)
\* The ids a table may have.
Ids == 0 .. MaxTables - 1

\* The table of h exists.
Present(ts, h) == \E i \in DOMAIN ts : ts[i].id = TableId(h)

\* The slot of each handle, wherever its table is: what the tables mean.
View(hp) == [h \in Handles |-> IF Present(hp.tables, h) THEN SlotOf(hp, h) ELSE FreeSlot]

\* The handles in use.
InUse(w) == {h \in Handles : w[h].state # "free"}

\* The tables: their ids differ, and a slot that is not in use is blank.
TablesSound(ts) ==
    /\ ts \in Seq(Table)
    /\ Len(ts) \in 1 .. MaxTables
    /\ \A i \in DOMAIN ts : ts[i].id \in Ids
    /\ \A i, j \in DOMAIN ts : ts[i].id = ts[j].id => i = j
    /\ \A i \in DOMAIN ts : \A e \in Entries :
           ts[i].slot[e].state = "free" => ts[i].slot[e] = FreeSlot

\* reclaim_empty_table_: no table is left without a used slot, except the only one.
NoneEmpty(ts) == \A i \in DOMAIN ts : FreeEntries(ts[i]) = Entries => Len(ts) = 1

\* The sequence c lists every handle in use once, by the links from the root.
IsChain(w, root, c) ==
    /\ c \in Seq(Handles)
    /\ \A i, j \in DOMAIN c : c[i] = c[j] => i = j
    /\ \A i \in DOMAIN c : w[c[i]].state # "free"
    /\ \A h \in Handles : w[h].state # "free" => \E i \in DOMAIN c : c[i] = h
    /\ root = IF Len(c) = 0 THEN Null ELSE c[1]
    /\ \A i \in DOMAIN c : w[c[i]].next = IF i = Len(c) THEN Null ELSE c[i + 1]

\* The first byte past what an object reserves.
Past(s) == s.offset + AlignUp(s.size)

\* The chain goes from high to low, above the metadata.
LaidOut(w, top, c) ==
    /\ \A i \in DOMAIN c : /\ w[c[i]].offset % HeapAlignment = 0
                           /\ top <= w[c[i]].offset
    /\ \A i \in DOMAIN c : Past(w[c[i]]) <= IF i = 1 THEN Capacity ELSE w[c[i - 1]].offset

\* An object has a size, and is live exactly as long as it has references.
SlotsSound(w) ==
    \A h \in Handles : w[h].state # "free" =>
        /\ w[h].size >= 1
        /\ w[h].refs # 0 <=> w[h].state = "live"

\* What the objects of a chain add to reserved: nothing, as long as the constructor
\* runs (C).
Weights(w, c, C) == [i \in DOMAIN c |-> IF c[i] \in C THEN 0 ELSE AlignUp(w[c[i]].size)]

\* The invariant of a heap whose objects C are under construction: they are in the
\* chain already, and counted only when the constructor returns.
HeapOK(hp, C) ==
    /\ hp \in Heap
    /\ TablesSound(hp.tables)
    /\ NoneEmpty(hp.tables)
    /\ IsChain(View(hp), hp.root, Chain(hp))
    /\ LaidOut(View(hp), MetadataTop(hp), Chain(hp))
    /\ SlotsSound(View(hp))
    /\ hp.reserved = Total(Weights(View(hp), Chain(hp), C))
    /\ hp.live = Cardinality(InUse(View(hp)) \ C)

-----------------------------------------------------------------------------
(***************************************************************************)
(* Numbers: induction, multiples of the alignment, handles.                *)
(***************************************************************************)
\* A set of natural numbers that is not empty has a least member.
LEMMA LeastNatural ==
    ASSUME NEW T \in SUBSET Nat, T # {}
    PROVE  \E n \in T : \A m \in T : n <= m
<1> DEFINE R == OpToRel(<, Nat)
<1>1. PICK n \in T : \A m \in T : ~ (<<m, n>> \in R)
    <2>1. IsWellFoundedOn(R, Nat)
        BY NatLessThanWellFounded
    <2>2. QED
        BY <2>1, WFMin
<1>2. ASSUME NEW m \in T PROVE n <= m
    <2>1. ~ (m < n)
        BY <1>1 DEF OpToRel
    <2>2. QED
        BY <2>1
<1>3. QED
    BY <1>2

\* Induction up to a bound.
LEMMA UpTo ==
    ASSUME NEW n \in Nat, NEW T, 0 \in T, \A k \in 1 .. n : k - 1 \in T => k \in T
    PROVE  0 .. n \subseteq T
<1> SUFFICES ASSUME (0 .. n) \ T # {} PROVE FALSE
    OBVIOUS
<1> DEFINE Left == (0 .. n) \ T
<1>1. PICK k \in Left : \A j \in Left : k <= j
    <2>1. Left \in SUBSET Nat /\ Left # {}
        OBVIOUS
    <2> HIDE DEF Left
    <2>2. QED
        BY <2>1, LeastNatural
<1>2. k \in 1 .. n /\ k - 1 \in 0 .. n /\ ~ (k <= k - 1)
    BY <1>1
<1>3. QED
    BY <1>1, <1>2

\* The CHOOSE in Least has a witness.
LEMMA LeastIs ==
    ASSUME NEW S \in SUBSET Nat, S # {}
    PROVE  Least(S) \in S /\ \A k \in S : Least(S) <= k
BY LeastNatural DEF Least

\* Quotient and remainder.
LEMMA DivFacts ==
    ASSUME NEW n \in Int, NEW d \in Nat \ {0}
    PROVE  /\ n \div d \in Int
           /\ n % d \in 0 .. d - 1
           /\ n = d * (n \div d) + (n % d)
<1>1. n \div d \in Int /\ n % d \in 0 .. d - 1
    OBVIOUS
<1>2. n - (n % d) = d * (n \div d)
    OBVIOUS
<1> DEFINE q == n \div d
           r == n % d
<1>3. q \in Int /\ r \in Int /\ d \in Int /\ n - r = d * q
    BY <1>1, <1>2
<1> HIDE DEF q, r
<1>4. n = d * q + r
    BY <1>3
<1>5. QED
    BY <1>1, <1>4 DEF q, r

\* Products keep an order, and grow by the factor.
LEMMA TimesMonotone ==
    ASSUME NEW m \in Int, NEW n \in Int, NEW d \in Nat, m <= n
    PROVE  m * d \in Int /\ n * d \in Int /\ m * d <= n * d /\ d * m = m * d /\ d * n = n * d
           /\ (m + 1) * d = m * d + d /\ (m - 1) * d = m * d - d
OBVIOUS

\* Sums and differences of multiples are multiples.
LEMMA MultipleSums ==
    ASSUME NEW m \in Int, NEW n \in Int, NEW d \in Nat \ {0}, m % d = 0, n % d = 0
    PROVE  (m + n) % d = 0 /\ (m - n) % d = 0
<1>1. m = d * (m \div d) /\ n = d * (n \div d) /\ m \div d \in Int /\ n \div d \in Int
    BY DivFacts
<1>2. ASSUME NEW a \in Int, NEW b \in Int
      PROVE  (d * a + d * b) % d = 0 /\ (d * a - d * b) % d = 0
    <2>1. d * a + d * b = d * (a + b) /\ d * a - d * b = d * (a - b)
        OBVIOUS
    <2>2. \A k \in Int : (d * k) % d = 0
        OBVIOUS
    <2>3. QED
        BY <2>1, <2>2
<1>3. QED
    BY <1>1, <1>2

\* So is what a multiple is multiplied by.
LEMMA MultipleTimes ==
    ASSUME NEW m \in Int, NEW n \in Int, NEW d \in Nat \ {0}, n % d = 0
    PROVE  (m * n) % d = 0
<1>1. n = d * (n \div d) /\ n \div d \in Int
    BY DivFacts
<1>2. ASSUME NEW a \in Int PROVE (m * (d * a)) % d = 0
    <2>1. m * (d * a) = d * (m * a)
        OBVIOUS
    <2>2. \A k \in Int : (d * k) % d = 0
        OBVIOUS
    <2>3. QED
        BY <2>1, <2>2
<1>3. QED
    BY <1>1, <1>2

\* reserved_size_for_: the next multiple of the alignment.
LEMMA AlignUpIs ==
    ASSUME NEW n \in Nat
    PROVE  /\ AlignUp(n) \in Nat
           /\ n <= AlignUp(n)
           /\ AlignUp(n) % HeapAlignment = 0
           /\ n = 0 => AlignUp(n) = 0
<1> DEFINE d == HeapAlignment
           q == (n + d - 1) \div d
<1>1. d \in Nat \ {0}
    BY LayoutAssumption
<1> HIDE DEF d
<1>2. /\ q \in Int /\ (n + d - 1) % d \in 0 .. d - 1
      /\ n + d - 1 = d * q + ((n + d - 1) % d)
    <2>1. n + d - 1 \in Int
        BY <1>1
    <2>2. QED
        BY <1>1, <2>1, DivFacts
<1>3. AlignUp(n) = q * d
    BY DEF AlignUp, d
<1> HIDE DEF q
<1>4. q * d \in Int /\ q * d = d * q
    BY <1>1, <1>2
<1>5. n <= q * d /\ q * d <= n + d - 1
    <2> DEFINE r == (n + d - 1) % d
               k == d * q
    <2>0. n + d - 1 = k + r
        BY <1>2
    <2>1. r \in 0 .. d - 1 /\ k \in Int /\ n + d - 1 = k + r
        BY <1>2, <1>4, <2>0
    <2> HIDE DEF r, k
    <2>2. n <= k /\ k <= n + d - 1
        BY <1>1, <2>1
    <2>3. QED
        BY <1>4, <2>2 DEF k
<1>6. (d * q) % d = 0
    BY <1>1, <1>2
<1>7. n = 0 => q * d = 0
    <2>1. q > 0 => q * d >= d
        BY <1>1, <1>2
    <2>2. q <= 0 => q * d <= 0
        BY <1>1, <1>2
    <2>3. QED
        BY <1>1, <1>2, <1>4, <1>5, <2>1, <2>2
<1>8. QED
    BY <1>1, <1>3, <1>4, <1>5, <1>6, <1>7 DEF d

\* What the constants are assumed to be: all the tables there can be fit.
LEMMA SizeFacts ==
    /\ MaxTables \in Nat \ {0}
    /\ MaxTables * TableBytes <= Capacity
    /\ Capacity \in Nat \ {0} /\ TableBytes \in Nat \ {0}
    /\ HeapAlignment \in Nat \ {0} /\ DescriptorsPerTable \in Nat \ {0}
<1>1. MaxTables \in Int /\ Capacity % TableBytes \in 0 .. TableBytes - 1
      /\ Capacity = TableBytes * MaxTables + (Capacity % TableBytes)
    BY LayoutAssumption, DivFacts DEF MaxTables
<1>2. MaxTables > 0
    <2>1. MaxTables <= 0 => TableBytes * MaxTables <= 0
        BY <1>1, LayoutAssumption
    <2>2. QED
        BY <1>1, <2>1, LayoutAssumption
<1>3. MaxTables * TableBytes = TableBytes * MaxTables
    BY <1>1, LayoutAssumption
<1>4. QED
    BY <1>1, <1>2, <1>3, LayoutAssumption

\* The top of the metadata, with any number of tables, is aligned and fits.
LEMMA TopsFit ==
    ASSUME NEW t \in 1 .. MaxTables
    PROVE  /\ t * TableBytes \in Nat /\ t * TableBytes <= Capacity
           /\ (t * TableBytes) % HeapAlignment = 0
           /\ (t + 1) * TableBytes = t * TableBytes + TableBytes
<1>1. t \in Nat /\ TableBytes \in Nat /\ MaxTables \in Nat
    BY SizeFacts
<1>2. t * TableBytes <= MaxTables * TableBytes
    <2>1. \A a, b, x \in Nat : a <= b => a * x <= b * x
        OBVIOUS
    <2>2. QED
        BY <1>1, <2>1
<1>3. t * TableBytes \in Nat /\ (t + 1) * TableBytes = t * TableBytes + TableBytes
      /\ MaxTables * TableBytes \in Nat
    BY <1>1
<1>4. (t * TableBytes) % HeapAlignment = 0
    <2>1. \A m, n \in Int : \A d \in Nat \ {0} : n % d = 0 => (m * n) % d = 0
        BY MultipleTimes
    <2>2. HeapAlignment \in Nat \ {0} /\ TableBytes % HeapAlignment = 0 /\ t \in Int
              /\ TableBytes \in Int
        BY <1>1, LayoutAssumption
    <2>3. QED
        BY <2>1, <2>2
<1>5. QED
    BY <1>1, <1>2, <1>3, <1>4, SizeFacts

\* A handle is its table id and its entry: handle_table_id_ and
\* handle_entry_ invert make_handle_.
LEMMA HandleParts ==
    ASSUME NEW h \in Handles
    PROVE  /\ TableId(h) \in Ids /\ Entry(h) \in Entries
           /\ h = HandleOf(TableId(h), Entry(h))
<1> DEFINE d == DescriptorsPerTable
<1>1. d \in Nat \ {0} /\ MaxTables \in Nat \ {0}
    BY SizeFacts
<1> HIDE DEF d
<1>2. h \in Nat /\ h < MaxTables * d
    <2>1. MaxTables * d \in Nat
        BY <1>1
    <2>2. QED
        BY <2>1 DEF Handles, d
<1>3. /\ h \div d \in Int /\ h % d \in 0 .. d - 1
      /\ h = d * (h \div d) + (h % d)
    BY <1>1, <1>2, DivFacts
<1> DEFINE q == h \div d
<1> HIDE DEF q
<1>4. q \in Int /\ h = d * q + (h % d)
    BY <1>3 DEF q
<1>5. q >= 0
    <2> SUFFICES ASSUME q <= -1 PROVE FALSE
        BY <1>4
    <2>1. d * q = q * d /\ q * d <= (-1) * d /\ (-1) * d = - d /\ q * d \in Int
        BY <1>1, <1>4, TimesMonotone
    <2> DEFINE k == q * d
               r == h % d
    <2>2. k \in Int /\ k <= - d /\ r \in 0 .. d - 1 /\ h = k + r
        BY <1>3, <1>4, <2>1
    <2> HIDE DEF k, r
    <2>3. QED
        BY <1>1, <1>2, <2>2
<1>6. q < MaxTables
    <2> SUFFICES ASSUME MaxTables <= q PROVE FALSE
        BY <1>1, <1>4
    <2>1. d * q = q * d /\ MaxTables * d <= q * d /\ q * d \in Int /\ MaxTables * d \in Int
        BY <1>1, <1>4, TimesMonotone
    <2> DEFINE k == q * d
               r == h % d
               m == MaxTables * d
    <2>2. k \in Int /\ m \in Int /\ m <= k /\ r \in 0 .. d - 1 /\ h = k + r /\ h < m
        BY <1>2, <1>3, <1>4, <2>1
    <2> HIDE DEF k, r, m
    <2>3. QED
        BY <1>1, <1>2, <2>2
<1>7. q * d = d * q
    BY <1>1, <1>4
<1>8. QED
    BY <1>1, <1>2, <1>3, <1>4, <1>5, <1>6, <1>7 DEF Ids, Entries, TableId, Entry, HandleOf, q, d

\* And the other way round.
LEMMA HandleMade ==
    ASSUME NEW id \in Ids, NEW e \in Entries
    PROVE  /\ HandleOf(id, e) \in Handles
           /\ TableId(HandleOf(id, e)) = id /\ Entry(HandleOf(id, e)) = e
<1> DEFINE d == DescriptorsPerTable
           h == id * d + e
<1>1. d \in Nat \ {0} /\ MaxTables \in Nat \ {0} /\ id \in 0 .. MaxTables - 1 /\ e \in 0 .. d - 1
    BY SizeFacts DEF Ids, Entries
<1> HIDE DEF d
<1>0. h \in Int
    BY <1>1
<1> DEFINE q == h \div d
           r == h % d
<1>2. q \in Int /\ r \in 0 .. d - 1 /\ h = d * q + r
    BY <1>1, <1>0, DivFacts
<1> HIDE DEF q, r
<1>3. q \in Int /\ r \in 0 .. d - 1 /\ id * d + e = d * q + r
    BY <1>2
<1>4. q = id
    <2>1. id * d = d * id
        BY <1>1
    <2>2. d * (q - id) = e - r
        BY <1>1, <1>3, <2>1
    <2>3. q - id >= 1 => d * (q - id) >= d
        BY <1>1, <1>3
    <2>4. q - id <= -1 => d * (q - id) <= -d
        BY <1>1, <1>3
    <2>5. QED
        BY <1>1, <1>3, <2>2, <2>3, <2>4
<1>5. r = e
    BY <1>1, <1>3, <1>4
<1>6. h \in 0 .. MaxTables * d - 1
    <2>1. id * d <= (MaxTables - 1) * d
        BY <1>1
    <2>2. (MaxTables - 1) * d = MaxTables * d - d
        BY <1>1
    <2>3. id * d \in Nat /\ MaxTables * d \in Nat
        BY <1>1
    <2>4. QED
        BY <1>1, <2>1, <2>2, <2>3
<1>7. QED
    BY <1>4, <1>5, <1>6 DEF HandleOf, Handles, TableId, Entry, q, r, d

-----------------------------------------------------------------------------
(***************************************************************************)
(* The descriptor tables and the view.                                     *)
(***************************************************************************)
\* A heap of the right type with sound tables.
HeapRec(hp) == hp \in Heap /\ TablesSound(hp.tables)

\* find_table_index_by_id_ finds the table of an id.
LEMMA IndexIs ==
    ASSUME NEW ts, TablesSound(ts), NEW i \in DOMAIN ts
    PROVE  TableIndex(ts, ts[i].id) = i
<1> DEFINE P(k) == ts[k].id = ts[i].id /\ \A j \in 1 .. k - 1 : ts[j].id # ts[i].id
<1>1. DOMAIN ts = 1 .. Len(ts) /\ Len(ts) \in Nat
    BY DEF TablesSound
<1>2. \A j, k \in DOMAIN ts : ts[j].id = ts[k].id => j = k
    BY DEF TablesSound
<1>3. P(i)
    BY <1>1, <1>2
<1>4. \A k \in DOMAIN ts : P(k) => k = i
    BY <1>2
<1>5. QED
    BY <1>3, <1>4 DEF TableIndex

\* A slot that is not in use.
LEMMA FreeSlotTyped == FreeSlot \in Slot /\ FreeSlot.state = "free" /\ FreeSlot.refs = 0
<1>1. 0 \in Bytes /\ 0 \in 0 .. Capacity
    BY SizeFacts DEF Bytes
<1>2. QED
    BY <1>1 DEF FreeSlot, Slot

\* An entry of a table is the slot of one handle.
LEMMA SlotAt ==
    ASSUME NEW hp, TablesSound(hp.tables), NEW i \in DOMAIN hp.tables, NEW e \in Entries,
           NEW h, h = HandleOf(hp.tables[i].id, e)
    PROVE  /\ h \in Handles
           /\ TableId(h) = hp.tables[i].id /\ Entry(h) = e
           /\ TableIndex(hp.tables, TableId(h)) = i
           /\ Present(hp.tables, h)
           /\ SlotOf(hp, h) = hp.tables[i].slot[e]
           /\ View(hp)[h] = hp.tables[i].slot[e]
           /\ hp.tables[i].slot[e] \in Slot
<1>1. hp.tables[i].id \in Ids /\ hp.tables[i] \in Table
    BY DEF TablesSound
<1>2. h \in Handles /\ TableId(h) = hp.tables[i].id /\ Entry(h) = e
    BY <1>1, HandleMade
<1>3. TableIndex(hp.tables, TableId(h)) = i
    BY <1>2, IndexIs
<1>4. Present(hp.tables, h)
    BY <1>2 DEF Present
<1>5. SlotOf(hp, h) = hp.tables[i].slot[e]
    BY <1>2, <1>3 DEF SlotOf
<1>6. View(hp)[h] = SlotOf(hp, h)
    BY <1>2, <1>4 DEF View
<1>7. hp.tables[i].slot[e] \in Slot
    BY <1>1 DEF Table
<1>8. QED
    BY <1>2, <1>3, <1>4, <1>5, <1>6, <1>7

\* A handle whose table exists has its slot there.
LEMMA PresentAt ==
    ASSUME NEW hp, TablesSound(hp.tables), NEW h \in Handles, Present(hp.tables, h)
    PROVE  \E i \in DOMAIN hp.tables :
             /\ hp.tables[i].id = TableId(h)
             /\ TableIndex(hp.tables, TableId(h)) = i
             /\ Entry(h) \in Entries
             /\ h = HandleOf(hp.tables[i].id, Entry(h))
             /\ SlotOf(hp, h) = hp.tables[i].slot[Entry(h)]
             /\ View(hp)[h] = hp.tables[i].slot[Entry(h)]
             /\ hp.tables[i].slot[Entry(h)] \in Slot
<1>1. PICK i \in DOMAIN hp.tables : hp.tables[i].id = TableId(h)
    BY DEF Present
<1>2. Entry(h) \in Entries /\ h = HandleOf(hp.tables[i].id, Entry(h))
    BY <1>1, HandleParts
<1>3. QED
    BY <1>1, <1>2, SlotAt

\* The view agrees with the accessors of the code, whatever the order of the
\* tables.
LEMMA ViewIs ==
    ASSUME NEW hp, TablesSound(hp.tables)
    PROVE  /\ View(hp) \in [Handles -> Slot]
           /\ \A h \in Handles : View(hp)[h].state = "free" => View(hp)[h] = FreeSlot
           /\ \A h \in Handles : IsUsed(hp, h) <=> View(hp)[h].state # "free"
           /\ \A h \in Handles : View(hp)[h].state # "free" => Present(hp.tables, h)
           /\ \A h \in Handles : Present(hp.tables, h) => SlotOf(hp, h) = View(hp)[h]
           /\ Used(hp) = InUse(View(hp))
<1>1. ASSUME NEW h \in Handles
      PROVE  /\ View(hp)[h] \in Slot
             /\ View(hp)[h].state = "free" => View(hp)[h] = FreeSlot
             /\ IsUsed(hp, h) <=> View(hp)[h].state # "free"
             /\ View(hp)[h].state # "free" => Present(hp.tables, h)
             /\ Present(hp.tables, h) => SlotOf(hp, h) = View(hp)[h]
    <2>1. CASE Present(hp.tables, h)
        <3>1. PICK i \in DOMAIN hp.tables :
                 /\ hp.tables[i].id = TableId(h)
                 /\ TableIndex(hp.tables, TableId(h)) = i
                 /\ Entry(h) \in Entries
                 /\ h = HandleOf(hp.tables[i].id, Entry(h))
                 /\ SlotOf(hp, h) = hp.tables[i].slot[Entry(h)]
                 /\ View(hp)[h] = hp.tables[i].slot[Entry(h)]
                 /\ hp.tables[i].slot[Entry(h)] \in Slot
            BY <2>1, PresentAt
        <3>2. hp.tables[i].slot[Entry(h)].state = "free" => hp.tables[i].slot[Entry(h)] = FreeSlot
            BY <3>1 DEF TablesSound
        <3>3. \A j \in DOMAIN hp.tables : hp.tables[j].id = TableId(h) => j = i
            BY <3>1 DEF TablesSound
        <3>4. IsUsed(hp, h) <=> View(hp)[h].state # "free"
            BY <3>1, <3>3 DEF IsUsed
        <3>5. QED
            BY <2>1, <3>1, <3>2, <3>4
    <2>2. CASE ~ Present(hp.tables, h)
        <3>1. View(hp)[h] = FreeSlot
            BY <2>2 DEF View
        <3>2. ~ IsUsed(hp, h)
            BY <2>2 DEF Present, IsUsed
        <3>3. QED
            BY <2>2, <3>1, <3>2, FreeSlotTyped
    <2>3. QED
        BY <2>1, <2>2
<1>2. View(hp) \in [Handles -> Slot]
    <2>1. View(hp) = [h \in Handles |-> View(hp)[h]]
        BY DEF View
    <2>2. QED
        BY <1>1, <2>1
<1>3. Used(hp) = InUse(View(hp))
    BY <1>1 DEF Used, InUse
<1>4. QED
    BY <1>1, <1>2, <1>3

\* A heap that differs in one slot only.
SameBut(hp, hq) ==
    /\ hq \in Heap
    /\ TablesSound(hq.tables) /\ Len(hq.tables) = Len(hp.tables)
    /\ hq.root = hp.root /\ hq.reserved = hp.reserved
    /\ hq.live = hp.live /\ hq.mem = hp.mem
    /\ \A g \in Handles : Present(hq.tables, g) <=> Present(hp.tables, g)

\* An assignment to a slot, in terms of the view: nothing else changes.
LEMMA WithSlotIs ==
    ASSUME NEW hp, HeapRec(hp), NEW h \in Handles, Present(hp.tables, h), NEW s \in Slot,
           s.state = "free" => s = FreeSlot
    PROVE  /\ SameBut(hp, WithSlot(hp, h, s))
           /\ View(WithSlot(hp, h, s)) = [View(hp) EXCEPT ![h] = s]
           /\ NoneEmpty(hp.tables) /\ s.state # "free" => NoneEmpty(WithSlot(hp, h, s).tables)
           /\ WithSlot(hp, h, s) = [hp EXCEPT !.tables = WithSlot(hp, h, s).tables]
           /\ \A j \in DOMAIN hp.tables :
                 j # TableIndex(hp.tables, TableId(h))
                     => WithSlot(hp, h, s).tables[j] = hp.tables[j]
<1> DEFINE ts == hp.tables
           us == PutSlot(ts, h, s)
           hq == WithSlot(hp, h, s)
           e == Entry(h)
<1>0. hp \in Heap /\ TablesSound(ts)
    BY DEF HeapRec
<1>1. PICK i \in DOMAIN ts :
        /\ ts[i].id = TableId(h)
        /\ TableIndex(ts, TableId(h)) = i
        /\ e \in Entries
        /\ h = HandleOf(ts[i].id, e)
        /\ SlotOf(hp, h) = ts[i].slot[e]
        /\ View(hp)[h] = ts[i].slot[e]
        /\ ts[i].slot[e] \in Slot
    BY <1>0, PresentAt
<1>2. us = [ts EXCEPT ![i].slot[e] = s]
    BY <1>1 DEF PutSlot
<1>3. ts \in Seq(Table) /\ ts[i] \in Table /\ Len(ts) \in Nat /\ DOMAIN ts = 1 .. Len(ts)
    BY <1>0 DEF TablesSound
<1>4. /\ DOMAIN us = DOMAIN ts
      /\ \A j \in DOMAIN ts : us[j] = IF j = i THEN [ts[j] EXCEPT !.slot[e] = s] ELSE ts[j]
    BY <1>2
<1>5. ASSUME NEW j \in DOMAIN ts
      PROVE  /\ us[j].id = ts[j].id
             /\ us[j] \in Table
             /\ \A f \in Entries : us[j].slot[f] = IF j = i /\ f = e THEN s ELSE ts[j].slot[f]
    <2>1. ts[j] \in Table
        BY <1>3
    <2>2. CASE j # i
        BY <1>4, <2>1, <2>2
    <2>3. CASE j = i
        <3> DEFINE t == ts[j]
                   u == us[j]
        <3>1. u = [t EXCEPT !.slot[e] = s]
            BY <1>4, <2>3
        <3>2. t \in [id : Nat, slot : [Entries -> Slot]]
            BY <2>1 DEF Table
        <3> HIDE DEF t, u
        <3>3. u.id = t.id /\ u.slot = [t.slot EXCEPT ![e] = s]
            BY <3>1, <3>2
        <3>4. u.slot \in [Entries -> Slot]
            BY <3>2, <3>3
        <3>5. u \in [id : Nat, slot : [Entries -> Slot]]
            <4>1. u = [id |-> u.id, slot |-> u.slot]
                BY <3>1, <3>2
            <4>2. QED
                BY <3>2, <3>3, <3>4, <4>1
        <3>6. \A f \in Entries : u.slot[f] = IF f = e THEN s ELSE t.slot[f]
            BY <3>2, <3>3
        <3>7. QED
            BY <2>3, <3>3, <3>5, <3>6 DEF Table, t, u
    <2>4. QED
        BY <2>2, <2>3
<1> HIDE DEF us
<1>6. us \in Seq(Table) /\ Len(us) = Len(ts)
    <2>0. us = [ts EXCEPT ![i] = us[i]]
        <3>1. us = [ts EXCEPT ![i].slot[e] = s]
            BY <1>2
        <3>2. QED
            BY <1>1, <3>1
    <2>1. us[i] \in Table
        BY <1>5
    <2>2. QED
        BY <1>3, <2>0, <2>1
<1>7. TablesSound(us)
    <2>1. \A j \in DOMAIN us : us[j].id \in Ids
        BY <1>0, <1>4, <1>5 DEF TablesSound
    <2>2. \A j, k \in DOMAIN us : us[j].id = us[k].id => j = k
        BY <1>0, <1>4, <1>5 DEF TablesSound
    <2>3. \A j \in DOMAIN us : \A f \in Entries : us[j].slot[f].state = "free"
              => us[j].slot[f] = FreeSlot
        BY <1>0, <1>4, <1>5 DEF TablesSound
    <2>4. Len(us) \in 1 .. MaxTables
        BY <1>0, <1>6 DEF TablesSound
    <2>5. QED
        BY <1>6, <2>1, <2>2, <2>3, <2>4 DEF TablesSound
<1>8. hq = [hp EXCEPT !.tables = us]
    BY DEF WithSlot, us
<1>9. /\ hq \in Heap /\ hq.tables = us /\ hq.root = hp.root
      /\ hq.reserved = hp.reserved /\ hq.live = hp.live /\ hq.mem = hp.mem
    BY <1>0, <1>6, <1>8 DEF Heap
<1> HIDE DEF hq
<1>10. \A g \in Handles : Present(us, g) <=> Present(ts, g)
    BY <1>4, <1>5 DEF Present
<1>11. ASSUME NEW g \in Handles
       PROVE  View(hq)[g] = IF g = h THEN s ELSE View(hp)[g]
    <2>1. CASE Present(ts, g)
        <3>1. PICK j \in DOMAIN ts :
                /\ ts[j].id = TableId(g)
                /\ Entry(g) \in Entries
                /\ g = HandleOf(ts[j].id, Entry(g))
                /\ View(hp)[g] = ts[j].slot[Entry(g)]
            BY <1>0, <2>1, PresentAt
        <3>2. View(hq)[g] = us[j].slot[Entry(g)]
            <4>1. j \in DOMAIN hq.tables /\ g = HandleOf(hq.tables[j].id, Entry(g))
                BY <1>4, <1>5, <1>9, <3>1
            <4>2. QED
                BY <1>7, <1>9, <3>1, <4>1, SlotAt
        <3>3. j = i /\ Entry(g) = e <=> g = h
            <4>1. j = i /\ Entry(g) = e => g = h
                BY <1>1, <3>1
            <4>2. g = h => j = i
                BY <1>0, <1>1, <3>1 DEF TablesSound
            <4>3. QED
                BY <4>1, <4>2
        <3>4. QED
            BY <1>5, <3>1, <3>2, <3>3
    <2>2. CASE ~ Present(ts, g)
        <3>1. g # h
            BY <2>2
        <3>2. View(hq)[g] = FreeSlot /\ View(hp)[g] = FreeSlot
            BY <1>9, <1>10, <2>2 DEF View
        <3>3. QED
            BY <3>1, <3>2
    <2>3. QED
        BY <2>1, <2>2
<1>12. View(hq) = [View(hp) EXCEPT ![h] = s]
    <2>1. View(hq) = [g \in Handles |-> View(hq)[g]] /\ View(hp) = [g \in Handles |-> View(hp)[g]]
        BY DEF View
    <2>2. QED
        BY <1>11, <2>1
<1>13. NoneEmpty(ts) /\ s.state # "free" => NoneEmpty(us)
    <2> SUFFICES ASSUME NoneEmpty(ts), s.state # "free", NEW j \in DOMAIN us,
            FreeEntries(us[j]) = Entries
                 PROVE  Len(us) = 1
        BY DEF NoneEmpty
    <2>1. j # i
        BY <1>1, <1>4, <1>5 DEF FreeEntries
    <2>2. FreeEntries(ts[j]) = Entries
        BY <1>4, <1>5, <2>1 DEF FreeEntries
    <2>3. QED
        BY <1>4, <1>6, <2>2 DEF NoneEmpty
<1>14. SameBut(hp, hq)
    BY <1>6, <1>7, <1>9, <1>10 DEF SameBut
<1>15. hq = [hp EXCEPT !.tables = hq.tables]
    BY <1>8, <1>9
<1>16. \A j \in DOMAIN ts : j # i => hq.tables[j] = ts[j]
    BY <1>4, <1>9
<1>17. QED
    BY <1>1, <1>9, <1>12, <1>13, <1>14, <1>15, <1>16 DEF hq

\* Assignments to a link or a base are assignments to a slot.
LEMMA WithNextIs ==
    ASSUME NEW hp, HeapRec(hp), NEW h \in Handles, Present(hp.tables, h),
           NEW u, u = View(hp)[h], NEW s, NEW y
    PROVE  /\ s = [u EXCEPT !.next = y] => WithNext(hp, h, y) = WithSlot(hp, h, s)
           /\ s = [u EXCEPT !.offset = y] => /\ WithBase(hp, h, y) = WithSlot(hp, h, s)
                                           /\ PutBase(hp.tables, h, y) = WithSlot(hp, h, s).tables
<1>1. SlotOf(hp, h) = View(hp)[h]
    BY ViewIs DEF HeapRec
<1>2. hp.tables[TableIndex(hp.tables, TableId(h))].slot[Entry(h)] = View(hp)[h]
    BY <1>1 DEF SlotOf
<1>3. PutNext(hp.tables, h, y) = PutSlot(hp.tables, h, [u EXCEPT !.next = y])
    BY <1>2 DEF PutNext, PutSlot
<1>4. PutBase(hp.tables, h, y) = PutSlot(hp.tables, h, [u EXCEPT !.offset = y])
    BY <1>2 DEF PutBase, PutSlot
<1>5. "tables" \in DOMAIN hp
    BY DEF HeapRec, Heap
<1>6. QED
    BY <1>3, <1>4, <1>5 DEF WithNext, WithBase, WithSlot

\* Intervals are finite and have the length they seem to have.
LEMMA IntervalCount ==
    ASSUME NEW n \in Nat
    PROVE  /\ IsFiniteSet(1 .. n) /\ Cardinality(1 .. n) = n
           /\ IsFiniteSet(0 .. n - 1) /\ Cardinality(0 .. n - 1) = n
<1>1. \A a, b \in Int : IsFiniteSet(a .. b) /\ Cardinality(a .. b) = IF a > b THEN 0
          ELSE (b - a) + 1
    BY FS_Interval
<1>2. Cardinality(1 .. n) = IF 1 > n THEN 0 ELSE (n - 1) + 1
    BY <1>1
<1>3. Cardinality(0 .. n - 1) = IF 0 > n - 1 THEN 0 ELSE ((n - 1) - 0) + 1
    <2>1. n - 1 \in Int
        OBVIOUS
    <2>2. QED
        BY <1>1, <2>1
<1>4. QED
    BY <1>1, <1>2, <1>3

\* allocate_table_id_: an id that no table has exists as long as there may be
\* another table.
LEMMA FreshIs ==
    ASSUME NEW hp, TablesSound(hp.tables), Len(hp.tables) < MaxTables
    PROVE  /\ FreshTableId(hp) \in Ids
           /\ \A i \in DOMAIN hp.tables : hp.tables[i].id # FreshTableId(hp)
<1> DEFINE ts == hp.tables
           S == {n \in 0 .. MaxTables : \A i \in DOMAIN ts : ts[i].id # n}
<1>1. MaxTables \in Nat \ {0} /\ Len(ts) \in Nat /\ DOMAIN ts = 1 .. Len(ts)
    BY SizeFacts DEF TablesSound
<1>2. \E n \in Ids : \A i \in DOMAIN ts : ts[i].id # n
    <2> SUFFICES ASSUME \A n \in Ids : \E i \in DOMAIN ts : ts[i].id = n PROVE FALSE
        OBVIOUS
    <2> DEFINE f == [n \in Ids |-> CHOOSE i \in DOMAIN ts : ts[i].id = n]
    <2>1. \A n \in Ids : f[n] \in DOMAIN ts /\ ts[f[n]].id = n
        OBVIOUS
    <2>2. f \in [Ids -> DOMAIN ts]
        BY <2>1
    <2>3. IsFiniteSet(Ids) /\ Cardinality(Ids) = MaxTables
        BY <1>1, IntervalCount DEF Ids
    <2>4. IsFiniteSet(DOMAIN ts) /\ Cardinality(DOMAIN ts) = Len(ts)
        BY <1>1, IntervalCount
    <2> HIDE DEF f
    <2>5. PICK x, y \in Ids : x # y /\ f[x] = f[y]
        BY <2>2, <2>3, <2>4, FS_PigeonHole
    <2>6. QED
        BY <2>1, <2>5
<1>3. PICK n \in Ids : \A i \in DOMAIN ts : ts[i].id # n
    BY <1>2
<1>4. n \in S /\ S \in SUBSET Nat
    BY <1>1, <1>3 DEF Ids
<1> HIDE DEF S
<1>5. Least(S) \in S /\ Least(S) <= n
    BY <1>4, LeastIs
<1>6. FreshTableId(hp) = Least(S)
    BY DEF FreshTableId, S
<1>7. Least(S) \in Ids
    <2> DEFINE m == Least(S)
    <2>1. m \in Nat /\ m <= n
        BY <1>4, <1>5
    <2>2. n \in Nat /\ n <= MaxTables - 1 /\ MaxTables \in Nat
        BY <1>1, <1>3 DEF Ids
    <2> HIDE DEF m
    <2>3. m \in 0 .. MaxTables - 1
        BY <2>1, <2>2
    <2>4. QED
        BY <2>3 DEF Ids, m
<1>8. QED
    BY <1>5, <1>6, <1>7 DEF S

\* A new table has free slots only.
LEMMA EmptyTableIs ==
    ASSUME NEW id \in Nat
    PROVE  /\ EmptyTable(id) \in Table
           /\ EmptyTable(id).id = id
           /\ \A e \in Entries : EmptyTable(id).slot[e] = FreeSlot
           /\ FreeEntries(EmptyTable(id)) = Entries
BY FreeSlotTyped DEF EmptyTable, Table, FreeEntries

\* Heaps whose tables differ only in tables without a used slot have one view.
LEMMA SameSlots ==
    ASSUME NEW hp, NEW hq, TablesSound(hp.tables), TablesSound(hq.tables),
           \A i \in DOMAIN hp.tables :
               \/ \E j \in DOMAIN hq.tables : hq.tables[j] = hp.tables[i]
               \/ \A e \in Entries : hp.tables[i].slot[e] = FreeSlot,
           \A j \in DOMAIN hq.tables :
               \/ \E i \in DOMAIN hp.tables : hq.tables[j] = hp.tables[i]
               \/ \A e \in Entries : hq.tables[j].slot[e] = FreeSlot
    PROVE  View(hq) = View(hp)
<1>1. ASSUME NEW p, NEW q, TablesSound(p.tables), TablesSound(q.tables),
             \A i \in DOMAIN p.tables :
               \/ \E j \in DOMAIN q.tables : q.tables[j] = p.tables[i]
               \/ \A e \in Entries : p.tables[i].slot[e] = FreeSlot,
             NEW h \in Handles, View(p)[h].state # "free"
      PROVE  View(q)[h] = View(p)[h]
    <2>1. Present(p.tables, h)
        BY <1>1, ViewIs
    <2>2. PICK i \in DOMAIN p.tables :
             /\ Entry(h) \in Entries
             /\ h = HandleOf(p.tables[i].id, Entry(h))
             /\ View(p)[h] = p.tables[i].slot[Entry(h)]
        BY <1>1, <2>1, PresentAt
    <2>3. p.tables[i].slot[Entry(h)] # FreeSlot
        BY <1>1, <2>2, FreeSlotTyped
    <2>4. PICK j \in DOMAIN q.tables : q.tables[j] = p.tables[i]
        BY <1>1, <2>2, <2>3
    <2>5. View(q)[h] = q.tables[j].slot[Entry(h)]
        BY <1>1, <2>2, <2>4, SlotAt
    <2>6. QED
        BY <2>2, <2>4, <2>5
<1>2. ASSUME NEW h \in Handles PROVE View(hq)[h] = View(hp)[h]
    <2>1. CASE View(hp)[h].state # "free"
        BY <1>1, <2>1
    <2>2. CASE View(hq)[h].state # "free"
        <3>1. View(hp)[h] = View(hq)[h]
            BY <1>1, <2>2
        <3>2. QED
            BY <3>1
    <2>3. CASE View(hp)[h].state = "free" /\ View(hq)[h].state = "free"
        BY <2>3, ViewIs
    <2>4. QED
        BY <2>1, <2>2, <2>3
<1>3. View(hq) = [g \in Handles |-> View(hq)[g]] /\ View(hp) = [g \in Handles |-> View(hp)[g]]
    BY DEF View
<1>4. QED
    BY <1>2, <1>3

\* push_descriptor_table_: no slot changes, and only bytes the table is built over do.
LEMMA PushedIs ==
    ASSUME NEW hp, HeapRec(hp), Len(hp.tables) < MaxTables
    PROVE  /\ HeapRec(Pushed(hp))
           /\ Len(Pushed(hp).tables) = Len(hp.tables) + 1
           /\ View(Pushed(hp)) = View(hp)
           /\ Pushed(hp).root = hp.root /\ Pushed(hp).reserved = hp.reserved
           /\ Pushed(hp).live = hp.live
           /\ \A i \in DOMAIN hp.tables : Pushed(hp).tables[i] = hp.tables[i]
           /\ Pushed(hp).tables[Len(hp.tables) + 1] = EmptyTable(FreshTableId(hp))
           /\ Pushed(hp).tables = Append(hp.tables, EmptyTable(FreshTableId(hp)))
           /\ Pushed(hp) = [hp EXCEPT !.tables = Pushed(hp).tables, !.mem = Pushed(hp).mem]
           /\ \A b \in Bytes : Pushed(hp).mem[b] =
                  IF b \in MetadataTop(hp) .. MetadataTop(hp) + TableBytes - 1
                  THEN Junk ELSE hp.mem[b]
<1> DEFINE ts == hp.tables
           fresh == EmptyTable(FreshTableId(hp))
           us == Append(ts, fresh)
           hq == Pushed(hp)
<1>0. hp \in Heap /\ TablesSound(ts) /\ Len(ts) \in Nat /\ DOMAIN ts = 1 .. Len(ts)
          /\ ts \in Seq(Table)
    BY DEF HeapRec, TablesSound
<1>1. FreshTableId(hp) \in Ids /\ \A i \in DOMAIN ts : ts[i].id # FreshTableId(hp)
    BY <1>0, FreshIs
<1>2. /\ fresh \in Table /\ fresh.id = FreshTableId(hp)
      /\ \A e \in Entries : fresh.slot[e] = FreeSlot
    BY <1>1, EmptyTableIs DEF Ids
<1> HIDE DEF fresh
<1>3. /\ us \in Seq(Table) /\ Len(us) = Len(ts) + 1 /\ us[Len(ts) + 1] = fresh
      /\ \A i \in DOMAIN ts : us[i] = ts[i]
    BY <1>0, <1>2
<1> HIDE DEF us
<1>4. TablesSound(us)
    <2>1. DOMAIN us = 1 .. Len(ts) + 1
        BY <1>0, <1>3
    <2>2. ASSUME NEW i \in DOMAIN us
                     PROVE (i \in DOMAIN ts /\ us[i] = ts[i]) \/ (i = Len(ts) + 1 /\ us[i] = fresh)
        BY <1>0, <1>3, <2>1
    <2>3. \A i \in DOMAIN us : us[i].id \in Ids
        BY <1>0, <1>1, <1>2, <2>2 DEF TablesSound
    <2>4. \A i, j \in DOMAIN us : us[i].id = us[j].id => i = j
        BY <1>0, <1>1, <1>2, <2>2 DEF TablesSound
    <2>5. \A i \in DOMAIN us : \A e \in Entries : us[i].slot[e].state = "free"
              => us[i].slot[e] = FreeSlot
        BY <1>0, <1>2, <2>2 DEF TablesSound
    <2>6. Len(us) \in 1 .. MaxTables
        BY <1>0, <1>3, SizeFacts
    <2>7. QED
        BY <1>3, <2>3, <2>4, <2>5, <2>6 DEF TablesSound
<1> DEFINE Fresh(b) == b \in MetadataTop(hp) .. MetadataTop(hp) + TableBytes - 1
           m == [b \in Bytes |-> IF Fresh(b) THEN Junk ELSE hp.mem[b]]
<1>5. hq = [hp EXCEPT !.tables = us, !.mem = m]
    BY DEF Pushed, us, fresh
<1>6. m \in [Bytes -> Values \cup {Junk}]
    BY <1>0 DEF Heap
<1> HIDE DEF m
<1>7. /\ hq \in Heap /\ hq.tables = us /\ hq.mem = m /\ hq.root = hp.root
      /\ hq.reserved = hp.reserved /\ hq.live = hp.live
    BY <1>0, <1>3, <1>5, <1>6 DEF Heap
<1> HIDE DEF hq
<1>8. View(hq) = View(hp)
    <2>1. \A i \in DOMAIN hp.tables : \E j \in DOMAIN hq.tables : hq.tables[j] = hp.tables[i]
        BY <1>0, <1>3, <1>7
    <2>2. \A j \in DOMAIN hq.tables :
               \/ \E i \in DOMAIN hp.tables : hq.tables[j] = hp.tables[i]
               \/ \A e \in Entries : hq.tables[j].slot[e] = FreeSlot
        BY <1>0, <1>2, <1>3, <1>7
    <2>3. QED
        BY <1>0, <1>4, <1>7, <2>1, <2>2, SameSlots
<1>9. \A b \in Bytes : m[b] = IF Fresh(b) THEN Junk ELSE hp.mem[b]
    BY DEF m
<1>10. hq = [hp EXCEPT !.tables = hq.tables, !.mem = hq.mem]
    BY <1>5, <1>7
<1>11. HeapRec(hq)
    BY <1>4, <1>7 DEF HeapRec
<1>12. QED
    BY <1>3, <1>7, <1>8, <1>9, <1>10, <1>11 DEF hq, fresh, us

\* reclaim_empty_table_: the last table takes the place of an empty one, and no
\* handle sees it.
LEMMA ReclaimedIs ==
    ASSUME NEW hp, HeapRec(hp), Len(hp.tables) > 1, NEW i \in DOMAIN hp.tables,
           \A e \in Entries : hp.tables[i].slot[e] = FreeSlot,
           \A j \in DOMAIN hp.tables : j # i => FreeEntries(hp.tables[j]) # Entries
    PROVE  /\ HeapRec(Reclaimed(hp, i))
           /\ NoneEmpty(Reclaimed(hp, i).tables)
           /\ Len(Reclaimed(hp, i).tables) = Len(hp.tables) - 1
           /\ View(Reclaimed(hp, i)) = View(hp)
           /\ Reclaimed(hp, i).root = hp.root /\ Reclaimed(hp, i).reserved = hp.reserved
           /\ Reclaimed(hp, i).live = hp.live /\ Reclaimed(hp, i).mem = hp.mem
           /\ Reclaimed(hp, i) = [hp EXCEPT !.tables = Reclaimed(hp, i).tables]
           /\ \A j \in 1 .. Len(hp.tables) - 1 : Reclaimed(hp, i).tables[j] =
                  IF j = i THEN hp.tables[Len(hp.tables)] ELSE hp.tables[j]
<1> DEFINE ts == hp.tables
           n == Len(ts)
           filled == [ts EXCEPT ![i] = ts[n]]
           us == SubSeq(filled, 1, n - 1)
           hq == Reclaimed(hp, i)
<1>0. /\ hp \in Heap /\ TablesSound(ts) /\ n \in Nat /\ n > 1
      /\ DOMAIN ts = 1 .. n /\ ts \in Seq(Table) /\ i \in 1 .. n /\ n <= MaxTables
    BY DEF HeapRec, TablesSound
<1>1. filled \in Seq(Table) /\ Len(filled) = n
    BY <1>0
<1>2. \A j \in 1 .. n : filled[j] = IF j = i THEN ts[n] ELSE ts[j]
    BY <1>0
<1> HIDE DEF filled
<1>3. us \in Seq(Table) /\ Len(us) = n - 1 /\ DOMAIN us = 1 .. n - 1
    BY <1>0, <1>1
<1>4. \A j \in 1 .. n - 1 : us[j] = IF j = i THEN ts[n] ELSE ts[j]
    <2>1. \A j \in 1 .. n - 1 : us[j] = filled[j]
        BY <1>0, <1>1
    <2>2. QED
        BY <1>0, <1>2, <2>1
<1>5. hq = [hp EXCEPT !.tables = us]
    BY <1>0 DEF Reclaimed, us, filled
<1> HIDE DEF us
<1> DEFINE k(j) == IF j = i THEN n ELSE j
<1>6. \A j \in 1 .. n - 1 : k(j) \in DOMAIN ts /\ k(j) # i /\ us[j] = ts[k(j)]
    BY <1>0, <1>4
<1>7. \A j, l \in 1 .. n - 1 : k(j) = k(l) => j = l
    BY <1>0
<1>8. TablesSound(us)
    <2>3. \A j \in DOMAIN us : us[j].id \in Ids
        BY <1>0, <1>3, <1>6 DEF TablesSound
    <2>4. ASSUME NEW j \in DOMAIN us, NEW l \in DOMAIN us, us[j].id = us[l].id PROVE j = l
        <3>1. j \in 1 .. n - 1 /\ l \in 1 .. n - 1
            BY <1>3
        <3>2. k(j) \in DOMAIN ts /\ k(l) \in DOMAIN ts /\ us[j] = ts[k(j)] /\ us[l] = ts[k(l)]
            BY <1>6, <3>1
        <3>3. \A x, y \in DOMAIN ts : ts[x].id = ts[y].id => x = y
            BY <1>0 DEF TablesSound
        <3>4. ts[k(j)].id = ts[k(l)].id
            BY <2>4, <3>2
        <3>5. k(j) = k(l)
            BY <3>2, <3>3, <3>4
        <3>6. QED
            BY <1>7, <3>1, <3>5
    <2>5. \A j \in DOMAIN us : \A e \in Entries : us[j].slot[e].state = "free"
              => us[j].slot[e] = FreeSlot
        BY <1>0, <1>3, <1>6 DEF TablesSound
    <2>6. Len(us) \in 1 .. MaxTables
        BY <1>0, <1>3, SizeFacts
    <2>7. QED
        BY <1>3, <2>3, <2>4, <2>5, <2>6 DEF TablesSound
<1>9. /\ hq \in Heap /\ hq.tables = us /\ hq.mem = hp.mem /\ hq.root = hp.root
      /\ hq.reserved = hp.reserved /\ hq.live = hp.live
    BY <1>0, <1>3, <1>5 DEF Heap
<1> HIDE DEF hq
<1>10. View(hq) = View(hp)
    <2>1. ASSUME NEW l \in DOMAIN ts, l # i PROVE \E j \in DOMAIN us : us[j] = ts[l]
        <3>1. CASE l = n
            <4>1. i \in 1 .. n - 1 /\ us[i] = ts[n]
                BY <1>0, <1>4, <2>1, <3>1
            <4>2. QED
                BY <1>3, <3>1, <4>1
        <3>2. CASE l # n
            <4>1. l \in 1 .. n - 1 /\ us[l] = ts[l]
                BY <1>0, <1>4, <2>1, <3>2
            <4>2. QED
                BY <1>3, <4>1
        <3>3. QED
            BY <3>1, <3>2
    <2>2. \A j \in DOMAIN us : \E l \in DOMAIN ts : us[j] = ts[l]
        BY <1>3, <1>6
    <2>3. \A l \in DOMAIN hp.tables :
               \/ \E j \in DOMAIN hq.tables : hq.tables[j] = hp.tables[l]
               \/ \A e \in Entries : hp.tables[l].slot[e] = FreeSlot
        BY <1>9, <2>1
    <2>4. QED
        BY <1>0, <1>8, <1>9, <2>2, <2>3, SameSlots
<1>11. NoneEmpty(us)
    BY <1>3, <1>6 DEF NoneEmpty
<1>12. HeapRec(hq)
    BY <1>8, <1>9 DEF HeapRec
<1>13. hq = [hp EXCEPT !.tables = hq.tables]
    BY <1>5, <1>9
<1>14. QED
    BY <1>3, <1>4, <1>9, <1>10, <1>11, <1>12, <1>13 DEF hq

\* The second assignment to a slot is the one that stays.
LEMMA WithSlotTwice ==
    ASSUME NEW hp, HeapRec(hp), NEW h \in Handles, Present(hp.tables, h),
           NEW s \in Slot, NEW t \in Slot, s.state = "free" => s = FreeSlot
    PROVE  WithSlot(WithSlot(hp, h, s), h, t) = WithSlot(hp, h, t)
<1> DEFINE ts == hp.tables
           e == Entry(h)
           us == WithSlot(hp, h, s).tables
<1>0. hp \in Heap /\ TablesSound(ts) /\ "tables" \in DOMAIN hp
    BY DEF HeapRec, Heap
<1>1. PICK i \in DOMAIN ts :
        /\ ts[i].id = TableId(h)
        /\ TableIndex(ts, TableId(h)) = i
        /\ e \in Entries
        /\ h = HandleOf(ts[i].id, e)
    BY <1>0, PresentAt
<1>2. TablesSound(us) /\ Present(us, h) /\ Len(us) = Len(ts)
    BY WithSlotIs DEF SameBut
<1>3. us = [ts EXCEPT ![i].slot[e] = s]
    BY <1>0, <1>1 DEF WithSlot, PutSlot
<1>4. ts[i] \in Table
    BY <1>0 DEF TablesSound
<1>5. i \in DOMAIN us /\ us[i].id = TableId(h)
    BY <1>1, <1>3, <1>4 DEF Table
<1>6. TableIndex(us, TableId(h)) = i
    <2>1. \A k \in DOMAIN us : TableIndex(us, us[k].id) = k
        BY <1>2, IndexIs
    <2>2. QED
        BY <1>5, <2>1
<1>7. [us EXCEPT ![i].slot[e] = t] = [ts EXCEPT ![i].slot[e] = t]
    <2> DEFINE a == ts[i]
    <2>1. [[a EXCEPT !.slot[e] = s] EXCEPT !.slot[e] = t] = [a EXCEPT !.slot[e] = t]
        <3>1. a = [id |-> a.id, slot |-> a.slot] /\ a.slot \in [Entries -> Slot]
            BY <1>4 DEF Table
        <3>2. [[a.slot EXCEPT ![e] = s] EXCEPT ![e] = t] = [a.slot EXCEPT ![e] = t]
            BY <3>1
        <3> DEFINE f == a.slot
                   n == a.id
        <3> HIDE DEF a
        <3>3. a = [id |-> n, slot |-> f]
            BY <3>1
        <3>4. [[f EXCEPT ![e] = s] EXCEPT ![e] = t] = [f EXCEPT ![e] = t]
            BY <3>2
        <3> HIDE DEF f, n
        <3>5. [a EXCEPT !.slot[e] = s] = [id |-> n, slot |-> [f EXCEPT ![e] = s]]
            BY <3>3
        <3>6. [a EXCEPT !.slot[e] = t] = [id |-> n, slot |-> [f EXCEPT ![e] = t]]
            BY <3>3
        <3>7. [[id |-> n, slot |-> [f EXCEPT ![e] = s]] EXCEPT !.slot[e] = t]
                = [id |-> n, slot |-> [[f EXCEPT ![e] = s] EXCEPT ![e] = t]]
            OBVIOUS
        <3>8. QED
            BY <3>4, <3>5, <3>6, <3>7
    <2> DEFINE x == [a EXCEPT !.slot[e] = s]
               y == [a EXCEPT !.slot[e] = t]
    <2>2. us = [ts EXCEPT ![i] = x]
        BY <1>3
    <2>3. [ts EXCEPT ![i].slot[e] = t] = [ts EXCEPT ![i] = y]
        OBVIOUS
    <2>4. us[i] = x
        BY <1>1, <2>2
    <2>5. [us EXCEPT ![i].slot[e] = t] = [us EXCEPT ![i] = [x EXCEPT !.slot[e] = t]]
        <3>1. [us EXCEPT ![i].slot[e] = t] = [us EXCEPT ![i] = [us[i] EXCEPT !.slot[e] = t]]
            OBVIOUS
        <3> HIDE DEF x
        <3>2. QED
            BY <2>4, <3>1
    <2>6. [x EXCEPT !.slot[e] = t] = y
        BY <2>1
    <2> HIDE DEF x, y
    <2>7. [[ts EXCEPT ![i] = x] EXCEPT ![i] = y] = [ts EXCEPT ![i] = y]
        OBVIOUS
    <2>8. QED
        BY <2>2, <2>3, <2>5, <2>6, <2>7
<1>8. PutSlot(us, h, t) = PutSlot(ts, h, t)
    BY <1>1, <1>6, <1>7 DEF PutSlot
<1>9. WithSlot(hp, h, s) = [hp EXCEPT !.tables = us]
    BY WithSlotIs
<1>10. WithSlot(WithSlot(hp, h, s), h, t) = [WithSlot(hp, h, s) EXCEPT !.tables = PutSlot(us, h, t)]
    BY DEF WithSlot
<1>11. WithSlot(hp, h, t) = [hp EXCEPT !.tables = PutSlot(ts, h, t)]
    BY DEF WithSlot
<1> HIDE DEF us, ts
<1>12. [[hp EXCEPT !.tables = us] EXCEPT !.tables = PutSlot(us, h, t)]
           = [hp EXCEPT !.tables = PutSlot(us, h, t)]
    OBVIOUS
<1>13. QED
    BY <1>8, <1>9, <1>10, <1>11, <1>12

\* An assignment of what is there changes nothing.
LEMMA WithSlotSame ==
    ASSUME NEW hp, HeapRec(hp), NEW h \in Handles, Present(hp.tables, h)
    PROVE  WithSlot(hp, h, View(hp)[h]) = hp
<1> DEFINE ts == hp.tables
           e == Entry(h)
           s == View(hp)[h]
<1>0. hp \in Heap /\ TablesSound(ts)
    BY DEF HeapRec
<1>1. PICK i \in DOMAIN ts :
        /\ TableIndex(ts, TableId(h)) = i
        /\ e \in Entries
        /\ s = ts[i].slot[e]
    BY <1>0, PresentAt
<1>2. ts[i] \in Table
    BY <1>0 DEF TablesSound
<1> HIDE DEF s
<1>3. [ts EXCEPT ![i].slot[e] = s] = ts
    <2> DEFINE a == ts[i]
    <2>1. [a EXCEPT !.slot[e] = s] = a
        <3>1. a = [id |-> a.id, slot |-> a.slot] /\ a.slot \in [Entries -> Slot]
            BY <1>2 DEF Table
        <3> DEFINE f == a.slot
                   n == a.id
        <3>2. [f EXCEPT ![e] = s] = f
            BY <1>1, <3>1
        <3> HIDE DEF a
        <3>3. a = [id |-> n, slot |-> f]
            BY <3>1
        <3> HIDE DEF f, n
        <3>5. [a EXCEPT !.slot[e] = s] = [id |-> n, slot |-> [f EXCEPT ![e] = s]]
            BY <3>3
        <3>8. QED
            BY <3>2, <3>3, <3>5
    <2>2. [ts EXCEPT ![i].slot[e] = s] = [ts EXCEPT ![i] = [a EXCEPT !.slot[e] = s]]
        OBVIOUS
    <2>3. [ts EXCEPT ![i] = a] = ts
        BY <1>0, <1>1 DEF TablesSound
    <2> HIDE DEF a
    <2>4. QED
        BY <2>1, <2>2, <2>3
<1>4. PutSlot(ts, h, s) = ts
    BY <1>1, <1>3 DEF PutSlot
<1>5. WithSlot(hp, h, s) = [hp EXCEPT !.tables = PutSlot(ts, h, s)]
    BY DEF WithSlot
<1>6. [hp EXCEPT !.tables = ts] = hp
    BY <1>0 DEF Heap
<1>7. QED
    BY <1>4, <1>5, <1>6 DEF s

\* A slot's table, with the slot set.
LEMMA WithSlotAt ==
    ASSUME NEW hp, HeapRec(hp), NEW h \in Handles, Present(hp.tables, h), NEW s \in Slot,
           s.state = "free" => s = FreeSlot
    PROVE  LET k == TableIndex(hp.tables, TableId(h))
               us == WithSlot(hp, h, s).tables
           IN  /\ k \in DOMAIN hp.tables /\ DOMAIN us = DOMAIN hp.tables
               /\ Entry(h) \in Entries
               /\ us[k].slot[Entry(h)] = s
               /\ \A e \in Entries : e # Entry(h) => us[k].slot[e] = hp.tables[k].slot[e]
               /\ hp.tables[k].slot[Entry(h)] = View(hp)[h]
<1> DEFINE ts == hp.tables
           e == Entry(h)
           us == WithSlot(hp, h, s).tables
<1>0. hp \in Heap /\ TablesSound(ts) /\ "tables" \in DOMAIN hp
    BY DEF HeapRec, Heap
<1>1. PICK i \in DOMAIN ts :
        /\ TableIndex(ts, TableId(h)) = i
        /\ e \in Entries
        /\ View(hp)[h] = ts[i].slot[e]
    BY <1>0, PresentAt
<1>3. us = [ts EXCEPT ![i].slot[e] = s]
    BY <1>0, <1>1 DEF WithSlot, PutSlot
<1>4. ts[i] \in Table
    BY <1>0 DEF TablesSound
<1>5. us[i] = [ts[i] EXCEPT !.slot[e] = s] /\ DOMAIN us = DOMAIN ts
    BY <1>1, <1>3
<1>6. us[i].slot = [ts[i].slot EXCEPT ![e] = s]
    BY <1>4, <1>5 DEF Table
<1>7. ts[i].slot \in [Entries -> Slot]
    BY <1>4 DEF Table
<1>8. us[i].slot[e] = s /\ \A f \in Entries : f # e => us[i].slot[f] = ts[i].slot[f]
    BY <1>1, <1>6, <1>7
<1> HIDE DEF us
<1>9. QED
    BY <1>1, <1>5, <1>8 DEF us

\* The heap r has room for one more descriptor, and h is the slot it will be in.
\* If a table had to be pushed, the bytes it took are those above the metadata.
Taken(hp, r, h) ==
    /\ HeapRec(r) /\ View(r) = View(hp)
    /\ r.root = hp.root /\ r.reserved = hp.reserved /\ r.live = hp.live
    /\ \/ r = hp
       \/ /\ Len(hp.tables) < MaxTables /\ BottomFreeSpan(hp) >= TableBytes
          /\ Len(r.tables) = Len(hp.tables) + 1
    /\ h \in Handles /\ Present(r.tables, h) /\ View(hp)[h] = FreeSlot
    /\ \A s \in Slot : s.state # "free" => NoneEmpty(WithSlot(r, h, s).tables)
    /\ \A b \in Bytes : \/ r.mem[b] = hp.mem[b]
                        \/ /\ Len(r.tables) = Len(hp.tables) + 1
                           /\ b \in MetadataTop(hp) .. MetadataTop(hp) + TableBytes - 1

\* reserve_descriptor_slot_: whether or not it pushes a table, the slot is free and the
\* tables will be sound once it is used.
LEMMA RoomIs ==
    ASSUME NEW hp, HeapRec(hp), NoneEmpty(hp.tables), CanReserveSlot(hp)
    PROVE  /\ Taken(hp, WithRoom(hp), LowestFreeSlot(WithRoom(hp)))
           /\ RoomyTables(hp) = {} =>
                /\ WithRoom(hp) = Pushed(hp) /\ Len(hp.tables) < MaxTables
                /\ TableIndex(Pushed(hp).tables, TableId(LowestFreeSlot(Pushed(hp))))
                       = Len(hp.tables) + 1
<1> DEFINE r == WithRoom(hp)
           n == Len(hp.tables)
<1>0. n \in Nat /\ DOMAIN hp.tables = 1 .. n
    BY DEF HeapRec, TablesSound
<1>1. RoomyTables(hp) = {} => CanPush(hp)
    BY DEF CanReserveSlot
<1>2. RoomyTables(hp) # {} => r = hp
    BY DEF WithRoom
<1>3. RoomyTables(hp) = {} => /\ r = Pushed(hp)
                              /\ n < MaxTables /\ BottomFreeSpan(hp) >= TableBytes
    BY <1>1 DEF WithRoom, CanPush
<1>4. /\ HeapRec(r) /\ View(r) = View(hp)
      /\ r.root = hp.root /\ r.reserved = hp.reserved /\ r.live = hp.live
    BY <1>2, <1>3, PushedIs
<1>5. RoomyTables(hp) = {} =>
        /\ Len(r.tables) = n + 1
        /\ \A i \in DOMAIN hp.tables : r.tables[i] = hp.tables[i]
        /\ FreeEntries(r.tables[n + 1]) = Entries
    <2> SUFFICES ASSUME RoomyTables(hp) = {}
                 PROVE  /\ Len(r.tables) = n + 1
                        /\ \A i \in DOMAIN hp.tables : r.tables[i] = hp.tables[i]
                        /\ FreeEntries(r.tables[n + 1]) = Entries
        OBVIOUS
    <2>1. r = Pushed(hp) /\ n < MaxTables
        BY <1>3
    <2>2. FreshTableId(hp) \in Nat
        BY <2>1, FreshIs DEF HeapRec, Ids
    <2>3. /\ Len(Pushed(hp).tables) = n + 1
          /\ \A i \in DOMAIN hp.tables : Pushed(hp).tables[i] = hp.tables[i]
          /\ Pushed(hp).tables[n + 1] = EmptyTable(FreshTableId(hp))
        BY <2>1, PushedIs
    <2>4. FreeEntries(EmptyTable(FreshTableId(hp))) = Entries
        BY <2>2, EmptyTableIs
    <2>5. QED
        BY <2>1, <2>3, <2>4
<1>6. Entries # {} /\ Entries \subseteq Nat
    <2>1. DescriptorsPerTable \in Nat \ {0}
        BY SizeFacts
    <2>2. 0 \in 0 .. DescriptorsPerTable - 1
        BY <2>1
    <2>3. QED
        BY <2>1, <2>2 DEF Entries
<1>7. /\ TablesSound(r.tables) /\ DOMAIN r.tables = 1 .. Len(r.tables)
      /\ Len(r.tables) \in Nat
    BY <1>4 DEF HeapRec, TablesSound
<1>8. RoomyTables(r) # {} /\ RoomyTables(r) \subseteq Nat
    <2>1. RoomyTables(r) \subseteq DOMAIN r.tables
        BY DEF RoomyTables
    <2>2. RoomyTables(hp) = {} => n + 1 \in RoomyTables(r)
        <3> SUFFICES ASSUME RoomyTables(hp) = {} PROVE n + 1 \in RoomyTables(r)
            OBVIOUS
        <3>1. n + 1 \in DOMAIN r.tables /\ FreeEntries(r.tables[n + 1]) # {}
            BY <1>0, <1>5, <1>6, <1>7
        <3>2. QED
            BY <3>1 DEF RoomyTables
    <2>3. QED
        BY <1>2, <1>7, <2>1, <2>2
<1> DEFINE k == Least(RoomyTables(r))
           e == Least(FreeEntries(r.tables[k]))
           h == LowestFreeSlot(r)
<1>9. k \in RoomyTables(r)
    BY <1>8, LeastIs
<1>10. k \in DOMAIN r.tables /\ FreeEntries(r.tables[k]) # {}
    BY <1>9 DEF RoomyTables
<1>11. e \in FreeEntries(r.tables[k])
    <2>1. FreeEntries(r.tables[k]) \in SUBSET Nat
        BY <1>6 DEF FreeEntries
    <2>2. QED
        BY <1>10, <2>1, LeastIs
<1>12. e \in Entries /\ r.tables[k].slot[e].state = "free"
    BY <1>11 DEF FreeEntries
<1>13. h = HandleOf(r.tables[k].id, e)
    BY DEF LowestFreeSlot
<1> HIDE DEF r, k, e, h
<1>14. /\ h \in Handles /\ Present(r.tables, h) /\ Entry(h) = e
       /\ TableIndex(r.tables, TableId(h)) = k
       /\ View(r)[h] = r.tables[k].slot[e]
    BY <1>7, <1>10, <1>12, <1>13, SlotAt
<1>15. View(hp)[h] = FreeSlot
    BY <1>4, <1>12, <1>14, ViewIs DEF HeapRec
<1>16. RoomyTables(hp) = {} => k = n + 1
    <2> SUFFICES ASSUME RoomyTables(hp) = {}, k # n + 1 PROVE FALSE
        OBVIOUS
    <2>1. k \in DOMAIN hp.tables
        BY <1>0, <1>5, <1>7, <1>10
    <2>2. FreeEntries(hp.tables[k]) # {}
        BY <1>5, <1>10, <2>1
    <2>3. QED
        BY <2>1, <2>2 DEF RoomyTables
<1>17. ASSUME NEW s \in Slot, s.state # "free"
       PROVE  NoneEmpty(WithSlot(r, h, s).tables)
    <2>1. CASE RoomyTables(hp) # {}
        <3>1. r = hp
            BY <1>2, <2>1 DEF r
        <3>2. QED
            BY <1>4, <1>14, <1>17, <3>1, WithSlotIs
    <2>2. CASE RoomyTables(hp) = {}
        <3> DEFINE us == WithSlot(r, h, s).tables
        <3>1. /\ DOMAIN us = DOMAIN r.tables /\ us[k].slot[e] = s
              /\ \A j \in DOMAIN r.tables : j # k => us[j] = r.tables[j]
            BY <1>4, <1>14, <1>17, WithSlotAt, WithSlotIs
        <3>2. ASSUME NEW j \in DOMAIN us PROVE FreeEntries(us[j]) # Entries
            <4>1. CASE j = k
                BY <1>12, <1>17, <3>1, <4>1 DEF FreeEntries
            <4>2. CASE j # k
                <5>1. us[j] = r.tables[j] /\ j \in DOMAIN hp.tables
                    BY <1>0, <1>5, <1>7, <1>16, <2>2, <3>1, <4>2
                <5>2. FreeEntries(us[j]) = {}
                    BY <1>5, <2>2, <5>1 DEF RoomyTables
                <5>3. QED
                    BY <1>6, <5>2
            <4>3. QED
                BY <4>1, <4>2
        <3>3. QED
            BY <3>2 DEF NoneEmpty
    <2>3. QED
        BY <2>1, <2>2
<1>18. ASSUME NEW b \in Bytes
       PROVE  \/ r.mem[b] = hp.mem[b]
              \/ /\ Len(r.tables) = n + 1
                 /\ b \in MetadataTop(hp) .. MetadataTop(hp) + TableBytes - 1
    <2>1. CASE RoomyTables(hp) # {}
        BY <1>2, <2>1 DEF r
    <2>2. CASE RoomyTables(hp) = {}
        <3>1. r = Pushed(hp) /\ n < MaxTables
            BY <1>3, <2>2 DEF r
        <3>2. Pushed(hp).mem[b] =
                  IF b \in MetadataTop(hp) .. MetadataTop(hp) + TableBytes - 1
                  THEN Junk ELSE hp.mem[b]
            BY <3>1, PushedIs
        <3>3. QED
            BY <1>5, <2>2, <3>1, <3>2
    <2>3. QED
        BY <2>1, <2>2
<1>19. \/ r = hp
       \/ /\ n < MaxTables /\ BottomFreeSpan(hp) >= TableBytes
          /\ Len(r.tables) = n + 1
    BY <1>2, <1>3, <1>5 DEF r
<1>20. Taken(hp, r, h)
    BY <1>4, <1>14, <1>15, <1>17, <1>18, <1>19 DEF Taken
<1>21. RoomyTables(hp) = {} => /\ r = Pushed(hp) /\ n < MaxTables
                               /\ TableIndex(r.tables, TableId(h)) = n + 1
    BY <1>3, <1>14, <1>16 DEF r
<1>22. QED
    BY <1>20, <1>21 DEF r, h

\* A slot becomes free, as it does after a make that found no room and at the end
\* of release_, and its table goes when it was the last one in use there.
LEMMA ReleasedSlotIs ==
    ASSUME NEW hp, HeapRec(hp), NEW h \in Handles, Present(hp.tables, h), NoneEmpty(hp.tables)
    PROVE  /\ HeapRec(SlotReleased(hp, h)) /\ NoneEmpty(SlotReleased(hp, h).tables)
           /\ View(SlotReleased(hp, h)) = [View(hp) EXCEPT ![h] = FreeSlot]
           /\ Len(SlotReleased(hp, h).tables) <= Len(hp.tables)
           /\ SlotReleased(hp, h).root = hp.root
           /\ SlotReleased(hp, h).reserved = hp.reserved
           /\ SlotReleased(hp, h).live = hp.live
           /\ SlotReleased(hp, h).mem = hp.mem
           /\ SlotReleased(hp, h) = [hp EXCEPT !.tables = SlotReleased(hp, h).tables]
<1> DEFINE freed == WithSlot(hp, h, FreeSlot)
           i == TableIndex(hp.tables, TableId(h))
           hq == SlotReleased(hp, h)
           e == Entry(h)
<1>1. FreeSlot \in Slot
    BY FreeSlotTyped
<1>2. /\ SameBut(hp, freed) /\ View(freed) = [View(hp) EXCEPT ![h] = FreeSlot]
      /\ freed = [hp EXCEPT !.tables = freed.tables]
      /\ \A j \in DOMAIN hp.tables : j # i => freed.tables[j] = hp.tables[j]
    BY <1>1, WithSlotIs
<1>3. i \in DOMAIN hp.tables /\ DOMAIN freed.tables = DOMAIN hp.tables
      /\ e \in Entries /\ freed.tables[i].slot[e] = FreeSlot
    BY <1>1, WithSlotAt
<1>4. hq = IF FreeEntries(freed.tables[i]) = Entries THEN Reclaimed(freed, i) ELSE freed
    BY DEF SlotReleased
<1> HIDE DEF freed, i, hq
<1>5. /\ HeapRec(freed) /\ Len(freed.tables) = Len(hp.tables) /\ freed.root = hp.root
      /\ freed.reserved = hp.reserved /\ freed.live = hp.live /\ freed.mem = hp.mem
    BY <1>2 DEF SameBut, HeapRec
<1>6. Len(hp.tables) \in Nat /\ Len(hp.tables) >= 1
    BY DEF HeapRec, TablesSound
<1>7. CASE FreeEntries(freed.tables[i]) # Entries
    <2>1. hq = freed
        BY <1>4, <1>7
    <2>2. NoneEmpty(freed.tables)
        <3> SUFFICES ASSUME NEW j \in DOMAIN freed.tables, FreeEntries(freed.tables[j]) = Entries
                     PROVE  Len(freed.tables) = 1
            BY DEF NoneEmpty
        <3>1. j # i /\ freed.tables[j] = hp.tables[j] /\ j \in DOMAIN hp.tables
            BY <1>2, <1>3, <1>7
        <3>2. QED
            BY <1>5, <3>1 DEF NoneEmpty
    <2>3. QED
        BY <1>2, <1>5, <1>6, <2>1, <2>2 DEF hq
<1>8. CASE FreeEntries(freed.tables[i]) = Entries /\ Len(hp.tables) = 1
    <2>1. hq = freed
        BY <1>4, <1>5, <1>8 DEF Reclaimed
    <2>2. NoneEmpty(freed.tables)
        BY <1>5, <1>8 DEF NoneEmpty
    <2>3. QED
        BY <1>2, <1>5, <1>6, <2>1, <2>2 DEF hq
<1>9. CASE FreeEntries(freed.tables[i]) = Entries /\ Len(hp.tables) > 1
    <2>1. hq = Reclaimed(freed, i)
        BY <1>4, <1>9
    <2>2. \A f \in Entries : freed.tables[i].slot[f] = FreeSlot
        BY <1>3, <1>5, <1>9 DEF HeapRec, TablesSound, FreeEntries
    <2>3. \A j \in DOMAIN freed.tables : j # i => FreeEntries(freed.tables[j]) # Entries
        BY <1>2, <1>3, <1>9 DEF NoneEmpty
    <2>4. Len(freed.tables) > 1 /\ i \in DOMAIN freed.tables
        BY <1>3, <1>5, <1>9
    <2>5. /\ HeapRec(hq) /\ NoneEmpty(hq.tables)
          /\ Len(hq.tables) = Len(freed.tables) - 1
          /\ View(hq) = View(freed)
          /\ hq.root = freed.root /\ hq.reserved = freed.reserved
          /\ hq.live = freed.live /\ hq.mem = freed.mem
          /\ hq = [freed EXCEPT !.tables = hq.tables]
        BY <1>5, <2>1, <2>2, <2>3, <2>4, ReclaimedIs
    <2>6. hq = [hp EXCEPT !.tables = hq.tables]
        <3>1. hq = [[hp EXCEPT !.tables = freed.tables] EXCEPT !.tables = hq.tables]
            BY <1>2, <2>5
        <3> DEFINE x == freed.tables
                   y == hq.tables
        <3>2. hq = [[hp EXCEPT !.tables = x] EXCEPT !.tables = y]
            BY <3>1
        <3> HIDE DEF x, y
        <3>3. hq = [hp EXCEPT !.tables = y]
            BY <3>2
        <3>4. QED
            BY <3>3 DEF y
    <2>7. QED
        BY <1>2, <1>5, <1>6, <2>5, <2>6 DEF hq
<1>10. Len(hp.tables) = 1 \/ Len(hp.tables) > 1
    <2>1. \A n \in Nat : n >= 1 => n = 1 \/ n > 1
        OBVIOUS
    <2>2. QED
        BY <1>6, <2>1
<1>11. QED
    BY <1>7, <1>8, <1>9, <1>10

\* A make that finds no room gives back its slot and, with it, the table it may
\* have pushed: the tables are as they were.
THEOREM GivenBack ==
    ASSUME NEW hp, HeapRec(hp), NoneEmpty(hp.tables), CanReserveSlot(hp),
           NEW s \in Slot, s.state # "free"
    PROVE  LET r == WithRoom(hp)
               h == LowestFreeSlot(r)
               hq == SlotReleased(WithSlot(r, h, s), h)
           IN  hq = [hp EXCEPT !.mem = r.mem] /\ hq.mem = r.mem
<1> DEFINE r == WithRoom(hp)
           h == LowestFreeSlot(r)
           taken == WithSlot(r, h, s)
           hq == SlotReleased(taken, h)
           n == Len(hp.tables)
           freed == WithSlot(taken, h, FreeSlot)
           i == TableIndex(taken.tables, TableId(h))
<1>1. Taken(hp, r, h)
    BY RoomIs
<1>2. RoomyTables(hp) = {} => r = Pushed(hp) /\ n < MaxTables
          /\ TableIndex(r.tables, TableId(h)) = n + 1
    BY RoomIs
<1>3. RoomyTables(hp) # {} => r = hp
    BY DEF WithRoom
<1> HIDE DEF r, h
<1>4. HeapRec(r) /\ h \in Handles /\ Present(r.tables, h) /\ View(r)[h] = FreeSlot
    BY <1>1 DEF Taken
<1>5. FreeSlot \in Slot
    BY FreeSlotTyped
<1>6. SameBut(r, taken)
    BY <1>4, WithSlotIs
<1>7. freed = r
    <2>1. freed = WithSlot(r, h, FreeSlot)
        BY <1>4, <1>5, WithSlotTwice
    <2>2. QED
        BY <1>4, <2>1, WithSlotSame
<1>8. i = TableIndex(r.tables, TableId(h)) /\ i \in DOMAIN r.tables
    <2> DEFINE k == TableIndex(r.tables, TableId(h))
               us == taken.tables
    <2>1. PICK j \in DOMAIN r.tables : r.tables[j].id = TableId(h)
              /\ TableIndex(r.tables, TableId(h)) = j
        BY <1>4, PresentAt DEF HeapRec
    <2>2. TablesSound(us) /\ Present(us, h)
        BY <1>4, <1>6 DEF SameBut
    <2>3. us = [r.tables EXCEPT ![j].slot[Entry(h)] = s]
        <3>1. "tables" \in DOMAIN r
            BY <1>4 DEF HeapRec, Heap
        <3>2. QED
            BY <2>1, <3>1 DEF WithSlot, PutSlot
    <2>4. r.tables[j] \in Table
        BY <1>4 DEF HeapRec, TablesSound
    <2>5. j \in DOMAIN us /\ us[j].id = TableId(h)
        BY <2>1, <2>3, <2>4 DEF Table
    <2>6. TableIndex(us, TableId(h)) = j
        <3>1. \A l \in DOMAIN us : TableIndex(us, us[l].id) = l
            BY <2>2, IndexIs
        <3>2. QED
            BY <2>5, <3>1
    <2>7. QED
        BY <2>1, <2>6
<1>9. hq = IF FreeEntries(r.tables[i]) = Entries THEN Reclaimed(r, i) ELSE r
    BY <1>7 DEF SlotReleased
<1> HIDE DEF hq, i
<1>10. hp \in Heap /\ n \in Nat /\ DOMAIN hp.tables = 1 .. n /\ n >= 1 /\ hp.tables \in Seq(Table)
    BY DEF HeapRec, TablesSound
<1>11. CASE RoomyTables(hp) # {}
    <2>1. r = hp
        BY <1>3, <1>11
    <2>2. hq = hp
        <3>1. CASE FreeEntries(r.tables[i]) # Entries
            BY <1>9, <2>1, <3>1
        <3>2. CASE FreeEntries(r.tables[i]) = Entries
            <4>1. Len(r.tables) = 1
                BY <1>8, <2>1, <3>2 DEF NoneEmpty
            <4>2. QED
                BY <1>9, <2>1, <3>2, <4>1 DEF Reclaimed
        <3>3. QED
            BY <3>1, <3>2
    <2>3. hp = [hp EXCEPT !.mem = hp.mem]
        BY <1>10 DEF Heap
    <2>4. QED
        BY <2>1, <2>2, <2>3 DEF hq, taken, r, h
<1>12. CASE RoomyTables(hp) = {}
    <2>1. r = Pushed(hp) /\ n < MaxTables /\ i = n + 1
        BY <1>2, <1>8, <1>12
    <2>2. FreshTableId(hp) \in Nat
        BY <2>1, FreshIs DEF HeapRec, Ids
    <2>3. /\ Len(r.tables) = n + 1
          /\ r.tables[n + 1] = EmptyTable(FreshTableId(hp))
          /\ r.tables = Append(hp.tables, EmptyTable(FreshTableId(hp)))
          /\ r = [hp EXCEPT !.tables = r.tables, !.mem = r.mem]
        BY <2>1, PushedIs
    <2>4. FreeEntries(r.tables[i]) = Entries
        BY <2>1, <2>2, <2>3, EmptyTableIs
    <2>5. hq = Reclaimed(r, n + 1)
        BY <1>9, <2>1, <2>4
    <2> DEFINE us == SubSeq([r.tables EXCEPT ![n + 1] = r.tables[n + 1]], 1, n)
    <2>6. hq = [r EXCEPT !.tables = us]
        <3>1. ~ (Len(r.tables) <= 1) /\ Len(r.tables) - 1 = n
                  /\ Len([r.tables EXCEPT ![n + 1] = r.tables[n + 1]]) - 1 = n
            BY <1>10, <2>3
        <3>2. QED
            BY <2>3, <2>5, <3>1 DEF Reclaimed
    <2>7. us = hp.tables
        <3>1. [r.tables EXCEPT ![n + 1] = r.tables[n + 1]] = r.tables
            BY <1>4 DEF HeapRec, TablesSound
        <3>2. EmptyTable(FreshTableId(hp)) \in Table
            BY <2>2, EmptyTableIs
        <3>3. SubSeq(r.tables, 1, n) = hp.tables
            BY <1>10, <2>3, <3>2
        <3>4. QED
            BY <3>1, <3>3
    <2> HIDE DEF us
    <2>8. hq = [hp EXCEPT !.mem = r.mem]
        <3> DEFINE x == r.tables
                   y == r.mem
                   z == hp.tables
        <3>1. hq = [[hp EXCEPT !.tables = x, !.mem = y] EXCEPT !.tables = z]
            BY <2>3, <2>6, <2>7
        <3> HIDE DEF x, y
        <3>2. hp = [hp EXCEPT !.tables = z]
            BY <1>10 DEF Heap
        <3> HIDE DEF z
        <3>3. [[hp EXCEPT !.tables = x, !.mem = y] EXCEPT !.tables = z]
                  = [[hp EXCEPT !.tables = z] EXCEPT !.mem = y]
            OBVIOUS
        <3>4. QED
            BY <3>1, <3>2, <3>3 DEF y
    <2>9. hq.mem = r.mem
        BY <1>10, <2>8 DEF Heap
    <2>10. QED
        BY <2>8, <2>9 DEF hq, taken, r, h
<1>13. QED
    BY <1>11, <1>12

-----------------------------------------------------------------------------
(***************************************************************************)
(* Totals.                                                                 *)
(***************************************************************************)
\* f lists the partial sums of s.
Sums(f, s) ==
    /\ f \in [0 .. Len(s) -> Int]
    /\ f[0] = 0
    /\ \A i \in 1 .. Len(s) : f[i] = f[i - 1] + s[i]

\* Partial sums exist, so that the recursive function in Total is one.
LEMMA SumsExist ==
    ASSUME NEW s \in Seq(Int)
    PROVE  \E f : Sums(f, s)
<1> DEFINE n == Len(s)
           Upto(m) == \E f \in [0 .. m -> Int] : f[0] = 0
               /\ \A i \in 1 .. m : f[i] = f[i - 1] + s[i]
           T == {m \in 0 .. n : Upto(m)}
<1>0. n \in Nat
    OBVIOUS
<1>1. 0 \in T
    <2>1. [i \in 0 .. 0 |-> 0] \in [0 .. 0 -> Int] /\ [i \in 0 .. 0 |-> 0][0] = 0
        OBVIOUS
    <2>2. 1 .. 0 = {}
        OBVIOUS
    <2>3. Upto(0)
        BY <2>1, <2>2
    <2>4. QED
        BY <1>0, <2>3
<1>2. ASSUME NEW m \in 1 .. n, m - 1 \in T PROVE m \in T
    <2>1. PICK f \in [0 .. m - 1 -> Int] : f[0] = 0 /\ \A i \in 1 .. m - 1 : f[i] = f[i - 1] + s[i]
        BY <1>2
    <2> DEFINE g == [i \in 0 .. m |-> IF i = m THEN f[m - 1] + s[m] ELSE f[i]]
    <2>2. s[m] \in Int /\ m - 1 \in 0 .. m - 1
        OBVIOUS
    <2>3. g \in [0 .. m -> Int] /\ g[0] = 0
        BY <2>1, <2>2
    <2>4. ASSUME NEW i \in 1 .. m PROVE g[i] = g[i - 1] + s[i]
        <3>1. CASE i = m
            BY <3>1
        <3>2. CASE i # m
            BY <2>1, <3>2
        <3>3. QED
            BY <3>1, <3>2
    <2> HIDE DEF g
    <2>5. Upto(m)
        BY <2>3, <2>4
    <2>6. m \in 0 .. n
        BY <1>0
    <2> HIDE DEF Upto, n
    <2>7. QED
        BY <2>5, <2>6
<1>3. n \in T
    <2> HIDE DEF T
    <2>1. 0 .. n \subseteq T
        BY <1>0, <1>1, <1>2, UpTo
    <2>2. QED
        BY <1>0, <2>1
<1>4. QED
    BY <1>3 DEF Sums

\* The total is the last partial sum.
LEMMA TotalIs ==
    ASSUME NEW s \in Seq(Int), NEW f, Sums(f, s)
    PROVE  Total(s) = f[Len(s)]
<1> DEFINE n == Len(s)
           sum[i \in 0 .. Len(s)] == IF i = 0 THEN 0 ELSE sum[i - 1] + s[i]
<1>0. n \in Nat
    OBVIOUS
<1>1. Total(s) = sum[n]
    BY DEF Total
<1>2. f = [i \in 0 .. Len(s) |-> IF i = 0 THEN 0 ELSE f[i - 1] + s[i]]
    <2> DEFINE g == [i \in 0 .. Len(s) |-> IF i = 0 THEN 0 ELSE f[i - 1] + s[i]]
    <2>1. ASSUME NEW i \in 0 .. Len(s) PROVE f[i] = g[i]
        BY DEF Sums
    <2>2. f \in [0 .. Len(s) -> Int]
        BY DEF Sums
    <2>3. QED
        BY <2>1, <2>2
<1>3. sum = [i \in 0 .. Len(s) |-> IF i = 0 THEN 0 ELSE sum[i - 1] + s[i]]
    BY <1>2
<1> HIDE DEF sum
<1>4. \A i \in 1 .. n : sum[i] = sum[i - 1] + s[i]
    <2> SUFFICES ASSUME NEW i \in 1 .. n PROVE sum[i] = sum[i - 1] + s[i]
        OBVIOUS
    <2>1. i \in 0 .. Len(s) /\ i # 0
        BY <1>0
    <2>2. sum[i] = IF i = 0 THEN 0 ELSE sum[i - 1] + s[i]
        BY <1>3, <2>1, Zenon
    <2>3. QED
        BY <2>1, <2>2
<1>5. sum[0] = 0
    <2>1. 0 \in 0 .. Len(s)
        BY <1>0
    <2>2. sum[0] = IF 0 = 0 THEN 0 ELSE sum[0 - 1] + s[0]
        BY <1>3, <2>1, Zenon
    <2>3. QED
        BY <2>2
<1> DEFINE T == {i \in 0 .. n : sum[i] = f[i]}
<1>6. 0 \in T
    BY <1>0, <1>5 DEF Sums
<1>7. ASSUME NEW i \in 1 .. n, i - 1 \in T PROVE i \in T
    BY <1>0, <1>4, <1>7 DEF Sums
<1>8. n \in T
    <2> HIDE DEF T
    <2>1. 0 .. n \subseteq T
        BY <1>0, <1>6, <1>7, UpTo
    <2>2. QED
        BY <1>0, <2>1
<1>9. QED
    BY <1>1, <1>8

\* s with x after its i-th element.
Inserted(s, i, x) ==
    [k \in 1 .. Len(s) + 1 |-> IF k <= i THEN s[k] ELSE IF k = i + 1 THEN x ELSE s[k - 1]]

\* Its elements, one by one.
LEMMA InsertedIs ==
    ASSUME NEW S, NEW s \in Seq(S), NEW i \in 0 .. Len(s), NEW x \in S
    PROVE  /\ Inserted(s, i, x) \in Seq(S)
           /\ Len(Inserted(s, i, x)) = Len(s) + 1
           /\ DOMAIN Inserted(s, i, x) = 1 .. Len(s) + 1
           /\ \A k \in 1 .. Len(s) + 1 : Inserted(s, i, x)[k] =
                IF k <= i THEN s[k] ELSE IF k = i + 1 THEN x ELSE s[k - 1]
           /\ Inserted(s, i, x)[i + 1] = x
<1> DEFINE n == Len(s)
           t == Inserted(s, i, x)
<1>1. n \in Nat /\ i \in 0 .. n
    OBVIOUS
<1>2. t = [k \in 1 .. n + 1 |-> IF k <= i THEN s[k] ELSE IF k = i + 1 THEN x ELSE s[k - 1]]
    BY DEF Inserted
<1>3. ASSUME NEW k \in 1 .. n + 1
                 PROVE (IF k <= i THEN s[k] ELSE IF k = i + 1 THEN x ELSE s[k - 1]) \in S
    <2>1. k <= i => k \in 1 .. n
        BY <1>1
    <2>2. ~ (k <= i) /\ k # i + 1 => k - 1 \in 1 .. n
        BY <1>1
    <2>3. QED
        BY <2>1, <2>2
<1>4. t \in [1 .. n + 1 -> S]
    BY <1>2, <1>3
<1>5. n + 1 \in Nat
    BY <1>1
<1> HIDE DEF n, t
<1>6. t \in Seq(S) /\ Len(t) = n + 1 /\ DOMAIN t = 1 .. n + 1
    BY <1>4, <1>5
<1>7. t[i + 1] = x
    BY <1>1, <1>2
<1>8. \A k \in 1 .. n + 1 : t[k] = IF k <= i THEN s[k] ELSE IF k = i + 1 THEN x ELSE s[k - 1]
    BY <1>2
<1>9. QED
    BY <1>6, <1>7, <1>8 DEF n, t

\* The total of a sequence of integers is one.
LEMMA TotalTyped ==
    ASSUME NEW s \in Seq(Int)
    PROVE  Total(s) \in Int
<1>1. PICK f : Sums(f, s)
    BY SumsExist
<1>2. Total(s) = f[Len(s)]
    BY <1>1, TotalIs
<1>3. QED
    BY <1>1, <1>2 DEF Sums

\* One more element adds its value to the total.
LEMMA TotalInserted ==
    ASSUME NEW s \in Seq(Int), NEW i \in 0 .. Len(s), NEW x \in Int
    PROVE  Total(Inserted(s, i, x)) = Total(s) + x
<1> DEFINE n == Len(s)
           t == Inserted(s, i, x)
<1>0. n \in Nat /\ i \in 0 .. n
    OBVIOUS
<1>1. PICK f : Sums(f, s)
    BY SumsExist
<1>2. /\ f \in [0 .. n -> Int] /\ f[0] = 0
      /\ \A k \in 1 .. n : f[k] = f[k - 1] + s[k]
    BY <1>1 DEF Sums
<1>3. /\ t \in Seq(Int) /\ Len(t) = n + 1
      /\ \A k \in 1 .. n + 1 : t[k] = IF k <= i THEN s[k] ELSE IF k = i + 1 THEN x ELSE s[k - 1]
    <2> DEFINE I == Int
    <2>1. s \in Seq(I) /\ x \in I
        OBVIOUS
    <2> HIDE DEF I, t, n
    <2>2. /\ Inserted(s, i, x) \in Seq(I)
          /\ Len(Inserted(s, i, x)) = Len(s) + 1
          /\ \A k \in 1 .. Len(s) + 1 : Inserted(s, i, x)[k] =
                   IF k <= i THEN s[k] ELSE IF k = i + 1 THEN x ELSE s[k - 1]
        BY <2>1, InsertedIs
    <2>3. QED
        BY <2>2 DEF n, t, I
<1>3a. \A k \in 1 .. n : s[k] \in Int
    OBVIOUS
<1>3b. \A k \in 0 .. n : f[k] \in Int
    BY <1>2
<1> DEFINE g == [k \in 0 .. n + 1 |-> IF k <= i THEN f[k] ELSE f[k - 1] + x]
<1> HIDE DEF n, t
<1>4. g \in [0 .. n + 1 -> Int]
    <2>1. ASSUME NEW k \in 0 .. n + 1 PROVE (IF k <= i THEN f[k] ELSE f[k - 1] + x) \in Int
        <3>1. k <= i => k \in 0 .. n
            BY <1>0
        <3>2. ~ (k <= i) => k - 1 \in 0 .. n
            BY <1>0
        <3>3. f[k - 1] \in Int => f[k - 1] + x \in Int
            OBVIOUS
        <3>4. QED
            BY <1>3b, <3>1, <3>2, <3>3
    <2>2. QED
        BY <2>1
<1>5. g[0] = 0
    BY <1>0, <1>2
<1>6. ASSUME NEW k \in 1 .. n + 1 PROVE g[k] = g[k - 1] + t[k]
    <2>1. CASE k <= i
        <3>1. k \in 1 .. n /\ k - 1 \in 0 .. n + 1 /\ k - 1 <= i /\ k \in 0 .. n + 1
            BY <1>0, <2>1
        <3>2. g[k] = f[k] /\ g[k - 1] = f[k - 1] /\ t[k] = s[k]
            BY <1>3, <2>1, <3>1
        <3>3. QED
            BY <1>2, <3>1, <3>2
    <2>2. CASE k = i + 1
        <3>1. k - 1 \in 0 .. n + 1 /\ k - 1 <= i /\ k \in 0 .. n + 1 /\ ~ (k <= i)
                  /\ k \in 1 .. n + 1
            BY <1>0, <2>2
        <3>2. g[k] = f[k - 1] + x /\ g[k - 1] = f[k - 1] /\ t[k] = x
            BY <1>3, <2>2, <3>1
        <3>3. QED
            BY <3>2
    <2>3. CASE k > i + 1
        <3>1. k - 1 \in 1 .. n /\ ~ (k <= i) /\ ~ (k - 1 <= i) /\ k # i + 1
            BY <1>0, <2>3
        <3>2. f[k - 1] = f[k - 2] + s[k - 1]
            BY <1>2, <3>1
        <3>3. g[k] = f[k - 1] + x /\ g[k - 1] = f[k - 2] + x /\ t[k] = s[k - 1]
            BY <1>0, <1>3, <3>1
        <3>4. f[k - 2] \in Int /\ s[k - 1] \in Int
            BY <1>0, <1>2, <2>3, <3>1 DEF n
        <3>5. QED
            BY <3>2, <3>3, <3>4
    <2>4. QED
        BY <1>0, <2>1, <2>2, <2>3
<1>7. Sums(g, t)
    <2> HIDE DEF g
    <2> QED BY <1>3, <1>4, <1>5, <1>6 DEF Sums
<1>8. Total(t) = g[n + 1]
    BY <1>3, <1>7, TotalIs
<1>9. g[n + 1] = f[n] + x
    BY <1>0
<1>10. Total(s) = f[n]
    BY <1>1, TotalIs DEF n
<1>11. QED
    BY <1>8, <1>9, <1>10 DEF t

\* A change of one element changes the total by the difference.
LEMMA TotalChanged ==
    ASSUME NEW s \in Seq(Int), NEW i \in 1 .. Len(s), NEW x \in Int,
           NEW t \in Seq(Int), Len(t) = Len(s),
           \A k \in 1 .. Len(s) : t[k] = IF k = i THEN x ELSE s[k]
    PROVE  Total(t) = (Total(s) - s[i]) + x
<1> DEFINE n == Len(s)
<1>0. n \in Nat /\ i \in 1 .. n
    OBVIOUS
<1>1. PICK f : Sums(f, s)
    BY SumsExist
<1>2. /\ f \in [0 .. n -> Int] /\ f[0] = 0
      /\ \A k \in 1 .. n : f[k] = f[k - 1] + s[k]
    BY <1>1 DEF Sums
<1> DEFINE d == x - s[i]
           g == [k \in 0 .. n |-> IF k < i THEN f[k] ELSE f[k] + d]
<1>3. d \in Int /\ x = s[i] + d
    OBVIOUS
<1>3a. \A k \in 1 .. n : s[k] \in Int
    OBVIOUS
<1>3b. \A k \in 0 .. n : f[k] \in Int
    BY <1>2
<1> HIDE DEF n, d
<1>4. g \in [0 .. n -> Int] /\ g[0] = 0
    <2>1. ASSUME NEW k \in 0 .. n PROVE (IF k < i THEN f[k] ELSE f[k] + d) \in Int
        <3>1. f[k] \in Int
            BY <1>3b
        <3>2. QED
            BY <1>3, <3>1
    <2>2. 0 \in 0 .. n /\ 0 < i
        BY <1>0
    <2>3. QED
        BY <1>2, <2>1, <2>2
<1>5. ASSUME NEW k \in 1 .. n PROVE g[k] = g[k - 1] + t[k]
    <2>00. k - 1 \in 0 .. n /\ k \in 0 .. n
        BY <1>0
    <2>0. k - 1 \in 0 .. n /\ k \in 0 .. n /\ f[k - 1] \in Int /\ s[k] \in Int /\ f[k] \in Int
          /\ f[k] = f[k - 1] + s[k] /\ t[k] = (IF k = i THEN x ELSE s[k])
        BY <1>2, <1>3a, <1>3b, <2>00 DEF n
    <2>1. CASE k < i
        BY <1>0, <2>0, <2>1
    <2>2. CASE k = i
        <3>1. g[k] = f[k] + d /\ g[k - 1] = f[k - 1] /\ t[k] = s[k] + d
            BY <1>0, <1>3, <2>0, <2>2, SMTT(30)
        <3>2. \A a, b \in Int : (a + b) + d = a + (b + d)
            BY <1>3
        <3> HIDE DEF g
        <3>3. QED
            BY <2>0, <3>1, <3>2
    <2>3. CASE k > i
        <3>0. ~ (k < i) /\ ~ (k - 1 < i) /\ k # i
            BY <1>0, <2>3
        <3>1. g[k] = f[k] + d /\ g[k - 1] = f[k - 1] + d /\ t[k] = s[k]
            BY <2>0, <3>0
        <3>2. \A a, b \in Int : (a + b) + d = (a + d) + b
            BY <1>3
        <3> HIDE DEF g
        <3>3. QED
            BY <2>0, <3>1, <3>2
    <2>4. QED
        BY <1>0, <2>1, <2>2, <2>3
<1>6. Sums(g, t)
    <2> HIDE DEF g
    <2> QED BY <1>4, <1>5 DEF Sums, n
<1>7. Total(t) = g[n]
    BY <1>6, TotalIs DEF n
<1>8. g[n] = f[n] + d
    BY <1>0
<1>9. Total(s) = f[n] /\ f[n] \in Int
    BY <1>0, <1>1, <1>2, TotalIs, SMTT(30) DEF n
<1>10. QED
    <2>1. s[i] \in Int
        BY <1>0 DEF n
    <2>2. QED
        BY <1>3, <1>7, <1>8, <1>9, <2>1

\* A total of numbers that are not negative bounds each of them.
LEMMA TotalBounds ==
    ASSUME NEW s \in Seq(Int), \A k \in 1 .. Len(s) : s[k] >= 0
    PROVE  Total(s) >= 0 /\ \A k \in 1 .. Len(s) : Total(s) >= s[k]
<1> DEFINE n == Len(s)
<1>0. n \in Nat
    OBVIOUS
<1>1. PICK f : Sums(f, s)
    BY SumsExist
<1>2. /\ f \in [0 .. n -> Int] /\ f[0] = 0
      /\ \A k \in 1 .. n : f[k] = f[k - 1] + s[k]
    BY <1>1 DEF Sums
<1>3. \A k \in 1 .. n : s[k] \in Int
    OBVIOUS
<1> DEFINE T == {m \in 0 .. n : f[m] >= 0 /\ \A k \in 1 .. m : f[m] >= s[k]}
<1>4. 0 \in T
    BY <1>0, <1>2
<1>5. ASSUME NEW m \in 1 .. n, m - 1 \in T PROVE m \in T
    <2>0. m - 1 \in 0 .. n /\ m \in 0 .. n
        BY <1>0
    <2>1. f[m] = f[m - 1] + s[m] /\ s[m] >= 0 /\ f[m - 1] >= 0
          /\ f[m - 1] \in Int /\ s[m] \in Int /\ f[m] \in Int
        BY <1>2, <1>3, <1>5, <2>0
    <2>2. ASSUME NEW k \in 1 .. m PROVE f[m] >= s[k]
        <3>1. CASE k = m
            BY <2>1, <3>1
        <3>2. CASE k # m
            <4>1. k \in 1 .. m - 1 /\ s[k] \in Int
                BY <1>0, <1>3, <3>2
            <4>2. f[m - 1] >= s[k]
                BY <1>5, <4>1
            <4>3. QED
                BY <2>1, <4>1, <4>2
        <3>3. QED
            BY <3>1, <3>2
    <2>3. QED
        BY <1>0, <2>1, <2>2
<1>6. n \in T
    <2> HIDE DEF T
    <2>1. 0 .. n \subseteq T
        BY <1>0, <1>4, <1>5, UpTo
    <2>2. QED
        BY <1>0, <2>1
<1>7. Total(s) = f[n]
    BY <1>1, TotalIs
<1>8. QED
    BY <1>6, <1>7

-----------------------------------------------------------------------------
(***************************************************************************)
(* The chain, and the layout it describes.                                 *)
(***************************************************************************)
\* There are finitely many handles.
LEMMA HandlesFinite ==
    /\ MaxTables * DescriptorsPerTable \in Nat
    /\ IsFiniteSet(Handles) /\ Cardinality(Handles) = MaxTables * DescriptorsPerTable
<1>1. MaxTables * DescriptorsPerTable \in Nat
    BY SizeFacts
<1>2. QED
    BY <1>1, IntervalCount DEF Handles

\* The null handle is no handle.
LEMMA NullIsNone == Null \notin Handles /\ Null = -1
BY DEF Null, Handles

\* A chain is as long as there are descriptors in use.
LEMMA ChainLength ==
    ASSUME NEW w, NEW root, NEW c, IsChain(w, root, c)
    PROVE  /\ Len(c) = Cardinality(InUse(w)) /\ IsFiniteSet(InUse(w))
           /\ Len(c) \in Nat /\ Len(c) <= MaxTables * DescriptorsPerTable
           /\ DOMAIN c = 1 .. Len(c)
<1> DEFINE n == Len(c)
           U == InUse(w)
<1>1. c \in Seq(Handles) /\ n \in Nat /\ DOMAIN c = 1 .. n
    BY DEF IsChain
<1>2. c \in [1 .. n -> U]
    <2>1. \A i \in 1 .. n : c[i] \in U
        BY <1>1 DEF IsChain, InUse
    <2>2. c = [i \in 1 .. n |-> c[i]]
        BY <1>1
    <2> HIDE DEF U, n
    <2>3. QED
        BY <2>1, <2>2
<1>3. \A h \in U : \E i \in 1 .. n : c[i] = h
    BY <1>1 DEF IsChain, InUse
<1>4. \A i, j \in 1 .. n : c[i] = c[j] => i = j
    BY <1>1 DEF IsChain
<1> HIDE DEF n, U
<1>5. c \in Surjection(1 .. n, U) /\ c \in Injection(1 .. n, U)
    BY <1>2, <1>3, <1>4 DEF Surjection, Injection, IsInjective
<1>6. IsFiniteSet(1 .. n) /\ Cardinality(1 .. n) = n
    BY <1>1, IntervalCount
<1>7. Cardinality(U) = n /\ IsFiniteSet(U)
    BY <1>5, <1>6, FS_Surjection
<1>8. U \in SUBSET Handles
    BY DEF U, InUse
<1>9. Cardinality(U) <= Cardinality(Handles)
    BY <1>8, HandlesFinite, FS_Subset
<1>10. QED
    BY <1>1, <1>7, <1>9, HandlesFinite DEF n, U

\* A sequence that lists the descriptors in use by their links is the one the
\* walk from the root finds.
LEMMA ChainIs ==
    ASSUME NEW hp, HeapRec(hp), NEW c, IsChain(View(hp), hp.root, c)
    PROVE  Chain(hp) = c
<1> DEFINE N == MaxTables * DescriptorsPerTable
           n == Len(c)
           w == View(hp)
           after == [h \in Handles \cup {Null} |->
                    IF h # Null /\ IsUsed(hp, h) THEN SlotOf(hp, h).next ELSE Null]
           at[k \in 0 .. N] == IF k = 0 THEN hp.root ELSE after[at[k - 1]]
           length == Cardinality({k \in 0 .. N - 1 : at[k] # Null})
<1>1. Chain(hp) = [k \in 1 .. length |-> at[k - 1]]
    BY DEF Chain
<1>2. n \in Nat /\ N \in Nat /\ n <= N /\ DOMAIN c = 1 .. n /\ c \in Seq(Handles)
    BY ChainLength, HandlesFinite DEF IsChain
<1>2a. \A i \in 1 .. n : /\ c[i] \in Handles /\ w[c[i]].state # "free"
                         /\ w[c[i]].next = IF i = n THEN Null ELSE c[i + 1]
    <2>1. \A i \in 1 .. n : c[i] \in Handles
        BY <1>2
    <2>2. QED
        BY <1>2, <2>1 DEF IsChain
<1>3. \A h \in Handles : w[h].state # "free" => after[h] = w[h].next
    <2> SUFFICES ASSUME NEW h \in Handles, w[h].state # "free" PROVE after[h] = w[h].next
        OBVIOUS
    <2>1. IsUsed(hp, h) /\ SlotOf(hp, h) = w[h]
        BY ViewIs DEF HeapRec
    <2>2. QED
        BY <2>1, NullIsNone
<1>4. after[Null] = Null
    OBVIOUS
<1>4a. hp.root = IF n = 0 THEN Null ELSE c[1]
    BY DEF IsChain
<1> HIDE DEF after, N, n, w
<1> DEFINE g == [k \in 0 .. N |-> IF k < n THEN c[k + 1] ELSE Null]
<1>5. ASSUME NEW k \in 0 .. N PROVE g[k] = IF k = 0 THEN hp.root ELSE after[g[k - 1]]
    <2>1. CASE k = 0
        <3>1. g[0] = IF 0 < n THEN c[1] ELSE Null
            BY <1>2
        <3>2. QED
            BY <1>2, <1>4a, <2>1, <3>1
    <2>2. CASE k > 0
        <3>0. k - 1 \in 0 .. N
            BY <1>2, <2>2
        <3>1. CASE k - 1 < n
            <4>1. g[k - 1] = c[k] /\ k \in 1 .. n
                BY <1>2, <2>2, <3>0, <3>1
            <4>2. c[k] \in Handles /\ w[c[k]].state # "free"
                  /\ w[c[k]].next = IF k = n THEN Null ELSE c[k + 1]
                BY <1>2a, <4>1
            <4>3. after[c[k]] = w[c[k]].next
                BY <1>3, <4>2
            <4>4. g[k] = IF k = n THEN Null ELSE c[k + 1]
                <5>1. k < n <=> k # n
                    BY <1>2, <4>1
                <5>2. QED
                    BY <5>1
            <4>5. QED
                BY <2>2, <4>1, <4>2, <4>3, <4>4
        <3>2. CASE ~ (k - 1 < n)
            <4>1. g[k - 1] = Null /\ g[k] = Null
                BY <1>2, <2>2, <3>0, <3>2
            <4>2. QED
                BY <1>4, <2>2, <4>1
        <3>3. QED
            BY <3>1, <3>2
    <2>3. QED
        BY <1>2, <2>1, <2>2
<1>6. g = [k \in 0 .. N |-> IF k = 0 THEN hp.root ELSE after[g[k - 1]]]
    <2> DEFINE f == [k \in 0 .. N |-> IF k = 0 THEN hp.root ELSE after[g[k - 1]]]
    <2>1. \A k \in 0 .. N : g[k] = f[k]
        BY <1>5
    <2>2. g = [k \in 0 .. N |-> g[k]]
        OBVIOUS
    <2>3. f = [k \in 0 .. N |-> f[k]]
        OBVIOUS
    <2> HIDE DEF f, g
    <2>4. f = g
        BY <2>1, <2>2, <2>3
    <2>5. QED
        BY <2>4 DEF f
<1>7. at = [k \in 0 .. N |-> IF k = 0 THEN hp.root ELSE after[at[k - 1]]]
    <2> HIDE DEF g, N
    <2>1. \E f : f = [k \in 0 .. N |-> IF k = 0 THEN hp.root ELSE after[f[k - 1]]]
        BY <1>6
    <2>2. QED
        BY <2>1
<1> HIDE DEF at
<1> DEFINE T == {k \in 0 .. N : at[k] = g[k]}
<1>8. 0 \in T
    <2>1. 0 \in 0 .. N
        BY <1>2
    <2>2. at[0] = IF 0 = 0 THEN hp.root ELSE after[at[0 - 1]]
        BY <1>7, <2>1, Zenon
    <2>3. g[0] = hp.root
        BY <1>5, <2>1
    <2> HIDE DEF g, N
    <2>4. QED
        BY <2>1, <2>2, <2>3
<1>9. ASSUME NEW k \in 1 .. N, k - 1 \in T PROVE k \in T
    <2> HIDE DEF g
    <2>1. k \in 0 .. N /\ k # 0
        BY <1>2
    <2>2. at[k] = IF k = 0 THEN hp.root ELSE after[at[k - 1]]
        BY <1>7, <2>1, Zenon
    <2>3. g[k] = IF k = 0 THEN hp.root ELSE after[g[k - 1]]
        BY <1>5, <2>1
    <2>4. QED
        BY <1>9, <2>1, <2>2, <2>3
<1>10. \A k \in 0 .. N : at[k] = g[k]
    <2> HIDE DEF T
    <2>1. 0 .. N \subseteq T
        BY <1>2, <1>8, <1>9, UpTo
    <2>2. QED
        BY <2>1 DEF T
<1>11. \A k \in 0 .. N - 1 : at[k] # Null <=> k < n
    <2> SUFFICES ASSUME NEW k \in 0 .. N - 1 PROVE at[k] # Null <=> k < n
        OBVIOUS
    <2>1. at[k] = IF k < n THEN c[k + 1] ELSE Null
        BY <1>2, <1>10
    <2>2. k < n => c[k + 1] \in Handles
        BY <1>2
    <2>3. QED
        BY <2>1, <2>2, NullIsNone
<1>12. {k \in 0 .. N - 1 : at[k] # Null} = 0 .. n - 1
    BY <1>2, <1>11
<1>13. length = n
    BY <1>2, <1>12, IntervalCount DEF n
<1>14. \A k \in 1 .. n : at[k - 1] = c[k]
    BY <1>2, <1>10
<1> HIDE DEF length, at
<1>15. [k \in 1 .. n |-> at[k - 1]] = c
    <2>1. c = [k \in 1 .. n |-> c[k]]
        BY <1>2
    <2>2. QED
        BY <1>14, <2>1
<1>16. QED
    BY <1>1, <1>13, <1>15

\* The metadata of a heap fits, and ends aligned.
LEMMA MetadataFits ==
    ASSUME NEW hp, HeapRec(hp)
    PROVE  /\ MetadataTop(hp) \in Nat /\ MetadataTop(hp) <= Capacity
           /\ MetadataTop(hp) % HeapAlignment = 0
<1>1. Len(hp.tables) \in 1 .. MaxTables
    BY DEF HeapRec, TablesSound
<1>2. \A t \in 1 .. MaxTables : /\ t * TableBytes \in Nat /\ t * TableBytes <= Capacity
                                /\ (t * TableBytes) % HeapAlignment = 0
    BY TopsFit
<1>3. QED
    BY <1>1, <1>2 DEF MetadataTop

\* The fields of a slot and the end of its reservation.
LEMMA SlotParts ==
    ASSUME NEW s \in Slot
    PROVE  /\ s.offset \in Int /\ 0 <= s.offset /\ s.offset < Capacity /\ s.offset \in Bytes
           /\ s.size \in Nat /\ s.size <= Capacity /\ s.refs \in Nat
           /\ s.next \in Handles \cup {Null}
           /\ s.state \in {"free", "live", "destroying"}
           /\ AlignUp(s.size) \in Nat /\ s.size <= AlignUp(s.size)
           /\ AlignUp(s.size) % HeapAlignment = 0
           /\ Past(s) = s.offset + AlignUp(s.size) /\ Past(s) \in Nat
<1>1. /\ s.offset \in Bytes /\ s.size \in 0 .. Capacity /\ s.refs \in Nat
      /\ s.next \in Handles \cup {Null}
      /\ s.state \in {"free", "live", "destroying"}
    BY DEF Slot
<1>2. Capacity \in Nat
    BY SizeFacts
<1>3. s.size \in Nat /\ s.size <= Capacity /\ s.offset \in Int /\ 0 <= s.offset
          /\ s.offset < Capacity
    BY <1>1, <1>2 DEF Bytes
<1>4. /\ AlignUp(s.size) \in Nat /\ s.size <= AlignUp(s.size)
      /\ AlignUp(s.size) % HeapAlignment = 0
    BY <1>3, AlignUpIs
<1>5. QED
    BY <1>1, <1>3, <1>4 DEF Past

\* The fields of an object of the chain.
LEMMA ChainParts ==
    ASSUME NEW w \in [Handles -> Slot], NEW root, NEW c, IsChain(w, root, c), SlotsSound(w),
           NEW i \in 1 .. Len(c)
    PROVE  /\ c[i] \in Handles /\ w[c[i]] \in Slot /\ w[c[i]].state # "free" /\ i \in DOMAIN c
           /\ w[c[i]].size >= 1 /\ AlignUp(w[c[i]].size) >= 1
           /\ w[c[i]].offset \in Nat /\ w[c[i]].size \in Nat /\ AlignUp(w[c[i]].size) \in Nat
           /\ Past(w[c[i]]) = w[c[i]].offset + AlignUp(w[c[i]].size)
           /\ Past(w[c[i]]) \in Nat /\ w[c[i]].offset < Past(w[c[i]])
<1>1. c \in Seq(Handles) /\ DOMAIN c = 1 .. Len(c) /\ i \in DOMAIN c
    BY DEF IsChain
<1>2. c[i] \in Handles /\ w[c[i]].state # "free"
    BY <1>1 DEF IsChain
<1>3. w[c[i]] \in Slot /\ w[c[i]].size >= 1
    BY <1>2 DEF SlotsSound
<1> DEFINE s == w[c[i]]
<1> HIDE DEF s
<1>4. /\ s.offset \in Int /\ 0 <= s.offset
      /\ s.size \in Nat /\ AlignUp(s.size) \in Nat /\ s.size <= AlignUp(s.size)
      /\ Past(s) = s.offset + AlignUp(s.size) /\ Past(s) \in Nat
    BY <1>3, SlotParts DEF s
<1>5. s.size >= 1
    BY <1>3 DEF s
<1>6. AlignUp(s.size) >= 1 /\ s.offset \in Nat /\ s.offset < Past(s)
    BY <1>4, <1>5
<1>7. QED
    BY <1>1, <1>2, <1>3, <1>4, <1>5, <1>6 DEF s

\* Of two objects, the later in the chain ends before the other begins.
LEMMA Apart ==
    ASSUME NEW w \in [Handles -> Slot], NEW root, NEW c, IsChain(w, root, c), SlotsSound(w),
           NEW top, LaidOut(w, top, c), NEW i \in 1 .. Len(c), NEW j \in 1 .. Len(c), i < j
    PROVE  Past(w[c[j]]) <= w[c[i]].offset
<1> DEFINE n == Len(c)
           off(k) == w[c[k]].offset
           tp(k) == Past(w[c[k]])
           T == {k \in 0 .. j - i : k # 0 => tp(i + k) <= off(i)}
<1>0. n \in Nat /\ i \in 1 .. n /\ j \in 1 .. n /\ DOMAIN c = 1 .. n /\ j - i \in Nat
    BY DEF IsChain
<1>1. \A k \in 1 .. n : off(k) \in Nat /\ tp(k) \in Nat /\ off(k) < tp(k)
    BY ChainParts
<1>2. \A k \in 1 .. n : k # 1 => tp(k) <= off(k - 1)
    BY <1>0 DEF LaidOut
<1> HIDE DEF n, off, tp
<1>3. 0 \in T
    BY <1>0
<1>4. ASSUME NEW k \in 1 .. j - i, k - 1 \in T PROVE k \in T
    <2>1. /\ i + k \in 1 .. n /\ i + k # 1 /\ (i + k) - 1 = i + (k - 1) /\ k \in 0 .. j - i
          /\ i + (k - 1) \in 1 .. n
        BY <1>0
    <2>2. tp(i + k) <= off(i + (k - 1))
        BY <1>2, <2>1
    <2>3. CASE k = 1
        BY <1>0, <2>1, <2>2, <2>3
    <2>4. CASE k # 1
        <3>1. tp(i + (k - 1)) <= off(i)
            BY <1>4, <2>1, <2>4
        <3>2. off(i + (k - 1)) < tp(i + (k - 1))
            BY <1>1, <2>1
        <3>3. off(i) \in Nat /\ tp(i + k) \in Nat /\ off(i + (k - 1)) \in Nat
                  /\ tp(i + (k - 1)) \in Nat
            BY <1>0, <1>1, <2>1
        <3>4. tp(i + k) <= off(i)
            BY <2>2, <3>1, <3>2, <3>3
        <3>5. QED
            BY <2>1, <3>4
    <2>5. QED
        BY <2>3, <2>4
<1>5. j - i \in T
    <2> HIDE DEF T
    <2>1. 0 .. j - i \subseteq T
        BY <1>0, <1>3, <1>4, UpTo
    <2>2. QED
        BY <1>0, <2>1
<1>6. tp(i + (j - i)) <= off(i) /\ i + (j - i) = j
    BY <1>0, <1>5
<1>7. QED
    BY <1>6 DEF off, tp

\* The code's reads of a used handle are reads of the view.
LEMMA Reads ==
    ASSUME NEW hp, HeapRec(hp), NEW h \in Handles, View(hp)[h].state # "free"
    PROVE  /\ SlotOf(hp, h) = View(hp)[h] /\ IsUsed(hp, h) /\ Present(hp.tables, h)
           /\ Base(hp, h) = View(hp)[h].offset
           /\ Size(hp, h) = View(hp)[h].size
           /\ ReservedSize(hp, h) = AlignUp(View(hp)[h].size)
           /\ TopOf(hp, h) = Past(View(hp)[h])
<1>1. SlotOf(hp, h) = View(hp)[h] /\ IsUsed(hp, h) /\ Present(hp.tables, h)
    BY ViewIs DEF HeapRec
<1>2. QED
    BY <1>1 DEF Base, Size, ReservedSize, TopOf, Past

\* Where the extent below the i-th object ends, and where it begins.
Above(w, c, i) == IF i = 0 THEN Capacity ELSE w[c[i]].offset
Under(w, top, c, i) == IF i = Len(c) THEN top ELSE Past(w[c[i + 1]])

\* The extents the code computes are those of the view.
LEMMA SpanReads ==
    ASSUME NEW hp, HeapRec(hp), NEW c, IsChain(View(hp), hp.root, c), SlotsSound(View(hp)),
           NEW i \in 0 .. Len(c)
    PROVE  /\ High(hp, c, i) = Above(View(hp), c, i)
           /\ Low(hp, c, i) = Under(View(hp), MetadataTop(hp), c, i)
           /\ Span(hp, c, i) = Above(View(hp), c, i) - Under(View(hp), MetadataTop(hp), c, i)
<1> DEFINE n == Len(c)
           w == View(hp)
<1>0. n \in Nat /\ w \in [Handles -> Slot]
    BY ViewIs DEF IsChain, HeapRec
<1>1. ASSUME NEW k \in 1 .. n PROVE Base(hp, c[k]) = w[c[k]].offset
                 /\ TopOf(hp, c[k]) = Past(w[c[k]])
    <2>1. c[k] \in Handles /\ w[c[k]].state # "free"
        BY <1>0, ChainParts
    <2>2. QED
        BY <2>1, Reads
<1> HIDE DEF n, w
<1>2. i \in 0 .. n
    BY DEF n
<1>3. i # 0 => i \in 1 .. n
    BY <1>0, <1>2
<1>4. i # n => i + 1 \in 1 .. n
    BY <1>0, <1>2
<1>5. High(hp, c, i) = Above(w, c, i)
    BY <1>1, <1>3 DEF High, Above
<1>6. Low(hp, c, i) = Under(w, MetadataTop(hp), c, i)
    BY <1>1, <1>4 DEF Low, Under, n
<1>7. QED
    BY <1>5, <1>6 DEF Span, w

\* Every extent lies between the metadata and the end, and its ends are aligned.
LEMMA Extents ==
    ASSUME NEW w \in [Handles -> Slot], NEW root, NEW c, IsChain(w, root, c), SlotsSound(w),
           NEW top \in Nat, LaidOut(w, top, c), top <= Capacity, top % HeapAlignment = 0,
           NEW i \in 0 .. Len(c)
    PROVE  /\ Above(w, c, i) \in Nat /\ Under(w, top, c, i) \in Nat
           /\ top <= Under(w, top, c, i)
           /\ Under(w, top, c, i) <= Above(w, c, i)
           /\ Above(w, c, i) <= Capacity
           /\ Above(w, c, i) % HeapAlignment = 0
           /\ Under(w, top, c, i) % HeapAlignment = 0
<1> DEFINE n == Len(c)
<1>0. n \in Nat /\ i \in 0 .. n /\ DOMAIN c = 1 .. n
    BY DEF IsChain
<1>1. ASSUME NEW k \in 1 .. n
      PROVE  /\ w[c[k]].offset \in Nat /\ Past(w[c[k]]) \in Nat
             /\ w[c[k]].offset < Past(w[c[k]])
             /\ Past(w[c[k]]) = w[c[k]].offset + AlignUp(w[c[k]].size)
             /\ AlignUp(w[c[k]].size) \in Nat /\ w[c[k]].size \in Nat
             /\ w[c[k]].offset < Capacity
             /\ w[c[k]] \in Slot
    <2>1. w[c[k]] \in Slot
        BY ChainParts
    <2> DEFINE s == w[c[k]]
    <2>2. s.offset < Capacity
        BY <2>1, SlotParts
    <2>3. QED
        BY <2>1, <2>2, ChainParts
<1>2. ASSUME NEW k \in 1 .. n
      PROVE  /\ w[c[k]].offset % HeapAlignment = 0 /\ top <= w[c[k]].offset
             /\ Past(w[c[k]]) <= IF k = 1 THEN Capacity ELSE w[c[k - 1]].offset
    BY <1>0 DEF LaidOut
<1>3. ASSUME NEW k \in 1 .. n PROVE Past(w[c[k]]) % HeapAlignment = 0
    <2>1. AlignUp(w[c[k]].size) % HeapAlignment = 0
        BY <1>1, AlignUpIs
    <2>2. w[c[k]].offset % HeapAlignment = 0
        BY <1>2
    <2>3. \A x, y \in Int : x % HeapAlignment = 0
              /\ y % HeapAlignment = 0 => (x + y) % HeapAlignment = 0
        BY MultipleSums, SizeFacts
    <2>4. w[c[k]].offset \in Int /\ AlignUp(w[c[k]].size) \in Int
        BY <1>1
    <2>5. (w[c[k]].offset + AlignUp(w[c[k]].size)) % HeapAlignment = 0
        BY <2>1, <2>2, <2>3, <2>4
    <2>6. QED
        BY <1>1, <2>5
<1> DEFINE off(k) == w[c[k]].offset
           tp(k) == Past(w[c[k]])
<1>4. ASSUME NEW k \in 1 .. n
      PROVE  /\ off(k) \in Nat /\ tp(k) \in Nat /\ off(k) < tp(k) /\ off(k) < Capacity
             /\ top <= off(k) /\ tp(k) <= IF k = 1 THEN Capacity ELSE off(k - 1)
             /\ off(k) % HeapAlignment = 0 /\ tp(k) % HeapAlignment = 0
    BY <1>1, <1>2, <1>3
<1>5. Above(w, c, i) = IF i = 0 THEN Capacity ELSE off(i)
    BY DEF Above
<1>6. Under(w, top, c, i) = IF i = n THEN top ELSE tp(i + 1)
    BY DEF Under
<1> HIDE DEF n, off, tp
<1>7. Capacity \in Nat /\ Capacity % HeapAlignment = 0
    BY LayoutAssumption
<1>8. CASE i = n
    <2>1. Under(w, top, c, i) = top
        BY <1>6, <1>8
    <2>2. CASE i = 0
        BY <1>5, <1>7, <2>1, <2>2
    <2>3. CASE i # 0
        <3>1. i \in 1 .. n
            BY <1>0, <2>3
        <3>2. QED
            BY <1>4, <1>5, <1>7, <2>1, <2>3, <3>1
    <2>4. QED
        BY <2>2, <2>3
<1>9. CASE i # n
    <2>0. i + 1 \in 1 .. n
        BY <1>0, <1>9
    <2>1. Under(w, top, c, i) = tp(i + 1)
        BY <1>6, <1>9
    <2>2. CASE i = 0
        BY <1>4, <1>5, <1>7, <2>0, <2>1, <2>2
    <2>3. CASE i # 0
        <3>1. i \in 1 .. n /\ i + 1 # 1 /\ (i + 1) - 1 = i
            BY <1>0, <2>3
        <3>2. tp(i + 1) <= off(i)
            BY <1>4, <2>0, <3>1
        <3>3. QED
            BY <1>4, <1>5, <1>7, <2>0, <2>1, <2>3, <3>1, <3>2
    <2>4. QED
        BY <2>2, <2>3
<1>10. QED
    BY <1>8, <1>9

\* What each object reserves is a number.
LEMMA WeightsTyped ==
    ASSUME NEW w \in [Handles -> Slot], NEW root, NEW c, IsChain(w, root, c), SlotsSound(w), NEW C
    PROVE  /\ Weights(w, c, C) \in Seq(Int) /\ Weights(w, c, C) \in Seq(Nat)
           /\ Len(Weights(w, c, C)) = Len(c)
           /\ \A k \in 1 .. Len(c) : Weights(w, c, C)[k] = IF c[k] \in C THEN 0
                  ELSE AlignUp(w[c[k]].size)
           /\ \A k \in 1 .. Len(c) : Weights(w, c, C)[k] >= 0
<1> DEFINE n == Len(c)
           f == Weights(w, c, C)
<1>0. n \in Nat /\ DOMAIN c = 1 .. n
    BY DEF IsChain
<1>1. f = [k \in 1 .. n |-> IF c[k] \in C THEN 0 ELSE AlignUp(w[c[k]].size)]
    BY <1>0 DEF Weights
<1>2. \A k \in 1 .. n : AlignUp(w[c[k]].size) \in Nat
    BY ChainParts
<1> HIDE DEF n, f
<1>3. \A k \in 1 .. n : f[k] = IF c[k] \in C THEN 0 ELSE AlignUp(w[c[k]].size)
    BY <1>1
<1>4. \A k \in 1 .. n : f[k] \in Nat
    BY <1>2, <1>3
<1>5. f \in [1 .. n -> Nat] /\ f \in [1 .. n -> Int]
    BY <1>1, <1>4
<1>6. f \in Seq(Nat) /\ f \in Seq(Int) /\ Len(f) = n
    BY <1>0, <1>5
<1>7. QED
    BY <1>3, <1>4, <1>6 DEF n, f

\* A heap whose chain is known.
LEMMA HeapFrom ==
    ASSUME NEW hq, HeapRec(hq), NoneEmpty(hq.tables), NEW c, NEW C,
           IsChain(View(hq), hq.root, c), LaidOut(View(hq), MetadataTop(hq), c),
           SlotsSound(View(hq)),
           hq.reserved = Total(Weights(View(hq), c, C)),
           hq.live = Cardinality(InUse(View(hq)) \ C)
    PROVE  HeapOK(hq, C) /\ Chain(hq) = c
<1>1. Chain(hq) = c
    BY ChainIs
<1>2. QED
    BY <1>1 DEF HeapOK, HeapRec

\* What HeapOK says, for the other lemmas.
LEMMA HeapGives ==
    ASSUME NEW hp, NEW C, HeapOK(hp, C)
    PROVE  /\ HeapRec(hp) /\ NoneEmpty(hp.tables)
           /\ View(hp) \in [Handles -> Slot]
           /\ IsChain(View(hp), hp.root, Chain(hp))
           /\ LaidOut(View(hp), MetadataTop(hp), Chain(hp))
           /\ SlotsSound(View(hp))
           /\ MetadataTop(hp) \in Nat /\ MetadataTop(hp) <= Capacity
           /\ MetadataTop(hp) % HeapAlignment = 0
           /\ Len(Chain(hp)) \in Nat /\ DOMAIN Chain(hp) = 1 .. Len(Chain(hp))
<1>1. HeapRec(hp) /\ NoneEmpty(hp.tables) /\ TablesSound(hp.tables)
    BY DEF HeapOK, HeapRec
<1>2. View(hp) \in [Handles -> Slot]
    BY <1>1, ViewIs
<1>3. /\ MetadataTop(hp) \in Nat /\ MetadataTop(hp) <= Capacity
      /\ MetadataTop(hp) % HeapAlignment = 0
    BY <1>1, MetadataFits
<1>4. /\ IsChain(View(hp), hp.root, Chain(hp))
      /\ LaidOut(View(hp), MetadataTop(hp), Chain(hp))
      /\ SlotsSound(View(hp))
    BY DEF HeapOK
<1>5. Len(Chain(hp)) \in Nat /\ DOMAIN Chain(hp) = 1 .. Len(Chain(hp))
    BY <1>4, ChainLength
<1>6. QED
    BY <1>1, <1>2, <1>3, <1>4, <1>5

\* The extents and the objects between them fill what the metadata leaves.
LEMMA FreeExtentsIs ==
    ASSUME NEW hp, NEW C, HeapOK(hp, C)
    PROVE  FreeExtents(hp, Chain(hp))
             = (Capacity - MetadataTop(hp)) - Total(Weights(View(hp), Chain(hp), {}))
<1> DEFINE c == Chain(hp)
           w == View(hp)
           top == MetadataTop(hp)
           n == Len(c)
           s == [i \in 1 .. n + 1 |-> Span(hp, c, i - 1)]
           q == Weights(w, c, {})
<1>1. /\ HeapRec(hp) /\ w \in [Handles -> Slot] /\ IsChain(w, hp.root, c)
      /\ LaidOut(w, top, c) /\ SlotsSound(w) /\ top \in Nat /\ top <= Capacity
      /\ top % HeapAlignment = 0 /\ n \in Nat /\ DOMAIN c = 1 .. n
    BY HeapGives
<1>2. Capacity \in Nat
    BY LayoutAssumption
<1> DEFINE ab(i) == Above(w, c, i)
           un(i) == Under(w, top, c, i)
<1>3. \A i \in 0 .. n : ab(i) \in Nat /\ un(i) \in Nat /\ Span(hp, c, i) = ab(i) - un(i)
    BY <1>1, Extents, SpanReads
<1>4. q \in Seq(Int) /\ Len(q) = n /\ \A k \in 1 .. n : q[k] = AlignUp(w[c[k]].size)
    BY <1>1, WeightsTyped
<1>5. PICK P : Sums(P, q)
    BY <1>4, SumsExist
<1>6. Total(q) = P[n]
    BY <1>4, <1>5, TotalIs
<1>7. \A i \in 1 .. n : un(i - 1) = ab(i) + q[i]
    <2>1. SUFFICES ASSUME NEW i \in 1 .. n PROVE un(i - 1) = ab(i) + q[i]
        OBVIOUS
    <2>2. (i - 1) + 1 = i /\ i - 1 # n /\ i # 0
        BY <1>1
    <2>3. un(i - 1) = Past(w[c[i]])
        BY <2>2 DEF Under
    <2>4. ab(i) = w[c[i]].offset
        BY <2>2 DEF Above
    <2>5. Past(w[c[i]]) = w[c[i]].offset + AlignUp(w[c[i]].size)
        BY DEF Past
    <2>6. QED
        BY <1>4, <2>3, <2>4, <2>5
<1>8. ab(0) = Capacity /\ un(n) = top
    BY DEF Above, Under
<1>9. FreeExtents(hp, c) = Total(s)
    BY DEF FreeExtents
<1> HIDE DEF ab, un, q
<1>10. \A k \in 0 .. n : P[k] \in Int
    BY <1>4, <1>5 DEF Sums
<1>11. P[0] = 0 /\ \A k \in 1 .. n : P[k] = P[k - 1] + q[k]
    BY <1>4, <1>5 DEF Sums
<1> DEFINE f == [i \in 0 .. n + 1 |-> IF i = 0 THEN 0 ELSE (Capacity - un(i - 1)) - P[i - 1]]
<1>12. s \in Seq(Int) /\ Len(s) = n + 1 /\ \A i \in 1 .. n + 1 : s[i] = ab(i - 1) - un(i - 1)
    <2>1. \A i \in 1 .. n + 1 : i - 1 \in 0 .. n
        BY <1>1
    <2>2. \A i \in 1 .. n + 1 : Span(hp, c, i - 1) \in Int
        BY <1>3, <2>1
    <2>3. s \in [1 .. n + 1 -> Int] /\ n + 1 \in Nat
        BY <1>1, <2>2
    <2>4. s \in Seq(Int) /\ Len(s) = n + 1
        BY <2>3
    <2>5. QED
        BY <1>3, <2>1, <2>4
<1> HIDE DEF c, w, top, n, s
<1>13. ASSUME NEW i \in 1 .. n + 1
       PROVE  /\ f[i] = (Capacity - un(i - 1)) - P[i - 1]
              /\ f[i] \in Int
              /\ f[i] = f[i - 1] + s[i]
    <2>1. i - 1 \in 0 .. n /\ i \in 0 .. n + 1 /\ i - 1 \in 0 .. n + 1 /\ i # 0
        BY <1>1
    <2>2. f[i] = (Capacity - un(i - 1)) - P[i - 1]
        BY <2>1
    <2>3. s[i] = ab(i - 1) - un(i - 1) /\ un(i - 1) \in Nat /\ ab(i - 1) \in Nat /\ P[i - 1] \in Int
        BY <1>3, <1>10, <1>12, <2>1
    <2>4. CASE i = 1
        <3>1. f[i - 1] = 0 /\ P[i - 1] = 0 /\ ab(i - 1) = Capacity
            BY <1>8, <1>11, <2>1, <2>4
        <3>2. QED
            BY <1>2, <2>2, <2>3, <3>1
    <2>5. CASE i # 1
        <3>1. i - 1 \in 1 .. n /\ (i - 1) - 1 \in 0 .. n
            BY <1>1, <2>5
        <3>2. f[i - 1] = (Capacity - un((i - 1) - 1)) - P[(i - 1) - 1]
            BY <2>1, <3>1
        <3>3. un((i - 1) - 1) = ab(i - 1) + q[i - 1]
            BY <1>7, <3>1
        <3>4. P[i - 1] = P[(i - 1) - 1] + q[i - 1]
            BY <1>11, <3>1
        <3>5. q[i - 1] \in Int /\ P[(i - 1) - 1] \in Int
            BY <1>4, <1>10, <3>1
        <3>6. \A C1, a, u, x, y \in Int : (C1 - (a + x)) - y + (a - u) = (C1 - u) - (y + x)
            OBVIOUS
        <3>7. f[i - 1] + s[i] = (Capacity - un(i - 1)) - P[i - 1]
            BY <1>2, <2>3, <3>2, <3>3, <3>4, <3>5, <3>6
        <3>8. QED
            BY <1>2, <2>2, <2>3, <3>7
    <2>6. QED
        BY <2>4, <2>5
<1>14. Sums(f, s)
    <2>1. f[0] = 0 /\ Len(s) = n + 1
        BY <1>1, <1>12
    <2>2. f \in [0 .. n + 1 -> Int]
        <3>1. \A i \in 0 .. n + 1 : f[i] \in Int
            <4>1. SUFFICES ASSUME NEW i \in 0 .. n + 1 PROVE f[i] \in Int
                OBVIOUS
            <4>2. CASE i = 0
                BY <2>1, <4>2
            <4>3. CASE i # 0
                <5>1. i \in 1 .. n + 1
                    BY <1>1, <4>3
                <5>2. QED
                    BY <1>13, <5>1
            <4>4. QED
                BY <4>2, <4>3
        <3>2. QED
            BY <3>1
    <2>3. QED
        BY <1>13, <2>1, <2>2 DEF Sums
<1> HIDE DEF f
<1>15. Total(s) = f[n + 1]
    BY <1>12, <1>14, TotalIs
<1>16. n + 1 \in 1 .. n + 1 /\ (n + 1) - 1 = n
    BY <1>1
<1>17. f[n + 1] = (Capacity - un(n)) - P[n]
    BY <1>13, <1>16
<1>18. QED
    BY <1>6, <1>8, <1>9, <1>15, <1>17 DEF c, w, top, n, q

-----------------------------------------------------------------------------
(***************************************************************************)
(* Descriptors enter and leave the chain.                                  *)
(***************************************************************************)
\* A change of h, and of the link of x: the only change splice_descriptor_ and
\* unlink_descriptor_ make to the slots.
Links(w, w2, h, s, x, y) ==
    /\ w2 \in [Handles -> Slot]
    /\ w2[h] = s
    /\ \A g \in Handles : g # h => w2[g] = IF g = x THEN [w[g] EXCEPT !.next = y] ELSE w[g]

\* What such a change keeps of the other objects.
LEMMA LinksKeep ==
    ASSUME NEW w \in [Handles -> Slot], NEW w2, NEW h \in Handles, NEW s, NEW x, NEW y,
           Links(w, w2, h, s, x, y)
    PROVE  \A g \in Handles : g # h =>
             /\ w2[g] \in Slot
             /\ w2[g].state = w[g].state /\ w2[g].refs = w[g].refs
             /\ w2[g].offset = w[g].offset /\ w2[g].size = w[g].size
             /\ Past(w2[g]) = Past(w[g])
             /\ w2[g].next = IF g = x THEN y ELSE w[g].next
<1> SUFFICES ASSUME NEW g \in Handles, g # h
             PROVE  /\ w2[g] \in Slot
                    /\ w2[g].state = w[g].state /\ w2[g].refs = w[g].refs
                    /\ w2[g].offset = w[g].offset /\ w2[g].size = w[g].size
                    /\ Past(w2[g]) = Past(w[g])
                    /\ w2[g].next = IF g = x THEN y ELSE w[g].next
    OBVIOUS
<1>1. w2[g] \in Slot /\ w[g] \in Slot
    BY DEF Links
<1>2. w2[g] = IF g = x THEN [w[g] EXCEPT !.next = y] ELSE w[g]
    BY DEF Links
<1>3. /\ w2[g].state = w[g].state /\ w2[g].refs = w[g].refs
      /\ w2[g].offset = w[g].offset /\ w2[g].size = w[g].size
      /\ w2[g].next = IF g = x THEN y ELSE w[g].next
    BY <1>1, <1>2 DEF Slot
<1>4. QED
    BY <1>1, <1>3 DEF Past

\* splice_descriptor_ into an extent that has the room keeps the chain and the
\* order of the objects in memory.
LEMMA ChainInserted ==
    ASSUME NEW w \in [Handles -> Slot], NEW root, NEW c, IsChain(w, root, c), SlotsSound(w),
           NEW top \in Nat, LaidOut(w, top, c), top <= Capacity, top % HeapAlignment = 0,
           NEW i \in 0 .. Len(c), NEW h \in Handles, w[h].state = "free",
           NEW s \in Slot, s.state # "free", s.size >= 1, s.refs # 0 <=> s.state = "live",
           s.offset % HeapAlignment = 0,
           Under(w, top, c, i) <= s.offset, Past(s) <= Above(w, c, i),
           s.next = IF i = Len(c) THEN Null ELSE c[i + 1],
           NEW x, x = IF i = 0 THEN Null ELSE c[i],
           NEW w2, Links(w, w2, h, s, x, h),
           NEW root2, root2 = IF i = 0 THEN h ELSE root
    PROVE  /\ IsChain(w2, root2, Inserted(c, i, h))
           /\ SlotsSound(w2)
           /\ LaidOut(w2, top, Inserted(c, i, h))
           /\ InUse(w2) = InUse(w) \cup {h} /\ h \notin InUse(w)
<1> DEFINE n == Len(c)
           d == Inserted(c, i, h)
<1>0. /\ n \in Nat /\ DOMAIN c = 1 .. n /\ c \in Seq(Handles)
      /\ \A k \in 1 .. n : c[k] \in Handles /\ w[c[k]].state # "free" /\ c[k] # h
    <2>1. n \in Nat /\ DOMAIN c = 1 .. n /\ c \in Seq(Handles)
        BY DEF IsChain
    <2>2. \A k \in 1 .. n : c[k] \in Handles /\ w[c[k]].state # "free"
        BY ChainParts
    <2>3. QED
        BY <2>1, <2>2
<1>1. /\ d \in Seq(Handles) /\ Len(d) = n + 1 /\ DOMAIN d = 1 .. n + 1
      /\ \A k \in 1 .. n + 1 : d[k] = IF k <= i THEN c[k] ELSE IF k = i + 1 THEN h ELSE c[k - 1]
      /\ d[i + 1] = h
    <2>1. c \in Seq(Handles) /\ i \in 0 .. Len(c) /\ h \in Handles
        BY <1>0
    <2>2. QED
        BY <2>1, InsertedIs
<1>2. \A g \in Handles : g # h =>
             /\ w2[g] \in Slot
             /\ w2[g].state = w[g].state /\ w2[g].refs = w[g].refs
             /\ w2[g].offset = w[g].offset /\ w2[g].size = w[g].size
             /\ Past(w2[g]) = Past(w[g])
             /\ w2[g].next = IF g = x THEN h ELSE w[g].next
    BY LinksKeep
<1>3. w2[h] = s /\ x = IF i = 0 THEN Null ELSE c[i]
    BY DEF Links
<1>4. /\ \A j, k \in 1 .. n : c[j] = c[k] => j = k
      /\ \A g \in Handles : w[g].state # "free" => \E k \in 1 .. n : c[k] = g
      /\ root = IF n = 0 THEN Null ELSE c[1]
      /\ \A k \in 1 .. n : w[c[k]].next = IF k = n THEN Null ELSE c[k + 1]
    BY <1>0 DEF IsChain
<1>5. i \in 0 .. n /\ s.next = IF i = n THEN Null ELSE c[i + 1]
    OBVIOUS
<1>6. Null \notin Handles
    BY NullIsNone
<1> HIDE DEF n, d
<1>7. \A k \in 1 .. n + 1 : k <= i => k \in 1 .. n /\ d[k] = c[k] /\ d[k] # h
    BY <1>0, <1>1, <1>5
<1>8. \A k \in 1 .. n + 1 : k > i + 1 => k - 1 \in 1 .. n /\ d[k] = c[k - 1] /\ d[k] # h
    <2>1. SUFFICES ASSUME NEW k \in 1 .. n + 1, k > i + 1 PROVE k - 1 \in 1 .. n
              /\ d[k] = c[k - 1] /\ d[k] # h
        OBVIOUS
    <2>2. k - 1 \in 1 .. n /\ ~ (k <= i) /\ k # i + 1
        BY <1>0, <1>5, <2>1
    <2>3. QED
        BY <1>0, <1>1, <2>2
<1>9. \A k \in 1 .. n + 1 : k <= i \/ k = i + 1 \/ k > i + 1
    BY <1>0, <1>5
<1>10. \A j, k \in 1 .. n + 1 : d[j] = d[k] => j = k
    <2>1. SUFFICES ASSUME NEW j \in 1 .. n + 1, NEW k \in 1 .. n + 1, d[j] = d[k] PROVE j = k
        OBVIOUS
    <2>2. CASE j = i + 1
        BY <1>1, <1>7, <1>8, <1>9, <2>1, <2>2
    <2>3. CASE k = i + 1
        BY <1>1, <1>7, <1>8, <1>9, <2>1, <2>3
    <2>4. CASE j <= i /\ k <= i
        BY <1>4, <1>7, <2>1, <2>4
    <2>5. CASE j > i + 1 /\ k > i + 1
        <3>1. j - 1 = k - 1
            BY <1>4, <1>8, <2>1, <2>5
        <3>2. QED
            BY <3>1
    <2>6. CASE j <= i /\ k > i + 1
        <3>1. j = k - 1
            BY <1>4, <1>7, <1>8, <2>1, <2>6
        <3>2. QED
            BY <1>5, <2>6, <3>1
    <2>7. CASE k <= i /\ j > i + 1
        <3>1. k = j - 1
            BY <1>4, <1>7, <1>8, <2>1, <2>7
        <3>2. QED
            BY <1>5, <2>7, <3>1
    <2>8. QED
        BY <1>9, <2>2, <2>3, <2>4, <2>5, <2>6, <2>7
<1>11. \A k \in 1 .. n + 1 : d[k] \in Handles /\ w2[d[k]].state # "free"
    <2>1. SUFFICES ASSUME NEW k \in 1 .. n + 1 PROVE d[k] \in Handles /\ w2[d[k]].state # "free"
        OBVIOUS
    <2>2. CASE k = i + 1
        BY <1>1, <1>3, <2>2
    <2>3. CASE k <= i
        <3>1. d[k] = c[k] /\ c[k] \in Handles /\ c[k] # h /\ w[c[k]].state # "free"
            BY <1>0, <1>7, <2>3
        <3>2. QED
            BY <1>2, <3>1
    <2>4. CASE k > i + 1
        <3>1. d[k] = c[k - 1] /\ c[k - 1] \in Handles /\ c[k - 1] # h /\ w[c[k - 1]].state # "free"
            BY <1>0, <1>8, <2>4
        <3>2. QED
            BY <1>2, <3>1
    <2>5. QED
        BY <1>9, <2>2, <2>3, <2>4
<1>12. \A g \in Handles : w2[g].state # "free" => \E k \in 1 .. n + 1 : d[k] = g
    <2>1. SUFFICES ASSUME NEW g \in Handles, w2[g].state # "free"
              PROVE \E k \in 1 .. n + 1 : d[k] = g
        OBVIOUS
    <2>2. CASE g = h
        <3>1. i + 1 \in 1 .. n + 1
            BY <1>0, <1>5
        <3>2. QED
            BY <1>1, <2>2, <3>1
    <2>3. CASE g # h
        <3>1. PICK k \in 1 .. n : c[k] = g
            BY <1>2, <1>4, <2>1, <2>3
        <3>2. CASE k <= i
            <4>1. k \in 1 .. n + 1
                BY <1>0
            <4>2. QED
                BY <1>7, <3>1, <3>2, <4>1
        <3>3. CASE ~ (k <= i)
            <4>1. k + 1 \in 1 .. n + 1 /\ k + 1 > i + 1 /\ (k + 1) - 1 = k
                BY <1>0, <1>5, <3>3
            <4>2. d[k + 1] = c[(k + 1) - 1]
                BY <1>8, <4>1
            <4>3. QED
                BY <3>1, <4>1, <4>2
        <3>4. QED
            BY <3>2, <3>3
    <2>4. QED
        BY <2>2, <2>3
<1>13. root2 = IF Len(d) = 0 THEN Null ELSE d[1]
    <2>1. Len(d) # 0 /\ 1 \in 1 .. n + 1
        BY <1>0, <1>1
    <2>2. CASE i = 0
        <3>1. d[1] = h
            BY <1>1, <2>2
        <3>2. QED
            BY <2>1, <2>2, <3>1
    <2>3. CASE i # 0
        <3>1. 1 <= i /\ n # 0
            BY <1>0, <1>5, <2>3
        <3>2. d[1] = c[1]
            BY <1>7, <2>1, <3>1
        <3>3. QED
            BY <1>4, <2>1, <2>3, <3>1, <3>2
    <2>4. QED
        BY <2>2, <2>3
<1>14. \A k \in 1 .. n + 1 : w2[d[k]].next = IF k = n + 1 THEN Null ELSE d[k + 1]
    <2>1. SUFFICES ASSUME NEW k \in 1 .. n + 1 PROVE w2[d[k]].next = IF k = n + 1 THEN Null
              ELSE d[k + 1]
        OBVIOUS
    <2>2. CASE k = i + 1
        <3>1. w2[d[k]].next = IF i = n THEN Null ELSE c[i + 1]
            BY <1>1, <1>3, <1>5, <2>2
        <3>2. CASE i = n
            BY <2>2, <3>1, <3>2
        <3>3. CASE i # n
            <4>1. k + 1 \in 1 .. n + 1 /\ k + 1 > i + 1 /\ (k + 1) - 1 = i + 1 /\ k # n + 1
                BY <1>0, <1>5, <2>2, <3>3
            <4>2. d[k + 1] = c[i + 1]
                BY <1>8, <4>1
            <4>3. QED
                BY <3>1, <3>3, <4>1, <4>2
        <3>4. QED
            BY <3>2, <3>3
    <2>3. CASE k <= i
        <3>1. k \in 1 .. n /\ d[k] = c[k] /\ d[k] # h /\ c[k] \in Handles /\ k # n + 1 /\ i # 0
            BY <1>0, <1>7, <2>3
        <3>2. CASE k = i
            <4>1. c[k] = x
                BY <1>3, <3>1, <3>2
            <4>2. w2[d[k]].next = h
                BY <1>2, <3>1, <4>1
            <4>3. QED
                BY <1>1, <3>1, <3>2, <4>2
        <3>3. CASE k # i
            <4>1. k + 1 \in 1 .. n + 1 /\ k + 1 <= i /\ i \in 1 .. n /\ k # n
                BY <1>0, <1>5, <2>3, <3>1, <3>3
            <4>2. c[k] # x
                BY <1>3, <1>4, <3>1, <3>3, <4>1
            <4>3. w2[d[k]].next = w[c[k]].next
                BY <1>2, <3>1, <4>2
            <4>4. w[c[k]].next = c[k + 1] /\ d[k + 1] = c[k + 1]
                BY <1>4, <1>7, <3>1, <4>1
            <4>5. QED
                BY <3>1, <4>3, <4>4
        <3>4. QED
            BY <3>2, <3>3
    <2>4. CASE k > i + 1
        <3>1. k - 1 \in 1 .. n /\ d[k] = c[k - 1] /\ d[k] # h /\ c[k - 1] \in Handles
            BY <1>0, <1>8, <2>4
        <3>2. i # 0 => i \in 1 .. n /\ k - 1 # i
            BY <1>0, <1>5, <2>4
        <3>3. c[k - 1] # x
            BY <1>3, <1>4, <1>6, <3>1, <3>2
        <3>4. w2[d[k]].next = w[c[k - 1]].next
            BY <1>2, <3>1, <3>3
        <3>5. w[c[k - 1]].next = IF k - 1 = n THEN Null ELSE c[(k - 1) + 1]
            BY <1>4, <3>1
        <3>6. CASE k = n + 1
            BY <1>0, <3>4, <3>5, <3>6
        <3>7. CASE k # n + 1
            <4>0. n \in Nat /\ i \in Nat /\ k \in Nat /\ k <= n + 1 /\ k # n + 1 /\ k > i + 1
                BY <1>0, <1>5, <2>4, <3>7
            <4>1. k + 1 \in 1 .. n + 1 /\ k + 1 > i + 1 /\ (k + 1) - 1 = (k - 1) + 1 /\ k - 1 # n
                BY <4>0
            <4>2. d[k + 1] = c[(k - 1) + 1]
                BY <1>8, <4>1
            <4>3. QED
                BY <3>4, <3>5, <3>7, <4>1, <4>2
        <3>8. QED
            BY <3>6, <3>7
    <2>5. QED
        BY <1>9, <2>2, <2>3, <2>4
<1>15. IsChain(w2, root2, d)
    <2>1. d \in Seq(Handles) /\ DOMAIN d = 1 .. n + 1 /\ Len(d) = n + 1
        BY <1>1
    <2>2. /\ \A j, k \in DOMAIN d : d[j] = d[k] => j = k
          /\ \A k \in DOMAIN d : w2[d[k]].state # "free"
          /\ \A g \in Handles : w2[g].state # "free" => \E k \in DOMAIN d : d[k] = g
        BY <1>10, <1>11, <1>12, <2>1
    <2>3. \A k \in DOMAIN d : w2[d[k]].next = IF k = Len(d) THEN Null ELSE d[k + 1]
        BY <1>14, <2>1
    <2>4. QED
        BY <1>13, <2>1, <2>2, <2>3 DEF IsChain
<1>16. SlotsSound(w2)
    BY <1>2, <1>3 DEF SlotsSound
<1>17. InUse(w2) = InUse(w) \cup {h} /\ h \notin InUse(w)
    BY <1>2, <1>3 DEF InUse
<1>18. LaidOut(w2, top, d)
    <2> DEFINE off(k) == w[c[k]].offset
               tp(k) == Past(w[c[k]])
               doff(k) == w2[d[k]].offset
               dtp(k) == Past(w2[d[k]])
    <2>1. \A k \in 1 .. n : /\ off(k) \in Nat /\ tp(k) \in Nat /\ off(k) < tp(k)
                            /\ off(k) % HeapAlignment = 0 /\ top <= off(k)
                            /\ tp(k) <= IF k = 1 THEN Capacity ELSE off(k - 1)
        <3>1. \A k \in 1 .. n : /\ off(k) \in Nat /\ tp(k) \in Nat /\ off(k) < tp(k)
            BY ChainParts DEF n
        <3>2. \A k \in 1 .. n : /\ off(k) % HeapAlignment = 0 /\ top <= off(k)
                                /\ tp(k) <= IF k = 1 THEN Capacity ELSE off(k - 1)
            BY <1>0 DEF LaidOut
        <3>3. QED
            BY <3>1, <3>2
    <2>2. \A k \in 1 .. n + 1 : k <= i => doff(k) = off(k) /\ dtp(k) = tp(k)
        BY <1>0, <1>2, <1>7
    <2>3. \A k \in 1 .. n + 1 : k > i + 1 => doff(k) = off(k - 1) /\ dtp(k) = tp(k - 1)
        BY <1>0, <1>2, <1>8
    <2>4. doff(i + 1) = s.offset /\ dtp(i + 1) = Past(s)
        BY <1>1, <1>3
    <2>5. /\ top <= s.offset
          /\ (i = n \/ (i # n /\ tp(i + 1) <= s.offset))
          /\ Past(s) <= IF i = 0 THEN Capacity ELSE off(i)
          /\ s.offset \in Nat /\ Past(s) \in Nat /\ s.offset < Past(s)
        <3>1. top <= Under(w, top, c, i) /\ Under(w, top, c, i) \in Nat
            BY Extents
        <3>2. s.offset \in Nat /\ Past(s) \in Nat /\ s.offset < Past(s)
            <4>1. /\ s.offset \in Int /\ 0 <= s.offset /\ s.size \in Nat
                  /\ AlignUp(s.size) \in Nat /\ s.size <= AlignUp(s.size)
                  /\ Past(s) = s.offset + AlignUp(s.size)
                BY SlotParts
            <4>2. QED
                BY <4>1
        <3>3. top <= s.offset
            BY <3>1, <3>2
        <3>4. QED
            BY <3>2, <3>3 DEF Under, Above, n
    <2> HIDE DEF off, tp, doff, dtp
    <2>6. ASSUME NEW k \in 1 .. n + 1
          PROVE doff(k) % HeapAlignment = 0 /\ top <= doff(k)
        <3>1. CASE k <= i
            BY <1>7, <2>1, <2>2, <3>1
        <3>2. CASE k = i + 1
            BY <2>4, <2>5, <3>2
        <3>3. CASE k > i + 1
            BY <1>8, <2>1, <2>3, <3>3
        <3>4. QED
            BY <1>9, <3>1, <3>2, <3>3
    <2>7. ASSUME NEW k \in 1 .. n + 1
          PROVE dtp(k) <= IF k = 1 THEN Capacity ELSE doff(k - 1)
        <3>1. CASE k <= i
            <4>1. k \in 1 .. n /\ dtp(k) = tp(k)
                BY <1>7, <2>2, <3>1
            <4>2. CASE k = 1
                BY <2>1, <4>1, <4>2
            <4>3. CASE k # 1
                <5>1. k - 1 \in 1 .. n + 1 /\ k - 1 <= i
                    BY <1>0, <1>5, <3>1, <4>3
                <5>2. doff(k - 1) = off(k - 1)
                    BY <2>2, <5>1
                <5>3. QED
                    BY <2>1, <4>1, <4>3, <5>2
            <4>4. QED
                BY <4>2, <4>3
        <3>2. CASE k = i + 1
            <4>1. CASE i = 0
                BY <2>4, <2>5, <3>2, <4>1
            <4>2. CASE i # 0
                <5>1. k - 1 = i /\ k # 1 /\ i \in 1 .. n + 1 /\ i <= i
                    BY <1>0, <1>5, <3>2, <4>2
                <5>2. doff(i) = off(i)
                    BY <2>2, <5>1
                <5>3. QED
                    BY <2>4, <2>5, <3>2, <4>2, <5>1, <5>2
            <4>3. QED
                BY <4>1, <4>2
        <3>3. CASE k > i + 1
            <4>1. k - 1 \in 1 .. n /\ k - 1 \in 1 .. n + 1 /\ k # 1 /\ dtp(k) = tp(k - 1)
                BY <1>0, <1>5, <1>8, <2>3, <3>3
            <4>2. CASE k - 1 = i + 1
                <5>1. i # n
                    BY <4>1, <4>2, <1>5
                <5>2. QED
                    BY <2>4, <2>5, <4>1, <4>2, <5>1
            <4>3. CASE k - 1 # i + 1
                <5>1. k - 1 > i + 1 /\ k - 1 # 1
                    BY <1>5, <3>3, <4>3
                <5>2. doff(k - 1) = off((k - 1) - 1)
                    BY <2>3, <4>1, <5>1
                <5>3. tp(k - 1) <= off((k - 1) - 1)
                    BY <2>1, <4>1, <5>1
                <5>4. QED
                    BY <4>1, <5>2, <5>3
            <4>4. QED
                BY <4>2, <4>3
        <3>4. QED
            BY <1>9, <3>1, <3>2, <3>3
    <2>8. QED
        BY <1>1, <2>6, <2>7 DEF LaidOut, doff, dtp
<1>19. QED
    BY <1>15, <1>16, <1>17, <1>18 DEF d

\* The object spliced in adds what it reserves.
LEMMA WeightsInserted ==
    ASSUME NEW w \in [Handles -> Slot], NEW root, NEW c, IsChain(w, root, c), SlotsSound(w),
           NEW i \in 0 .. Len(c), NEW h \in Handles, w[h].state = "free", NEW s \in Slot,
           NEW x, NEW y, NEW w2, Links(w, w2, h, s, x, y),
           NEW C, NEW D, \A g \in Handles : g # h => (g \in C <=> g \in D)
    PROVE  Total(Weights(w2, Inserted(c, i, h), D))
             = Total(Weights(w, c, C)) + (IF h \in D THEN 0 ELSE AlignUp(s.size))
<1> DEFINE n == Len(c)
           d == Inserted(c, i, h)
           p == Weights(w, c, C)
           q == Weights(w2, d, D)
           z == IF h \in D THEN 0 ELSE AlignUp(s.size)
<1>0. /\ n \in Nat /\ DOMAIN c = 1 .. n /\ c \in Seq(Handles) /\ i \in 0 .. n
      /\ \A k \in 1 .. n : c[k] \in Handles /\ c[k] # h
    <2>1. n \in Nat /\ DOMAIN c = 1 .. n /\ c \in Seq(Handles)
        BY DEF IsChain
    <2>2. \A k \in 1 .. n : c[k] \in Handles /\ w[c[k]].state # "free"
        BY ChainParts
    <2>3. QED
        BY <2>1, <2>2
<1>1. /\ d \in Seq(Handles) /\ Len(d) = n + 1 /\ DOMAIN d = 1 .. n + 1
      /\ \A k \in 1 .. n + 1 : d[k] = IF k <= i THEN c[k] ELSE IF k = i + 1 THEN h ELSE c[k - 1]
    <2>1. c \in Seq(Handles) /\ i \in 0 .. Len(c) /\ h \in Handles
        BY <1>0
    <2>2. QED
        BY <2>1, InsertedIs
<1>2. p \in Seq(Int) /\ Len(p) = n /\ \A k \in 1 .. n : p[k] = IF c[k] \in C THEN 0
          ELSE AlignUp(w[c[k]].size)
    BY WeightsTyped
<1>3. z \in Int
    BY SlotParts
<1>4. \A g \in Handles : g # h => w2[g].size = w[g].size
    BY LinksKeep
<1>5. w2[h] = s
    BY DEF Links
<1>6. q = [k \in 1 .. n + 1 |-> IF d[k] \in D THEN 0 ELSE AlignUp(w2[d[k]].size)]
    BY <1>1 DEF Weights
<1>7. Inserted(p, i, z)
          = [k \in 1 .. n + 1 |-> IF k <= i THEN p[k] ELSE IF k = i + 1 THEN z ELSE p[k - 1]]
    BY <1>2 DEF Inserted
<1>8. z = IF h \in D THEN 0 ELSE AlignUp(s.size)
    OBVIOUS
<1> HIDE DEF n, d, p, q, z
<1>9. \A k \in 1 .. n + 1 : (IF d[k] \in D THEN 0 ELSE AlignUp(w2[d[k]].size))
                            = IF k <= i THEN p[k] ELSE IF k = i + 1 THEN z ELSE p[k - 1]
    <2>1. SUFFICES ASSUME NEW k \in 1 .. n + 1
                   PROVE  (IF d[k] \in D THEN 0 ELSE AlignUp(w2[d[k]].size))
                            = IF k <= i THEN p[k] ELSE IF k = i + 1 THEN z ELSE p[k - 1]
        OBVIOUS
    <2>2. CASE k <= i
        <3>1. k \in 1 .. n
            BY <1>0, <2>2
        <3>2. d[k] = c[k] /\ c[k] # h /\ c[k] \in Handles /\ p[k] = IF c[k] \in C THEN 0
                  ELSE AlignUp(w[c[k]].size)
            BY <1>0, <1>1, <1>2, <2>2, <3>1
        <3>3. c[k] \in C <=> c[k] \in D
            BY <3>2
        <3>4. w2[c[k]].size = w[c[k]].size
            BY <1>4, <3>2
        <3>5. QED
            BY <2>2, <3>2, <3>3, <3>4
    <2>3. CASE k = i + 1
        <3>1. d[k] = h /\ ~ (k <= i)
            BY <1>0, <1>1, <2>3
        <3>2. QED
            BY <1>5, <1>8, <2>3, <3>1
    <2>4. CASE ~ (k <= i) /\ k # i + 1
        <3>1. k - 1 \in 1 .. n
            BY <1>0, <2>4
        <3>2. /\ d[k] = c[k - 1] /\ c[k - 1] # h /\ c[k - 1] \in Handles
              /\ p[k - 1] = IF c[k - 1] \in C THEN 0 ELSE AlignUp(w[c[k - 1]].size)
            BY <1>0, <1>1, <1>2, <2>4, <3>1
        <3>3. c[k - 1] \in C <=> c[k - 1] \in D
            BY <3>2
        <3>4. w2[c[k - 1]].size = w[c[k - 1]].size
            BY <1>4, <3>2
        <3>5. QED
            BY <2>4, <3>2, <3>3, <3>4
    <2>5. QED
        BY <2>2, <2>3, <2>4
<1>10. q = Inserted(p, i, z)
    BY <1>6, <1>7, <1>9
<1>11. i \in 0 .. Len(p)
    BY <1>0, <1>2
<1>12. Total(Inserted(p, i, z)) = Total(p) + z
    BY <1>2, <1>3, <1>11, TotalInserted
<1>13. QED
    BY <1>10, <1>12 DEF d, p, q, z

\* s without its k-th element.
Deleted(s, k) == [j \in 1 .. Len(s) - 1 |-> IF j < k THEN s[j] ELSE s[j + 1]]

\* Its elements, one by one.
LEMMA DeletedIs ==
    ASSUME NEW S, NEW s \in Seq(S), NEW k \in 1 .. Len(s)
    PROVE  /\ Deleted(s, k) \in Seq(S)
           /\ Len(Deleted(s, k)) = Len(s) - 1
           /\ DOMAIN Deleted(s, k) = 1 .. Len(s) - 1
           /\ \A j \in 1 .. Len(s) - 1 : Deleted(s, k)[j] = IF j < k THEN s[j] ELSE s[j + 1]
           /\ Inserted(Deleted(s, k), k - 1, s[k]) = s
<1> DEFINE n == Len(s)
           d == Deleted(s, k)
<1>0. n \in Nat /\ k \in 1 .. n /\ n - 1 \in Nat /\ s \in [1 .. n -> S]
    OBVIOUS
<1>1. d = [j \in 1 .. n - 1 |-> IF j < k THEN s[j] ELSE s[j + 1]]
    BY DEF Deleted
<1>2. Inserted(d, k - 1, s[k]) =
        [j \in 1 .. Len(d) + 1 |-> IF j <= k - 1 THEN d[j]
            ELSE IF j = (k - 1) + 1 THEN s[k] ELSE d[j - 1]]
    BY DEF Inserted
<1> HIDE DEF n, d
<1>3. \A j \in 1 .. n - 1 : j \in 1 .. n /\ j + 1 \in 1 .. n
    BY <1>0
<1>4. d \in [1 .. n - 1 -> S]
    BY <1>0, <1>1, <1>3
<1>5. d \in Seq(S) /\ Len(d) = n - 1 /\ DOMAIN d = 1 .. n - 1
    BY <1>0, <1>4
<1>6. \A j \in 1 .. n - 1 : d[j] = IF j < k THEN s[j] ELSE s[j + 1]
    BY <1>1
<1>7. \A j \in 1 .. n :
          (IF j <= k - 1 THEN d[j] ELSE IF j = (k - 1) + 1 THEN s[k] ELSE d[j - 1]) = s[j]
    <2>1. SUFFICES ASSUME NEW j \in 1 .. n
                   PROVE  (IF j <= k - 1 THEN d[j] ELSE IF j = (k - 1) + 1 THEN s[k]
                              ELSE d[j - 1]) = s[j]
        OBVIOUS
    <2>2. CASE j <= k - 1
        <3>1. j \in 1 .. n - 1 /\ j < k
            BY <1>0, <2>2
        <3>2. QED
            BY <1>6, <2>2, <3>1
    <2>3. CASE j = k
        <3>1. ~ (j <= k - 1) /\ j = (k - 1) + 1
            BY <1>0, <2>3
        <3>2. QED
            BY <2>3, <3>1
    <2>4. CASE ~ (j <= k - 1) /\ j # k
        <3>1. j - 1 \in 1 .. n - 1 /\ ~ (j - 1 < k) /\ (j - 1) + 1 = j /\ j # (k - 1) + 1
            BY <1>0, <2>4
        <3>2. d[j - 1] = s[(j - 1) + 1]
            BY <1>6, <3>1
        <3>3. QED
            BY <2>4, <3>1, <3>2
    <2>5. QED
        BY <2>2, <2>3, <2>4
<1>8. Len(d) + 1 = n
    BY <1>0, <1>5
<1>9. Inserted(d, k - 1, s[k]) = [j \in 1 .. n |-> s[j]]
    BY <1>2, <1>7, <1>8
<1>10. s = [j \in 1 .. n |-> s[j]]
    BY <1>0
<1>11. QED
    BY <1>5, <1>6, <1>9, <1>10 DEF n, d

\* unlink_descriptor_ keeps the chain and the order of the objects left in it.
LEMMA ChainDeleted ==
    ASSUME NEW w \in [Handles -> Slot], NEW root, NEW c, IsChain(w, root, c), SlotsSound(w),
           NEW top \in Nat, LaidOut(w, top, c),
           NEW k \in 1 .. Len(c), NEW h, h = c[k],
           NEW x, x = IF k = 1 THEN Null ELSE c[k - 1], NEW y, y = w[h].next,
           NEW w2, Links(w, w2, h, FreeSlot, x, y),
           NEW root2, root2 = IF k = 1 THEN y ELSE root
    PROVE  /\ IsChain(w2, root2, Deleted(c, k))
           /\ SlotsSound(w2)
           /\ LaidOut(w2, top, Deleted(c, k))
           /\ InUse(w2) = InUse(w) \ {h} /\ h \in InUse(w)
<1> DEFINE n == Len(c)
           d == Deleted(c, k)
<1>0. /\ n \in Nat /\ DOMAIN c = 1 .. n /\ c \in Seq(Handles)
      /\ \A j \in 1 .. n : c[j] \in Handles /\ w[c[j]].state # "free"
      /\ k \in 1 .. n /\ n - 1 \in Nat
    <2>1. n \in Nat /\ DOMAIN c = 1 .. n /\ c \in Seq(Handles)
        BY DEF IsChain
    <2>2. \A j \in 1 .. n : c[j] \in Handles /\ w[c[j]].state # "free"
        BY ChainParts
    <2>3. QED
        BY <2>1, <2>2
<1>1. /\ d \in Seq(Handles) /\ Len(d) = n - 1 /\ DOMAIN d = 1 .. n - 1
      /\ \A j \in 1 .. n - 1 : d[j] = IF j < k THEN c[j] ELSE c[j + 1]
    <2>1. c \in Seq(Handles) /\ k \in 1 .. Len(c)
        BY <1>0
    <2>2. QED
        BY <2>1, DeletedIs
<1>h. h \in Handles /\ h = c[k]
    BY <1>0
<1>2. \A g \in Handles : g # h =>
             /\ w2[g] \in Slot
             /\ w2[g].state = w[g].state /\ w2[g].refs = w[g].refs
             /\ w2[g].offset = w[g].offset /\ w2[g].size = w[g].size
             /\ Past(w2[g]) = Past(w[g])
             /\ w2[g].next = IF g = x THEN w[h].next ELSE w[g].next
    BY <1>h, LinksKeep
<1>3. w2[h] = FreeSlot /\ x = IF k = 1 THEN Null ELSE c[k - 1]
    BY DEF Links
<1>4. /\ \A i, j \in 1 .. n : c[i] = c[j] => i = j
      /\ \A g \in Handles : w[g].state # "free" => \E j \in 1 .. n : c[j] = g
      /\ root = IF n = 0 THEN Null ELSE c[1]
      /\ \A j \in 1 .. n : w[c[j]].next = IF j = n THEN Null ELSE c[j + 1]
    BY <1>0 DEF IsChain
<1>6. Null \notin Handles /\ FreeSlot.state = "free"
    BY NullIsNone, FreeSlotTyped
<1> HIDE DEF n, d
<1>7. ASSUME NEW j \in 1 .. n - 1, j < k
      PROVE  j \in 1 .. n /\ d[j] = c[j] /\ d[j] # h /\ d[j] \in Handles
    <2>1. j \in 1 .. n /\ j # k
        BY <1>0, <1>7
    <2>2. QED
        BY <1>0, <1>1, <1>4, <1>7, <1>h, <2>1
<1>8. ASSUME NEW j \in 1 .. n - 1, ~ (j < k)
      PROVE  j \in 1 .. n /\ j + 1 \in 1 .. n /\ d[j] = c[j + 1] /\ d[j] # h /\ d[j] \in Handles
    <2>1. j \in 1 .. n /\ j + 1 \in 1 .. n /\ j + 1 # k
        BY <1>0, <1>8
    <2>2. QED
        BY <1>0, <1>1, <1>4, <1>8, <1>h, <2>1
<1>10. \A i, j \in 1 .. n - 1 : d[i] = d[j] => i = j
    <2>1. SUFFICES ASSUME NEW i \in 1 .. n - 1, NEW j \in 1 .. n - 1, d[i] = d[j] PROVE i = j
        OBVIOUS
    <2>2. CASE i < k /\ j < k
        BY <1>4, <1>7, <2>1, <2>2
    <2>3. CASE ~ (i < k) /\ ~ (j < k)
        <3>1. i + 1 = j + 1
            BY <1>4, <1>8, <2>1, <2>3
        <3>2. QED
            BY <3>1
    <2>4. CASE i < k /\ ~ (j < k)
        <3>1. i = j + 1
            BY <1>4, <1>7, <1>8, <2>1, <2>4
        <3>2. QED
            BY <1>0, <2>4, <3>1
    <2>5. CASE ~ (i < k) /\ j < k
        <3>1. j = i + 1
            BY <1>4, <1>7, <1>8, <2>1, <2>5
        <3>2. QED
            BY <1>0, <2>5, <3>1
    <2>6. QED
        BY <2>2, <2>3, <2>4, <2>5
<1>11. \A j \in 1 .. n - 1 : w2[d[j]].state # "free"
    <2>1. SUFFICES ASSUME NEW j \in 1 .. n - 1 PROVE w2[d[j]].state # "free"
        OBVIOUS
    <2>2. w[d[j]].state # "free" /\ d[j] # h /\ d[j] \in Handles
        BY <1>0, <1>7, <1>8
    <2>3. QED
        BY <1>2, <2>2
<1>12. \A g \in Handles : w2[g].state # "free" => \E j \in 1 .. n - 1 : d[j] = g
    <2>1. SUFFICES ASSUME NEW g \in Handles, w2[g].state # "free"
              PROVE \E j \in 1 .. n - 1 : d[j] = g
        OBVIOUS
    <2>2. g # h
        BY <1>3, <1>6, <2>1
    <2>3. PICK j \in 1 .. n : c[j] = g
        BY <1>2, <1>4, <2>1, <2>2
    <2>4. j # k
        BY <1>h, <2>2, <2>3
    <2>5. CASE j < k
        <3>1. j \in 1 .. n - 1
            BY <1>0, <2>5
        <3>2. QED
            BY <1>7, <2>3, <2>5, <3>1
    <2>6. CASE ~ (j < k)
        <3>1. j - 1 \in 1 .. n - 1 /\ ~ (j - 1 < k) /\ (j - 1) + 1 = j
            BY <1>0, <2>4, <2>6
        <3>2. d[j - 1] = c[(j - 1) + 1]
            BY <1>8, <3>1
        <3>3. QED
            BY <2>3, <3>1, <3>2
    <2>7. QED
        BY <2>5, <2>6
<1>13. root2 = IF Len(d) = 0 THEN Null ELSE d[1]
    <2>1. Len(d) = 0 <=> n = 1
        BY <1>0, <1>1
    <2>2. CASE k = 1
        <3>1. root2 = IF 1 = n THEN Null ELSE c[1 + 1]
            BY <1>4, <1>h, <1>0, <2>2
        <3>2. n # 1 => d[1] = c[1 + 1]
            <4>1. n # 1 => 1 \in 1 .. n - 1 /\ ~ (1 < k)
                BY <1>0, <2>2
            <4>2. QED
                BY <1>8, <4>1
        <3>3. QED
            BY <2>1, <3>1, <3>2
    <2>3. CASE k # 1
        <3>1. 1 \in 1 .. n - 1 /\ 1 < k /\ n # 1 /\ n # 0
            BY <1>0, <2>3
        <3>2. d[1] = c[1]
            BY <1>7, <3>1
        <3>3. QED
            BY <1>4, <2>1, <2>3, <3>1, <3>2
    <2>4. QED
        BY <2>2, <2>3
<1>14. \A j \in 1 .. n - 1 : w2[d[j]].next = IF j = n - 1 THEN Null ELSE d[j + 1]
    <2>1. SUFFICES ASSUME NEW j \in 1 .. n - 1 PROVE w2[d[j]].next = IF j = n - 1 THEN Null
              ELSE d[j + 1]
        OBVIOUS
    <2>2. CASE j < k
        <3>1. j \in 1 .. n /\ d[j] = c[j] /\ d[j] # h /\ c[j] \in Handles
            BY <1>7, <2>2
        <3>2. CASE j = k - 1
            <4>1. c[j] = x /\ k # 1
                BY <1>0, <1>3, <3>2
            <4>2. w2[d[j]].next = w[h].next
                BY <1>2, <3>1, <4>1
            <4>3. w[h].next = IF k = n THEN Null ELSE c[k + 1]
                BY <1>0, <1>4, <1>h
            <4>4. CASE k = n
                BY <3>2, <4>2, <4>3, <4>4
            <4>5. CASE k # n
                <5>1. j + 1 \in 1 .. n - 1 /\ j # n - 1 /\ ~ (j + 1 < k) /\ j + 1 = k
                    BY <1>0, <3>2, <4>5
                <5>2. d[j + 1] = c[k + 1]
                    BY <1>8, <5>1
                <5>3. QED
                    BY <4>2, <4>3, <4>5, <5>1, <5>2
            <4>6. QED
                BY <4>4, <4>5
        <3>3. CASE j # k - 1
            <4>1. j + 1 \in 1 .. n - 1 /\ j + 1 < k /\ j # n - 1 /\ j # n
                BY <1>0, <2>2, <3>3
            <4>2. c[j] # x
                <5>1. CASE k = 1
                    BY <1>3, <1>6, <3>1, <5>1
                <5>2. CASE k # 1
                    <6>1. k - 1 \in 1 .. n
                        BY <1>0, <5>2
                    <6>2. QED
                        BY <1>3, <1>4, <3>1, <3>3, <5>2, <6>1
                <5>3. QED
                    BY <5>1, <5>2
            <4>3. w2[d[j]].next = w[c[j]].next
                BY <1>2, <3>1, <4>2
            <4>4. w[c[j]].next = c[j + 1] /\ d[j + 1] = c[j + 1]
                BY <1>4, <1>7, <3>1, <4>1
            <4>5. QED
                BY <4>1, <4>3, <4>4
        <3>4. QED
            BY <3>2, <3>3
    <2>3. CASE ~ (j < k)
        <3>1. j + 1 \in 1 .. n /\ d[j] = c[j + 1] /\ d[j] # h /\ c[j + 1] \in Handles
            BY <1>8, <2>3
        <3>2. c[j + 1] # x
            <4>1. CASE k = 1
                BY <1>3, <1>6, <3>1, <4>1
            <4>2. CASE k # 1
                <5>1. k - 1 \in 1 .. n /\ j + 1 # k - 1
                    BY <1>0, <2>3, <4>2
                <5>2. QED
                    BY <1>3, <1>4, <3>1, <4>2, <5>1
            <4>3. QED
                BY <4>1, <4>2
        <3>3. w2[d[j]].next = w[c[j + 1]].next
            BY <1>2, <3>1, <3>2
        <3>4. w[c[j + 1]].next = IF j + 1 = n THEN Null ELSE c[(j + 1) + 1]
            BY <1>4, <3>1
        <3>5. j + 1 = n <=> j = n - 1
            BY <1>0
        <3>6. CASE j = n - 1
            BY <3>3, <3>4, <3>5, <3>6
        <3>7. CASE j # n - 1
            <4>1. j + 1 \in 1 .. n - 1 /\ ~ (j + 1 < k)
                BY <1>0, <2>3, <3>7
            <4>2. d[j + 1] = c[(j + 1) + 1]
                BY <1>8, <4>1
            <4>3. QED
                BY <3>3, <3>4, <3>5, <3>7, <4>2
        <3>8. QED
            BY <3>6, <3>7
    <2>4. QED
        BY <2>2, <2>3
<1>15. IsChain(w2, root2, d)
    <2>1. d \in Seq(Handles) /\ DOMAIN d = 1 .. n - 1 /\ Len(d) = n - 1
        BY <1>1
    <2>2. /\ \A i, j \in DOMAIN d : d[i] = d[j] => i = j
          /\ \A j \in DOMAIN d : w2[d[j]].state # "free"
          /\ \A g \in Handles : w2[g].state # "free" => \E j \in DOMAIN d : d[j] = g
        BY <1>10, <1>11, <1>12, <2>1
    <2>3. \A j \in DOMAIN d : w2[d[j]].next = IF j = Len(d) THEN Null ELSE d[j + 1]
        BY <1>14, <2>1
    <2>4. QED
        BY <1>13, <2>1, <2>2, <2>3 DEF IsChain
<1>16. SlotsSound(w2)
    BY <1>2, <1>3, <1>6 DEF SlotsSound
<1>17. InUse(w2) = InUse(w) \ {h} /\ h \in InUse(w)
    <2>1. w[h].state # "free"
        BY <1>0, <1>h
    <2>2. QED
        BY <1>2, <1>3, <1>6, <1>h, <2>1 DEF InUse
<1>18. LaidOut(w2, top, d)
    <2> DEFINE off(j) == w[c[j]].offset
               tp(j) == Past(w[c[j]])
               doff(j) == w2[d[j]].offset
               dtp(j) == Past(w2[d[j]])
    <2>1. \A j \in 1 .. n : /\ off(j) \in Nat /\ tp(j) \in Nat /\ off(j) < tp(j)
                            /\ off(j) % HeapAlignment = 0 /\ top <= off(j)
                            /\ tp(j) <= IF j = 1 THEN Capacity ELSE off(j - 1)
        <3>1. \A j \in 1 .. n : /\ off(j) \in Nat /\ tp(j) \in Nat /\ off(j) < tp(j)
            BY ChainParts DEF n
        <3>2. \A j \in 1 .. n : /\ off(j) % HeapAlignment = 0 /\ top <= off(j)
                                /\ tp(j) <= IF j = 1 THEN Capacity ELSE off(j - 1)
            BY <1>0 DEF LaidOut
        <3>3. QED
            BY <3>1, <3>2
    <2>2. \A j \in 1 .. n - 1 : j < k => doff(j) = off(j) /\ dtp(j) = tp(j)
        <3>1. SUFFICES ASSUME NEW j \in 1 .. n - 1, j < k PROVE doff(j) = off(j) /\ dtp(j) = tp(j)
            OBVIOUS
        <3>2. d[j] = c[j] /\ d[j] # h /\ d[j] \in Handles
            BY <1>7, <3>1
        <3>3. QED
            BY <1>2, <3>2
    <2>3. \A j \in 1 .. n - 1 : ~ (j < k) => doff(j) = off(j + 1) /\ dtp(j) = tp(j + 1)
        <3>1. SUFFICES ASSUME NEW j \in 1 .. n - 1, ~ (j < k) PROVE doff(j) = off(j + 1)
                  /\ dtp(j) = tp(j + 1)
            OBVIOUS
        <3>2. d[j] = c[j + 1] /\ d[j] # h /\ d[j] \in Handles
            BY <1>8, <3>1
        <3>3. QED
            BY <1>2, <3>2
    <2> HIDE DEF off, tp, doff, dtp
    <2>4. Capacity \in Nat
        BY LayoutAssumption
    <2>5. ASSUME NEW j \in 1 .. n - 1
          PROVE doff(j) % HeapAlignment = 0 /\ top <= doff(j)
        <3>1. j \in 1 .. n /\ j + 1 \in 1 .. n
            BY <1>0
        <3>2. QED
            BY <2>1, <2>2, <2>3, <3>1
    <2>6. ASSUME NEW j \in 1 .. n - 1
          PROVE dtp(j) <= IF j = 1 THEN Capacity ELSE doff(j - 1)
        <3>1. j \in 1 .. n /\ j + 1 \in 1 .. n /\ j + 1 # 1 /\ (j + 1) - 1 = j
            BY <1>0
        <3>2. j # 1 => j - 1 \in 1 .. n - 1 /\ (j - 1) + 1 = j /\ j - 1 \in 1 .. n
            BY <1>0
        <3>3. CASE j < k
            <4>1. j # 1 => j - 1 < k
                BY <1>0, <3>3
            <4>2. j # 1 => doff(j - 1) = off(j - 1)
                BY <2>2, <3>2, <4>1
            <4>3. dtp(j) = tp(j)
                BY <2>2, <3>3
            <4>4. QED
                BY <2>1, <3>1, <4>2, <4>3
        <3>4. CASE ~ (j < k)
            <4>1. dtp(j) = tp(j + 1) /\ tp(j + 1) <= off(j)
                BY <2>1, <2>3, <3>1, <3>4
            <4>2. off(j) < tp(j) /\ tp(j) <= (IF j = 1 THEN Capacity ELSE off(j - 1))
                BY <2>1, <3>1
            <4>3. /\ off(j) \in Nat /\ tp(j) \in Nat /\ tp(j + 1) \in Nat
                  /\ (j # 1 => off(j - 1) \in Nat)
                BY <2>1, <3>1, <3>2
            <4>4. CASE j = 1
                BY <2>4, <4>1, <4>2, <4>3, <4>4
            <4>5. CASE j # 1
                <5>1. CASE j - 1 < k
                    <6>1. doff(j - 1) = off(j - 1)
                        BY <2>2, <3>2, <4>5, <5>1
                    <6>2. QED
                        BY <4>1, <4>2, <4>3, <4>5, <6>1
                <5>2. CASE ~ (j - 1 < k)
                    <6>1. doff(j - 1) = off(j)
                        BY <2>3, <3>2, <4>5, <5>2
                    <6>2. QED
                        BY <4>1, <4>5, <6>1
                <5>3. QED
                    BY <5>1, <5>2
            <4>6. QED
                BY <4>4, <4>5
        <3>5. QED
            BY <3>3, <3>4
    <2>7. QED
        BY <1>1, <2>5, <2>6 DEF LaidOut, doff, dtp
<1>19. QED
    BY <1>15, <1>16, <1>17, <1>18 DEF d

\* The k-th object leaves the chain.
Minus(w, root, c, k, w2, root2) ==
    /\ Links(w, w2, c[k], FreeSlot, IF k = 1 THEN Null ELSE c[k - 1], w[c[k]].next)
    /\ root2 = IF k = 1 THEN w[c[k]].next ELSE root

\* What it reserved goes with it.
LEMMA WeightsDeleted ==
    ASSUME NEW w \in [Handles -> Slot], NEW root, NEW c \in Seq(Handles), NEW k \in 1 .. Len(c),
           NEW w2, NEW root2, Minus(w, root, c, k, w2, root2),
           IsChain(w2, root2, Deleted(c, k)), SlotsSound(w2), NEW C
    PROVE  Total(Weights(w, c, C)) = Total(Weights(w2, Deleted(c, k), C))
                                       + (IF c[k] \in C THEN 0 ELSE AlignUp(w[c[k]].size))
<1> DEFINE h == c[k]
           x == IF k = 1 THEN Null ELSE c[k - 1]
           y == w[h].next
           D == C
<1>a. Links(w, w2, h, FreeSlot, x, y) /\ h = c[k]
    /\ (\A g \in Handles : g # h => (g \in C <=> g \in D))
    BY DEF Minus
<1> HIDE DEF h, x, y, D
<1> DEFINE d == Deleted(c, k)
           z == w[x].next
<1>1. h \in Handles /\ w[h] \in Slot /\ w2 \in [Handles -> Slot] /\ w2[h].state = "free"
    BY <1>a, FreeSlotTyped DEF Links
<1>2. Len(d) = Len(c) - 1 /\ k - 1 \in 0 .. Len(d) /\ Inserted(d, k - 1, h) = c
    <2>1. Len(d) = Len(c) - 1 /\ Inserted(d, k - 1, c[k]) = c
        BY DeletedIs
    <2>2. k - 1 \in 0 .. Len(d)
        BY <2>1
    <2>3. QED
        BY <1>a, <2>1, <2>2
<1>3. ASSUME NEW g \in Handles, g # h
      PROVE  w[g] = IF g = x THEN [w2[g] EXCEPT !.next = z] ELSE w2[g]
    <2>1. w2[g] = IF g = x THEN [w[g] EXCEPT !.next = y] ELSE w[g]
        BY <1>a, <1>3 DEF Links
    <2>2. CASE g = x
        <3>1. w[g] \in Slot /\ w2[g] = [w[g] EXCEPT !.next = y] /\ z = w[g].next
            BY <2>1, <2>2
        <3> HIDE DEF z
        <3>2. [w2[g] EXCEPT !.next = z] = w[g]
            BY <3>1 DEF Slot
        <3>3. QED
            BY <2>2, <3>2
    <2>3. CASE g # x
        BY <2>1, <2>3
    <2>4. QED
        BY <2>2, <2>3
<1>4. Links(w2, w, h, w[h], x, z)
    BY <1>3 DEF Links
<1>5. \A g \in Handles : g # h => (g \in D <=> g \in C)
    BY <1>a
<1> HIDE DEF d, z
<1> DEFINE s == w[h]
<1>6. s \in Slot /\ Links(w2, w, h, s, x, z)
    BY <1>1, <1>4
<1> HIDE DEF s
<1>7. Total(Weights(w, Inserted(d, k - 1, h), C))
        = Total(Weights(w2, d, D)) + (IF h \in C THEN 0 ELSE AlignUp(s.size))
    <2> DEFINE j == k - 1
    <2>1. j \in 0 .. Len(d) /\ IsChain(w2, root2, d)
        BY <1>2 DEF d
    <2> HIDE DEF j
    <2>2. Total(Weights(w, Inserted(d, j, h), C))
            = Total(Weights(w2, d, D)) + (IF h \in C THEN 0 ELSE AlignUp(s.size))
        BY <1>1, <1>5, <1>6, <2>1, WeightsInserted
    <2>3. QED
        BY <2>2 DEF j
<1>8. QED
    BY <1>2, <1>7 DEF d, s, h, D

\* What setting a link changes nothing of.
Only(hp, hq) ==
    /\ HeapRec(hq) /\ Len(hq.tables) = Len(hp.tables)
    /\ hq.reserved = hp.reserved /\ hq.live = hp.live /\ hq.mem = hp.mem
    /\ NoneEmpty(hp.tables) => NoneEmpty(hq.tables)

\* A link is set.
LEMMA LinkSet ==
    ASSUME NEW hp, HeapRec(hp), NEW h \in Handles, View(hp)[h].state # "free",
           NEW y \in Handles \cup {Null}
    PROVE  /\ Only(hp, WithNext(hp, h, y)) /\ WithNext(hp, h, y).root = hp.root
           /\ View(WithNext(hp, h, y)) = [View(hp) EXCEPT ![h] = [View(hp)[h] EXCEPT !.next = y]]
<1> DEFINE w == View(hp)
           s == [w[h] EXCEPT !.next = y]
<1>1. w \in [Handles -> Slot] /\ Present(hp.tables, h)
    BY ViewIs DEF HeapRec
<1>2. s \in Slot /\ s.state # "free"
    <2>1. w[h] \in Slot /\ w[h].state # "free"
        BY <1>1
    <2> HIDE DEF w
    <2>2. QED
        BY <2>1 DEF Slot
<1>3. WithNext(hp, h, y) = WithSlot(hp, h, s)
    <2>1. s = [w[h] EXCEPT !.next = y]
        OBVIOUS
    <2> HIDE DEF s
    <2>2. QED
        BY <1>1, <2>1, WithNextIs
<1> HIDE DEF s
<1>4. /\ SameBut(hp, WithSlot(hp, h, s))
      /\ View(WithSlot(hp, h, s)) = [View(hp) EXCEPT ![h] = s]
      /\ NoneEmpty(hp.tables) /\ s.state # "free" => NoneEmpty(WithSlot(hp, h, s).tables)
    BY <1>1, <1>2, WithSlotIs
<1>5. QED
    BY <1>2, <1>3, <1>4 DEF SameBut, Only, HeapRec, s, w

\* A base is set.
LEMMA BaseSet ==
    ASSUME NEW hp, HeapRec(hp), NEW h \in Handles, View(hp)[h].state # "free",
           NEW y \in Bytes
    PROVE  /\ Only(hp, WithBase(hp, h, y)) /\ WithBase(hp, h, y).root = hp.root
           /\ View(WithBase(hp, h, y)) = [View(hp) EXCEPT ![h] = [View(hp)[h] EXCEPT !.offset = y]]
           /\ PutBase(hp.tables, h, y) = WithBase(hp, h, y).tables
           /\ WithBase(hp, h, y) = [hp EXCEPT !.tables = WithBase(hp, h, y).tables]
<1> DEFINE w == View(hp)
           s == [w[h] EXCEPT !.offset = y]
<1>1. w \in [Handles -> Slot] /\ Present(hp.tables, h)
    BY ViewIs DEF HeapRec
<1>2. s \in Slot /\ s.state # "free"
    <2>1. w[h] \in Slot /\ w[h].state # "free"
        BY <1>1
    <2> HIDE DEF w
    <2>2. QED
        BY <2>1 DEF Slot
<1>3. WithBase(hp, h, y) = WithSlot(hp, h, s)
          /\ PutBase(hp.tables, h, y) = WithSlot(hp, h, s).tables
    <2>1. s = [w[h] EXCEPT !.offset = y]
        OBVIOUS
    <2> HIDE DEF s
    <2>2. QED
        BY <1>1, <2>1, WithNextIs
<1> HIDE DEF s
<1>4. /\ SameBut(hp, WithSlot(hp, h, s))
      /\ View(WithSlot(hp, h, s)) = [View(hp) EXCEPT ![h] = s]
      /\ NoneEmpty(hp.tables) /\ s.state # "free" => NoneEmpty(WithSlot(hp, h, s).tables)
      /\ WithSlot(hp, h, s) = [hp EXCEPT !.tables = WithSlot(hp, h, s).tables]
    BY <1>1, <1>2, WithSlotIs
<1>5. QED
    BY <1>2, <1>3, <1>4 DEF SameBut, Only, HeapRec, s, w

\* The root is set.
LEMMA RootSet ==
    ASSUME NEW hp, HeapRec(hp), NEW y \in Handles \cup {Null}
    PROVE  /\ Only(hp, [hp EXCEPT !.root = y])
           /\ [hp EXCEPT !.root = y].root = y
           /\ View([hp EXCEPT !.root = y]) = View(hp)
<1> DEFINE hq == [hp EXCEPT !.root = y]
<1>1. /\ hq \in Heap /\ hq.tables = hp.tables /\ hq.root = y /\ hq.reserved = hp.reserved
      /\ hq.live = hp.live /\ hq.mem = hp.mem
    BY DEF HeapRec, Heap
<1> HIDE DEF hq
<1>2. View(hq) = View(hp)
    BY <1>1 DEF View, SlotOf
<1>3. Only(hp, hq)
    BY <1>1 DEF Only, HeapRec
<1>4. QED
    BY <1>1, <1>2, <1>3 DEF hq

\* splice_descriptor_ in terms of the view.
LEMMA SplicedIs ==
    ASSUME NEW hp, HeapRec(hp), NEW c \in Seq(Handles), NEW i \in 0 .. Len(c),
           NEW h \in Handles, View(hp)[h].state # "free",
           i # 0 => View(hp)[c[i]].state # "free" /\ c[i] # h
    PROVE  LET s == [View(hp)[h] EXCEPT !.next = IF i = Len(c) THEN Null ELSE c[i + 1]]
               hq == Spliced(hp, c, i, h)
           IN  /\ Only(hp, hq) /\ hq.root = IF i = 0 THEN h ELSE hp.root
               /\ s \in Slot
               /\ \A v \in [Handles -> Slot] : (\A g \in Handles : g # h => v[g] = View(hp)[g])
                     => Links(v, View(hq), h, s, IF i = 0 THEN Null ELSE c[i], h)
<1> DEFINE w == View(hp)
           y == IF i = Len(c) THEN Null ELSE c[i + 1]
           s == [w[h] EXCEPT !.next = y]
           x == IF i = 0 THEN Null ELSE c[i]
           below == WithNext(hp, h, y)
           hq == Spliced(hp, c, i, h)
<1>1. w \in [Handles -> Slot]
    BY ViewIs DEF HeapRec
<1>2. y \in Handles \cup {Null} /\ (i # 0 => c[i] \in Handles)
    <2>1. i # Len(c) => i + 1 \in 1 .. Len(c)
        OBVIOUS
    <2>2. i # 0 => i \in 1 .. Len(c)
        OBVIOUS
    <2>3. QED
        BY <2>1, <2>2
<1>3. s \in Slot /\ s.state # "free"
    <2>1. w[h] \in Slot /\ w[h].state # "free"
        BY <1>1
    <2> HIDE DEF w, y
    <2>2. QED
        BY <1>2, <2>1 DEF Slot
<1>4. hq = IF i = 0 THEN [below EXCEPT !.root = h] ELSE WithNext(below, c[i], h)
    BY DEF Spliced
<1>n. Null \notin Handles
    BY NullIsNone
<1> HIDE DEF y, below, hq
<1>5. Only(hp, below) /\ below.root = hp.root /\ View(below) = [w EXCEPT ![h] = s]
    BY <1>2, LinkSet DEF below
<1>6. /\ View(below)[h] = s
      /\ \A g \in Handles : g # h => View(below)[g] = w[g]
    BY <1>1, <1>5
<1>7. HeapRec(below)
    BY <1>5 DEF Only
<1>8. CASE i = 0
    <2>1. /\ Only(below, hq) /\ hq.root = h /\ View(hq) = View(below)
        BY <1>4, <1>7, <1>8, RootSet
    <2>2. Only(hp, hq)
        BY <1>5, <2>1 DEF Only
    <2>3. View(hq) \in [Handles -> Slot]
        BY <2>2, ViewIs DEF Only, HeapRec
    <2>4. ASSUME NEW v \in [Handles -> Slot], \A g \in Handles : g # h => v[g] = View(hp)[g]
          PROVE  Links(v, View(hq), h, s, x, h)
        <3>1. \A g \in Handles : g # x
            BY <1>8, <1>n
        <3>2. QED
            BY <1>6, <2>1, <2>3, <2>4, <3>1 DEF Links
    <2>5. QED
        BY <1>3, <1>8, <2>1, <2>2, <2>4 DEF y, hq
<1>9. CASE i # 0
    <2>1. View(below)[c[i]].state # "free" /\ c[i] \in Handles /\ c[i] # h
        BY <1>2, <1>6, <1>9
    <2>2. /\ Only(below, hq) /\ hq.root = below.root
          /\ View(hq) = [View(below) EXCEPT ![c[i]] = [View(below)[c[i]] EXCEPT !.next = h]]
        <3> DEFINE u == c[i]
        <3>1. u \in Handles /\ View(below)[u].state # "free" /\ hq = WithNext(below, u, h)
            BY <1>4, <1>9, <2>1
        <3>2. h \in Handles \cup {Null}
            OBVIOUS
        <3> HIDE DEF u
        <3>3. /\ Only(below, hq) /\ hq.root = below.root
              /\ View(hq) = [View(below) EXCEPT ![u] = [View(below)[u] EXCEPT !.next = h]]
            BY <1>7, <3>1, <3>2, LinkSet
        <3>4. QED
            BY <3>3 DEF u
    <2>3. Only(hp, hq)
        BY <1>5, <2>2 DEF Only
    <2>4. View(hq) \in [Handles -> Slot] /\ View(below) \in [Handles -> Slot]
        BY <1>7, <2>3, ViewIs DEF Only, HeapRec
    <2>5. ASSUME NEW v \in [Handles -> Slot], \A g \in Handles : g # h => v[g] = View(hp)[g]
          PROVE  Links(v, View(hq), h, s, x, h)
        <3>1. x = c[i]
            BY <1>9
        <3>2. View(hq)[h] = s
            BY <1>6, <2>1, <2>2, <2>4
        <3>3. \A g \in Handles : g # h => View(below)[g] = v[g]
            BY <1>6, <2>5
        <3>4. \A g \in Handles : g # h => View(hq)[g] = IF g = x
                  THEN [v[g] EXCEPT !.next = h] ELSE v[g]
            BY <2>1, <2>2, <2>4, <3>1, <3>3
        <3>5. QED
            BY <2>4, <3>2, <3>4 DEF Links
    <2>6. QED
        BY <1>3, <1>5, <1>9, <2>2, <2>3, <2>5 DEF y, hq
<1>10. QED
    BY <1>8, <1>9

-----------------------------------------------------------------------------
(***************************************************************************)
(* A new object.                                                           *)
(***************************************************************************)
\* What the bytes hold is no part of the heap's shape.
LEMMA MemSet ==
    ASSUME NEW hp, HeapRec(hp), NEW m \in [Bytes -> Values \cup {Junk}]
    PROVE  LET hq == [hp EXCEPT !.mem = m]
           IN  /\ HeapRec(hq) /\ View(hq) = View(hp) /\ hq.tables = hp.tables /\ hq.mem = m
               /\ hq.root = hp.root /\ hq.reserved = hp.reserved /\ hq.live = hp.live
               /\ MetadataTop(hq) = MetadataTop(hp)
               /\ \A C : HeapOK(hp, C) => HeapOK(hq, C) /\ Chain(hq) = Chain(hp)
<1> DEFINE hq == [hp EXCEPT !.mem = m]
<1>1. /\ hq \in Heap /\ hq.tables = hp.tables /\ hq.root = hp.root /\ hq.reserved = hp.reserved
      /\ hq.live = hp.live /\ hq.mem = m
    BY DEF HeapRec, Heap
<1> HIDE DEF hq
<1>2. View(hq) = View(hp)
    BY <1>1 DEF View, SlotOf
<1>3. HeapRec(hq) /\ MetadataTop(hq) = MetadataTop(hp)
    BY <1>1 DEF HeapRec, MetadataTop
<1>4. ASSUME NEW C, HeapOK(hp, C) PROVE HeapOK(hq, C) /\ Chain(hq) = Chain(hp)
    <2>1. IsChain(View(hq), hq.root, Chain(hp)) /\ NoneEmpty(hq.tables)
        BY <1>1, <1>2, <1>4 DEF HeapOK
    <2>2. /\ LaidOut(View(hq), MetadataTop(hq), Chain(hp)) /\ SlotsSound(View(hq))
          /\ hq.reserved = Total(Weights(View(hq), Chain(hp), C))
          /\ hq.live = Cardinality(InUse(View(hq)) \ C)
        BY <1>1, <1>2, <1>3, <1>4 DEF HeapOK
    <2>3. QED
        BY <1>3, <2>1, <2>2, HeapFrom
<1>5. QED
    BY <1>1, <1>2, <1>3, <1>4 DEF hq

\* The metadata may end anywhere below the lowest object.
LEMMA LaidOutFrom ==
    ASSUME NEW w \in [Handles -> Slot], NEW root, NEW c, IsChain(w, root, c), SlotsSound(w),
           NEW top \in Nat, LaidOut(w, top, c), NEW top2 \in Nat, top2 <= Above(w, c, Len(c))
    PROVE  LaidOut(w, top2, c)
<1> DEFINE n == Len(c)
<1>0. n \in Nat /\ DOMAIN c = 1 .. n
    BY DEF IsChain
<1>1. \A k \in 1 .. n : w[c[k]].offset \in Nat /\ Past(w[c[k]]) \in Nat
          /\ w[c[k]].offset < Past(w[c[k]])
    BY ChainParts
<1>2. ASSUME NEW k \in 1 .. n PROVE top2 <= w[c[k]].offset
    <2>1. n \in 1 .. n /\ n # 0
        BY <1>0
    <2>2. top2 <= w[c[n]].offset
        BY <2>1 DEF Above
    <2>3. CASE k = n
        BY <2>2, <2>3
    <2>4. CASE k # n
        <3>1. k < n
            <4>1. k \in 1 .. n /\ n \in Nat /\ k # n
                BY <1>0, <2>4
            <4> HIDE DEF n
            <4>2. QED
                BY <4>1
        <3>2. Past(w[c[n]]) <= w[c[k]].offset
            BY <2>1, <3>1, Apart
        <3>3. /\ w[c[n]].offset \in Nat /\ Past(w[c[n]]) \in Nat /\ w[c[k]].offset \in Nat
              /\ w[c[n]].offset < Past(w[c[n]])
            BY <1>1, <2>1
        <3>4. QED
            BY <2>2, <3>2, <3>3
    <2>5. QED
        BY <2>3, <2>4
<1>3. QED
    BY <1>0, <1>2 DEF LaidOut

\* The table make pushes for its slot lies below every object.
LEMMA RoomLaidOut ==
    ASSUME NEW hp, NEW C, HeapOK(hp, C), NEW r, NEW h, Taken(hp, r, h)
    PROVE  /\ LaidOut(View(hp), MetadataTop(r), Chain(hp))
           /\ MetadataTop(r) \in Nat /\ MetadataTop(r) <= Capacity
                  /\ MetadataTop(r) % HeapAlignment = 0
           /\ MetadataTop(hp) <= MetadataTop(r)
           /\ Len(r.tables) = Len(hp.tables) + 1 => MetadataTop(r) = MetadataTop(hp) + TableBytes
<1> DEFINE c == Chain(hp)
           w == View(hp)
           top == MetadataTop(hp)
           n == Len(c)
<1>1. /\ HeapRec(hp) /\ w \in [Handles -> Slot] /\ IsChain(w, hp.root, c)
      /\ LaidOut(w, top, c) /\ SlotsSound(w) /\ top \in Nat /\ top <= Capacity
      /\ top % HeapAlignment = 0 /\ n \in Nat /\ DOMAIN c = 1 .. n
    BY HeapGives
<1>2. /\ HeapRec(r)
      /\ \/ r = hp
         \/ /\ Len(hp.tables) < MaxTables /\ BottomFreeSpan(hp) >= TableBytes
            /\ Len(r.tables) = Len(hp.tables) + 1
    BY DEF Taken
<1>3. MetadataTop(r) \in Nat /\ MetadataTop(r) <= Capacity /\ MetadataTop(r) % HeapAlignment = 0
    BY <1>2, MetadataFits
<1>4. TableBytes \in Nat /\ Len(hp.tables) \in Nat
    BY <1>1, SizeFacts DEF HeapRec, TablesSound
<1>5. Len(r.tables) = Len(hp.tables) + 1 => MetadataTop(r) = MetadataTop(hp) + TableBytes
    <2>1. Len(hp.tables) \in 1 .. MaxTables
        BY <1>1 DEF HeapRec, TablesSound
    <2>2. \A t \in 1 .. MaxTables : (t + 1) * TableBytes = t * TableBytes + TableBytes
        BY TopsFit
    <2>3. QED
        BY <2>1, <2>2 DEF MetadataTop
<1>6. CASE r = hp
    BY <1>1, <1>3, <1>5, <1>6
<1>7. CASE BottomFreeSpan(hp) >= TableBytes /\ Len(r.tables) = Len(hp.tables) + 1
    <2>1. MetadataTop(r) = top + TableBytes
        BY <1>5, <1>7
    <2>2. n \in 0 .. n
        BY <1>1
    <2>3. Span(hp, c, n) = Above(w, c, n) - Under(w, top, c, n)
        BY <1>1, <2>2, SpanReads
    <2>4. Above(w, c, n) \in Nat
        BY <1>1, <2>2, Extents
    <2>5. Under(w, top, c, n) = top
        BY DEF Under
    <2>6. Span(hp, c, n) >= TableBytes
        BY <1>7 DEF BottomFreeSpan
    <2>7. MetadataTop(r) <= Above(w, c, n)
        <3>1. Above(w, c, n) - top >= TableBytes
            BY <2>3, <2>5, <2>6
        <3> HIDE DEF top, w, c, n
        <3>2. QED
            BY <1>1, <1>4, <2>1, <2>4, <3>1
    <2>8. LaidOut(w, MetadataTop(r), c)
        <3> DEFINE t2 == MetadataTop(r)
        <3>1. t2 \in Nat /\ t2 <= Above(w, c, Len(c))
            BY <1>3, <2>7
        <3> HIDE DEF t2
        <3>2. LaidOut(w, t2, c)
            BY <1>1, <3>1, LaidOutFrom
        <3>3. QED
            BY <3>2 DEF t2
    <2>9. top <= MetadataTop(r)
        <3> HIDE DEF top
        <3>1. QED
            BY <1>1, <1>4, <2>1
    <2>10. QED
        BY <1>3, <1>5, <2>8, <2>9
<1>8. QED
    BY <1>2, <1>6, <1>7

\* The CHOOSE in BestFit has a witness.
LEMMA BestFitIs ==
    ASSUME NEW hp, NEW c, NEW r, Fits(hp, c, r) # {}, Len(c) \in Nat,
           \A i \in 0 .. Len(c) : Span(hp, c, i) \in Nat
    PROVE  BestFit(hp, c, r) \in Fits(hp, c, r)
<1> DEFINE F == Fits(hp, c, r)
           sp(i) == Span(hp, c, i)
           S == {sp(i) : i \in F}
<1>1. F \subseteq 0 .. Len(c) /\ F # {}
    BY DEF Fits
<1>2. \A i \in F : sp(i) \in Nat /\ i \in Nat
    BY <1>1
<1> HIDE DEF F, sp
<1>3. S \in SUBSET Nat /\ S # {}
    BY <1>1, <1>2
<1>4. PICK m \in S : \A k \in S : m <= k
    <2> HIDE DEF S
    <2>1. QED
        BY <1>3, LeastNatural
<1> DEFINE T == {i \in F : sp(i) = m}
<1>5. T \in SUBSET Nat /\ T # {}
    BY <1>2, <1>4
<1>6. PICK i \in T : \A k \in T : i <= k
    <2> HIDE DEF T, S
    <2>1. QED
        BY <1>5, LeastNatural
<1>7. i \in F /\ sp(i) = m
    BY <1>6
<1>8. \A j \in F : sp(i) < sp(j) \/ (sp(i) = sp(j) /\ i <= j)
    <2>1. SUFFICES ASSUME NEW j \in F, sp(j) # m PROVE m < sp(j)
        BY <1>6, <1>7
    <2>2. m <= sp(j) /\ m \in Nat /\ sp(j) \in Nat
        BY <1>2, <1>3, <1>4
    <2>3. QED
        BY <2>1, <2>2
<1>9. \E k \in Fits(hp, c, r) : \A j \in Fits(hp, c, r) :
           \/ Span(hp, c, k) < Span(hp, c, j)
           \/ Span(hp, c, k) = Span(hp, c, j) /\ k <= j
    BY <1>7, <1>8 DEF F, sp
<1>10. QED
    BY <1>9 DEF BestFit

\* find_best_fit_: what it answers is aligned and inside the extent it chose,
\* above the table that was just pushed.
LEMMA PlacedWithin ==
    ASSUME NEW hp, NEW C, HeapOK(hp, C), NEW r, NEW h, Taken(hp, r, h),
           NEW n \in 1 .. Capacity, NEW i \in Fits(r, Chain(hp), AlignUp(n))
    PROVE  LET off == PlacementOffset(r, Chain(hp), i, AlignUp(n))
           IN  /\ i \in 0 .. Len(Chain(hp))
               /\ off \in Bytes /\ off % HeapAlignment = 0
               /\ Under(View(hp), MetadataTop(r), Chain(hp), i) <= off
               /\ off + AlignUp(n) <= Above(View(hp), Chain(hp), i)
               /\ MetadataTop(r) <= off
<1> DEFINE c == Chain(hp)
           w == View(hp)
           top == MetadataTop(r)
           a == AlignUp(n)
           off == PlacementOffset(r, c, i, a)
<1>1. /\ HeapRec(hp) /\ w \in [Handles -> Slot] /\ IsChain(w, hp.root, c)
      /\ SlotsSound(w) /\ Len(c) \in Nat
    BY HeapGives
<1>2. LaidOut(w, top, c) /\ top \in Nat /\ top <= Capacity /\ top % HeapAlignment = 0
    BY RoomLaidOut
<1>3. HeapRec(r) /\ View(r) = w /\ r.root = hp.root
    BY DEF Taken
<1>4. i \in 0 .. Len(c) /\ Span(r, c, i) >= a
    BY DEF Fits
<1> DEFINE ab == Above(w, c, i)
           un == Under(w, top, c, i)
<1>5. IsChain(View(r), r.root, c) /\ SlotsSound(View(r))
    BY <1>1, <1>3
<1>6. High(r, c, i) = ab /\ Low(r, c, i) = un /\ Span(r, c, i) = ab - un
    BY <1>3, <1>4, <1>5, SpanReads
<1>7. ab \in Nat /\ un \in Nat /\ un <= ab /\ ab <= Capacity /\ ab % HeapAlignment = 0
          /\ un % HeapAlignment = 0 /\ top <= un
    BY <1>1, <1>2, <1>4, Extents
<1>8. n \in Nat /\ n >= 1 /\ Capacity \in Nat
    BY LayoutAssumption
<1>9. a \in Nat /\ n <= a /\ a % HeapAlignment = 0
    BY <1>8, AlignUpIs
<1>10. off = IF i = Len(c) THEN ab - a ELSE un
    BY <1>6 DEF PlacementOffset
<1>11. (ab - a) % HeapAlignment = 0
    <2>1. \A x, y \in Int : x % HeapAlignment = 0
              /\ y % HeapAlignment = 0 => (x - y) % HeapAlignment = 0
        BY MultipleSums, SizeFacts
    <2>2. ab \in Int /\ a \in Int
        BY <1>7, <1>9
    <2> HIDE DEF ab, a
    <2>3. QED
        BY <1>7, <1>9, <2>1, <2>2
<1> HIDE DEF ab, un, a, off, top, w, c
<1>12. ab - un >= a
    BY <1>4, <1>6
<1>13. /\ off \in Int /\ un <= off /\ off + a <= ab /\ off % HeapAlignment = 0 /\ top <= off
       /\ 0 <= off /\ off < Capacity
    <2>1. CASE i = Len(c)
        BY <1>2, <1>7, <1>8, <1>9, <1>10, <1>11, <1>12, <2>1
    <2>2. CASE i # Len(c)
        BY <1>2, <1>7, <1>8, <1>9, <1>10, <1>12, <2>2
    <2>3. QED
        BY <2>1, <2>2
<1>14. off \in Bytes
    BY <1>8, <1>13 DEF Bytes
<1>15. QED
    BY <1>4, <1>13, <1>14 DEF off, a, ab, un, c, w, top

\* The heap make leaves to its constructor.
Making(hp, C, r, h, n, i, off, m, hq) ==
    /\ Taken(hp, r, h) /\ h \notin C /\ n \in 1 .. Capacity
    /\ i \in Fits(r, Chain(hp), AlignUp(n))
    /\ off = PlacementOffset(r, Chain(hp), i, AlignUp(n))
    /\ m \in [Bytes -> Values \cup {Junk}]
    /\ \E slot : /\ slot = [state |-> "live", refs |-> 1, offset |-> off, size |-> n, next |-> Null]
                 /\ hq = [Spliced(WithSlot(r, h, slot), Chain(hp), i, h) EXCEPT !.mem = m]

\* It is a heap whose new object is not counted yet.
THEOREM MadeIs ==
    ASSUME NEW hp, NEW C, HeapOK(hp, C), NEW r, NEW h, NEW n, NEW i, NEW off, NEW m, NEW hq,
           Making(hp, C, r, h, n, i, off, m, hq)
    PROVE  /\ HeapOK(hq, C \cup {h}) /\ hq.mem = m
           /\ \E s \in Slot : \E x :
                /\ Links(View(hp), View(hq), h, s, x, h)
                /\ s.state = "live" /\ s.refs = 1 /\ s.offset = off /\ s.size = n
<1> SUFFICES ASSUME Taken(hp, r, h), h \notin C, n \in 1 .. Capacity,
                    i \in Fits(r, Chain(hp), AlignUp(n)),
                    off = PlacementOffset(r, Chain(hp), i, AlignUp(n)),
                    m \in [Bytes -> Values \cup {Junk}],
                    NEW slot, slot
                        = [state |-> "live", refs |-> 1, offset |-> off, size |-> n, next |-> Null],
                    hq = [Spliced(WithSlot(r, h, slot), Chain(hp), i, h) EXCEPT !.mem = m]
             PROVE  /\ HeapOK(hq, C \cup {h}) /\ hq.mem = m
                    /\ \E s \in Slot : \E x :
                         /\ Links(View(hp), View(hq), h, s, x, h)
                         /\ s.state = "live" /\ s.refs = 1 /\ s.offset = off /\ s.size = n
    BY DEF Making
<1> DEFINE c == Chain(hp)
           w == View(hp)
           top == MetadataTop(r)
           x == IF i = 0 THEN Null ELSE c[i]
           mid == WithSlot(r, h, slot)
           sp == Spliced(mid, c, i, h)
<1>1. /\ HeapRec(hp) /\ w \in [Handles -> Slot] /\ IsChain(w, hp.root, c)
      /\ SlotsSound(w) /\ Len(c) \in Nat /\ DOMAIN c = 1 .. Len(c) /\ c \in Seq(Handles)
    BY HeapGives DEF IsChain
<1>2. LaidOut(w, top, c) /\ top \in Nat /\ top <= Capacity /\ top % HeapAlignment = 0
    BY RoomLaidOut
<1>3. /\ HeapRec(r) /\ View(r) = w /\ r.root = hp.root /\ h \in Handles /\ Present(r.tables, h)
      /\ r.live = hp.live /\ r.reserved = hp.reserved
      /\ w[h] = FreeSlot /\ \A s \in Slot : s.state # "free" => NoneEmpty(WithSlot(r, h, s).tables)
    BY DEF Taken
<1>4. /\ i \in 0 .. Len(c)
      /\ off \in Bytes /\ off % HeapAlignment = 0
      /\ Under(w, top, c, i) <= off
      /\ off + AlignUp(n) <= Above(w, c, i)
    BY PlacedWithin
<1>5. /\ slot \in Slot /\ slot.state = "live" /\ slot.refs = 1 /\ slot.offset = off
      /\ slot.size = n /\ slot.next = Null
    <2>1. n \in 0 .. Capacity
        BY SizeFacts
    <2>2. QED
        BY <1>4, <2>1 DEF Slot
<1>6. /\ SameBut(r, mid) /\ View(mid) = [w EXCEPT ![h] = slot] /\ NoneEmpty(mid.tables)
    <2>1. slot.state # "free"
        BY <1>5
    <2>2. QED
        BY <1>3, <1>5, <2>1, WithSlotIs
<1>7. HeapRec(mid) /\ View(mid)[h] = slot /\ \A g \in Handles : g # h => View(mid)[g] = w[g]
    BY <1>1, <1>3, <1>6 DEF SameBut, HeapRec
<1>8. i # 0 => c[i] \in Handles /\ w[c[i]].state # "free" /\ c[i] # h
    <2>1. i # 0 => i \in 1 .. Len(c)
        BY <1>1, <1>4
    <2>2. i # 0 => c[i] \in Handles /\ w[c[i]].state # "free"
        BY <1>1, <2>1, ChainParts
    <2>3. QED
        BY <1>3, <2>2, FreeSlotTyped
<1> DEFINE s == [slot EXCEPT !.next = IF i = Len(c) THEN Null ELSE c[i + 1]]
<1> HIDE DEF mid, sp, w, c, top
<1>9. /\ Only(mid, sp) /\ sp.root = IF i = 0 THEN h ELSE mid.root
      /\ s \in Slot
      /\ Links(w, View(sp), h, s, IF i = 0 THEN Null ELSE c[i], h)
    <2>1. View(mid)[h].state # "free" /\ (i # 0 => View(mid)[c[i]].state # "free" /\ c[i] # h)
        BY <1>5, <1>7, <1>8
    <2>2. \A v \in [Handles -> Slot] : (\A g \in Handles : g # h => v[g] = View(mid)[g])
                     => Links(v, View(sp), h, s, IF i = 0 THEN Null ELSE c[i], h)
        BY <1>1, <1>3, <1>4, <1>7, <2>1, SplicedIs DEF sp
    <2>3. /\ Only(mid, sp) /\ sp.root = IF i = 0 THEN h ELSE mid.root
          /\ s \in Slot
        BY <1>1, <1>3, <1>4, <1>7, <2>1, SplicedIs DEF sp
    <2>4. QED
        BY <1>1, <1>7, <2>2, <2>3
<1>10. /\ s.state = "live" /\ s.refs = 1 /\ s.offset = off /\ s.size = n
       /\ s.next = IF i = Len(c) THEN Null ELSE c[i + 1]
    BY <1>5 DEF Slot
<1> HIDE DEF s
<1>11. /\ HeapRec(hq) /\ View(hq) = View(sp) /\ hq.tables = sp.tables /\ hq.mem = m
       /\ hq.root = sp.root /\ hq.reserved = sp.reserved /\ hq.live = sp.live
       /\ MetadataTop(hq) = MetadataTop(sp)
    BY <1>9, MemSet DEF Only, sp, mid, c
<1>12. mid.root = hp.root /\ MetadataTop(hq) = top /\ NoneEmpty(hq.tables)
       /\ hq.reserved = hp.reserved /\ hq.live = hp.live
    BY <1>3, <1>6, <1>9, <1>11 DEF SameBut, Only, MetadataTop, top
<1>13. Past(s) = off + AlignUp(n)
    BY <1>10 DEF Past
<1> DEFINE w2 == View(hq)
           d == Inserted(c, i, h)
           root2 == hq.root
<1>14. /\ Links(w, w2, h, s, IF i = 0 THEN Null ELSE c[i], h)
       /\ root2 = IF i = 0 THEN h ELSE hp.root
    BY <1>9, <1>11, <1>12
<1>15. w[h].state = "free" /\ s.state # "free" /\ s.size >= 1 /\ (s.refs # 0 <=> s.state = "live")
    BY <1>3, <1>10, FreeSlotTyped
<1> HIDE DEF w2, root2
<1>16. /\ IsChain(w2, root2, d) /\ SlotsSound(w2) /\ LaidOut(w2, top, d)
       /\ InUse(w2) = InUse(w) \cup {h} /\ h \notin InUse(w)
    <2>1. /\ s.offset % HeapAlignment = 0 /\ Under(w, top, c, i) <= s.offset
          /\ Past(s) <= Above(w, c, i) /\ s.next = IF i = Len(c) THEN Null ELSE c[i + 1]
        BY <1>4, <1>10, <1>13
    <2>2. h \in Handles /\ w \in [Handles -> Slot] /\ s \in Slot /\ i \in 0 .. Len(c) /\ top \in Nat
        BY <1>1, <1>2, <1>3, <1>4, <1>9
    <2> DEFINE root == hp.root
    <2>3. IsChain(w, root, c) /\ root2 = IF i = 0 THEN h ELSE root
        BY <1>1, <1>14
    <2>6. Links(w, w2, h, s, x, h)
        BY <1>14
    <2>7. x = IF i = 0 THEN Null ELSE c[i]
        OBVIOUS
    <2> HIDE DEF root, d, x
    <2>4. SlotsSound(w) /\ LaidOut(w, top, c) /\ top <= Capacity /\ top % HeapAlignment = 0
        BY <1>1, <1>2
    <2>5. QED
        BY ONLY <1>15, <2>1, <2>2, <2>3, <2>4, <2>6, <2>7, ChainInserted DEF d
<1>17. Total(Weights(w2, d, C \cup {h})) = Total(Weights(w, c, C))
    <2>1. \A g \in Handles : g # h => (g \in C <=> g \in C \cup {h})
        OBVIOUS
    <2> DEFINE D == C \cup {h}
    <2>2. h \in D
        OBVIOUS
    <2>3. \A g \in Handles : g # h => (g \in C <=> g \in D)
        OBVIOUS
    <2> HIDE DEF D
    <2>4. Total(Weights(w2, d, D)) = Total(Weights(w, c, C)) + 0
        BY <1>1, <1>3, <1>4, <1>9, <1>14, <1>15, <2>2, <2>3, WeightsInserted
    <2>5. Total(Weights(w, c, C)) \in Int
        BY <1>1, WeightsTyped, TotalTyped
    <2>6. QED
        BY <2>4, <2>5 DEF D
<1>18. InUse(w2) \ (C \cup {h}) = InUse(w) \ C
    BY <1>16
<1>19. hp.reserved = Total(Weights(w, c, C)) /\ hp.live = Cardinality(InUse(w) \ C)
    BY DEF HeapOK, w, c
<1>20. HeapOK(hq, C \cup {h})
    <2>1. /\ IsChain(View(hq), hq.root, d) /\ LaidOut(View(hq), MetadataTop(hq), d)
          /\ SlotsSound(View(hq))
          /\ hq.reserved = Total(Weights(View(hq), d, C \cup {h}))
          /\ hq.live = Cardinality(InUse(View(hq)) \ (C \cup {h}))
        BY <1>12, <1>16, <1>17, <1>18, <1>19 DEF w2, root2
    <2>2. QED
        BY <1>11, <1>12, <2>1, HeapFrom
<1>21. QED
    BY <1>9, <1>10, <1>11, <1>14, <1>20 DEF w, w2

-----------------------------------------------------------------------------
(***************************************************************************)
(* The end of an object.                                                   *)
(***************************************************************************)
\* The view and the metadata depend on the tables alone.
LEMMA ViewOf ==
    ASSUME NEW hp, NEW hq, hq.tables = hp.tables
    PROVE  View(hq) = View(hp) /\ MetadataTop(hq) = MetadataTop(hp)
BY DEF View, SlotOf, MetadataTop

\* What the view without the k-th object is.
LEMMA ViewDeleted ==
    ASSUME NEW w \in [Handles -> Slot], NEW root, NEW c, IsChain(w, root, c), SlotsSound(w),
           NEW top \in Nat, LaidOut(w, top, c),
           NEW k \in 1 .. Len(c), NEW w2, NEW root2, Minus(w, root, c, k, w2, root2)
    PROVE  /\ IsChain(w2, root2, Deleted(c, k))
           /\ SlotsSound(w2) /\ w2 \in [Handles -> Slot]
           /\ LaidOut(w2, top, Deleted(c, k))
           /\ InUse(w2) = InUse(w) \ {c[k]} /\ c[k] \in InUse(w)
           /\ \A C : Total(Weights(w, c, C))
                     = Total(Weights(w2, Deleted(c, k), C)) + (IF c[k] \in C THEN 0
                         ELSE AlignUp(w[c[k]].size))
<1> DEFINE h == c[k]
           x == IF k = 1 THEN Null ELSE c[k - 1]
           y == w[h].next
<1>1. Links(w, w2, h, FreeSlot, x, y) /\ root2 = IF k = 1 THEN y ELSE root
    BY DEF Minus
<1>2. h = c[k] /\ (x = IF k = 1 THEN Null ELSE c[k - 1]) /\ y = w[h].next
    OBVIOUS
<1>3. c \in Seq(Handles)
    BY DEF IsChain
<1> HIDE DEF h, x, y
<1>4. /\ IsChain(w2, root2, Deleted(c, k)) /\ SlotsSound(w2)
      /\ LaidOut(w2, top, Deleted(c, k))
      /\ InUse(w2) = InUse(w) \ {h} /\ h \in InUse(w)
    BY <1>1, <1>2, ChainDeleted
<1>5. \A C : Total(Weights(w, c, C))
               = Total(Weights(w2, Deleted(c, k), C)) + (IF c[k] \in C THEN 0
                   ELSE AlignUp(w[c[k]].size))
    BY <1>3, <1>4, WeightsDeleted
<1>6. w2 \in [Handles -> Slot]
    BY <1>1 DEF Links
<1>7. QED
    BY <1>4, <1>5, <1>6 DEF h

\* unlink_descriptor_ in terms of the chain.
LEMMA UnlinkedIs ==
    ASSUME NEW hp, NEW C, HeapOK(hp, C), NEW k \in 1 .. Len(Chain(hp)),
           NEW h, h = Chain(hp)[k], NEW y, y = View(hp)[h].next,
           NEW x, x = IF k = 1 THEN Null ELSE Chain(hp)[k - 1]
    PROVE  LET hq == Unlinked(hp, h, y)
           IN  /\ Only(hp, hq) /\ hq.root = IF k = 1 THEN y ELSE hp.root
               /\ \A g \in Handles : View(hq)[g] = IF g = x
                      THEN [View(hp)[g] EXCEPT !.next = y] ELSE View(hp)[g]
               /\ View(hq)[h] = View(hp)[h]
<1> DEFINE c == Chain(hp)
           w == View(hp)
           n == Len(c)
           hq == Unlinked(hp, h, y)
<1>1. /\ HeapRec(hp) /\ w \in [Handles -> Slot] /\ IsChain(w, hp.root, c)
      /\ SlotsSound(w) /\ n \in Nat /\ DOMAIN c = 1 .. n /\ k \in 1 .. n
    BY HeapGives
<1>2. \A j \in 1 .. n : c[j] \in Handles /\ w[c[j]].state # "free"
    BY <1>1, ChainParts
<1>3. /\ \A i, j \in 1 .. n : c[i] = c[j] => i = j
      /\ \A g \in Handles : w[g].state # "free" => \E j \in 1 .. n : c[j] = g
      /\ hp.root = IF n = 0 THEN Null ELSE c[1]
      /\ \A j \in 1 .. n : w[c[j]].next = IF j = n THEN Null ELSE c[j + 1]
    BY <1>1 DEF IsChain
<1>4. h = c[k] /\ h \in Handles /\ w[h] \in Slot /\ y \in Handles \cup {Null}
    <2>1. h = c[k] /\ h \in Handles /\ w[h] \in Slot
        BY <1>1, <1>2
    <2>2. QED
        BY <2>1, SlotParts
<1>5. Null \notin Handles
    BY NullIsNone
<1>6. hq = IF hp.root = h THEN [hp EXCEPT !.root = y]
           ELSE WithNext(hp, CHOOSE u \in Used(hp) : SlotOf(hp, u).next = h, y)
    BY DEF Unlinked
<1> HIDE DEF c, w, n, hq
<1>7. CASE k = 1
    <2>1. hp.root = h
        BY <1>1, <1>3, <1>4, <1>7
    <2>2. Only(hp, hq) /\ hq.root = y /\ View(hq) = w
        BY <1>1, <1>4, <1>6, <2>1, RootSet DEF w
    <2>3. \A g \in Handles : g # x
        BY <1>5, <1>7
    <2>4. QED
        BY <1>7, <2>2, <2>3 DEF w, hq
<1>8. CASE k # 1
    <2>1. k - 1 \in 1 .. n /\ (k - 1) + 1 = k /\ k - 1 # n /\ 1 \in 1 .. n /\ n # 0
        BY <1>1, <1>8
    <2>2. hp.root # h
        BY <1>3, <1>4, <1>1, <1>8, <2>1
    <2>3. x = c[k - 1] /\ x \in Handles /\ w[x].state # "free" /\ w[x].next = h
        BY <1>2, <1>3, <1>4, <1>8, <2>1 DEF c
    <2>4. \A u \in Used(hp) : u \in Handles /\ w[u].state # "free" /\ SlotOf(hp, u) = w[u]
        BY <1>1, ViewIs, Reads DEF HeapRec, Used, w, InUse
    <2>5. x \in Used(hp) /\ SlotOf(hp, x).next = h
        BY <1>1, <2>3, Reads DEF Used, w
    <2>6. ASSUME NEW u \in Used(hp), SlotOf(hp, u).next = h PROVE u = x
        <3>1. PICK j \in 1 .. n : c[j] = u
            BY <1>3, <2>4
        <3>2. w[c[j]].next = h
            BY <2>4, <2>6, <3>1
        <3>3. j # n
            BY <1>3, <1>4, <1>5, <3>2
        <3>4. j + 1 \in 1 .. n /\ c[j + 1] = c[k]
            BY <1>1, <1>3, <1>4, <3>2, <3>3
        <3>5. j + 1 = k
            BY <1>1, <1>3, <3>4
        <3>6. j = k - 1
            BY <1>1, <3>5
        <3>7. QED
            BY <2>3, <3>1, <3>6
    <2>7. (CHOOSE u \in Used(hp) : SlotOf(hp, u).next = h) = x
        BY <2>5, <2>6
    <2>8. hq = WithNext(hp, x, y)
        BY <1>6, <2>2, <2>7
    <2>9. Only(hp, hq) /\ hq.root = hp.root /\ View(hq) = [w EXCEPT ![x] = [w[x] EXCEPT !.next = y]]
        <3>1. View(hp)[x].state # "free" /\ HeapRec(hp)
            BY <1>1, <2>3 DEF w
        <3>2. /\ Only(hp, WithNext(hp, x, y)) /\ WithNext(hp, x, y).root = hp.root
              /\ View(WithNext(hp, x, y)) = [View(hp) EXCEPT ![x] = [View(hp)[x] EXCEPT !.next = y]]
            BY <1>4, <2>3, <3>1, LinkSet
        <3>3. QED
            BY <2>8, <3>2 DEF w
    <2>10. h # x
        BY <1>1, <1>3, <1>4, <1>8, <2>1, <2>3
    <2>11. \A g \in Handles : View(hq)[g] = IF g = x THEN [w[g] EXCEPT !.next = y] ELSE w[g]
        BY <1>1, <2>3, <2>9
    <2>12. QED
        BY <1>4, <1>8, <2>9, <2>10, <2>11 DEF w, hq
<1>9. QED
    BY <1>7, <1>8

\* release_'s last steps: h leaves the chain, its slot and the counters.
Removing(hp, h, m, rel, hq) ==
    /\ h \in Handles /\ View(hp)[h].state # "free"
    /\ m \in [Bytes -> Values \cup {Junk}]
    /\ rel = SlotReleased(Unlinked(hp, h, SlotOf(hp, h).next), h)
    /\ hq = [rel EXCEPT !.reserved = @ - ReservedSize(hp, h), !.live = @ - 1, !.mem = m]

\* The heap release_ leaves when the destructor is done is a heap again.
LEMMA RemovedIs ==
    ASSUME NEW hp, NEW C, HeapOK(hp, C), NEW h, h \notin C,
           NEW m, NEW rel, NEW hq, Removing(hp, h, m, rel, hq)
    PROVE  /\ HeapOK(hq, C) /\ hq.mem = m
           /\ \E x : Links(View(hp), View(hq), h, FreeSlot, x, View(hp)[h].next)
<1>0. /\ h \in Handles /\ View(hp)[h].state # "free"
      /\ m \in [Bytes -> Values \cup {Junk}]
      /\ rel = SlotReleased(Unlinked(hp, h, SlotOf(hp, h).next), h)
      /\ hq = [rel EXCEPT !.reserved = @ - ReservedSize(hp, h), !.live = @ - 1, !.mem = m]
    BY DEF Removing
<1> DEFINE c == Chain(hp)
           w == View(hp)
           n == Len(c)
           top == MetadataTop(hp)
           y == w[h].next
<1>1. /\ HeapRec(hp) /\ NoneEmpty(hp.tables) /\ w \in [Handles -> Slot] /\ IsChain(w, hp.root, c)
      /\ SlotsSound(w) /\ n \in Nat /\ DOMAIN c = 1 .. n
      /\ LaidOut(w, top, c) /\ top \in Nat
    BY HeapGives
<1>2. PICK k \in 1 .. n : c[k] = h
    BY <1>0, <1>1 DEF IsChain
<1> DEFINE x == IF k = 1 THEN Null ELSE c[k - 1]
           unl == Unlinked(hp, h, y)
           d == Deleted(c, k)
<1>3. SlotOf(hp, h) = w[h] /\ ReservedSize(hp, h) = AlignUp(w[h].size)
    BY <1>0, <1>1, Reads
<1>4. rel = SlotReleased(unl, h)
    BY <1>0, <1>3
<1>5. x = IF k = 1 THEN Null ELSE c[k - 1]
    OBVIOUS
<1>6. y = w[h].next
    OBVIOUS
<1> HIDE DEF x, y
<1>7. /\ Only(hp, unl) /\ unl.root = IF k = 1 THEN y ELSE hp.root
      /\ \A g \in Handles : View(unl)[g] = IF g = x THEN [w[g] EXCEPT !.next = y] ELSE w[g]
      /\ View(unl)[h] = w[h]
    BY <1>0, <1>2, <1>5, <1>6, UnlinkedIs
<1> HIDE DEF unl
<1>8. HeapRec(unl) /\ NoneEmpty(unl.tables) /\ View(unl)[h].state # "free" /\ Present(unl.tables, h)
    <2>1. HeapRec(unl) /\ NoneEmpty(unl.tables) /\ View(unl)[h].state # "free"
        BY <1>0, <1>1, <1>7 DEF Only
    <2>2. QED
        BY <1>0, <2>1, Reads
<1>9. /\ HeapRec(rel) /\ NoneEmpty(rel.tables)
      /\ View(rel) = [View(unl) EXCEPT ![h] = FreeSlot]
      /\ Len(rel.tables) <= Len(unl.tables)
      /\ rel.root = unl.root /\ rel.reserved = unl.reserved /\ rel.live = unl.live
    BY <1>0, <1>4, <1>8, ReleasedSlotIs
<1> DEFINE w2 == View(rel)
<1>10. Links(w, w2, h, FreeSlot, x, y)
    <2>1. View(unl) \in [Handles -> Slot] /\ View(rel) \in [Handles -> Slot]
        BY <1>8, <1>9, ViewIs DEF HeapRec
    <2>2. QED
        BY <1>0, <1>7, <1>9, <2>1 DEF Links
<1> DEFINE root2 == rel.root
           root == hp.root
<1>11. root2 = IF k = 1 THEN y ELSE root
    BY <1>7, <1>9
<1> HIDE DEF w2, root2, root, w, c, n, top, d
<1>12. /\ IsChain(w2, root2, d) /\ SlotsSound(w2) /\ LaidOut(w2, top, d)
       /\ InUse(w2) = InUse(w) \ {h} /\ h \in InUse(w)
       /\ Total(Weights(w, c, C)) = Total(Weights(w2, d, C)) + AlignUp(w[h].size)
    <2>1. IsChain(w, root, c) /\ k \in 1 .. Len(c) /\ h = c[k]
        BY <1>1, <1>2 DEF root, n
    <2>2. w \in [Handles -> Slot] /\ SlotsSound(w) /\ top \in Nat /\ LaidOut(w, top, c)
        BY <1>1
    <2>3. Minus(w, root, c, k, w2, root2)
        BY <1>5, <1>6, <1>10, <1>11, <2>1 DEF Minus
    <2>4. /\ IsChain(w2, root2, Deleted(c, k)) /\ SlotsSound(w2)
          /\ LaidOut(w2, top, Deleted(c, k))
          /\ InUse(w2) = InUse(w) \ {c[k]} /\ c[k] \in InUse(w)
          /\ \A B : Total(Weights(w, c, B))
                     = Total(Weights(w2, Deleted(c, k), B)) + (IF c[k] \in B THEN 0
                         ELSE AlignUp(w[c[k]].size))
        BY <2>1, <2>2, <2>3, ViewDeleted
    <2>5. QED
        BY <2>1, <2>4 DEF d
<1>13. Total(Weights(w, c, C)) = Total(Weights(w2, d, C)) + AlignUp(w[h].size)
    BY <1>12
<1>14. hp.reserved = Total(Weights(w, c, C)) /\ hp.live = Cardinality(InUse(w) \ C)
    BY DEF HeapOK, w, c
<1>15. w2 \in [Handles -> Slot] /\ Total(Weights(w2, d, C)) \in Nat
    <2>1. w2 \in [Handles -> Slot]
        BY <1>10 DEF Links
    <2>2. Weights(w2, d, C) \in Seq(Int)
              /\ \A j \in 1 .. Len(Weights(w2, d, C)) : Weights(w2, d, C)[j] >= 0
        BY <1>12, <2>1, WeightsTyped
    <2> DEFINE s == Weights(w2, d, C)
    <2>3. s \in Seq(Int) /\ \A j \in 1 .. Len(s) : s[j] >= 0
        BY <2>2
    <2> HIDE DEF s
    <2>4. Total(s) \in Int /\ Total(s) >= 0
        BY <2>3, TotalTyped, TotalBounds
    <2>5. QED
        BY <2>1, <2>4 DEF s
<1>16. rel.reserved - AlignUp(w[h].size) = Total(Weights(w2, d, C))
    <2>1. rel.reserved = Total(Weights(w, c, C))
        BY <1>7, <1>9, <1>14 DEF Only
    <2>2. AlignUp(w[h].size) \in Nat
        <3>1. w[h] \in Slot
            BY <1>0, <1>1
        <3>2. QED
            BY <3>1, SlotParts
    <2>3. QED
        BY <1>13, <1>15, <2>1, <2>2
<1>17. rel.live - 1 = Cardinality(InUse(w2) \ C) /\ Cardinality(InUse(w2) \ C) \in Nat
    <2>1. rel.live = Cardinality(InUse(w) \ C)
        BY <1>7, <1>9, <1>14 DEF Only
    <2>2. IsFiniteSet(InUse(w) \ C) /\ h \in InUse(w) \ C
        BY <1>1, <1>12, ChainLength, FS_Difference
    <2>3. InUse(w2) \ C = (InUse(w) \ C) \ {h}
        BY <1>12
    <2>4. /\ IsFiniteSet((InUse(w) \ C) \ {h})
          /\ Cardinality((InUse(w) \ C) \ {h}) = Cardinality(InUse(w) \ C) - 1
        BY <2>2, FS_RemoveElement
    <2>5. QED
        BY <2>1, <2>3, <2>4, FS_CardinalityType
<1>18. /\ HeapRec(hq) /\ View(hq) = w2 /\ hq.tables = rel.tables /\ hq.mem = m /\ hq.root = root2
       /\ hq.reserved = Total(Weights(w2, d, C)) /\ hq.live = Cardinality(InUse(w2) \ C)
    <2>1. rel \in Heap
        BY <1>9 DEF HeapRec
    <2>2. /\ hq.tables = rel.tables /\ hq.mem = m /\ hq.root = root2
          /\ hq.reserved = rel.reserved - AlignUp(w[h].size) /\ hq.live = rel.live - 1
        BY <1>0, <1>3, <2>1 DEF Heap, root2, w
    <2>3. hq \in Heap
        <3>1. rel.reserved - AlignUp(w[h].size) \in Nat /\ rel.live - 1 \in Nat
            BY <1>15, <1>16, <1>17
        <3>2. hq = [rel EXCEPT !.reserved = rel.reserved - AlignUp(w[h].size),
                  !.live = rel.live - 1, !.mem = m]
            BY <1>0, <1>3 DEF w
        <3>3. QED
            BY <1>0, <2>1, <3>1, <3>2 DEF Heap
    <2>4. View(hq) = w2
        BY <2>2, ViewOf DEF w2
    <2>5. QED
        BY <1>9, <1>16, <1>17, <2>2, <2>3, <2>4 DEF HeapRec
<1>19. LaidOut(w2, MetadataTop(hq), d)
    <2>1. Len(hq.tables) <= Len(hp.tables) /\ Len(hq.tables) \in Nat
              /\ Len(hp.tables) \in Nat /\ TableBytes \in Nat
        BY <1>1, <1>7, <1>9, <1>18, SizeFacts DEF Only, HeapRec, TablesSound
    <2>2. MetadataTop(hq) <= top /\ MetadataTop(hq) \in Nat
        <3>1. \A a, b \in Nat : a <= b => a * TableBytes <= b * TableBytes /\ a * TableBytes \in Int
            BY <2>1, TimesMonotone
        <3>2. MetadataTop(hq) \in Nat
            BY <1>18, MetadataFits
        <3>3. QED
            BY <2>1, <3>1, <3>2 DEF MetadataTop, top
    <2>3. \A j \in DOMAIN d : w2[d[j]].offset \in Nat
        <3>1. DOMAIN d = 1 .. Len(d)
            BY <1>12 DEF IsChain
        <3>2. QED
            BY <1>12, <1>15, <3>1, ChainParts
    <2>4. \A j \in DOMAIN d : MetadataTop(hq) <= w2[d[j]].offset
        <3>1. SUFFICES ASSUME NEW j \in DOMAIN d PROVE MetadataTop(hq) <= w2[d[j]].offset
            OBVIOUS
        <3>2. top <= w2[d[j]].offset /\ w2[d[j]].offset \in Nat
            BY <1>12, <2>3 DEF LaidOut
        <3>3. QED
            BY <1>1, <2>2, <3>2
    <2>5. QED
        BY <1>12, <2>4 DEF LaidOut
<1>20. HeapOK(hq, C)
    <2>1. NoneEmpty(hq.tables)
        BY <1>9, <1>18
    <2>2. QED
        BY <1>12, <1>18, <1>19, <2>1, HeapFrom
<1>21. QED
    BY <1>10, <1>18, <1>20 DEF w, y

-----------------------------------------------------------------------------
(***************************************************************************)
(* An evacuation: the descriptors.                                         *)
(***************************************************************************)
\* h enters the chain below its i-th object, with the slot s.
Plus(w, root, c, i, h, s, w2, root2) ==
    /\ Links(w, w2, h, s, IF i = 0 THEN Null ELSE c[i], h)
    /\ root2 = IF i = 0 THEN h ELSE root

\* The slot s fits into the extent below the i-th object.
Placed(w, top, c, i, s) ==
    /\ s \in Slot /\ s.state # "free" /\ s.size >= 1
    /\ s.refs # 0 <=> s.state = "live"
    /\ s.offset % HeapAlignment = 0
    /\ Under(w, top, c, i) <= s.offset /\ Past(s) <= Above(w, c, i)
    /\ s.next = IF i = Len(c) THEN Null ELSE c[i + 1]

\* What the view with one more object is.
LEMMA ViewInserted ==
    ASSUME NEW w \in [Handles -> Slot], NEW root, NEW c, IsChain(w, root, c), SlotsSound(w),
           NEW top \in Nat, LaidOut(w, top, c), top <= Capacity, top % HeapAlignment = 0,
           NEW i \in 0 .. Len(c), NEW h \in Handles, w[h].state = "free",
           NEW s, Placed(w, top, c, i, s),
           NEW w2, NEW root2, Plus(w, root, c, i, h, s, w2, root2)
    PROVE  /\ IsChain(w2, root2, Inserted(c, i, h))
           /\ SlotsSound(w2)
           /\ LaidOut(w2, top, Inserted(c, i, h))
           /\ InUse(w2) = InUse(w) \cup {h} /\ h \notin InUse(w)
           /\ \A C : Total(Weights(w2, Inserted(c, i, h), C))
                      = Total(Weights(w, c, C)) + (IF h \in C THEN 0 ELSE AlignUp(s.size))
<1> DEFINE x == IF i = 0 THEN Null ELSE c[i]
<1>1. x = IF i = 0 THEN Null ELSE c[i]
    OBVIOUS
<1>2. Links(w, w2, h, s, x, h) /\ root2 = IF i = 0 THEN h ELSE root
    BY DEF Plus
<1> HIDE DEF x
<1>3. /\ s \in Slot /\ s.state # "free" /\ s.size >= 1
      /\ (s.refs # 0 <=> s.state = "live")
      /\ s.offset % HeapAlignment = 0
      /\ Under(w, top, c, i) <= s.offset /\ Past(s) <= Above(w, c, i)
      /\ s.next = IF i = Len(c) THEN Null ELSE c[i + 1]
    BY DEF Placed
<1>4. /\ IsChain(w2, root2, Inserted(c, i, h))
      /\ SlotsSound(w2)
      /\ LaidOut(w2, top, Inserted(c, i, h))
      /\ InUse(w2) = InUse(w) \cup {h} /\ h \notin InUse(w)
    BY <1>1, <1>2, <1>3, ChainInserted
<1>5. ASSUME NEW C
      PROVE  Total(Weights(w2, Inserted(c, i, h), C))
               = Total(Weights(w, c, C)) + (IF h \in C THEN 0 ELSE AlignUp(s.size))
    <2> DEFINE D == C
    <2>1. \A g \in Handles : g # h => (g \in C <=> g \in D)
        OBVIOUS
    <2> HIDE DEF D
    <2>2. Total(Weights(w2, Inserted(c, i, h), D))
               = Total(Weights(w, c, C)) + (IF h \in D THEN 0 ELSE AlignUp(s.size))
        BY <1>2, <1>3, <2>1, WeightsInserted
    <2>3. QED
        BY <2>2 DEF D
<1>6. QED
    BY <1>4, <1>5

\* The tail lies below every extent above it.
LEMMA TailBelow ==
    ASSUME NEW w \in [Handles -> Slot], NEW root, NEW c, IsChain(w, root, c), SlotsSound(w),
           NEW top, LaidOut(w, top, c), NEW i \in 0 .. Len(c) - 1
    PROVE  /\ Len(c) \in 1 .. Len(c) /\ i + 1 \in 1 .. Len(c)
           /\ Under(w, top, c, i) = Past(w[c[i + 1]])
           /\ Past(w[c[Len(c)]]) <= Under(w, top, c, i)
<1> DEFINE n == Len(c)
<1>0. n \in Nat /\ i \in 0 .. n - 1
    BY DEF IsChain
<1> HIDE DEF n
<1>1. n \in 1 .. n /\ i + 1 \in 1 .. n /\ i # n
    BY <1>0
<1>2. Under(w, top, c, i) = Past(w[c[i + 1]])
    BY <1>1 DEF Under, n
<1>3. CASE i + 1 = n
    <2>1. Past(w[c[n]]) \in Nat
        BY <1>1, ChainParts DEF n
    <2>2. QED
        BY <1>1, <1>2, <1>3, <2>1 DEF n
<1>4. CASE i + 1 # n
    <2>1. i + 1 < n
        BY <1>1, <1>4
    <2> DEFINE j == i + 1
    <2>2. j \in 1 .. Len(c) /\ n \in 1 .. Len(c) /\ j < n
        BY <1>1, <2>1 DEF n
    <2> HIDE DEF j
    <2>3. Past(w[c[n]]) <= w[c[j]].offset
        BY <2>2, Apart
    <2>4. w[c[j]].offset < Past(w[c[j]]) /\ w[c[j]].offset \in Nat /\ Past(w[c[j]]) \in Nat
              /\ Past(w[c[n]]) \in Nat
        BY <2>2, ChainParts
    <2>5. Past(w[c[n]]) <= Past(w[c[j]])
        BY <2>3, <2>4
    <2>6. QED
        BY <1>1, <1>2, <2>5 DEF n, j
<1>5. QED
    BY <1>3, <1>4

\* The tail relinked is the tail spliced into the chain without it.
LEMMA RelinkedIs ==
    ASSUME NEW hp, NEW c \in Seq(Handles), NEW i \in 0 .. Len(c) - 1
    PROVE  LET n == Len(c)
               cut == IF n = 1 THEN [hp EXCEPT !.root = Null] ELSE WithNext(hp, c[n - 1], Null)
           IN  Relinked(hp, c, i) = Spliced(cut, Deleted(c, n), i, c[n])
<1> DEFINE n == Len(c)
           cut == IF n = 1 THEN [hp EXCEPT !.root = Null] ELSE WithNext(hp, c[n - 1], Null)
           d == Deleted(c, n)
           y == IF i + 1 = n THEN Null ELSE c[i + 1]
<1>0. n \in Nat /\ n \in 1 .. n /\ i \in 0 .. n - 1
    OBVIOUS
<1>1. Len(d) = n - 1 /\ \A j \in 1 .. n - 1 : d[j] = IF j < n THEN c[j] ELSE c[j + 1]
    BY <1>0, DeletedIs
<1> HIDE DEF n, d, cut
<1>2. \A j \in 1 .. n - 1 : d[j] = c[j]
    BY <1>0, <1>1
<1>3. (IF i = Len(d) THEN Null ELSE d[i + 1]) = y
    <2>1. CASE i + 1 = n
        <3>1. i = Len(d)
            BY <1>0, <1>1, <2>1
        <3>2. QED
            BY <2>1, <3>1
    <2>2. CASE i + 1 # n
        <3>1. i # Len(d) /\ i + 1 \in 1 .. n - 1
            BY <1>0, <1>1, <2>2
        <3>2. QED
            BY <1>2, <2>2, <3>1
    <2>3. QED
        BY <2>1, <2>2
<1>4. i # 0 => d[i] = c[i]
    <2>1. i # 0 => i \in 1 .. n - 1
        BY <1>0
    <2>2. QED
        BY <1>2, <2>1
<1> HIDE DEF y
<1>5. Relinked(hp, c, i) = LET below == WithNext(cut, c[n], y)
                           IN  IF i = 0 THEN [below EXCEPT !.root = c[n]]
                                   ELSE WithNext(below, c[i], c[n])
    BY DEF Relinked, n, cut, y
<1>6. Spliced(cut, d, i, c[n]) = LET below == WithNext(cut, c[n], y)
                                 IN  IF i = 0 THEN [below EXCEPT !.root = c[n]]
                                         ELSE WithNext(below, d[i], c[n])
    BY <1>3 DEF Spliced
<1>7. Relinked(hp, c, i) = Spliced(cut, d, i, c[n])
    BY <1>4, <1>5, <1>6
<1>8. QED
    BY <1>7 DEF n, d, cut

\* What a move leaves as it was: everything but bases and links.
Moved(w, w2) ==
    /\ w2 \in [Handles -> Slot]
    /\ \A g \in Handles : /\ w2[g].state = w[g].state /\ w2[g].refs = w[g].refs
                          /\ w2[g].size = w[g].size

\* The descriptors after an evacuation: the tail is higher up, in an extent that
\* has the room for it, and the other objects stay.
LEMMA EvacuatedIs ==
    ASSUME NEW hp, NEW C, HeapOK(hp, C), NEW i \in 0 .. Len(Chain(hp)) - 1,
           NEW t, t = Chain(hp)[Len(Chain(hp))],
           Span(hp, Chain(hp), i) >= ReservedSize(hp, t),
           NEW to, to = High(hp, Chain(hp), i) - ReservedSize(hp, t),
           NEW m \in [Bytes -> Values \cup {Junk}],
           NEW hq, hq = [Relinked(WithBase(hp, t, to), Chain(hp), i) EXCEPT !.mem = m]
    PROVE  /\ HeapOK(hq, C) /\ hq.mem = m /\ MetadataTop(hq) = MetadataTop(hp)
           /\ Chain(hq) = Inserted(Deleted(Chain(hp), Len(Chain(hp))), i, t)
           /\ Moved(View(hp), View(hq)) /\ t \in Handles /\ to \in Bytes
           /\ \A g \in Handles : View(hq)[g].offset = IF g = t THEN to ELSE View(hp)[g].offset
           /\ Past(View(hp)[t]) <= to
           /\ \A g \in Handles : (View(hp)[g].state # "free" /\ g # t) =>
                 \/ Past(View(hp)[g]) <= to
                 \/ to + AlignUp(View(hp)[t].size) <= View(hp)[g].offset
<1> DEFINE c == Chain(hp)
           w == View(hp)
           n == Len(c)
           top == MetadataTop(hp)
           a == AlignUp(w[t].size)
           ab == Above(w, c, i)
           un == Under(w, top, c, i)
<1>1. /\ HeapRec(hp) /\ NoneEmpty(hp.tables) /\ w \in [Handles -> Slot] /\ IsChain(w, hp.root, c)
      /\ SlotsSound(w) /\ n \in Nat /\ DOMAIN c = 1 .. n
      /\ LaidOut(w, top, c) /\ top \in Nat /\ top <= Capacity /\ top % HeapAlignment = 0
    BY HeapGives
<1>2. n \in 1 .. n /\ i \in 0 .. n - 1 /\ i \in 0 .. n /\ t = c[n] /\ c \in Seq(Handles)
    BY <1>1 DEF IsChain
<1>3. /\ \A j \in 1 .. n : c[j] \in Handles /\ w[c[j]].state # "free"
      /\ t \in Handles /\ w[t].state # "free" /\ w[t] \in Slot /\ w[t].size >= 1
      /\ a \in Nat /\ a >= 1 /\ w[t].offset \in Nat /\ Past(w[t]) = w[t].offset + a
    BY <1>1, <1>2, ChainParts
<1>4. /\ ReservedSize(hp, t) = a /\ High(hp, c, i) = ab /\ Span(hp, c, i) = ab - un
    <2>1. ReservedSize(hp, t) = a
        BY <1>1, <1>3, Reads
    <2>2. High(hp, c, i) = ab /\ Span(hp, c, i) = ab - un
        BY <1>1, <1>2, SpanReads
    <2>3. QED
        BY <2>1, <2>2
<1>5. /\ ab \in Nat /\ un \in Nat /\ top <= un /\ un <= ab /\ ab <= Capacity
      /\ ab % HeapAlignment = 0
    BY <1>1, <1>2, Extents
<1>6. Past(w[t]) <= un /\ un = Past(w[c[i + 1]]) /\ i + 1 \in 1 .. n
    BY <1>1, <1>2, TailBelow
<1>7. to = ab - a /\ ab - un >= a
    BY <1>4
<1>8. a % HeapAlignment = 0 /\ Capacity \in Nat
    <2>1. w[t].size \in Nat
        BY <1>3, SlotParts
    <2>2. QED
        BY <2>1, AlignUpIs, LayoutAssumption
<1>9. /\ to \in Nat /\ un <= to /\ to + a = ab /\ to < Capacity /\ to % HeapAlignment = 0
      /\ Past(w[t]) <= to /\ top <= to
    <2>1. \A x, y \in Int : x % HeapAlignment = 0
              /\ y % HeapAlignment = 0 => (x - y) % HeapAlignment = 0
        BY MultipleSums, SizeFacts
    <2> DEFINE tt == Past(w[t])
    <2>2. tt \in Nat /\ tt <= un
        BY <1>3, <1>6
    <2> HIDE DEF ab, a, un, top, tt
    <2>3. /\ to \in Nat /\ un <= to /\ to + a = ab /\ to < Capacity /\ top <= to /\ tt <= to
        BY <1>1, <1>3, <1>5, <1>7, <1>8, <2>2
    <2>4. (ab - a) % HeapAlignment = 0
        BY <1>3, <1>5, <1>8, <2>1
    <2>5. QED
        BY <1>7, <2>3, <2>4 DEF tt
<1>10. to \in Bytes
    BY <1>8, <1>9 DEF Bytes
<1> DEFINE hp1 == WithBase(hp, t, to)
           w1 == View(hp1)
           s1 == [w[t] EXCEPT !.offset = to]
<1>11. /\ Only(hp, hp1) /\ hp1.root = hp.root
       /\ w1 = [w EXCEPT ![t] = s1]
    <2>1. t \in Handles /\ View(hp)[t].state # "free" /\ HeapRec(hp)
        BY <1>1, <1>3
    <2> HIDE DEF c, n, ab, un, a, top
    <2>2. /\ Only(hp, WithBase(hp, t, to)) /\ WithBase(hp, t, to).root = hp.root
          /\ View(WithBase(hp, t, to)) = [View(hp) EXCEPT ![t] = [View(hp)[t] EXCEPT !.offset = to]]
        BY <1>10, <2>1, BaseSet, SMTT(30)
    <2>3. QED
        BY <2>2
<1>12. /\ s1 \in Slot /\ s1.offset = to /\ s1.state = w[t].state /\ s1.refs = w[t].refs
       /\ s1.size = w[t].size /\ s1.next = w[t].next
    BY <1>3, <1>10 DEF Slot
<1> HIDE DEF hp1, w1, s1, ab, un, a, w, c, n, top
<1>13. /\ HeapRec(hp1) /\ w1[t] = s1 /\ \A g \in Handles : g # t => w1[g] = w[g]
    <2>1. HeapRec(hp1)
        BY <1>11 DEF Only
    <2>2. w1 = [w EXCEPT ![t] = s1] /\ w \in [Handles -> Slot] /\ t \in Handles
        BY <1>1, <1>3, <1>11
    <2>3. w1[t] = s1 /\ \A g \in Handles : g # t => w1[g] = w[g]
        BY <2>2
    <2>4. QED
        BY <2>1, <2>3
<1> DEFINE cut == IF n = 1 THEN [hp1 EXCEPT !.root = Null] ELSE WithNext(hp1, c[n - 1], Null)
           x == IF n = 1 THEN Null ELSE c[n - 1]
           d == Deleted(c, n)
<1>14. w[t].next = Null
    BY <1>1, <1>2 DEF IsChain, n
<1>15. /\ Only(hp1, cut) /\ cut.root = IF n = 1 THEN Null ELSE hp.root
       /\ \A g \in Handles : g # t => View(cut)[g] = IF g = x
              THEN [w[g] EXCEPT !.next = Null] ELSE w[g]
       /\ View(cut)[t] = s1
    <2>0. Null \in Handles \cup {Null} /\ Null \notin Handles
        BY NullIsNone
    <2>1. CASE n = 1
        <3>1. cut = [hp1 EXCEPT !.root = Null]
            BY <2>1
        <3>2. Only(hp1, cut) /\ cut.root = Null /\ View(cut) = w1
            <4> HIDE DEF cut
            <4>1. Only(hp1, [hp1 EXCEPT !.root = Null]) /\ [hp1 EXCEPT !.root = Null].root = Null
                  /\ View([hp1 EXCEPT !.root = Null]) = View(hp1)
                BY <1>13, <2>0, RootSet
            <4>2. QED
                BY <3>1, <4>1 DEF w1
        <3>3. \A g \in Handles : g # x
            BY <2>0, <2>1
        <3>4. QED
            BY <1>13, <2>1, <3>2, <3>3
    <2>2. CASE n # 1
        <3>1. x = c[n - 1] /\ cut = WithNext(hp1, x, Null) /\ n - 1 \in 1 .. n /\ n - 1 # n
            BY <1>2, <2>2
        <3>2. x \in Handles /\ w[x].state # "free" /\ x # t
            <4>1. x \in Handles /\ w[x].state # "free"
                BY <1>3, <3>1
            <4>2. c[n - 1] # c[n]
                <5>1. \A k, l \in DOMAIN c : c[k] = c[l] => k = l
                    BY <1>1 DEF IsChain
                <5>2. n - 1 \in DOMAIN c /\ n \in DOMAIN c
                    BY <1>1, <1>2, <3>1
                <5>3. QED
                    BY <3>1, <5>1, <5>2
            <4>3. QED
                BY <1>2, <3>1, <4>1, <4>2
        <3>3. View(hp1)[x].state # "free"
            BY <1>13, <3>2 DEF w1
        <3> HIDE DEF cut, x
        <3>4. /\ Only(hp1, WithNext(hp1, x, Null)) /\ WithNext(hp1, x, Null).root = hp1.root
              /\ View(WithNext(hp1, x, Null))
                     = [View(hp1) EXCEPT ![x] = [View(hp1)[x] EXCEPT !.next = Null]]
            BY <1>13, <2>0, <3>2, <3>3, LinkSet
        <3>5. View(hp1) \in [Handles -> Slot]
            BY <1>13, ViewIs DEF HeapRec
        <3>6. View(cut) = [w1 EXCEPT ![x] = [w1[x] EXCEPT !.next = Null]]
            BY <3>1, <3>4 DEF w1
        <3>7. \A g \in Handles : View(cut)[g] = IF g = x THEN [w1[g] EXCEPT !.next = Null]
                  ELSE w1[g]
            BY <3>2, <3>5, <3>6 DEF w1
        <3>8. \A g \in Handles : g # t => View(cut)[g] = IF g = x
                  THEN [w[g] EXCEPT !.next = Null] ELSE w[g]
            BY <1>13, <3>7
        <3>9. View(cut)[t] = s1
            BY <1>3, <1>13, <3>2, <3>7
        <3>10. Only(hp1, cut) /\ cut.root = hp.root
            BY <1>11, <3>1, <3>4
        <3>11. QED
            BY <2>2, <3>8, <3>9, <3>10
    <2>3. QED
        BY <2>1, <2>2
<1>16. HeapRec(cut) /\ View(cut) \in [Handles -> Slot]
    <2>1. HeapRec(cut)
        BY <1>15 DEF Only
    <2>2. QED
        BY <2>1, ViewIs DEF HeapRec
<1>17. Relinked(hp1, c, i) = Spliced(cut, d, i, t)
    <2>1. i \in 0 .. Len(c) - 1
        BY <1>2 DEF n
    <2>2. QED
        BY <1>2, <2>1, RelinkedIs DEF n
<1> DEFINE sp == Spliced(cut, d, i, t)
           mv == [View(cut) EXCEPT ![t] = FreeSlot]
           y == IF i = Len(d) THEN Null ELSE d[i + 1]
           s == [View(cut)[t] EXCEPT !.next = y]
<1> HIDE DEF cut
<1>18. d \in Seq(Handles) /\ Len(d) = n - 1 /\ \A j \in 1 .. n - 1 : d[j] = c[j]
    <2>1. n \in 1 .. Len(c) /\ Len(c) = n
        BY <1>2 DEF n
    <2>2. d \in Seq(Handles) /\ Len(d) = n - 1 /\ \A j \in 1 .. n - 1 : d[j] = IF j < n
              THEN c[j] ELSE c[j + 1]
        BY <1>2, <2>1, DeletedIs
    <2>3. \A j \in 1 .. n - 1 : j < n
        BY <1>2
    <2>4. QED
        BY <2>2, <2>3
<1>19. /\ mv \in [Handles -> Slot] /\ mv[t] = FreeSlot
       /\ \A g \in Handles : g # t => mv[g] = View(cut)[g]
    BY <1>3, <1>16, FreeSlotTyped
<1> HIDE DEF sp, mv, y, d, x
<1>20. Minus(w, hp.root, c, n, mv, cut.root)
    <2>1. x = IF n = 1 THEN Null ELSE c[n - 1]
        BY DEF x
    <2>2. Links(w, mv, t, FreeSlot, x, w[t].next)
        BY <1>14, <1>15, <1>19 DEF Links
    <2>3. cut.root = IF n = 1 THEN w[t].next ELSE hp.root
        BY <1>14, <1>15
    <2>4. QED
        BY <1>2, <2>1, <2>2, <2>3 DEF Minus
<1>21. /\ IsChain(mv, cut.root, d) /\ SlotsSound(mv) /\ LaidOut(mv, top, d)
       /\ InUse(mv) = InUse(w) \ {t} /\ t \in InUse(w)
       /\ \A B : Total(Weights(w, c, B)) = Total(Weights(mv, d, B)) + (IF t \in B THEN 0 ELSE a)
    <2>1. n \in 1 .. Len(c)
        BY <1>2 DEF n
    <2> DEFINE r1 == hp.root
               r2 == cut.root
    <2>2. IsChain(w, r1, c) /\ Minus(w, r1, c, n, mv, r2)
        BY <1>1, <1>20
    <2> HIDE DEF r1, r2
    <2>3. /\ IsChain(mv, r2, Deleted(c, n)) /\ SlotsSound(mv)
          /\ LaidOut(mv, top, Deleted(c, n))
          /\ InUse(mv) = InUse(w) \ {c[n]} /\ c[n] \in InUse(w)
          /\ \A B : Total(Weights(w, c, B))
                     = Total(Weights(mv, Deleted(c, n), B)) + (IF c[n] \in B THEN 0
                         ELSE AlignUp(w[c[n]].size))
        BY <1>1, <2>1, <2>2, ViewDeleted
    <2>4. QED
        BY <1>2, <2>3 DEF d, r2, a
<1>22. /\ Only(cut, sp) /\ sp.root = IF i = 0 THEN t ELSE cut.root
       /\ s \in Slot
       /\ Links(mv, View(sp), t, s, IF i = 0 THEN Null ELSE d[i], t)
    <2>1. i \in 0 .. Len(d)
        BY <1>2, <1>18
    <2>2. i # 0 => View(cut)[d[i]].state # "free" /\ d[i] # t
        <3>1. i # 0 => i \in 1 .. Len(d)
            BY <1>2, <1>18
        <3>2. i # 0 => d[i] \in Handles /\ mv[d[i]].state # "free"
            BY <1>19, <1>21, <3>1, ChainParts
        <3>3. i # 0 => d[i] # t
            BY <1>19, <3>2, FreeSlotTyped
        <3>4. QED
            BY <1>19, <3>2, <3>3
    <2>3. View(cut)[t].state # "free"
        BY <1>3, <1>12, <1>15
    <2>4. /\ Only(cut, sp) /\ sp.root = IF i = 0 THEN t ELSE cut.root
          /\ s \in Slot
          /\ \A v \in [Handles -> Slot] : (\A g \in Handles : g # t => v[g] = View(cut)[g])
                     => Links(v, View(sp), t, s, IF i = 0 THEN Null ELSE d[i], t)
        BY <1>3, <1>16, <1>18, <2>1, <2>2, <2>3, SplicedIs DEF sp, y
    <2>5. QED
        BY <1>19, <2>4
<1>23. /\ s.offset = to /\ s.state = w[t].state /\ s.refs = w[t].refs
       /\ s.size = w[t].size /\ s.next = y
    <2>1. View(cut)[t] = s1
        BY <1>15
    <2>2. QED
        BY <1>12, <2>1 DEF Slot
<1> HIDE DEF s
<1>24. Placed(mv, top, d, i, s)
    <2>1. Past(s) = ab
        BY <1>9, <1>23 DEF Past, a
    <2>2. \A g \in Handles : g # t => mv[g].offset = w[g].offset /\ mv[g].size = w[g].size
        <3>1. \A g \in Handles : w[g] \in Slot
            BY <1>1
        <3>2. \A g \in Handles : \A z : w[g] \in Slot
                  => [w[g] EXCEPT !.next = z].offset = w[g].offset
                      /\ [w[g] EXCEPT !.next = z].size = w[g].size
            BY DEF Slot
        <3>3. SUFFICES ASSUME NEW g \in Handles, g # t
                       PROVE  mv[g].offset = w[g].offset /\ mv[g].size = w[g].size
            OBVIOUS
        <3>4. mv[g] = IF g = x THEN [w[g] EXCEPT !.next = Null] ELSE w[g]
            BY <1>15, <1>19, <3>3
        <3>5. w[g] \in Slot
            BY <3>1
        <3>6. [w[g] EXCEPT !.next = Null].offset = w[g].offset
                  /\ [w[g] EXCEPT !.next = Null].size = w[g].size
            BY <3>2, <3>5
        <3>7. QED
            BY <3>4, <3>6
    <2>3. \A j \in 1 .. n - 1 : d[j] = c[j] /\ c[j] \in Handles /\ c[j] # t
        <3>1. SUFFICES ASSUME NEW j \in 1 .. n - 1 PROVE d[j] = c[j] /\ c[j] \in Handles /\ c[j] # t
            OBVIOUS
        <3>2. j \in 1 .. n /\ j # n
            BY <1>2
        <3>3. c[j] # c[n]
            BY <1>1, <1>2, <3>2 DEF IsChain
        <3>4. QED
            BY <1>2, <1>3, <1>18, <3>2, <3>3
    <2>4. Above(mv, d, i) = ab
        <3>1. i # 0 => i \in 1 .. n - 1
            BY <1>2
        <3>2. i # 0 => mv[d[i]].offset = w[c[i]].offset
            BY <2>2, <2>3, <3>1
        <3>3. QED
            BY <3>2 DEF Above, ab
    <2>5. Under(mv, top, d, i) <= to
        <3>1. CASE i = Len(d)
            BY <1>9, <3>1 DEF Under
        <3>2. CASE i # Len(d)
            <4>1. i + 1 \in 1 .. n - 1
                BY <1>2, <1>18, <3>2
            <4>2. Past(mv[d[i + 1]]) = Past(w[c[i + 1]])
                BY <2>2, <2>3, <4>1 DEF Past
            <4>3. QED
                BY <1>6, <1>9, <3>2, <4>2 DEF Under
        <3>3. QED
            BY <3>1, <3>2
    <2>6. s.state # "free" /\ s.size >= 1 /\ (s.refs # 0 <=> s.state = "live")
        BY <1>1, <1>3, <1>23 DEF SlotsSound
    <2>7. s.next = IF i = Len(d) THEN Null ELSE d[i + 1]
        BY <1>23 DEF y
    <2>8. Past(s) <= Above(mv, d, i) /\ Under(mv, top, d, i) <= s.offset
              /\ s.offset % HeapAlignment = 0
        BY <1>5, <1>9, <1>23, <2>1, <2>4, <2>5
    <2>9. QED
        BY <1>22, <2>6, <2>7, <2>8 DEF Placed
<1> DEFINE e == Inserted(d, i, t)
           w2 == View(sp)
<1>25. /\ IsChain(w2, sp.root, e) /\ SlotsSound(w2) /\ LaidOut(w2, top, e)
       /\ InUse(w2) = InUse(mv) \cup {t}
       /\ \A B : Total(Weights(w2, e, B))
              = Total(Weights(mv, d, B)) + (IF t \in B THEN 0 ELSE AlignUp(s.size))
    <2> DEFINE r1 == cut.root
               r2 == sp.root
    <2>1. IsChain(mv, r1, d) /\ i \in 0 .. Len(d) /\ mv[t].state = "free"
        BY <1>2, <1>18, <1>19, <1>21, FreeSlotTyped
    <2>2. Plus(mv, r1, d, i, t, s, w2, r2)
        BY <1>22 DEF Plus
    <2> HIDE DEF r1, r2, w2
    <2>3. /\ IsChain(w2, r2, Inserted(d, i, t)) /\ SlotsSound(w2)
                 /\ LaidOut(w2, top, Inserted(d, i, t))
          /\ InUse(w2) = InUse(mv) \cup {t} /\ t \notin InUse(mv)
          /\ \A B : Total(Weights(w2, Inserted(d, i, t), B))
                      = Total(Weights(mv, d, B)) + (IF t \in B THEN 0 ELSE AlignUp(s.size))
        BY <1>1, <1>3, <1>19, <1>21, <1>24, <2>1, <2>2, ViewInserted
    <2>4. QED
        BY <2>3 DEF r2
<1>26. hq = [sp EXCEPT !.mem = m]
    BY <1>17 DEF sp, hp1, c
<1>27. /\ HeapRec(hq) /\ View(hq) = w2 /\ hq.tables = sp.tables /\ hq.mem = m
       /\ hq.root = sp.root /\ hq.reserved = sp.reserved /\ hq.live = sp.live
       /\ MetadataTop(hq) = MetadataTop(sp)
    <2>1. HeapRec(sp)
        BY <1>22 DEF Only
    <2>2. View(sp) = w2
        BY DEF w2
    <2> HIDE DEF w2, e
    <2>3. LET hz == [sp EXCEPT !.mem = m]
          IN  /\ HeapRec(hz) /\ View(hz) = View(sp) /\ hz.tables = sp.tables /\ hz.mem = m
              /\ hz.root = sp.root /\ hz.reserved = sp.reserved /\ hz.live = sp.live
              /\ MetadataTop(hz) = MetadataTop(sp)
        BY <2>1, MemSet
    <2>4. QED
        BY <1>26, <2>2, <2>3
<1>28. MetadataTop(hq) = top /\ NoneEmpty(hq.tables) /\ hq.reserved = hp.reserved
           /\ hq.live = hp.live
    BY <1>1, <1>11, <1>15, <1>22, <1>27 DEF Only, MetadataTop, top
<1> HIDE DEF e, w2
<1>29. InUse(w2) = InUse(w) /\ Total(Weights(w2, e, C)) = Total(Weights(w, c, C))
    <2>1. InUse(w2) = InUse(w)
        BY <1>21, <1>25
    <2>2. s.size = w[t].size
        BY <1>23
    <2>3. QED
        BY <1>21, <1>25, <2>1, <2>2 DEF a
<1>30. HeapOK(hq, C) /\ Chain(hq) = e
    <2>1. hq.reserved = Total(Weights(w2, e, C)) /\ hq.live = Cardinality(InUse(w2) \ C)
        BY <1>28, <1>29 DEF HeapOK, w, c
    <2>2. IsChain(View(hq), hq.root, e) /\ LaidOut(View(hq), MetadataTop(hq), e)
              /\ SlotsSound(View(hq))
        BY <1>25, <1>27, <1>28
    <2>3. QED
        BY <1>27, <1>28, <2>1, <2>2, HeapFrom
<1>31. \A g \in Handles : /\ w2[g].state = w[g].state /\ w2[g].refs = w[g].refs
                          /\ w2[g].size = w[g].size
                          /\ w2[g].offset = IF g = t THEN to ELSE w[g].offset
    <2>1. SUFFICES ASSUME NEW g \in Handles
                   PROVE  /\ w2[g].state = w[g].state /\ w2[g].refs = w[g].refs
                          /\ w2[g].size = w[g].size
                          /\ w2[g].offset = IF g = t THEN to ELSE w[g].offset
        OBVIOUS
    <2>2. CASE g = t
        <3>1. w2[t] = s
            BY <1>22 DEF Links, w2
        <3>2. QED
            BY <1>23, <2>2, <3>1
    <2>3. CASE g # t
        <3>1. w[g] \in Slot /\ mv[g] \in Slot
            BY <1>1, <1>19
        <3>2. mv[g] = IF g = x THEN [w[g] EXCEPT !.next = Null] ELSE w[g]
            BY <1>15, <1>19, <2>3
        <3>3. /\ mv[g].state = w[g].state /\ mv[g].refs = w[g].refs
              /\ mv[g].size = w[g].size /\ mv[g].offset = w[g].offset
            BY <3>1, <3>2 DEF Slot
        <3>4. w2[g] = IF g = (IF i = 0 THEN Null ELSE d[i]) THEN [mv[g] EXCEPT !.next = t]
                  ELSE mv[g]
            BY <1>22, <2>3 DEF Links, w2
        <3>5. /\ w2[g].state = mv[g].state /\ w2[g].refs = mv[g].refs
              /\ w2[g].size = mv[g].size /\ w2[g].offset = mv[g].offset
            BY <3>1, <3>4 DEF Slot
        <3>6. QED
            BY <2>3, <3>3, <3>5
    <2>4. QED
        BY <2>2, <2>3
<1>32. Moved(w, w2)
    BY <1>22, <1>31 DEF Moved, Links, w2
<1>33. ASSUME NEW g \in Handles, w[g].state # "free", g # t
       PROVE  Past(w[g]) <= to \/ to + a <= w[g].offset
    <2>1. PICK j \in 1 .. n : c[j] = g
        BY <1>1, <1>33 DEF IsChain
    <2>2. CASE j <= i
        <3>1. i # 0 /\ i \in 1 .. n /\ ab = w[c[i]].offset
            BY <1>2, <2>1, <2>2 DEF Above, ab
        <3>2. CASE j = i
            BY <1>5, <1>9, <2>1, <3>1, <3>2
        <3>3. CASE j # i
            <4>1. j < i
                BY <1>2, <2>2, <3>3
            <4>2. j \in 1 .. Len(c) /\ i \in 1 .. Len(c)
                BY <3>1 DEF n
            <4>3. Past(w[c[i]]) <= w[c[j]].offset
                BY <1>1, <4>1, <4>2, Apart
            <4>4. w[c[i]].offset < Past(w[c[i]]) /\ w[c[i]].offset \in Nat
                      /\ Past(w[c[i]]) \in Nat /\ w[c[j]].offset \in Nat
                BY <1>1, <4>2, ChainParts
            <4>5. QED
                BY <1>9, <2>1, <3>1, <4>3, <4>4
        <3>4. QED
            BY <3>2, <3>3
    <2>3. CASE ~ (j <= i)
        <3> DEFINE k == i + 1
        <3>1. k \in 1 .. Len(c) /\ j \in 1 .. Len(c) /\ (j = k \/ k < j)
            BY <1>2, <1>6, <2>3 DEF n
        <3> HIDE DEF k
        <3>2. /\ Past(w[c[k]]) \in Nat /\ Past(w[c[j]]) \in Nat /\ w[c[k]].offset \in Nat
              /\ w[c[k]].offset < Past(w[c[k]])
            BY <1>1, <3>1, ChainParts
        <3>3. Past(w[c[k]]) <= to
            BY <1>6, <1>9 DEF k
        <3>4. k < j => Past(w[c[j]]) <= w[c[k]].offset
            BY <1>1, <3>1, Apart
        <3>5. Past(w[c[j]]) <= to
            BY <1>9, <3>1, <3>2, <3>3, <3>4
        <3>6. QED
            BY <2>1, <3>5
    <2>4. QED
        BY <2>2, <2>3
<1>34. QED
    BY <1>3, <1>9, <1>10, <1>27, <1>28, <1>30, <1>31, <1>32, <1>33, SMTT(30)
       DEF w, w2, c, d, e, n, a, top

-----------------------------------------------------------------------------
(***************************************************************************)
(* A shift: descriptors and bytes.                                         *)
(***************************************************************************)
\* A run of bytes carried from one place to another, which may overlap.
Carries(mem, cm, from, to, n) ==
    /\ cm \in [Bytes -> Values \cup {Junk}]
    /\ \A b \in 0 .. n - 1 : cm[to + b] = mem[from + b]
    /\ \A x \in Bytes : (x < from \/ from + n <= x) /\ (x < to \/ to + n <= x) => cm[x] = mem[x]

\* std::memmove does that.
LEMMA CarriedIs ==
    ASSUME NEW mem \in [Bytes -> Values \cup {Junk}], NEW from \in Nat, NEW to \in Nat,
               NEW n \in Nat,
           from + n <= Capacity, to + n <= Capacity, NEW cm, cm = Carried(mem, from, to, n)
    PROVE  Carries(mem, cm, from, to, n)
<1>0. Capacity \in Nat
    BY SizeFacts
<1>1. cm = [b \in Bytes |-> IF b \in to .. to + n - 1 THEN mem[(from + b) - to]
                            ELSE IF b \in from .. from + n - 1 THEN Junk ELSE mem[b]]
    BY DEF Carried
<1>2. \A b \in Bytes : b \in to .. to + n - 1 => (from + b) - to \in Bytes
    BY <1>0 DEF Bytes
<1>3. \A b \in Bytes : (IF b \in to .. to + n - 1 THEN mem[(from + b) - to]
                       ELSE IF b \in from .. from + n - 1 THEN Junk ELSE mem[b])
                           \in Values \cup {Junk}
    BY <1>2
<1>4. cm \in [Bytes -> Values \cup {Junk}]
    BY <1>1, <1>3
<1>5. ASSUME NEW b \in 0 .. n - 1
      PROVE  cm[to + b] = mem[from + b]
    <2> DEFINE x == to + b
    <2>1. x \in Bytes /\ x \in to .. to + n - 1 /\ (from + x) - to = from + b
        BY <1>0 DEF Bytes
    <2> HIDE DEF x
    <2>2. cm[x] = mem[(from + x) - to]
        BY <1>1, <2>1
    <2>3. QED
        BY <2>1, <2>2 DEF x
<1>6. ASSUME NEW x \in Bytes, x < from \/ from + n <= x, x < to \/ to + n <= x
      PROVE  cm[x] = mem[x]
    <2>1. x \notin to .. to + n - 1 /\ x \notin from .. from + n - 1
        BY <1>6 DEF Bytes
    <2>2. QED
        BY <1>1, <2>1
<1>7. QED
    BY <1>4, <1>5, <1>6 DEF Carries

\* The same objects hold the same bytes, wherever they lie.
SameBytes(hp, hq) ==
    \A h \in Handles : View(hp)[h].state # "free" =>
        \A b \in 0 .. View(hp)[h].size - 1 :
            hq.mem[View(hq)[h].offset + b] = hp.mem[View(hp)[h].offset + b]

\* Objects k to j of the chain have been raised by delta, the others not.
Raising(hp, hq, c, k, j, delta) ==
    /\ HeapRec(hq) /\ Len(hq.tables) = Len(hp.tables) /\ NoneEmpty(hq.tables)
    /\ hq.reserved = hp.reserved /\ hq.live = hp.live /\ hq.root = hp.root
    /\ \A l \in 1 .. Len(c) : View(hq)[c[l]] =
           IF k <= l /\ l <= j THEN [View(hp)[c[l]] EXCEPT !.offset = View(hp)[c[l]].offset + delta]
           ELSE View(hp)[c[l]]
    /\ \A g \in Handles : View(hp)[g].state = "free" => View(hq)[g] = View(hp)[g]
    /\ SameBytes(hp, hq)

\* The next object may be raised too: what it is copied over is the extent or the
\* old place of one that was raised before it.
LEMMA RaisedOneIs ==
    ASSUME NEW hp, NEW C, HeapOK(hp, C), NEW c, c = Chain(hp), NEW k \in 1 .. Len(c),
               NEW j \in k .. Len(c),
           NEW delta \in Nat, Past(View(hp)[c[k]]) + delta = Above(View(hp), c, k - 1),
           NEW r, Raising(hp, r, c, k, j - 1, delta)
    PROVE  Raising(hp, RaisedOne(r, hp, c[j], delta), c, k, j, delta)
<1> DEFINE w == View(hp)
           n == Len(c)
           h == c[j]
           v == View(r)
           from == w[h].offset
           to == from + delta
           sz == w[h].size
           hq == RaisedOne(r, hp, h, delta)
           w2 == View(hq)
<1>1. /\ HeapRec(hp) /\ w \in [Handles -> Slot] /\ IsChain(w, hp.root, c)
      /\ SlotsSound(w) /\ n \in Nat /\ DOMAIN c = 1 .. n
      /\ LaidOut(w, MetadataTop(hp), c) /\ MetadataTop(hp) \in Nat
    BY HeapGives
<1>2. j \in 1 .. n /\ k \in 1 .. n /\ k <= j /\ k \in Nat /\ j \in Nat /\ Capacity \in Nat
    BY <1>1, SizeFacts
<1>3. \A l \in 1 .. n : /\ c[l] \in Handles /\ w[c[l]] \in Slot /\ w[c[l]].state # "free"
                        /\ w[c[l]].size >= 1 /\ w[c[l]].size \in Nat /\ w[c[l]].offset \in Nat
                        /\ w[c[l]].size <= AlignUp(w[c[l]].size) /\ AlignUp(w[c[l]].size) \in Nat
                        /\ Past(w[c[l]]) = w[c[l]].offset + AlignUp(w[c[l]].size)
                        /\ Past(w[c[l]]) \in Nat /\ w[c[l]].offset < Past(w[c[l]])
    <2> HIDE DEF w, n
    <2>1. SUFFICES ASSUME NEW l \in 1 .. n
                   PROVE  /\ c[l] \in Handles /\ w[c[l]] \in Slot /\ w[c[l]].state # "free"
                          /\ w[c[l]].size >= 1 /\ w[c[l]].size \in Nat /\ w[c[l]].offset \in Nat
                          /\ w[c[l]].size <= AlignUp(w[c[l]].size) /\ AlignUp(w[c[l]].size) \in Nat
                          /\ Past(w[c[l]]) = w[c[l]].offset + AlignUp(w[c[l]].size)
                          /\ Past(w[c[l]]) \in Nat /\ w[c[l]].offset < Past(w[c[l]])
        OBVIOUS
    <2>2. /\ c[l] \in Handles /\ w[c[l]] \in Slot /\ w[c[l]].state # "free"
          /\ w[c[l]].size >= 1 /\ w[c[l]].size \in Nat /\ w[c[l]].offset \in Nat
          /\ AlignUp(w[c[l]].size) \in Nat
          /\ Past(w[c[l]]) = w[c[l]].offset + AlignUp(w[c[l]].size)
          /\ Past(w[c[l]]) \in Nat /\ w[c[l]].offset < Past(w[c[l]])
        <3>1. l \in 1 .. Len(c)
            BY DEF n
        <3>2. QED
            BY <1>1, <3>1, ChainParts
    <2>3. w[c[l]].size <= AlignUp(w[c[l]].size)
        BY <2>2, SlotParts
    <2>4. QED
        BY <2>2, <2>3
<1>4. \A l, m \in 1 .. n : l < m => Past(w[c[m]]) <= w[c[l]].offset
    BY <1>1, Apart
<1>5. \A l, m \in 1 .. n : c[l] = c[m] => l = m
    BY <1>1 DEF IsChain
<1>6. Above(w, c, k - 1) <= Capacity /\ Above(w, c, k - 1) \in Nat
      /\ (k # 1 => Above(w, c, k - 1) = w[c[k - 1]].offset /\ k - 1 \in 1 .. n)
    <2>1. k = 1 => Above(w, c, k - 1) = Capacity
        BY <1>2 DEF Above
    <2>2. k # 1 => Above(w, c, k - 1) = w[c[k - 1]].offset /\ k - 1 \in 1 .. n
        BY <1>2 DEF Above
    <2>3. k # 1 => w[c[k - 1]].offset \in Nat /\ w[c[k - 1]].offset <= Capacity
        <3>1. k # 1 => w[c[k - 1]] \in Slot
            BY <1>3, <2>2
        <3>2. \A s \in Slot : s.offset \in Nat /\ s.offset <= Capacity
            BY <1>2, SlotParts
        <3>3. QED
            BY <3>1, <3>2
    <2>4. QED
        BY <1>2, <2>1, <2>2, <2>3
<1> DEFINE lim == Above(w, c, k - 1)
           topj == Past(w[c[j]])
           topk == Past(w[c[k]])
<1> HIDE DEF w, n, v, lim, hq, w2
<1>7. topj + delta <= lim /\ topj \in Nat /\ topk \in Nat
    <2>1. topk + delta = lim
        BY DEF lim, w
    <2>2. topj \in Nat /\ topk \in Nat /\ w[c[k]].offset < topk /\ w[c[k]].offset \in Nat
        BY <1>2, <1>3
    <2>3. k < j => topj <= w[c[k]].offset
        BY <1>2, <1>4
    <2>4. k = j => topj = topk
        OBVIOUS
    <2> HIDE DEF topj, topk
    <2>5. lim \in Nat
        BY <1>6 DEF lim
    <2>6. topj <= topk
        BY <1>2, <2>2, <2>3, <2>4
    <2>7. QED
        BY <2>1, <2>2, <2>5, <2>6
<1>8. /\ h \in Handles /\ w[h].state # "free" /\ w[h] \in Slot
      /\ from \in Nat /\ sz \in Nat /\ to \in Nat /\ sz >= 1 /\ from + sz <= topj
      /\ from + sz <= Capacity /\ to + sz <= lim /\ to + sz <= Capacity /\ from <= to
             /\ to \in Bytes
    <2>1. h \in Handles /\ w[h].state # "free" /\ w[h] \in Slot /\ from \in Nat
              /\ sz \in Nat /\ sz >= 1
        BY <1>2, <1>3
    <2>2. from + sz <= topj
        <3>1. /\ from \in Nat /\ sz \in Nat /\ sz <= AlignUp(sz) /\ AlignUp(sz) \in Nat
              /\ topj = from + AlignUp(sz)
            BY <1>2, <1>3
        <3> HIDE DEF from, sz, topj
        <3>2. QED
            BY <3>1
    <2> HIDE DEF from, sz, topj, h
    <2>3. lim \in Nat /\ lim <= Capacity
        BY <1>6 DEF lim
    <2>4. to \in Nat /\ from + sz <= Capacity /\ to + sz <= lim /\ to + sz <= Capacity /\ from <= to
        <3>1. topj \in Nat /\ topj + delta <= lim /\ from \in Nat /\ sz \in Nat
            BY <1>7, <2>1
        <3>2. Capacity \in Nat /\ delta \in Nat /\ to = from + delta
            BY <1>2
        <3> HIDE DEF to
        <3>3. QED
            BY <2>2, <2>3, <3>1, <3>2
    <2>5. to \in Bytes
        BY <1>2, <2>1, <2>4 DEF Bytes
    <2>6. QED
        BY <2>1, <2>2, <2>4, <2>5
<1>9. /\ HeapRec(r) /\ Len(r.tables) = Len(hp.tables) /\ NoneEmpty(r.tables)
      /\ r.reserved = hp.reserved /\ r.live = hp.live /\ r.root = hp.root
      /\ \A l \in 1 .. n : v[c[l]] = IF k <= l /\ l <= j - 1
             THEN [w[c[l]] EXCEPT !.offset = w[c[l]].offset + delta]
                                     ELSE w[c[l]]
      /\ \A g \in Handles : w[g].state = "free" => v[g] = w[g]
      /\ \A g \in Handles : w[g].state # "free" =>
           \A b \in 0 .. w[g].size - 1 : r.mem[v[g].offset + b] = hp.mem[w[g].offset + b]
    BY DEF Raising, SameBytes, w, v, n
<1>10. v[h] = w[h] /\ v \in [Handles -> Slot] /\ View(r)[h].state # "free"
    <2>1. v[h] = w[h]
        <3>1. ~ (k <= j /\ j <= j - 1) /\ j \in 1 .. n
            BY <1>2
        <3>2. QED
            BY <1>9, <3>1
    <2>2. v \in [Handles -> Slot]
        BY <1>9, ViewIs DEF HeapRec, v
    <2>3. QED
        BY <1>8, <2>1, <2>2 DEF v
<1>11. Base(hp, h) = from /\ Size(hp, h) = sz
    BY <1>1, <1>8, Reads DEF w
<1> HIDE DEF from, to, sz, h, topj, topk
<1> DEFINE mm == Carried(r.mem, from, to, sz)
           up == WithBase(r, h, to)
<1>12. hq = [up EXCEPT !.mem = mm]
    <2>1. hq = [r EXCEPT !.tables = PutBase(r.tables, h, to), !.mem = mm]
        BY <1>11 DEF hq, RaisedOne, to
    <2>2. up = [r EXCEPT !.tables = PutBase(r.tables, h, to)]
        BY DEF WithBase
    <2>3. HeapRec(r)
        BY <1>9
    <2>4. r \in Heap
        BY <2>3 DEF HeapRec
    <2> HIDE DEF mm, up
    <2>5. QED
        BY <2>1, <2>2, <2>4 DEF Heap
<1>13. /\ Only(r, up) /\ up.root = r.root
       /\ View(up) = [v EXCEPT ![h] = [v[h] EXCEPT !.offset = to]]
    BY <1>8, <1>9, <1>10, BaseSet DEF v
<1>14. /\ mm \in [Bytes -> Values \cup {Junk}]
       /\ \A b \in 0 .. sz - 1 : mm[to + b] = r.mem[from + b]
       /\ \A x \in Bytes : (x < from \/ from + sz <= x)
              /\ (x < to \/ to + sz <= x) => mm[x] = r.mem[x]
    <2> DEFINE rm == r.mem
    <2>1. rm \in [Bytes -> Values \cup {Junk}]
        BY <1>9 DEF HeapRec, Heap
    <2> HIDE DEF rm
    <2>2. from \in Nat /\ to \in Nat /\ sz \in Nat /\ from + sz <= Capacity /\ to + sz <= Capacity
        BY <1>8
    <2>3. mm = Carried(rm, from, to, sz)
        BY DEF rm
    <2> HIDE DEF mm, up
    <2>4. Carries(rm, mm, from, to, sz)
        BY <2>1, <2>2, <2>3, CarriedIs
    <2>5. QED
        BY <2>4 DEF rm, Carries
<1> HIDE DEF mm, up
<1>15. /\ HeapRec(hq) /\ w2 = View(up) /\ hq.mem = mm /\ Len(hq.tables) = Len(hp.tables)
       /\ hq.root = hp.root /\ hq.reserved = hp.reserved /\ hq.live = hp.live
              /\ NoneEmpty(hq.tables)
    <2>1. HeapRec(up)
        BY <1>13 DEF Only
    <2>2. LET hz == [up EXCEPT !.mem = mm]
          IN  /\ HeapRec(hz) /\ View(hz) = View(up) /\ hz.tables = up.tables /\ hz.mem = mm
              /\ hz.root = up.root /\ hz.reserved = up.reserved /\ hz.live = up.live
        BY <1>14, <2>1, MemSet
    <2>3. HeapRec(hq) /\ w2 = View(up) /\ hq.tables = up.tables /\ hq.mem = mm
              /\ hq.root = up.root /\ hq.reserved = up.reserved /\ hq.live = up.live
        BY <1>12, <2>2 DEF w2
    <2>4. QED
        BY <1>9, <1>13, <2>3 DEF Only
<1>16. w2[h] = [w[h] EXCEPT !.offset = to] /\ \A g \in Handles : g # h => w2[g] = v[g]
    BY <1>8, <1>10, <1>13, <1>15
<1>17. ASSUME NEW l \in 1 .. n
       PROVE  w2[c[l]] = IF k <= l /\ l <= j THEN [w[c[l]] EXCEPT !.offset = w[c[l]].offset + delta]
                         ELSE w[c[l]]
    <2>1. CASE l = j
        <3>1. k <= l /\ l <= j /\ c[l] = h
            BY <1>2, <2>1 DEF h
        <3>2. [w[c[l]] EXCEPT !.offset = w[c[l]].offset + delta] = [w[h] EXCEPT !.offset = to]
            BY <3>1 DEF to, from
        <3>3. QED
            BY <1>16, <3>1, <3>2
    <2>2. CASE l # j
        <3>1. c[l] # h /\ c[l] \in Handles
            BY <1>2, <1>3, <1>5, <2>2 DEF h
        <3>2. (k <= l /\ l <= j) <=> (k <= l /\ l <= j - 1)
            BY <1>2, <2>2
        <3>3. QED
            BY <1>9, <1>16, <3>1, <3>2
    <2>3. QED
        BY <2>1, <2>2
<1>18. ASSUME NEW g \in Handles, w[g].state = "free"
       PROVE  w2[g] = w[g]
    BY <1>8, <1>9, <1>16, <1>18
<1>19. ASSUME NEW g \in Handles, w[g].state # "free", NEW b \in 0 .. w[g].size - 1
       PROVE  mm[w2[g].offset + b] = hp.mem[w[g].offset + b]
    <2>1. PICK l \in 1 .. n : c[l] = g
        BY <1>1, <1>19 DEF IsChain
    <2>2. r.mem[v[g].offset + b] = hp.mem[w[g].offset + b]
        BY <1>9, <1>19
    <2>3. CASE l = j
        <3>1. g = h
            BY <2>1, <2>3 DEF h
        <3>2. w2[g].offset = to
            BY <1>8, <1>16, <3>1 DEF Slot
        <3>3. b \in 0 .. sz - 1
            BY <3>1 DEF sz
        <3>4. mm[to + b] = r.mem[from + b]
            BY <1>14, <3>3
        <3>5. v[g].offset = from
            BY <1>10, <3>1 DEF from
        <3>6. QED
            BY <2>2, <3>2, <3>4, <3>5
    <2>4. CASE l # j
        <3>1. g # h
            BY <1>2, <1>5, <2>1, <2>4 DEF h
        <3>2. w2[g] = v[g]
            BY <1>16, <3>1
        <3> DEFINE x == v[g].offset + b
                   ol == w[g].offset
                   sl == w[g].size
                   tl == Past(w[g])
        <3>3. /\ ol \in Nat /\ sl \in Nat /\ ol + sl <= tl /\ tl \in Nat /\ b \in Nat /\ b < sl
            <4>1. /\ ol \in Nat /\ sl \in Nat /\ sl <= AlignUp(sl) /\ AlignUp(sl) \in Nat
                  /\ tl = ol + AlignUp(sl) /\ tl \in Nat
                BY <1>3, <2>1
            <4>2. b \in 0 .. sl - 1
                OBVIOUS
            <4> HIDE DEF ol, sl, tl
            <4>3. QED
                BY <4>1, <4>2
        <3> HIDE DEF x
        <3>4. CASE k <= l /\ l < j
            <4>1. v[g] = [w[g] EXCEPT !.offset = ol + delta]
                <5>1. k <= l /\ l <= j - 1
                    BY <1>2, <3>4
                <5>2. QED
                    BY <1>9, <2>1, <5>1
            <4>2. v[g].offset = ol + delta
                BY <1>3, <2>1, <4>1 DEF Slot
            <4>3. topj <= ol
                BY <1>2, <1>4, <2>1, <3>4 DEF topj
            <4> HIDE DEF ol, sl, tl
            <4>4. x = (ol + delta) + b
                BY <4>2 DEF x
            <4>5. to = from + delta
                BY DEF to
            <4>6. to + sz <= x /\ from + sz <= x /\ x \in Nat
                <5>1. /\ from \in Nat /\ sz \in Nat /\ delta \in Nat /\ ol \in Nat /\ b \in Nat
                      /\ from + sz <= topj /\ topj \in Nat
                    BY <1>7, <1>8, <3>3
                <5>2. (from + delta) + sz <= (ol + delta) + b /\ from + sz <= (ol + delta) + b
                      /\ (ol + delta) + b \in Nat
                    BY <4>3, <5>1
                <5>3. QED
                    BY <4>4, <4>5, <5>2
            <4>7. x \in Bytes
                <5>1. v[g] \in Slot /\ w[g].size \in Nat /\ Past(w[g]) + delta <= lim
                          /\ lim <= Capacity /\ lim \in Nat
                    <6>1. v[g] \in Slot /\ w[g].size \in Nat
                        BY <1>3, <1>10, <2>1
                    <6>2. lim <= Capacity /\ lim \in Nat /\ topk + delta = lim
                        BY <1>6 DEF lim, topk, w
                    <6>3. tl <= topk
                        <7>1. l = k => tl = topk
                            BY <2>1 DEF tl, topk
                        <7>2. k < l => tl <= w[c[k]].offset
                            BY <1>2, <1>4, <2>1 DEF tl
                        <7>3. w[c[k]].offset < topk /\ w[c[k]].offset \in Nat /\ topk \in Nat
                            BY <1>2, <1>3 DEF topk
                        <7>4. tl \in Nat /\ (l = k \/ k < l)
                            BY <1>2, <3>3, <3>4
                        <7> DEFINE ok == w[c[k]].offset
                        <7>5. k < l => tl <= ok
                            BY <7>2
                        <7>6. ok < topk /\ ok \in Nat /\ topk \in Nat
                            BY <7>3
                        <7> HIDE DEF ok, topk, tl
                        <7>7. QED
                            BY <7>1, <7>4, <7>5, <7>6
                    <6>4. tl + delta <= lim
                        BY <1>7, <3>3, <6>2, <6>3
                    <6>5. QED
                        BY <6>1, <6>2, <6>4 DEF tl
                <5>2. x < lim
                    BY <3>3, <4>4, <5>1 DEF tl
                <5>3. QED
                    BY <1>2, <4>6, <5>1, <5>2 DEF Bytes
            <4>8. mm[x] = r.mem[x]
                BY <1>14, <4>6, <4>7
            <4>9. QED
                BY <2>2, <3>2, <4>8 DEF x
        <3>5. CASE ~ (k <= l /\ l < j)
            <4>1. v[g] = w[g]
                <5>1. ~ (k <= l /\ l <= j - 1)
                    BY <1>2, <3>5
                <5>2. QED
                    BY <1>9, <2>1, <5>1
            <4> HIDE DEF ol, sl, tl
            <4>2. x = ol + b
                BY <4>1 DEF ol, x
            <4>3. tl <= Capacity
                <5>1. l = 1 => tl <= Capacity
                    BY <1>1, <2>1 DEF LaidOut, tl, n
                <5>2. l # 1 => tl <= w[c[1]].offset /\ w[c[1]].offset \in Nat
                          /\ w[c[1]].offset <= Capacity
                    <6>1. 1 \in 1 .. n /\ l \in 1 .. n
                        BY <1>1, <1>2 DEF n
                    <6>2. w[c[1]] \in Slot
                        BY <1>3, <6>1
                    <6>3. w[c[1]].offset \in Nat /\ w[c[1]].offset <= Capacity
                        BY <1>2, <6>2, SlotParts, SMTT(30)
                    <6>4. l # 1 => tl <= w[c[1]].offset
                        BY <1>4, <2>1, <6>1 DEF tl
                    <6>5. QED
                        BY <6>3, <6>4
                <5>3. QED
                    BY <1>2, <3>3, <5>1, <5>2
            <4>4. x \in Bytes /\ x \in Nat
                BY <1>2, <3>3, <4>2, <4>3 DEF Bytes
            <4>5. (x < from \/ from + sz <= x) /\ (x < to \/ to + sz <= x)
                <5>1. CASE j < l
                    <6>1. tl <= from
                        BY <1>2, <1>4, <2>1, <5>1 DEF tl, from, h
                    <6>2. x < from /\ x < to
                        BY <1>8, <3>3, <4>2, <6>1
                    <6>3. QED
                        BY <6>2
                <5>2. CASE ~ (j < l)
                    <6>1. l < k
                        BY <1>2, <2>4, <3>5, <5>2
                    <6>2. lim = w[c[k - 1]].offset /\ k - 1 \in 1 .. n /\ k # 1
                        BY <1>2, <1>6, <6>1 DEF lim
                    <6>3. l = k - 1 => lim = ol
                        BY <2>1, <6>2 DEF ol
                    <6>4. l < k - 1 => Past(w[c[k - 1]]) <= ol
                        BY <1>4, <2>1, <6>2 DEF ol
                    <6>5. w[c[k - 1]].offset < Past(w[c[k - 1]])
                              /\ w[c[k - 1]].offset \in Nat /\ Past(w[c[k - 1]]) \in Nat
                        BY <1>3, <6>2
                    <6>6. lim <= ol
                        BY <1>2, <3>3, <6>1, <6>2, <6>3, <6>4, <6>5
                    <6>7. lim \in Nat
                        BY <6>2, <6>5
                    <6>8. from + sz <= x /\ to + sz <= x
                        <7>1. from \in Nat /\ sz \in Nat /\ to \in Nat /\ to + sz <= lim
                                  /\ from <= to
                            BY <1>8
                        <7>2. ol \in Nat /\ b \in Nat /\ x = ol + b /\ lim <= ol /\ lim \in Nat
                            BY <3>3, <4>2, <6>6, <6>7
                        <7> HIDE DEF from, sz, to
                        <7>3. QED
                            BY <7>1, <7>2
                    <6>9. QED
                        BY <6>8
                <5>3. QED
                    BY <5>1, <5>2
            <4>6. mm[x] = r.mem[x]
                BY <1>14, <4>4, <4>5
            <4>7. QED
                BY <2>2, <3>2, <4>6 DEF x
        <3>6. QED
            BY <3>4, <3>5
    <2>5. QED
        BY <2>3, <2>4
<1>20. QED
    BY <1>15, <1>17, <1>18, <1>19 DEF Raising, SameBytes, w, w2, n, hq, h

\* g lists the heaps a shift goes through, from the one it starts with.
RaisedBy(g, hp, c, k, delta, n) ==
    g = [i \in k - 1 .. n |-> IF i = k - 1 THEN hp ELSE RaisedOne(g[i - 1], hp, c[i], delta)]

\* The recursion of Raised has a solution.
LEMMA RaisedExists ==
    ASSUME NEW hp, NEW c, NEW k \in Nat \ {0}, NEW delta, NEW n \in Nat, k <= n
    PROVE  \E g : RaisedBy(g, hp, c, k, delta, n)
<1> DEFINE Good(g, m) == /\ g[k - 1] = hp
                         /\ \A i \in k .. m : g[i] = RaisedOne(g[i - 1], hp, c[i], delta)
           Upto(m) == \E g : Good(g, m)
           T == {m \in 0 .. n : k - 1 <= m => Upto(m)}
<1>1. ASSUME NEW m \in Nat, m < k PROVE Upto(m)
    <2> DEFINE g == [i \in {k - 1} |-> hp]
    <2>1. g[k - 1] = hp /\ k .. m = {}
        BY <1>1
    <2> HIDE DEF g
    <2>2. Good(g, m)
        BY <2>1
    <2>3. QED
        BY <2>2
<1>2. ASSUME NEW m \in 1 .. n, m - 1 \in T PROVE m \in T
    <2>0. m \in Nat /\ m \in 0 .. n /\ m - 1 \in Nat
        OBVIOUS
    <2>1. CASE m < k
        BY <1>1, <2>0, <2>1
    <2>2. CASE ~ (m < k)
        <3>1. k - 1 <= m - 1
            BY <2>0, <2>2
        <3>2. PICK g : Good(g, m - 1)
            BY <1>2, <3>1
        <3> DEFINE f == [i \in k - 1 .. m |-> IF i = m
                THEN RaisedOne(g[m - 1], hp, c[m], delta) ELSE g[i]]
        <3>3. f[k - 1] = hp
            <4>1. k - 1 \in k - 1 .. m /\ k - 1 # m
                BY <2>0, <2>2
            <4>2. QED
                BY <3>2, <4>1
        <3>4. ASSUME NEW i \in k .. m PROVE f[i] = RaisedOne(f[i - 1], hp, c[i], delta)
            <4>0. i \in k - 1 .. m /\ i - 1 \in k - 1 .. m /\ i - 1 # m
                BY <2>0
            <4>1. CASE i = m
                <5>1. f[i - 1] = g[m - 1] /\ f[i] = RaisedOne(g[m - 1], hp, c[m], delta)
                    BY <4>0, <4>1
                <5>2. QED
                    BY <4>1, <5>1
            <4>2. CASE i # m
                <5>1. f[i - 1] = g[i - 1] /\ f[i] = g[i] /\ i \in k .. m - 1
                    BY <2>0, <4>0, <4>2
                <5>2. QED
                    BY <3>2, <5>1
            <4>3. QED
                BY <4>1, <4>2
        <3> HIDE DEF f
        <3>5. Good(f, m)
            BY <3>3, <3>4
        <3>6. Upto(m)
            BY <3>5
        <3> HIDE DEF Upto, Good
        <3>7. QED
            BY <2>0, <3>6
    <2>3. QED
        BY <2>1, <2>2
<1>3. 0 \in T
    BY <1>1
<1>4. Upto(n)
    <2> HIDE DEF Upto
    <2>1. n \in T
        <3> HIDE DEF T
        <3>1. 0 .. n \subseteq T
            BY <1>2, <1>3, UpTo
        <3>2. QED
            BY <3>1
    <2>2. QED
        BY <2>1
<1>5. PICK g : Good(g, n)
    BY <1>4
<1> DEFINE f == [i \in k - 1 .. n |-> g[i]]
           e == [i \in k - 1 .. n |-> IF i = k - 1 THEN hp
               ELSE RaisedOne(f[i - 1], hp, c[i], delta)]
<1>6. ASSUME NEW i \in k - 1 .. n PROVE g[i] = IF i = k - 1 THEN hp
                 ELSE RaisedOne(f[i - 1], hp, c[i], delta)
    <2>1. CASE i = k - 1
        BY <1>5, <2>1
    <2>2. CASE i # k - 1
        <3>1. i \in k .. n /\ i - 1 \in k - 1 .. n
            BY <2>2
        <3>2. f[i - 1] = g[i - 1]
            BY <3>1
        <3>3. QED
            BY <1>5, <2>2, <3>1, <3>2
    <2>3. QED
        BY <2>1, <2>2
<1>7. f = e
    BY <1>6
<1> HIDE DEF f
<1>8. RaisedBy(f, hp, c, k, delta, n)
    BY <1>7 DEF RaisedBy
<1>9. QED
    BY <1>8

\* A shift raises the whole tail of the chain and loses no byte of it.
LEMMA RaisedIs ==
    ASSUME NEW hp, NEW C, HeapOK(hp, C), NEW c, c = Chain(hp), NEW k \in 1 .. Len(c),
           NEW delta \in Nat, Past(View(hp)[c[k]]) + delta = Above(View(hp), c, k - 1)
    PROVE  Raising(hp, Raised(hp, c, k, delta), c, k, Len(c), delta)
<1> DEFINE n == Len(c)
           raised[i \in k - 1 .. Len(c)] ==
               IF i = k - 1 THEN hp ELSE RaisedOne(raised[i - 1], hp, c[i], delta)
           d == n - (k - 1)
           T == {m \in 0 .. d : Raising(hp, raised[(k - 1) + m], c, k, (k - 1) + m, delta)}
<1>0. n \in Nat /\ k \in Nat \ {0} /\ k <= n /\ d \in Nat /\ (k - 1) + d = n /\ k - 1 \in k - 1 .. n
    BY HeapGives
<1>1. Raised(hp, c, k, delta) = raised[n]
    BY DEF Raised
<1>2. raised = [i \in k - 1 .. Len(c) |-> IF i = k - 1 THEN hp
          ELSE RaisedOne(raised[i - 1], hp, c[i], delta)]
    <2>1. \E g : g = [i \in k - 1 .. Len(c) |-> IF i = k - 1 THEN hp
              ELSE RaisedOne(g[i - 1], hp, c[i], delta)]
        <3>1. Len(c) \in Nat /\ k \in Nat \ {0} /\ k <= Len(c)
            BY <1>0
        <3> HIDE DEF raised, T, d, n
        <3>2. \E g : RaisedBy(g, hp, c, k, delta, Len(c))
            BY <3>1, RaisedExists
        <3>3. QED
            BY <3>2 DEF RaisedBy
    <2>2. QED
        BY <2>1, Zenon
<1> HIDE DEF raised
<1>3. raised[k - 1] = hp
    <2>1. k - 1 \in k - 1 .. Len(c)
        BY <1>0
    <2>2. raised[k - 1] = IF k - 1 = k - 1 THEN hp
              ELSE RaisedOne(raised[(k - 1) - 1], hp, c[k - 1], delta)
        BY <1>2, <2>1, Zenon
    <2>3. QED
        BY <2>2
<1>4. ASSUME NEW i \in k .. n PROVE raised[i] = RaisedOne(raised[i - 1], hp, c[i], delta)
    <2>1. i \in k - 1 .. Len(c) /\ i # k - 1
        BY <1>0
    <2>2. raised[i] = IF i = k - 1 THEN hp ELSE RaisedOne(raised[i - 1], hp, c[i], delta)
        BY <1>2, <2>1, Zenon
    <2>3. QED
        BY <2>1, <2>2
<1>5. Raising(hp, hp, c, k, k - 1, delta)
    <2>1. HeapRec(hp) /\ NoneEmpty(hp.tables)
        BY HeapGives
    <2>2. SameBytes(hp, hp)
        BY DEF SameBytes
    <2>3. \A l \in 1 .. Len(c) : ~ (k <= l /\ l <= k - 1)
        BY <1>0
    <2>4. QED
        BY <2>1, <2>2, <2>3 DEF Raising
<1>6. 0 \in T
    <2>1. (k - 1) + 0 = k - 1
        BY <1>0
    <2>2. QED
        BY <1>0, <1>3, <1>5, <2>1
<1>7. ASSUME NEW m \in 1 .. d, m - 1 \in T PROVE m \in T
    <2> DEFINE j == (k - 1) + m
               r == raised[j - 1]
    <2>1. j \in k .. n /\ m \in 0 .. d /\ (k - 1) + (m - 1) = j - 1
        <3>1. m \in Nat /\ m >= 1 /\ m <= n - (k - 1) /\ k \in Nat /\ n \in Nat
            BY <1>0
        <3> HIDE DEF n
        <3>2. QED
            BY <3>1
    <2>2. Raising(hp, r, c, k, j - 1, delta)
        BY <1>7, <2>1
    <2>3. raised[j] = RaisedOne(r, hp, c[j], delta)
        BY <1>4, <2>1
    <2>4. j \in k .. Len(c)
        BY <2>1
    <2> HIDE DEF j, r
    <2>5. Raising(hp, RaisedOne(r, hp, c[j], delta), c, k, j, delta)
        BY <2>2, <2>4, RaisedOneIs
    <2>6. QED
        BY <2>1, <2>3, <2>5 DEF j
<1>8. d \in T
    <2> HIDE DEF T, d
    <2>1. 0 .. d \subseteq T
        BY <1>0, <1>6, <1>7, UpTo
    <2>2. QED
        BY <1>0, <2>1
<1>9. QED
    BY <1>0, <1>1, <1>8

\* The heap after a shift is a heap with the same chain and the same bytes in
\* every object.
THEOREM ShiftedIs ==
    ASSUME NEW hp, NEW C, HeapOK(hp, C), NEW c, c = Chain(hp), NEW i \in 0 .. Len(c) - 1,
           NEW delta, delta = Span(hp, c, i), NEW hq, hq = Shifted(hp, c, i)
    PROVE  /\ HeapOK(hq, C) /\ Chain(hq) = c /\ MetadataTop(hq) = MetadataTop(hp)
           /\ Moved(View(hp), View(hq)) /\ SameBytes(hp, hq) /\ delta \in Nat
           /\ \A l \in 1 .. Len(c) : View(hq)[c[l]].offset =
                IF i + 1 <= l THEN View(hp)[c[l]].offset + delta ELSE View(hp)[c[l]].offset
<1> DEFINE w == View(hp)
           w2 == View(hq)
           n == Len(c)
           k == i + 1
           top == MetadataTop(hp)
           ab == Above(w, c, i)
           un == Under(w, top, c, i)
<1>1. /\ HeapRec(hp) /\ w \in [Handles -> Slot] /\ IsChain(w, hp.root, c)
      /\ SlotsSound(w) /\ n \in Nat /\ DOMAIN c = 1 .. n
      /\ LaidOut(w, top, c) /\ top \in Nat /\ top <= Capacity /\ top % HeapAlignment = 0
    BY HeapGives
<1>2. i \in 0 .. Len(c) /\ k \in 1 .. Len(c) /\ k - 1 = i /\ i # Len(c)
    <2>1. Len(c) \in Nat
        BY <1>1
    <2>2. QED
        BY <2>1
<1>3. delta = ab - un
    <2> HIDE DEF k, n
    <2>1. Span(hp, c, i) = ab - un
        BY <1>1, <1>2, SpanReads
    <2>2. QED
        BY <2>1
<1>4. /\ ab \in Nat /\ un \in Nat /\ un <= ab /\ ab % HeapAlignment = 0 /\ un % HeapAlignment = 0
      /\ ab <= Capacity
    <2> HIDE DEF w, top, k, n
    <2>1. QED
        BY <1>1, <1>2, Extents
<1>5. un = Past(w[c[k]])
    <2> HIDE DEF w, top, n
    <2>1. QED
        BY <1>1, <1>2, TailBelow
<1>5a. \A x, y \in Int : x % HeapAlignment = 0 /\ y % HeapAlignment = 0
                            => (x - y) % HeapAlignment = 0 /\ (x + y) % HeapAlignment = 0
    BY MultipleSums, SizeFacts
<1>6. delta \in Nat /\ delta % HeapAlignment = 0
    <2> HIDE DEF ab, un
    <2>1. (ab - un) % HeapAlignment = 0
        BY <1>4, <1>5a
    <2>2. QED
        BY <1>3, <1>4, <2>1
<1>7. Past(View(hp)[c[k]]) + delta = Above(View(hp), c, k - 1)
    <2> HIDE DEF un
    <2>1. ab = Above(View(hp), c, k - 1)
        BY <1>2
    <2> HIDE DEF ab
    <2>2. un + delta = ab
        BY <1>3, <1>4, <1>6
    <2>3. QED
        BY <1>5, <2>1, <2>2
<1>8. Raising(hp, hq, c, k, n, delta)
    <2>1. hq = Raised(hp, c, k, delta)
        BY DEF Shifted
    <2> HIDE DEF k, w, ab, un, top
    <2>2. Raising(hp, Raised(hp, c, k, delta), c, k, Len(c), delta)
        BY <1>2, <1>6, <1>7, RaisedIs
    <2>3. QED
        BY <2>1, <2>2
<1> HIDE DEF w, w2, n, k, top, ab, un
<1>9. /\ HeapRec(hq) /\ NoneEmpty(hq.tables) /\ Len(hq.tables) = Len(hp.tables)
      /\ hq.reserved = hp.reserved /\ hq.live = hp.live /\ hq.root = hp.root
      /\ \A l \in 1 .. n : w2[c[l]] = IF k <= l /\ l <= n
             THEN [w[c[l]] EXCEPT !.offset = w[c[l]].offset + delta]
                                      ELSE w[c[l]]
      /\ \A g \in Handles : w[g].state = "free" => w2[g] = w[g]
      /\ SameBytes(hp, hq)
    BY <1>8 DEF Raising, w, w2, n
<1>10. w2 \in [Handles -> Slot]
    BY <1>9, ViewIs DEF HeapRec, w2
<1>11. \A l \in 1 .. n : c[l] \in Handles /\ w[c[l]] \in Slot /\ w[c[l]].state # "free"
                         /\ w[c[l]].offset \in Nat
                                /\ Past(w[c[l]]) = w[c[l]].offset + AlignUp(w[c[l]].size)
                         /\ Past(w[c[l]]) \in Nat /\ AlignUp(w[c[l]].size) \in Nat
    BY <1>1, ChainParts DEF n
<1>12. ASSUME NEW l \in 1 .. n
       PROVE  /\ w2[c[l]].state = w[c[l]].state /\ w2[c[l]].refs = w[c[l]].refs
              /\ w2[c[l]].size = w[c[l]].size /\ w2[c[l]].next = w[c[l]].next
              /\ w2[c[l]].offset = IF k <= l THEN w[c[l]].offset + delta ELSE w[c[l]].offset
    <2>1. w2[c[l]] = IF k <= l THEN [w[c[l]] EXCEPT !.offset = w[c[l]].offset + delta] ELSE w[c[l]]
        <3>1. l <= n
            BY <1>1
        <3>2. QED
            BY <1>9, <3>1
    <2>2. w[c[l]] \in Slot
        BY <1>11
    <2>3. QED
        BY <2>1, <2>2 DEF Slot
<1>13. ASSUME NEW g \in Handles
       PROVE  /\ w2[g].state = w[g].state /\ w2[g].refs = w[g].refs
              /\ w2[g].size = w[g].size /\ w2[g].next = w[g].next
    <2>1. CASE w[g].state = "free"
        BY <1>9, <2>1
    <2>2. CASE w[g].state # "free"
        <3>1. PICK l \in 1 .. n : c[l] = g
            BY <1>1, <2>2 DEF IsChain
        <3>2. QED
            BY <1>12, <3>1
    <2>3. QED
        BY <2>1, <2>2
<1>14. IsChain(w2, hq.root, c)
    <2>1. hq.root = hp.root
        BY <1>9
    <2>2. \A l \in DOMAIN c : c[l] \in Handles
        BY <1>1, <1>11
    <2>3. \A l \in DOMAIN c : w2[c[l]].state # "free" /\ w2[c[l]].next = w[c[l]].next
        BY <1>1, <1>11, <1>12, ZenonT(60)
    <2>4. /\ c \in Seq(Handles)
          /\ \A l, m \in DOMAIN c : c[l] = c[m] => l = m
          /\ \A h \in Handles : w[h].state # "free" => \E l \in DOMAIN c : c[l] = h
          /\ hp.root = IF Len(c) = 0 THEN Null ELSE c[1]
          /\ \A l \in DOMAIN c : w[c[l]].next = IF l = Len(c) THEN Null ELSE c[l + 1]
        BY <1>1 DEF IsChain
    <2>5. \A h \in Handles : w2[h].state # "free" => \E l \in DOMAIN c : c[l] = h
        BY <1>13, <2>4
    <2>6. \A l \in DOMAIN c : w2[c[l]].next = IF l = Len(c) THEN Null ELSE c[l + 1]
        BY <2>3, <2>4
    <2>7. QED
        BY <2>1, <2>3, <2>4, <2>5, <2>6 DEF IsChain
<1>15. SlotsSound(w2)
    BY <1>1, <1>13 DEF SlotsSound
<1>16. MetadataTop(hq) = top
    BY <1>9 DEF MetadataTop, top
<1>17. LaidOut(w2, top, c)
    <2>1. ASSUME NEW l \in 1 .. n
          PROVE  w2[c[l]].offset % HeapAlignment = 0 /\ top <= w2[c[l]].offset
        <3> DEFINE o == w[c[l]].offset
        <3>1. o \in Nat /\ o % HeapAlignment = 0 /\ top <= o
            BY <1>1, <1>11 DEF LaidOut
        <3>2. w2[c[l]].offset = IF k <= l THEN o + delta ELSE o
            BY <1>12
        <3> HIDE DEF o
        <3>3. (o + delta) % HeapAlignment = 0
            BY <1>5a, <1>6, <3>1
        <3>4. top <= o + delta
            BY <1>1, <1>6, <3>1
        <3>5. QED
            BY <3>1, <3>2, <3>3, <3>4
    <2>2. ASSUME NEW l \in 1 .. n
          PROVE  Past(w2[c[l]]) <= IF l = 1 THEN Capacity ELSE w2[c[l - 1]].offset
        <3> DEFINE t == Past(w[c[l]])
                   t2 == Past(w2[c[l]])
        <3>1. t \in Nat /\ t2 = IF k <= l THEN t + delta ELSE t
            <4>1. /\ w2[c[l]].size = w[c[l]].size
                  /\ w2[c[l]].offset = IF k <= l THEN w[c[l]].offset + delta ELSE w[c[l]].offset
                BY <1>12
            <4>2. t2 = w2[c[l]].offset + AlignUp(w2[c[l]].size)
                BY DEF Past
            <4>3. /\ w[c[l]].offset \in Nat /\ AlignUp(w[c[l]].size) \in Nat
                  /\ t = w[c[l]].offset + AlignUp(w[c[l]].size) /\ t \in Nat
                BY <1>11
            <4> DEFINE a == AlignUp(w[c[l]].size)
                       o == w[c[l]].offset
                       o2 == w2[c[l]].offset
            <4>4. t2 = o2 + a /\ o2 = (IF k <= l THEN o + delta ELSE o) /\ t = o + a
                      /\ o \in Nat /\ a \in Nat
                BY <4>1, <4>2, <4>3
            <4>4a. t \in Nat
                BY <4>3
            <4> HIDE DEF a, o, t2, t, o2
            <4>5. k <= l => t2 = t + delta
                BY <1>6, <4>4
            <4>6. ~ (k <= l) => t2 = t
                BY <4>4
            <4>7. QED
                BY <4>4a, <4>5, <4>6
        <3>2. t <= IF l = 1 THEN Capacity ELSE w[c[l - 1]].offset
            BY <1>1 DEF LaidOut
        <3> HIDE DEF t, t2
        <3>3. CASE l = 1
            <4>1. k <= l => k = l
                <5>1. k \in Nat /\ k >= 1
                    BY <1>2
                <5>2. QED
                    BY <3>3, <5>1
            <4>2. k = l => t + delta = Capacity
                <5>1. k = l => i = 0
                    BY <1>2, <3>3
                <5>2. k = l => t + delta = Above(w, c, 0)
                    BY <1>2, <1>7, <5>1 DEF t, w
                <5>3. QED
                    BY <5>2 DEF Above
            <4>3. t2 <= Capacity
                BY <3>1, <3>2, <3>3, <4>1, <4>2, SizeFacts
            <4>4. QED
                BY <3>3, <4>3 DEF t2
        <3>4. CASE l # 1
            <4>1. l - 1 \in 1 .. n
                BY <1>1, <3>4
            <4> DEFINE o == w[c[l - 1]].offset
                       o2 == w2[c[l - 1]].offset
            <4>2. o \in Nat
                BY <1>11, <4>1
            <4>3. o2 = IF k <= l - 1 THEN o + delta ELSE o
                BY <1>12, <4>1
            <4>4. t <= o
                BY <3>2, <3>4
            <4>5. k = l => t + delta = o
                <5>1. k = l => i = l - 1 /\ i # 0
                    BY <1>2, <3>4
                <5>2. k = l => t + delta = Above(w, c, i)
                    BY <1>2, <1>7 DEF t, w
                <5>3. QED
                    BY <5>1, <5>2 DEF Above
            <4> HIDE DEF o, o2
            <4>6. k <= l <=> (k = l \/ k <= l - 1)
                BY <1>1, <1>2
            <4>7. t2 <= o2
                <5>1. k <= l - 1 => t2 = t + delta /\ o2 = o + delta
                    BY <3>1, <4>3, <4>6
                <5>2. k = l => t2 = t + delta /\ o2 = o
                    <6>1. k = l => ~ (k <= l - 1)
                        BY <1>1
                    <6>2. QED
                        BY <3>1, <4>3, <4>6, <6>1
                <5>3. k # l /\ ~ (k <= l - 1) => t2 = t /\ o2 = o
                    BY <3>1, <4>3, <4>6
                <5>4. QED
                    BY <1>6, <3>1, <4>2, <4>4, <4>5, <5>1, <5>2, <5>3
            <4>8. QED
                BY <3>4, <4>7 DEF o2, t2
        <3>5. QED
            BY <3>3, <3>4
    <2>3. QED
        BY <1>1, <2>1, <2>2 DEF LaidOut
<1>18. HeapOK(hq, C) /\ Chain(hq) = c
    <2>1. Weights(w2, c, C) = Weights(w, c, C)
        <3>1. \A l \in DOMAIN c : w2[c[l]].size = w[c[l]].size
            BY <1>1, <1>12
        <3>2. QED
            BY <3>1 DEF Weights
    <2>2. InUse(w2) = InUse(w)
        BY <1>13 DEF InUse
    <2>3. hq.reserved = Total(Weights(w2, c, C)) /\ hq.live = Cardinality(InUse(w2) \ C)
        BY <1>9, <2>1, <2>2 DEF HeapOK, w
    <2>4. QED
        BY <1>9, <1>14, <1>15, <1>16, <1>17, <2>3, HeapFrom DEF w2
<1>19. Moved(w, w2)
    BY <1>10, <1>13 DEF Moved
<1>20. QED
    BY <1>6, <1>9, <1>12, <1>16, <1>18, <1>19 DEF w, w2, k, n, top

-----------------------------------------------------------------------------
(***************************************************************************)
(* An evacuation with its bytes, a change of a count, and the first heap.  *)
(***************************************************************************)
\* So is the heap after an evacuation, in which the tail has changed its place in
\* the chain.
THEOREM EvacuatedMoves ==
    ASSUME NEW hp, NEW C, HeapOK(hp, C), NEW c, c = Chain(hp), NEW i \in 0 .. Len(c) - 1,
           NEW t, t = c[Len(c)], Span(hp, c, i) >= ReservedSize(hp, t),
           NEW hq, hq = Evacuated(hp, c, i)
    PROVE  /\ HeapOK(hq, C) /\ MetadataTop(hq) = MetadataTop(hp)
           /\ Chain(hq) = Inserted(Deleted(c, Len(c)), i, t)
           /\ Moved(View(hp), View(hq)) /\ SameBytes(hp, hq) /\ t \in Handles
           /\ \A g \in Handles : g # t => View(hq)[g].offset = View(hp)[g].offset
           /\ Past(View(hp)[t]) <= View(hq)[t].offset
<1> DEFINE w == View(hp)
           w2 == View(hq)
           n == Len(c)
           to == High(hp, c, i) - ReservedSize(hp, t)
           from == w[t].offset
           sz == w[t].size
           a == AlignUp(w[t].size)
           m == Carried(hp.mem, from, to, sz)
<1>1. /\ HeapRec(hp) /\ w \in [Handles -> Slot] /\ IsChain(w, hp.root, c)
      /\ SlotsSound(w) /\ n \in Nat /\ DOMAIN c = 1 .. n
      /\ LaidOut(w, MetadataTop(hp), c) /\ MetadataTop(hp) \in Nat /\ MetadataTop(hp) <= Capacity
      /\ MetadataTop(hp) % HeapAlignment = 0
    BY HeapGives
<1>2. n \in 1 .. n /\ i \in 0 .. n
    BY <1>1
<1>3. /\ t \in Handles /\ w[t].state # "free" /\ w[t] \in Slot /\ from \in Nat
             /\ sz \in Nat /\ a \in Nat
      /\ sz <= a /\ Past(w[t]) = from + a /\ sz >= 1
    <2>1. n \in 1 .. Len(c)
        BY <1>2
    <2> HIDE DEF w
    <2>2. /\ t \in Handles /\ w[t].state # "free" /\ w[t] \in Slot /\ w[t].size >= 1
        BY <1>1, <2>1, ChainParts
    <2>3. from \in Nat /\ sz \in Nat /\ a \in Nat /\ sz <= a /\ Past(w[t]) = from + a
        BY <2>2, SlotParts
    <2>4. QED
        BY <2>2, <2>3
<1>4. Base(hp, t) = from /\ Size(hp, t) = sz /\ ReservedSize(hp, t) = a
    BY <1>1, <1>3, Reads
<1>5. hq = [Relinked(WithBase(hp, t, to), c, i) EXCEPT !.mem = m]
    <2>1. hq = [Relinked(WithBase(hp, t, to), c, i) EXCEPT !.mem
              = Carried(@, Base(hp, t), to, Size(hp, t))]
        BY DEF Evacuated
    <2>2. Relinked(WithBase(hp, t, to), c, i).mem = hp.mem
        BY DEF Relinked, WithBase, WithNext
    <2>3. QED
        BY <1>4, <2>1, <2>2
<1> DEFINE ab == Above(w, c, i)
           un == Under(w, MetadataTop(hp), c, i)
<1>6. High(hp, c, i) = ab /\ Span(hp, c, i) = ab - un
    <2> HIDE DEF n
    <2>1. i \in 0 .. Len(c)
        BY <1>2 DEF n
    <2>2. QED
        BY <1>1, <2>1, SpanReads
<1>7. ab \in Nat /\ un \in Nat /\ ab <= Capacity /\ Past(w[t]) <= un
    <2> HIDE DEF w
    <2>1. i \in 0 .. Len(c) /\ n = Len(c)
        BY <1>2
    <2>2. ab \in Nat /\ un \in Nat /\ ab <= Capacity
        BY <1>1, <2>1, Extents
    <2>3. Past(w[t]) <= un
        BY <1>1, TailBelow
    <2>4. QED
        BY <2>2, <2>3
<1>8. /\ to = ab - a /\ to \in Nat /\ from + sz <= Capacity /\ to + sz <= Capacity
             /\ from + sz <= to
      /\ ab - un >= a
    <2>1. to = ab - a /\ ab - un >= a
        BY <1>4, <1>6
    <2> DEFINE tt == Past(w[t])
    <2>2. tt <= un /\ tt = from + a
        BY <1>3, <1>7
    <2>3. /\ ab \in Nat /\ un \in Nat /\ ab <= Capacity /\ from \in Nat /\ sz \in Nat /\ a \in Nat
          /\ sz <= a /\ Capacity \in Nat
        BY <1>3, <1>7, SizeFacts
    <2> HIDE DEF ab, un, to, from, a, sz, tt
    <2>4. to \in Nat /\ from + sz <= to
        BY <2>1, <2>2, <2>3
    <2>5. from + sz <= Capacity /\ to + sz <= Capacity
        BY <2>1, <2>2, <2>3
    <2>6. QED
        BY <2>1, <2>4, <2>5
<1> HIDE DEF w, w2, to, from, sz, a, ab, un, m
<1>9. Carries(hp.mem, m, from, to, sz)
    <2> DEFINE rm == hp.mem
    <2>1. rm \in [Bytes -> Values \cup {Junk}]
        BY <1>1 DEF HeapRec, Heap
    <2>2. m = Carried(rm, from, to, sz)
        BY DEF m
    <2> HIDE DEF rm
    <2>3. Carries(rm, m, from, to, sz)
        BY <1>3, <1>8, <2>1, <2>2, CarriedIs
    <2>4. QED
        BY <2>3 DEF rm
<1>10. m \in [Bytes -> Values \cup {Junk}]
    BY <1>9 DEF Carries
<1>11. /\ HeapOK(hq, C) /\ hq.mem = m /\ MetadataTop(hq) = MetadataTop(hp)
       /\ Chain(hq) = Inserted(Deleted(c, n), i, t)
       /\ Moved(w, w2)
       /\ \A g \in Handles : w2[g].offset = IF g = t THEN to ELSE w[g].offset
       /\ Past(w[t]) <= to
       /\ \A g \in Handles : (w[g].state # "free" /\ g # t) =>
             Past(w[g]) <= to \/ to + AlignUp(w[t].size) <= w[g].offset
    <2>1. i \in 0 .. Len(Chain(hp)) - 1 /\ t = Chain(hp)[Len(Chain(hp))]
          /\ Span(hp, Chain(hp), i) >= ReservedSize(hp, t)
          /\ to = High(hp, Chain(hp), i) - ReservedSize(hp, t)
          /\ hq = [Relinked(WithBase(hp, t, to), Chain(hp), i) EXCEPT !.mem = m]
        BY <1>5 DEF to
    <2>2. QED
        BY <1>10, <2>1, EvacuatedIs DEF w, w2, n
<1>12. ASSUME NEW g \in Handles, w[g].state # "free", NEW b \in 0 .. w[g].size - 1
       PROVE  m[w2[g].offset + b] = hp.mem[w[g].offset + b]
    <2>1. CASE g = t
        <3>1. b \in 0 .. sz - 1
            BY <2>1 DEF sz
        <3>2. m[to + b] = hp.mem[from + b]
            BY <1>9, <3>1 DEF Carries
        <3>3. QED
            BY <1>3, <1>11, <2>1, <3>2 DEF from
    <2>2. CASE g # t
        <3> DEFINE o == w[g].offset
                   x == o + b
                   s == w[g].size
                   tg == Past(w[g])
        <3>1. PICK l \in 1 .. n : c[l] = g
            BY <1>1, <1>12 DEF IsChain
        <3>2. w[g] \in Slot /\ o \in Nat /\ s \in Nat /\ AlignUp(s) \in Nat
                  /\ s <= AlignUp(s) /\ tg = o + AlignUp(s)
              /\ o < Capacity
            BY <1>1, SlotParts
        <3>3. l # n
            BY <2>2, <3>1
        <3>4. from + a <= o
            <4> HIDE DEF o, s, tg, x
            <4>1. l < n /\ l \in 1 .. Len(c) /\ n \in 1 .. Len(c)
                <5>1. l \in 1 .. n
                    OBVIOUS
                <5> HIDE DEF n
                <5>2. l < n
                    BY <1>1, <3>3, <5>1
                <5>3. QED
                    BY <1>2, <5>1, <5>2 DEF n
            <4>2. Past(w[c[n]]) <= w[c[l]].offset
                BY <1>1, <4>1, Apart
            <4>3. QED
                BY <1>3, <3>1, <4>2 DEF o
        <3>5. b \in 0 .. s - 1
            OBVIOUS
        <3>6. w2[g].offset = o
            BY <1>11, <2>2
        <3>7. tg <= to \/ to + a <= o
            BY <1>11, <1>12, <2>2 DEF a
        <3>8. o + s <= Capacity
            <4>1. l \in 1 .. Len(c)
                OBVIOUS
            <4> HIDE DEF o, s, tg, x
            <4>2. tg <= Capacity
                <5>1. l = 1 => tg <= Capacity
                    BY <1>1, <3>1 DEF LaidOut, tg
                <5>2. l # 1 => 1 \in 1 .. Len(c) /\ 1 < l
                    BY <1>1, <4>1
                <5>3. l # 1 => tg <= w[c[1]].offset
                    BY <1>1, <3>1, <4>1, <5>2, Apart DEF tg
                <5>4. l # 1 => c[1] \in Handles /\ w[c[1]] \in Slot
                    BY <1>1, <5>2, ChainParts
                <5>5. l # 1 => w[c[1]].offset \in Nat /\ w[c[1]].offset <= Capacity
                    BY <5>4, SlotParts, SizeFacts
                <5>6. tg \in Nat
                    BY <3>2
                <5>7. QED
                    BY <5>1, <5>3, <5>5, <5>6, SizeFacts
            <4>3. QED
                BY <3>2, <4>2, SizeFacts
        <3> HIDE DEF o, s, tg
        <3>9. /\ x \in Bytes
              /\ (x < from \/ from + sz <= x) /\ (x < to \/ to + sz <= x)
            <4>1. x \in Nat /\ x < o + s /\ o <= x
                BY <3>2, <3>5
            <4> HIDE DEF x
            <4>2. x \in Bytes
                BY <3>2, <3>8, <4>1, SizeFacts DEF Bytes
            <4>3. from + sz <= x
                BY <1>3, <3>2, <3>4, <4>1
            <4>4. x < to \/ to + sz <= x
                <5>0. to \in Nat /\ sz \in Nat /\ a \in Nat /\ sz <= a /\ o \in Nat
                          /\ s \in Nat /\ tg \in Nat /\ o + s <= tg
                    <6>1. to \in Nat /\ sz \in Nat /\ a \in Nat /\ sz <= a
                        BY <1>3, <1>8
                    <6>2. o \in Nat /\ s \in Nat /\ AlignUp(s) \in Nat /\ s <= AlignUp(s)
                              /\ tg = o + AlignUp(s)
                        BY <3>2
                    <6>3. tg \in Nat /\ o + s <= tg
                        BY <6>2
                    <6>4. QED
                        BY <6>1, <6>2, <6>3
                <5>1. tg <= to => x < to
                    BY <4>1, <5>0
                <5>2. to + a <= o => to + sz <= x
                    BY <4>1, <5>0
                <5>3. QED
                    BY <3>7, <5>1, <5>2
            <4>5. QED
                BY <4>2, <4>3, <4>4
        <3> HIDE DEF x
        <3>10. m[x] = hp.mem[x]
            BY <1>9, <3>9 DEF Carries
        <3>11. QED
            BY <3>6, <3>10 DEF x, o
    <2>3. QED
        BY <2>1, <2>2
<1>13. SameBytes(hp, hq)
    BY <1>11, <1>12 DEF SameBytes, w, w2
<1>14. QED
    BY <1>3, <1>11, <1>13 DEF w, w2, n

\* A slot whose count or state changes: the heap's shape does not depend on it.
LEMMA TouchedIs ==
    ASSUME NEW hp, NEW C, HeapOK(hp, C), NEW h \in Handles, NEW u, u = View(hp)[h],
               u.state # "free",
           NEW s \in Slot, s.state # "free", s.refs # 0 <=> s.state = "live",
           s.offset = u.offset, s.size = u.size, s.next = u.next,
           NEW hq, hq = WithSlot(hp, h, s)
    PROVE  /\ HeapOK(hq, C) /\ Chain(hq) = Chain(hp) /\ hq.mem = hp.mem
           /\ View(hq) = [View(hp) EXCEPT ![h] = s]
<1> DEFINE w == View(hp)
           w2 == View(hq)
           c == Chain(hp)
<1>1. /\ HeapRec(hp) /\ NoneEmpty(hp.tables) /\ w \in [Handles -> Slot] /\ IsChain(w, hp.root, c)
      /\ SlotsSound(w) /\ LaidOut(w, MetadataTop(hp), c)
    BY HeapGives
<1>2. Present(hp.tables, h)
    BY <1>1, Reads
<1>3. SameBut(hp, hq) /\ w2 = [w EXCEPT ![h] = s] /\ NoneEmpty(hq.tables)
    BY <1>1, <1>2, WithSlotIs
<1> HIDE DEF w, w2, c
<1>4. /\ HeapRec(hq) /\ MetadataTop(hq) = MetadataTop(hp) /\ hq.root = hp.root
      /\ hq.reserved = hp.reserved /\ hq.live = hp.live /\ hq.mem = hp.mem
    BY <1>3 DEF SameBut, MetadataTop, HeapRec
<1>5. ASSUME NEW g \in Handles
      PROVE  /\ w2[g].state = "free" <=> w[g].state = "free"
             /\ w2[g].offset = w[g].offset /\ w2[g].size = w[g].size /\ w2[g].next = w[g].next
    <2>1. CASE g = h
        BY <1>1, <1>3, <2>1 DEF w
    <2>2. CASE g # h
        BY <1>1, <1>3, <2>2
    <2>3. QED
        BY <2>1, <2>2
<1>6. IsChain(w2, hq.root, c)
    <2>1. /\ c \in Seq(Handles)
          /\ \A i, j \in DOMAIN c : c[i] = c[j] => i = j
          /\ \A i \in DOMAIN c : w[c[i]].state # "free"
          /\ \A g \in Handles : w[g].state # "free" => \E i \in DOMAIN c : c[i] = g
          /\ hq.root = IF Len(c) = 0 THEN Null ELSE c[1]
          /\ \A i \in DOMAIN c : w[c[i]].next = IF i = Len(c) THEN Null ELSE c[i + 1]
        BY <1>1, <1>4 DEF IsChain
    <2>2. \A i \in DOMAIN c : c[i] \in Handles
        BY <2>1
    <2>3. \A i \in DOMAIN c : w2[c[i]].state # "free"
        BY <1>5, <2>1, <2>2
    <2>4. \A g \in Handles : w2[g].state # "free" => \E i \in DOMAIN c : c[i] = g
        BY <1>5, <2>1
    <2>5. \A i \in DOMAIN c : w2[c[i]].next = IF i = Len(c) THEN Null ELSE c[i + 1]
        BY <1>5, <2>1, <2>2
    <2>6. QED
        BY <2>1, <2>3, <2>4, <2>5 DEF IsChain
<1>7. \A i \in DOMAIN c : c[i] \in Handles
    BY <1>1 DEF IsChain
<1>8. SlotsSound(w2)
    <2>1. \A g \in Handles : g # h => w2[g] = w[g]
        BY <1>3
    <2>2. w2[h] = s
        BY <1>1, <1>3
    <2>3. s.size >= 1
        BY <1>1 DEF SlotsSound, w
    <2>4. QED
        BY <1>1, <2>1, <2>2, <2>3 DEF SlotsSound
<1>9. LaidOut(w2, MetadataTop(hq), c)
    <2>1. \A i \in DOMAIN c : /\ w2[c[i]].offset = w[c[i]].offset
                              /\ Past(w2[c[i]]) = Past(w[c[i]])
        BY <1>5, <1>7 DEF Past
    <2>2. \A i \in DOMAIN c : i # 1 => i - 1 \in DOMAIN c
        <3>1. DOMAIN c = 1 .. Len(c) /\ Len(c) \in Nat
            BY HeapGives DEF c
        <3>2. QED
            BY <3>1
    <2>3. QED
        BY <1>1, <1>4, <2>1, <2>2 DEF LaidOut
<1>10. Weights(w2, c, C) = Weights(w, c, C) /\ InUse(w2) = InUse(w)
    BY <1>5, <1>7 DEF Weights, InUse
<1>11. hq.reserved = Total(Weights(w2, c, C)) /\ hq.live = Cardinality(InUse(w2) \ C)
    BY <1>4, <1>10 DEF HeapOK, w, c
<1>12. HeapOK(hq, C) /\ Chain(hq) = c
    BY <1>3, <1>4, <1>6, <1>8, <1>9, <1>11, HeapFrom DEF w2
<1>13. QED
    BY <1>3, <1>4, <1>12 DEF w, w2, c

\* The heap a program starts with.
LEMMA FreshHeapIs ==
    HeapOK(FreshHeap, {}) /\ View(FreshHeap) = [h \in Handles |-> FreeSlot]
<1> DEFINE hp == FreshHeap
           c == << >>
           w == View(hp)
<1>1. /\ hp.tables = <<EmptyTable(0)>> /\ hp.root = Null /\ hp.reserved = 0 /\ hp.live = 0
      /\ hp.mem = [b \in Bytes |-> Junk]
    BY DEF FreshHeap
<1>2. /\ EmptyTable(0) \in Table /\ EmptyTable(0).id = 0
      /\ \A e \in Entries : EmptyTable(0).slot[e] = FreeSlot
    BY EmptyTableIs
<1>3. 0 \in Ids /\ MaxTables \in Nat \ {0}
    BY SizeFacts DEF Ids
<1>4. TablesSound(hp.tables) /\ NoneEmpty(hp.tables)
    <2> HIDE DEF hp
    <2>1. Len(hp.tables) = 1 /\ DOMAIN hp.tables = {1} /\ hp.tables[1] = EmptyTable(0)
              /\ hp.tables \in Seq(Table)
        BY <1>1, <1>2
    <2>2. QED
        BY <1>2, <1>3, <2>1 DEF TablesSound, NoneEmpty
<1>5. HeapRec(hp)
    <2>1. hp \in Heap
        <3>1. <<EmptyTable(0)>> \in Seq(Table)
            BY <1>2
        <3>2. QED
            BY <3>1 DEF Heap, FreshHeap
    <2>2. QED
        BY <1>4, <2>1 DEF HeapRec
<1>6. w = [h \in Handles |-> FreeSlot]
    <2>1. \A h \in Handles : w[h] = FreeSlot
        <3> SUFFICES ASSUME NEW h \in Handles PROVE w[h] = FreeSlot
            OBVIOUS
        <3>1. CASE Present(hp.tables, h)
            <4> HIDE DEF hp
            <4>1. PICK i \in DOMAIN hp.tables : View(hp)[h] = hp.tables[i].slot[Entry(h)]
                      /\ Entry(h) \in Entries
                BY <1>4, <3>1, PresentAt
            <4>2. hp.tables[i] = EmptyTable(0)
                BY <1>1
            <4>3. QED
                BY <1>2, <4>1, <4>2
        <3>2. CASE ~ Present(hp.tables, h)
            <4> HIDE DEF hp
            <4>1. QED
                BY <3>2 DEF View
        <3>3. QED
            BY <3>1, <3>2
    <2>2. w \in [Handles -> Slot]
        BY <1>4, ViewIs
    <2> HIDE DEF w, hp
    <2>3. QED
        BY <2>1, <2>2
<1>7. \A h \in Handles : w[h].state = "free"
    BY <1>6, FreeSlotTyped
<1> HIDE DEF w, hp
<1>8. IsChain(w, hp.root, c) /\ LaidOut(w, MetadataTop(hp), c) /\ SlotsSound(w)
    <2>1. c \in Seq(Handles) /\ DOMAIN c = {} /\ Len(c) = 0
        OBVIOUS
    <2> HIDE DEF c
    <2>2. QED
        BY <1>1, <1>7, <2>1 DEF IsChain, LaidOut, SlotsSound
<1>9. Total(Weights(w, c, {})) = 0
    <2>1. Weights(w, c, {}) = << >>
        BY DEF Weights
    <2>2. Sums([i \in 0 .. 0 |-> 0], << >>)
        <3>1. Len(<< >>) = 0 /\ 1 .. 0 = {}
            OBVIOUS
        <3>2. QED
            BY <3>1 DEF Sums
    <2>3. << >> \in Seq(Int)
        OBVIOUS
    <2>4. Total(<< >>) = [i \in 0 .. 0 |-> 0][0]
        BY <2>2, <2>3, TotalIs
    <2>5. QED
        BY <2>1, <2>4
<1>10. Cardinality(InUse(w) \ {}) = 0
    <2>1. InUse(w) \ {} = {}
        BY <1>7 DEF InUse
    <2>2. QED
        BY <2>1, FS_EmptySet
<1>11. hp.reserved = Total(Weights(w, c, {})) /\ hp.live = Cardinality(InUse(w) \ {})
    BY <1>1, <1>9, <1>10
<1>12. HeapOK(hp, {})
    <2> HIDE DEF c
    <2>1. QED
        BY <1>4, <1>5, <1>8, <1>11, HeapFrom DEF w
<1>13. QED
    BY <1>6, <1>12 DEF w, hp

-----------------------------------------------------------------------------
(***************************************************************************)
(* What a move is for: objects rise, the bottom span grows, and the bytes  *)
(* moved are those it is charged for.                                      *)
(***************************************************************************)
\* A total of zeros but for the last number.
LEMMA TotalOfLast ==
    ASSUME NEW s \in Seq(Int), Len(s) >= 1, \A k \in 1 .. Len(s) - 1 : s[k] = 0
    PROVE  Total(s) = s[Len(s)]
<1> DEFINE n == Len(s)
           f == [k \in 0 .. n |-> IF k = n THEN s[n] ELSE 0]
<1>1. n \in Nat \ {0} /\ n \in 1 .. n /\ s[n] \in Int
    OBVIOUS
<1>2. \A k \in 1 .. n - 1 : s[k] = 0
    OBVIOUS
<1> HIDE DEF n
<1>3. f \in [0 .. n -> Int] /\ f[0] = 0 /\ f[n] = s[n]
    BY <1>1
<1>4. ASSUME NEW k \in 1 .. n PROVE f[k] = f[k - 1] + s[k]
    <2>1. k - 1 \in 0 .. n /\ k \in 0 .. n /\ k - 1 # n
        BY <1>1
    <2>2. CASE k = n
        BY <1>1, <2>1, <2>2
    <2>3. CASE k # n
        <3>1. k \in 1 .. n - 1
            BY <1>1, <2>3
        <3>2. QED
            BY <1>2, <2>1, <2>3, <3>1
    <2>4. QED
        BY <2>2, <2>3
<1> HIDE DEF f
<1>5. Sums(f, s)
    BY <1>3, <1>4 DEF Sums, n
<1>6. QED
    BY <1>3, <1>5, TotalIs DEF n

\* bottom_free_span in terms of the view.
LEMMA BottomIs ==
    ASSUME NEW hp, NEW C, HeapOK(hp, C)
    PROVE  BottomFreeSpan(hp) = Above(View(hp), Chain(hp), Len(Chain(hp))) - MetadataTop(hp)
<1> DEFINE c == Chain(hp)
           n == Len(c)
<1>1. /\ HeapRec(hp) /\ IsChain(View(hp), hp.root, c) /\ SlotsSound(View(hp)) /\ n \in Nat
    BY HeapGives
<1>2. n \in 0 .. Len(c)
    BY <1>1
<1>3. BottomFreeSpan(hp) = Span(hp, c, n)
    BY DEF BottomFreeSpan
<1> HIDE DEF c, n
<1>4. Span(hp, c, n) = Above(View(hp), c, n) - Under(View(hp), MetadataTop(hp), c, n)
    BY <1>1, <1>2, SpanReads
<1>5. Under(View(hp), MetadataTop(hp), c, n) = MetadataTop(hp)
    BY DEF Under, n
<1>6. QED
    BY <1>3, <1>4, <1>5 DEF c, n

\* The fields of an object in use.
LEMMA InUseAre ==
    ASSUME NEW hp, NEW C, HeapOK(hp, C), NEW h \in Handles, View(hp)[h].state # "free"
    PROVE  /\ View(hp)[h] \in Slot /\ View(hp)[h].offset \in Nat /\ View(hp)[h].size \in Nat
           /\ Past(View(hp)[h]) \in Nat /\ View(hp)[h].offset < Past(View(hp)[h])
<1> DEFINE w == View(hp)
           s == w[h]
<1>1. w \in [Handles -> Slot] /\ SlotsSound(w)
    BY HeapGives
<1> HIDE DEF w
<1>2. w[h] \in Slot /\ w[h].size >= 1
    BY <1>1 DEF SlotsSound, w
<1>3. s \in Slot /\ s.size >= 1
    BY <1>2
<1> HIDE DEF s
<1>4. s.offset \in Nat /\ s.size \in Nat /\ Past(s) \in Nat /\ s.offset < Past(s)
    BY <1>3, SlotParts
<1>5. QED
    BY <1>3, <1>4 DEF s, w

\* A heap in which no object was lowered and the bottom span has grown.
Raises(hp, hq) ==
    /\ \A h \in Handles : View(hp)[h].state # "free" => View(hq)[h].offset >= View(hp)[h].offset
    /\ BottomFreeSpan(hq) > BottomFreeSpan(hp)

\* The bytes of the objects whose base differs.
BytesMoved(hp, hq) ==
    LET c == Chain(hp)
        moved == {i \in DOMAIN c : Base(hq, c[i]) # Base(hp, c[i])}
    IN  Total([i \in DOMAIN c |-> IF i \in moved THEN Size(hp, c[i]) ELSE 0])

\* An evacuation raises the tail by at least what it reserves, and moves as many
\* bytes as it is charged for.
LEMMA EvacuationRaises ==
    ASSUME NEW hp, NEW C, HeapOK(hp, C), NEW c, c = Chain(hp), NEW i \in 0 .. Len(c) - 1,
           NEW t, t = c[Len(c)], Span(hp, c, i) >= ReservedSize(hp, t),
           NEW hq, hq = Evacuated(hp, c, i)
    PROVE  Raises(hp, hq) /\ BytesMoved(hp, hq) = Size(hp, t)
<1> DEFINE w == View(hp)
           w2 == View(hq)
           n == Len(c)
           c2 == Chain(hq)
           top == MetadataTop(hp)
<1>1. /\ HeapOK(hq, C) /\ MetadataTop(hq) = top
      /\ c2 = Inserted(Deleted(c, n), i, t)
      /\ Moved(w, w2) /\ t \in Handles
      /\ \A g \in Handles : g # t => w2[g].offset = w[g].offset
      /\ Past(w[t]) <= w2[t].offset
    BY EvacuatedMoves
<1>2. /\ HeapRec(hp) /\ w \in [Handles -> Slot] /\ IsChain(w, hp.root, c)
      /\ SlotsSound(w) /\ n \in Nat /\ DOMAIN c = 1 .. n /\ LaidOut(w, top, c) /\ top \in Nat
    BY HeapGives
<1>2a. HeapRec(hq) /\ w2 \in [Handles -> Slot]
    BY <1>1, HeapGives
<1>3. n \in 1 .. n /\ i \in 0 .. n - 1 /\ n - 1 \in Nat
    BY <1>2
<1>4. \A k \in 1 .. n : c[k] \in Handles /\ w[c[k]].state # "free"
    BY <1>2, SMTT(30) DEF IsChain
<1>5. \A k \in 1 .. n : k # n => c[k] # t
    BY <1>2, <1>3 DEF IsChain
<1>6. /\ w[t].state # "free" /\ w[t].offset \in Nat /\ Past(w[t]) \in Nat
             /\ w[t].offset < Past(w[t])
      /\ w[t].size \in Nat
    <2>1. w[t].state # "free"
        BY <1>3, <1>4
    <2>2. QED
        BY <1>1, <2>1, InUseAre
<1>7. w2[t].offset \in Nat
    <2>1. w2[t].state # "free"
        BY <1>1, <1>6 DEF Moved
    <2>2. QED
        BY <1>1, <2>1, InUseAre
<1>8. w2[t].offset > w[t].offset
    BY <1>1, <1>6, <1>7
<1>9. \A h \in Handles : w[h].state # "free" => w2[h].offset >= w[h].offset
    <2>1. SUFFICES ASSUME NEW h \in Handles, w[h].state # "free" PROVE w2[h].offset >= w[h].offset
        OBVIOUS
    <2>2. w[h].offset \in Nat
        BY <2>1, InUseAre
    <2>3. QED
        BY <1>1, <1>6, <1>7, <1>8, <2>2
<1>10. BottomFreeSpan(hp) = w[t].offset - top
    <2>1. Above(w, c, n) = w[t].offset
        BY <1>3 DEF Above
    <2>2. QED
        BY <2>1, BottomIs
<1> HIDE DEF w, w2, top
<1>11. /\ Len(c2) = n
       /\ c2[n] = IF i = n - 1 THEN t ELSE c[n - 1]
    <2> DEFINE d == Deleted(c, n)
               H == Handles
    <2>1. c \in Seq(H) /\ n \in 1 .. Len(c)
        BY <1>2, <1>3 DEF IsChain
    <2>2. c2 = Inserted(d, i, t)
        BY <1>1
    <2> HIDE DEF c2, H
    <2>3. /\ Deleted(c, n) \in Seq(H) /\ Len(Deleted(c, n)) = Len(c) - 1
          /\ \A j \in 1 .. Len(c) - 1 : Deleted(c, n)[j] = IF j < n THEN c[j] ELSE c[j + 1]
        <3> HIDE DEF n
        <3>1. QED
            BY <2>1, DeletedIs
    <2>4. d \in Seq(H) /\ Len(d) = n - 1 /\ \A j \in 1 .. n - 1 : d[j] = c[j]
        BY <1>3, <2>3
    <2>5. i \in 0 .. Len(d) /\ t \in H
        BY <1>1, <1>3, <2>4 DEF H
    <2> HIDE DEF d, n
    <2>6. /\ Len(c2) = Len(d) + 1
          /\ \A k \in 1 .. Len(d) + 1 : c2[k] = IF k <= i THEN d[k]
                 ELSE IF k = i + 1 THEN t ELSE d[k - 1]
        <3>1. d \in Seq(H)
            BY <2>4
        <3>2. /\ Len(Inserted(d, i, t)) = Len(d) + 1
              /\ \A k \in 1 .. Len(d) + 1 : Inserted(d, i, t)[k] =
                   IF k <= i THEN d[k] ELSE IF k = i + 1 THEN t ELSE d[k - 1]
            BY ONLY <2>5, <3>1, InsertedIs
        <3>3. QED
            BY <2>2, <3>2
    <2>7. Len(c2) = n /\ c2[n] = IF n <= i THEN d[n] ELSE IF n = i + 1 THEN t ELSE d[n - 1]
        BY <1>3, <2>4, <2>6
    <2>8. i # n - 1 => n - 1 \in 1 .. n - 1 /\ ~ (n <= i) /\ n # i + 1
        BY <1>3
    <2>9. i = n - 1 => ~ (n <= i) /\ n = i + 1
        BY <1>3
    <2>10. QED
        BY <2>4, <2>7, <2>8, <2>9
<1>12. Above(w2, c2, Len(c2)) = w2[c2[n]].offset
    BY <1>3, <1>11 DEF Above
<1>13. BottomFreeSpan(hq) = w2[c2[n]].offset - top
    <2>1. BottomFreeSpan(hq) = Above(w2, c2, Len(c2)) - top
        BY <1>1, BottomIs DEF w2
    <2>2. QED
        BY <1>12, <2>1
<1>14. w2[c2[n]].offset \in Nat /\ w2[c2[n]].offset > w[t].offset
    <2>1. CASE i = n - 1
        BY <1>7, <1>8, <1>11, <2>1
    <2>2. CASE i # n - 1
        <3> DEFINE u == c[n - 1]
        <3>1. n - 1 \in 1 .. n /\ n # 1 /\ n - 1 # n
            BY <1>3, <2>2
        <3>2. u \in Handles /\ w[u].state # "free" /\ u # t
            BY <1>4, <1>5, <3>1
        <3>3. Past(w[t]) <= w[u].offset
            BY <1>2, <1>3, <3>1 DEF LaidOut
        <3>4. w2[u].offset = w[u].offset
            BY <1>1, <3>2
        <3>5. w[u].offset \in Nat
            BY <3>2, InUseAre DEF w
        <3>6. c2[n] = u
            BY <1>11, <2>2
        <3> HIDE DEF u
        <3>7. QED
            BY <1>6, <3>3, <3>4, <3>5, <3>6
    <2>3. QED
        BY <2>1, <2>2
<1>15. BottomFreeSpan(hq) > BottomFreeSpan(hp)
    BY <1>2, <1>6, <1>10, <1>13, <1>14
<1>16. Raises(hp, hq)
    BY <1>9, <1>15 DEF Raises, w, w2
<1> DEFINE s == [k \in 1 .. n |-> IF Base(hq, c[k]) # Base(hp, c[k]) THEN Size(hp, c[k]) ELSE 0]
<1>17. BytesMoved(hp, hq) = Total(s)
    <2>1. [k \in DOMAIN c |-> IF k \in {j \in DOMAIN c : Base(hq, c[j]) # Base(hp, c[j])}
              THEN Size(hp, c[k]) ELSE 0] = s
        BY <1>2
    <2>2. QED
        BY <2>1 DEF BytesMoved
<1>18. ASSUME NEW k \in 1 .. n
       PROVE  /\ Base(hp, c[k]) = w[c[k]].offset /\ Base(hq, c[k]) = w2[c[k]].offset
              /\ Size(hp, c[k]) = w[c[k]].size /\ Size(hp, c[k]) \in Nat
    <2>1. c[k] \in Handles /\ w[c[k]].state # "free"
        BY <1>4
    <2>2. w2[c[k]].state # "free"
        BY <1>1, <2>1 DEF Moved
    <2>3. w[c[k]].size \in Nat
        BY <2>1, InUseAre DEF w
    <2>4. QED
        BY <1>2, <1>2a, <2>1, <2>2, <2>3, Reads DEF w, w2
<1>19. \A k \in 1 .. n - 1 : s[k] = 0
    <2>1. SUFFICES ASSUME NEW k \in 1 .. n - 1 PROVE s[k] = 0
        OBVIOUS
    <2>2. k \in 1 .. n /\ k # n
        BY <1>3
    <2>3. c[k] # t /\ c[k] \in Handles
        BY <1>4, <1>5, <2>2
    <2>4. Base(hq, c[k]) = Base(hp, c[k])
        BY <1>1, <1>18, <2>2, <2>3
    <2>5. QED
        BY <2>2, <2>4
<1>20. s[n] = Size(hp, t)
    <2>1. Base(hq, t) # Base(hp, t)
        BY <1>3, <1>6, <1>7, <1>8, <1>18
    <2>2. QED
        BY <1>3, <2>1
<1>21. s \in Seq(Int) /\ Len(s) = n
    <2>1. \A k \in 1 .. n : (IF Base(hq, c[k]) # Base(hp, c[k]) THEN Size(hp, c[k]) ELSE 0) \in Int
        BY <1>18
    <2>2. s \in [1 .. n -> Int]
        BY <2>1
    <2> HIDE DEF s, n
    <2>3. QED
        BY <1>2, <2>2
<1> HIDE DEF s, n
<1>22. Total(s) = s[n]
    <2>1. Len(s) >= 1 /\ \A k \in 1 .. Len(s) - 1 : s[k] = 0
        BY <1>3, <1>19, <1>21
    <2>2. Total(s) = s[Len(s)]
        BY <1>21, <2>1, TotalOfLast
    <2>3. QED
        BY <1>21, <2>2
<1>23. QED
    BY <1>16, <1>17, <1>20, <1>22

\* A shift raises every object it moves by the extent it closes, and moves as many
\* bytes as movement_cost_from_ says.
LEMMA ShiftRaises ==
    ASSUME NEW hp, NEW C, HeapOK(hp, C), NEW c, c = Chain(hp), NEW i \in 0 .. Len(c) - 1,
           Span(hp, c, i) # 0, NEW hq, hq = Shifted(hp, c, i)
    PROVE  Raises(hp, hq) /\ BytesMoved(hp, hq) = MovementCost(hp, c, i + 1)
<1> DEFINE w == View(hp)
           w2 == View(hq)
           n == Len(c)
           top == MetadataTop(hp)
           d == Span(hp, c, i)
<1>1. /\ HeapOK(hq, C) /\ MetadataTop(hq) = top /\ Chain(hq) = c
      /\ Moved(w, w2) /\ d \in Nat
      /\ \A l \in 1 .. n : w2[c[l]].offset = IF i + 1 <= l THEN w[c[l]].offset + d
             ELSE w[c[l]].offset
    BY ShiftedIs
<1>2. /\ HeapRec(hp) /\ w \in [Handles -> Slot] /\ IsChain(w, hp.root, c)
      /\ SlotsSound(w) /\ n \in Nat /\ DOMAIN c = 1 .. n /\ top \in Nat
    BY HeapGives
<1>2a. HeapRec(hq)
    BY <1>1, HeapGives
<1>3. n \in 1 .. n /\ i \in 0 .. n - 1 /\ d > 0
    BY <1>1, <1>2
<1>4. ASSUME NEW k \in 1 .. n
      PROVE  /\ c[k] \in Handles /\ w[c[k]].state # "free" /\ w[c[k]].offset \in Nat
                    /\ w[c[k]].size \in Nat
             /\ Base(hp, c[k]) = w[c[k]].offset /\ Base(hq, c[k]) = w2[c[k]].offset
             /\ Size(hp, c[k]) = w[c[k]].size
    <2>1. c[k] \in Handles /\ w[c[k]].state # "free"
        BY <1>2 DEF IsChain
    <2>2. w2[c[k]].state # "free"
        BY <1>1, <2>1 DEF Moved
    <2>3. w[c[k]].offset \in Nat /\ w[c[k]].size \in Nat
        BY <2>1, InUseAre
    <2>4. QED
        BY <1>2, <1>2a, <2>1, <2>2, <2>3, Reads
<1>5. \A h \in Handles : w[h].state # "free" => w2[h].offset >= w[h].offset
    <2>1. SUFFICES ASSUME NEW h \in Handles, w[h].state # "free" PROVE w2[h].offset >= w[h].offset
        OBVIOUS
    <2>2. PICK k \in 1 .. n : c[k] = h
        BY <1>2, <2>1 DEF IsChain
    <2>3. w[h].offset \in Nat
        BY <1>4, <2>2
    <2>4. QED
        BY <1>1, <1>3, <2>2, <2>3
<1>6. BottomFreeSpan(hp) = w[c[n]].offset - top
    <2>1. Above(w, c, n) = w[c[n]].offset
        BY <1>3 DEF Above
    <2>2. QED
        BY <2>1, BottomIs
<1>7. BottomFreeSpan(hq) = w2[c[n]].offset - top
    <2>1. Above(w2, c, n) = w2[c[n]].offset
        BY <1>3 DEF Above
    <2>2. BottomFreeSpan(hq) = Above(w2, Chain(hq), Len(Chain(hq))) - MetadataTop(hq)
        BY <1>1, BottomIs
    <2>3. QED
        BY <1>1, <2>1, <2>2
<1> HIDE DEF w, w2, top, d
<1>8. w2[c[n]].offset = w[c[n]].offset + d /\ w[c[n]].offset \in Nat
    <2>1. i + 1 <= n
        BY <1>2, <1>3
    <2>2. QED
        BY <1>1, <1>3, <1>4, <2>1
<1>9. Raises(hp, hq)
    <2>1. BottomFreeSpan(hq) > BottomFreeSpan(hp)
        BY <1>1, <1>2, <1>3, <1>6, <1>7, <1>8
    <2>2. QED
        BY <1>5, <2>1 DEF Raises, w, w2
<1>10. \A k \in 1 .. n : Base(hq, c[k]) # Base(hp, c[k]) <=> ~ (k < i + 1)
    <2>1. SUFFICES ASSUME NEW k \in 1 .. n PROVE Base(hq, c[k]) # Base(hp, c[k]) <=> ~ (k < i + 1)
        OBVIOUS
    <2>2. w2[c[k]].offset = (IF i + 1 <= k THEN w[c[k]].offset + d ELSE w[c[k]].offset)
              /\ w[c[k]].offset \in Nat
        BY <1>1, <1>4
    <2>3. w2[c[k]].offset # w[c[k]].offset <=> ~ (k < i + 1)
        BY <1>1, <1>2, <1>3, <2>2
    <2>4. QED
        BY <1>4, <2>3
<1>11. [k \in DOMAIN c |-> IF k \in {j \in DOMAIN c : Base(hq, c[j]) # Base(hp, c[j])}
           THEN Size(hp, c[k]) ELSE 0]
         = [k \in DOMAIN c |-> IF k < i + 1 THEN 0 ELSE Size(hp, c[k])]
    BY <1>2, <1>10
<1>12. BytesMoved(hp, hq) = MovementCost(hp, c, i + 1)
    BY <1>11 DEF BytesMoved, MovementCost
<1>13. QED
    BY <1>9, <1>12
=============================================================================
