---------------------------- MODULE ManagedHeap ----------------------------
(***************************************************************************)
(* A ManagedHeap and the program that uses it: managed_ptrs that share     *)
(* objects, scoped accesses that cache an object's address, object         *)
(* compaction, and the user code the heap calls back (constructors and     *)
(* destructors) which may use the heap again before the call that ran it   *)
(* has finished.  There is one thread; `frames' is its stack of unfinished *)
(* heap calls, and every step belongs to the top of it.                    *)
(*                                                                         *)
(* Each object has one managed_ptr member, named by the object's handle.   *)
(***************************************************************************)
EXTENDS HeapLayout

CONSTANTS
    Ptrs,              \* the managed_ptr variables of the program
    Sizes,             \* sizeof the types it makes
    Policies,          \* of compaction_policy, those it asks for
    Budgets,           \* the move_budget_bytes it asks for
    EvacuationAttempts,
    ShiftAttempts,
    MaxRefs,           \* the greatest RefCount; retain_ asserts it is not met
    MaxScopes,         \* bound: scoped accesses open at once
    MaxDepth,          \* bound: unfinished heap calls when user code runs
    ConstructorsUseHeap,  \* whether constructors call the heap
    DestructorsReassign   \* whether a destructor assigns to a managed_ptr whose
                          \* own assignment is what runs the destructor

ASSUME ProgramAssumption ==
    /\ IsFiniteSet(Ptrs) /\ Ptrs \cap (Handles \cup {Null}) = {}
    /\ Sizes \subseteq 1 .. Capacity /\ Budgets \subseteq Nat
    /\ EvacuationAttempts \in Nat /\ ShiftAttempts \in Nat
    /\ MaxRefs \in Nat \ {0} /\ MaxScopes \in Nat /\ MaxDepth \in Nat
    /\ Policies \subseteq {"evacuate", "shift", "hybrid"}
    /\ ConstructorsUseHeap \in BOOLEAN /\ DestructorsReassign \in BOOLEAN

VARIABLES
    heap,    \* the tables, the chain, the counters, the bytes
    ptr,     \* managed_ptr::handle_ of every variable and every member
    scopes,  \* the open scoped_accesses; active_scopes_ is their number
    frames   \* the unfinished make, release_ and compact calls

vars == <<heap, ptr, scopes, frames>>

Places == Ptrs \cup Handles

\* What a managed_ptr still has to do when its release_ returns.
Rest == [to : Places \cup {Null}, incoming : Handles \cup {Null},
         from : Places \cup {Null}]

Nothing == [to |-> Null, incoming |-> Null, from |-> Null]

\* release_ inside ~T(): first the destructor's body, then its members.
ReleaseFrame == [kind : {"body", "members"}, h : Handles, rest : Rest]
MakeFrame == [kind : {"constructor"}, h : Handles, to : Ptrs]
CompactFrame == [kind : {"evacuate", "shift"}, policy : Policies, left : Nat,
                 remaining : Nat, progress : BOOLEAN]

Scope == [h : Handles, ptr : Bytes, depth : Nat]

TypeOK ==
    /\ heap \in Heap
    /\ ptr \in [Places -> Handles \cup {Null}]
    /\ scopes \in Seq(Scope)
    /\ frames \in Seq(ReleaseFrame \cup MakeFrame \cup CompactFrame)

Init ==
    /\ heap = FreshHeap
    /\ ptr = [l \in Places |-> Null]
    /\ scopes = <<>>
    /\ frames = <<>>

-----------------------------------------------------------------------------
Top == frames[Len(frames)]
Below == SubSeq(frames, 1, Len(frames) - 1)
InFrame(kinds) == frames # <<>> /\ Top.kind \in kinds

\* destruction_depth_: the release_ calls inside a destructor.
DestructionDepth ==
    Cardinality({i \in DOMAIN frames : frames[i].kind \in {"body", "members"}})

\* The program itself runs, or a constructor or destructor body does.
UserCode ==
    /\ Len(frames) < MaxDepth
    /\ \/ frames = <<>>
       \/ InFrame({"body"})
       \/ InFrame({"constructor"}) /\ ConstructorsUseHeap

\* A member is reached through a scoped access, or from its own object.
Reachable(l) ==
    \/ l \in Ptrs
    \/ \E i \in DOMAIN scopes : scopes[i].h = l
    \/ InFrame({"body", "constructor"}) /\ Top.h = l

\* A variable under construction, and one in the middle of an assignment.
Busy(l) ==
    \E i \in DOMAIN frames :
        \/ frames[i].kind = "constructor" /\ frames[i].to = l
        \/ /\ frames[i].kind \in {"body", "members"} /\ frames[i].rest.to = l
           /\ ~ DestructorsReassign

Writable(l) == Reachable(l) /\ ~ Busy(l)

WithRefs(hp, h, n) == WithSlot(hp, h, [SlotOf(hp, h) EXCEPT !.refs = n])
Retainable(h) == h # Null => SlotOf(heap, h).refs < MaxRefs

Retained(hp, h) ==
    IF h = Null THEN hp ELSE WithRefs(hp, h, SlotOf(hp, h).refs + 1)

\* operator=(managed_ptr&&) without clearing its source.
FinishedBySharing(p, rest) ==
    IF rest.to = Null THEN p
    ELSE [p EXCEPT ![rest.to] = IF rest.from = Null THEN rest.incoming ELSE p[rest.from]]

\* The last assignments of operator=: the handle taken over, or moved over.
Finished(p, rest) ==
    IF rest.to = Null THEN p
    ELSE IF rest.from = Null THEN [p EXCEPT ![rest.to] = rest.incoming]
    ELSE [p EXCEPT ![rest.to] = p[rest.from], ![rest.from] = Null]

\* release_(h) from the stack fs, then the rest: at the last reference the
\* slot turns to destroying and the destructor's frame is pushed.
Release(hp, p, fs, h, rest) ==
    IF h # Null /\ SlotOf(hp, h).refs = 1
    THEN /\ heap' = WithSlot(hp, h, [SlotOf(hp, h) EXCEPT
                                        !.refs = 0, !.state = "destroying"])
         /\ ptr' = p
         /\ frames' = Append(fs, [kind |-> "body", h |-> h, rest |-> rest])
    ELSE /\ heap' = IF h = Null THEN hp ELSE WithRefs(hp, h, SlotOf(hp, h).refs - 1)
         /\ ptr' = Finished(p, rest)
         /\ frames' = fs

-----------------------------------------------------------------------------
(***************************************************************************)
(* managed_ptr.                                                            *)
(***************************************************************************)
CopyAssign(l, q) ==
    /\ UserCode /\ Writable(l) /\ Reachable(q) /\ l # q
    /\ Retainable(ptr[q])
    /\ Release(Retained(heap, ptr[q]), [ptr EXCEPT ![l] = Null], frames, ptr[l],
               [to |-> l, incoming |-> ptr[q], from |-> Null])
    /\ UNCHANGED scopes

\* The source is read only after the old object's destructor has run.
MoveAssign(l, q) ==
    /\ UserCode /\ Writable(l) /\ Writable(q) /\ l # q
    /\ Release(heap, [ptr EXCEPT ![l] = Null], frames, ptr[l],
               [to |-> l, incoming |-> Null, from |-> q])
    /\ UNCHANGED scopes

Reset(l) ==
    /\ UserCode /\ Writable(l) /\ ptr[l] # Null
    /\ Release(heap, [ptr EXCEPT ![l] = Null], frames, ptr[l], Nothing)
    /\ UNCHANGED scopes

(***************************************************************************)
(* scoped_access: opened by unwrap(), closed in the reverse order, by the  *)
(* user code that opened it.                                               *)
(***************************************************************************)
Unwrap(l) ==
    /\ UserCode /\ Reachable(l) /\ ptr[l] # Null
    /\ Len(scopes) < MaxScopes /\ Retainable(ptr[l])
    /\ heap' = Retained(heap, ptr[l])
    /\ scopes' = Append(scopes, [h |-> ptr[l], ptr |-> Base(heap, ptr[l]),
                                 depth |-> Len(frames)])
    /\ UNCHANGED <<ptr, frames>>

\* The address cached by unwrap() is written through, without a lookup.
WriteThrough(i, v) ==
    /\ UserCode
    /\ heap' = [heap EXCEPT !.mem =
                    Filled(@, scopes[i].ptr, Size(heap, scopes[i].h), v)]
    /\ UNCHANGED <<ptr, scopes, frames>>

InnermostScope == scopes[Len(scopes)]
ScopeOfThisFrame == scopes # <<>> /\ InnermostScope.depth = Len(frames)

Leave ==
    /\ UserCode /\ ScopeOfThisFrame
    /\ scopes' = SubSeq(scopes, 1, Len(scopes) - 1)
    /\ Release(heap, ptr, frames, InnermostScope.h, Nothing)

(***************************************************************************)
(* make<T>: the descriptor slot first, with a new table when all are full; *)
(* then the best fit, which gives the slot back when there is none.        *)
(***************************************************************************)
Make(p, n, v) ==
    LET roomy == WithRoom(heap)
        h == LowestFreeSlot(roomy)
        c == Chain(heap)
        i == BestFit(roomy, c, AlignUp(n))
        offset == PlacementOffset(roomy, c, i, AlignUp(n))
        slot == [state |-> "live", refs |-> 1, offset |-> offset, size |-> n,
                 next |-> Null]
    IN
    /\ UserCode /\ ptr[p] = Null /\ Writable(p)
    /\ CanReserveSlot(heap)
    /\ Fits(roomy, c, AlignUp(n)) # {}
    /\ heap' = [Spliced(WithSlot(roomy, h, slot), c, i, h) EXCEPT
                    !.mem = Filled(@, offset, n, v)]
    /\ frames' = Append(frames, [kind |-> "constructor", h |-> h, to |-> p])
    /\ UNCHANGED <<ptr, scopes>>

\* No extent fits: the slot is given back, and with it the table.
MakeFails(n) ==
    LET roomy == WithRoom(heap)
        h == LowestFreeSlot(roomy)
        taken == WithSlot(roomy, h, [FreeSlot EXCEPT !.state = "live", !.refs = 1])
    IN
    /\ UserCode
    /\ CanReserveSlot(heap)
    /\ Fits(roomy, Chain(heap), AlignUp(n)) = {}
    /\ heap' = SlotReleased(taken, h)
    /\ UNCHANGED <<ptr, scopes, frames>>

\* The constructor returns and the object is not counted.
ConstructorReturnsUncounted ==
    /\ InFrame({"constructor"}) /\ ~ ScopeOfThisFrame
    /\ heap' = [heap EXCEPT !.reserved = @ + ReservedSize(heap, Top.h)]
    /\ ptr' = [ptr EXCEPT ![Top.to] = Top.h]
    /\ frames' = Below
    /\ UNCHANGED scopes

\* The constructor returns; only now do the counters learn of the object.
ConstructorReturns ==
    /\ InFrame({"constructor"}) /\ ~ ScopeOfThisFrame
    /\ heap' = [heap EXCEPT !.reserved = @ + ReservedSize(heap, Top.h),
                            !.live = @ + 1]
    /\ ptr' = [ptr EXCEPT ![Top.to] = Top.h]
    /\ frames' = Below
    /\ UNCHANGED scopes

-----------------------------------------------------------------------------
(***************************************************************************)
(* The rest of release_, once the destructor has been called.              *)
(***************************************************************************)
\* The destructor's body ends and the object's managed_ptr member goes.
BodyEnds ==
    /\ InFrame({"body"}) /\ ~ ScopeOfThisFrame
    /\ Release(heap, [ptr EXCEPT ![Top.h] = Null],
               [frames EXCEPT ![Len(frames)].kind = "members"], ptr[Top.h], Nothing)
    /\ UNCHANGED scopes

\* The descriptor is looked up again: the destructor may have changed it.
ReleaseEnds ==
    LET h == Top.h
        unlinked == Unlinked(heap, h, SlotOf(heap, h).next)
    IN
    /\ InFrame({"members"})
    /\ heap' = [SlotReleased(unlinked, h) EXCEPT
                    !.reserved = @ - ReservedSize(heap, h),
                    !.live = @ - 1,
                    !.mem = Filled(@, Base(heap, h), Size(heap, h), Junk)]
    /\ ptr' = Finished(ptr, Top.rest)
    /\ frames' = Below
    /\ UNCHANGED scopes

-----------------------------------------------------------------------------
(***************************************************************************)
(* compact(): a bounded run of evacuations, of shifts, or of rounds of     *)
(* both.  It calls no user code.                                           *)
(***************************************************************************)
\* compact() without the test of active_scopes_.
CompactUnderScopes(policy, budget) ==
    /\ UserCode
    /\ DestructionDepth = 0
    /\ heap.root # Null /\ budget # 0
    /\ frames' = Append(frames,
                    [kind |-> IF policy = "shift" THEN "shift" ELSE "evacuate",
                     policy |-> policy, remaining |-> budget, progress |-> FALSE,
                     left |-> IF policy = "shift" THEN ShiftAttempts
                              ELSE EvacuationAttempts])
    /\ UNCHANGED <<heap, ptr, scopes>>

Compact(policy, budget) ==
    /\ UserCode
    /\ scopes = <<>>
    /\ DestructionDepth = 0
    /\ heap.root # Null /\ budget # 0
    /\ frames' = Append(frames,
                    [kind |-> IF policy = "shift" THEN "shift" ELSE "evacuate",
                     policy |-> policy, remaining |-> budget, progress |-> FALSE,
                     left |-> IF policy = "shift" THEN ShiftAttempts
                              ELSE EvacuationAttempts])
    /\ UNCHANGED <<heap, ptr, scopes>>

\* One more attempt: the pass is not over and the budget is not spent.
Attempting(kind) ==
    InFrame({kind}) /\ Top.left > 0 /\ Top.remaining > 0

Moves(hp, cost) ==
    /\ heap' = hp
    /\ frames' = Append(Below, [Top EXCEPT !.left = @ - 1, !.progress = TRUE,
                                           !.remaining = @ - cost])
    /\ UNCHANGED <<ptr, scopes>>

\* The chain is bound by a quantifier so that it is walked once a step.
CanEvacuate ==
    /\ Attempting("evacuate")
    /\ \E c \in {Chain(heap)} : EvacuationExtent(heap, c, Top.remaining) # {}

CanShift ==
    /\ Attempting("shift")
    /\ \E c \in {Chain(heap)} : ShiftExtent(heap, c, Top.remaining) # {}

EvacuateOnce ==
    /\ Attempting("evacuate")
    /\ \E c \in {Chain(heap)} : \E i \in EvacuationExtent(heap, c, Top.remaining) :
           Moves(Evacuated(heap, c, i), Size(heap, c[Len(c)]))

ShiftOnce ==
    /\ Attempting("shift")
    /\ \E c \in {Chain(heap)} : \E i \in ShiftExtent(heap, c, Top.remaining) :
           Moves(Shifted(heap, c, i), MovementCost(heap, c, i + 1))

PassOver == InFrame({"evacuate", "shift"}) /\ ~ CanEvacuate /\ ~ CanShift

\* A hybrid round goes on to its shifts.
ShiftsBegin ==
    /\ PassOver /\ Top.kind = "evacuate"
    /\ Top.policy = "hybrid" /\ Top.remaining # 0
    /\ frames' = Append(Below, [Top EXCEPT !.kind = "shift", !.left = ShiftAttempts])
    /\ UNCHANGED <<heap, ptr, scopes>>

\* A round that still counts the progress of the round before it.
RoundBeginsProgressing ==
    /\ PassOver /\ Top.kind = "shift" /\ Top.policy = "hybrid"
    /\ Top.progress /\ Top.remaining # 0
    /\ frames' = Append(Below, [Top EXCEPT !.kind = "evacuate",
                                           !.left = EvacuationAttempts])
    /\ UNCHANGED <<heap, ptr, scopes>>

\* Another hybrid round, if this one moved something and may move more.
RoundBegins ==
    /\ PassOver /\ Top.kind = "shift" /\ Top.policy = "hybrid"
    /\ Top.progress /\ Top.remaining # 0
    /\ frames' = Append(Below, [Top EXCEPT !.kind = "evacuate", !.progress = FALSE,
                                           !.left = EvacuationAttempts])
    /\ UNCHANGED <<heap, ptr, scopes>>

CompactReturns ==
    /\ PassOver
    /\ \/ Top.policy # "hybrid"
       \/ Top.remaining = 0
       \/ Top.kind = "shift" /\ ~ Top.progress
    /\ frames' = Below
    /\ UNCHANGED <<heap, ptr, scopes>>

-----------------------------------------------------------------------------
Program ==
    \/ \E l, q \in Places : CopyAssign(l, q) \/ MoveAssign(l, q)
    \/ \E l \in Places : Reset(l) \/ Unwrap(l)
    \/ \E i \in DOMAIN scopes, v \in Values : WriteThrough(i, v)
    \/ Leave
    \/ \E p \in Ptrs, n \in Sizes, v \in Values : Make(p, n, v)
    \/ \E n \in Sizes : MakeFails(n)
    \/ \E policy \in Policies, b \in Budgets : Compact(policy, b)
    \/ BodyEnds

\* What the heap does by itself, between two pieces of user code.
System ==
    \/ ConstructorReturns
    \/ ReleaseEnds
    \/ EvacuateOnce
    \/ ShiftOnce
    \/ ShiftsBegin
    \/ RoundBegins
    \/ CompactReturns

Next == Program \/ System

Spec == Init /\ [][Next]_vars /\ WF_vars(System)

-----------------------------------------------------------------------------
(***************************************************************************)
(* Properties.                                                             *)
(***************************************************************************)
\* The bytes the chain's objects reserve, counted by a walk.
CountedReserved ==
    LET c == Chain(heap) IN Total([i \in DOMAIN c |-> ReservedSize(heap, c[i])])

\* debug_assert_invariants_, which make, release_ and compact end with, and
\* SPEC.md 48.16: the free extents of the chain add up to free_space().
DebugAssertInvariants ==
    LET c == Chain(heap) IN
    /\ MetadataTop(heap) <= Capacity
    /\ \A h \in Handles : IsUsed(heap, h) =>
            (SlotOf(heap, h).refs # 0 <=> SlotOf(heap, h).state = "live")
    /\ \A i, j \in DOMAIN heap.tables :
            heap.tables[i].id = heap.tables[j].id => i = j
    /\ Cardinality(Used(heap)) = heap.live
    /\ \A i \in DOMAIN c :
            /\ IsUsed(heap, c[i])
            /\ Base(heap, c[i]) % HeapAlignment = 0
            /\ Base(heap, c[i]) >= MetadataTop(heap)
            /\ TopOf(heap, c[i]) <= (IF i = 1 THEN Capacity ELSE Base(heap, c[i - 1]))
    /\ Len(c) = heap.live
    /\ CountedReserved = heap.reserved
    /\ FreeSpace(heap) >= 0
    /\ FreeSpace(heap) = FreeExtents(heap, c)

\* Between two calls, and inside every destructor, the heap passes the check
\* it makes of itself: tables and objects never meet, the chain lists every
\* object once from high to low, and the counters agree with a full walk.
HeapSound ==
    (\A i \in DOMAIN frames : frames[i].kind # "constructor") => DebugAssertInvariants

\* A make that finds no room has by then taken a slot, and perhaps pushed a
\* table for it: when the handles, the scopes and the calls are as before a
\* step, so are the tables, the chain and the counters.
FailedMakeLeavesNothing ==
    [][ UNCHANGED <<ptr, scopes, frames>> => [heap' EXCEPT !.mem = heap.mem] = heap ]_vars

\* Everything that owns a reference to h.
Owners(h) ==
    Cardinality({l \in Places : ptr[l] = h})
    + Cardinality({i \in DOMAIN scopes : scopes[i].h = h})
    + Cardinality({i \in DOMAIN frames :
            \/ frames[i].kind = "constructor" /\ frames[i].h = h
            \/ frames[i].kind \in {"body", "members"} /\ frames[i].rest.incoming = h})

\* A count is the number of owners, so that no object outlives its last
\* owner and no owner outlives its object, whatever destructors do in between.
RefsExact ==
    \A h \in Handles :
        Owners(h) = IF IsUsed(heap, h) THEN SlotOf(heap, h).refs ELSE 0

\* SPEC.md 3: a resolved address stays valid until the object is destroyed
\* or a compaction point.  No object moves in any other step, nor in any
\* step taken while an address is held by a scoped access or a destructor.
AddressesStable ==
    [][ (\E h \in Handles : /\ IsUsed(heap, h) /\ IsUsed(heap', h)
                            /\ Base(heap', h) # Base(heap, h))
        => /\ InFrame({"evacuate", "shift"})
           /\ scopes = <<>> /\ DestructionDepth = 0 ]_vars

\* The bytes of the objects a step moves.
MovedBytes ==
    LET c == Chain(heap)
        moved == {i \in DOMAIN c : Base(heap', c[i]) # Base(heap, c[i])}
    IN  Total([i \in DOMAIN c |-> IF i \in moved THEN Size(heap, c[i]) ELSE 0])

\* SPEC.md 44 and 45: a move raises objects and never lowers one, enlarges
\* the bottom span, and is paid for in full out of the budget that is left.
MovesMakeProgress ==
    [][ (EvacuateOnce \/ ShiftOnce) =>
        /\ \A h \in Used(heap) : Base(heap', h) >= Base(heap, h)
        /\ BottomFreeSpan(heap') > BottomFreeSpan(heap)
        /\ frames'[Len(frames)].remaining = Top.remaining - MovedBytes
        /\ Top.remaining >= MovedBytes ]_vars

Compacting == InFrame({"evacuate", "shift"})

\* The hybrid policy's unbounded rounds come to an end.
CompactionEnds == Compacting ~> ~ Compacting

\* The value an object's bytes spell, Junk when they disagree.
Content(h) ==
    LET held == {heap.mem[b] : b \in Base(heap, h) .. Base(heap, h) + Size(heap, h) - 1}
    IN  IF \E v \in Values : held = {v} THEN CHOOSE v \in Values : held = {v} ELSE Junk

Store == INSTANCE ObjectStore WITH
    phase <- [h \in Handles |-> IF ~ IsUsed(heap, h) THEN "none"
                                ELSE IF SlotOf(heap, h).state = "live" THEN "live"
                                ELSE "dying"],
    value <- [h \in Handles |-> IF IsUsed(heap, h) THEN Content(h) ELSE Junk]

\* Handles name the same objects with the same contents, whatever tables and
\* objects move, and each object is destroyed exactly once.
ImplementsObjectStore == Store!Spec

\* The assertion at the end of make, release_ and compact (managed_heap.hpp
\* 534, 1096 and 620), also when a constructor is what made the call.
AssertionsHoldOnReturn ==
    [][ (ConstructorReturns \/ ReleaseEnds \/ CompactReturns)
        => DebugAssertInvariants' ]_vars

\* SPEC.md 28: when the last reference disappears, the object is destroyed.
NoObjectOutlivesItsOwners ==
    \A h \in Handles :
        IsUsed(heap, h) /\ SlotOf(heap, h).state = "live" => Owners(h) > 0
=============================================================================
