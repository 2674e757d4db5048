--------------------------- MODULE HeapInstances ----------------------------
(***************************************************************************)
(* The basic_heap objects of one type.  A managed_ptr holds a handle and   *)
(* no heap: every lookup goes to the active instance, a static pointer     *)
(* that construction sets, moving carries along and destruction clears.    *)
(* What a heap does with its bytes is in ManagedHeap; here an object is    *)
(* counted in the storage that holds it.                                   *)
(*                                                                         *)
(* A heap object is moved or ended by the program between heap calls.      *)
(***************************************************************************)
EXTENDS Naturals

CONSTANTS
    Instances,   \* the variables that may hold a basic_heap
    Storages,    \* byte arrays of Capacity bytes
    Misaligned,  \* those of them that are not aligned as the heap requires
    Null         \* nullptr

VARIABLES
    exists,      \* the heap objects that are constructed and not destroyed
    base, valid, live,   \* base_, valid_ and live_objects_ of each
    active,      \* active_instance_()
    stored       \* the objects in each storage that some managed_ptr names

vars == <<exists, base, valid, live, active, stored>>

Init ==
    /\ exists = {}
    /\ base = [i \in Instances |-> Null]
    /\ valid = [i \in Instances |-> FALSE]
    /\ live = [i \in Instances |-> 0]
    /\ active = Null
    /\ stored = [s \in Storages |-> 0]

\* No storage, a misaligned one, or another instance active: the object is
\* constructed and is no heap, and nothing is written to the storage.
CreateRefused(i, s) ==
    /\ i \notin exists
    /\ s = Null \/ s \in Misaligned \/ active # Null
    /\ exists' = exists \cup {i}
    /\ base' = [base EXCEPT ![i] = s]
    /\ UNCHANGED <<valid, live, active, stored>>

\* The first descriptor table is written over what the storage held.
Create(i, s) ==
    /\ i \notin exists
    /\ s \in Storages \ Misaligned /\ active = Null
    /\ exists' = exists \cup {i}
    /\ base' = [base EXCEPT ![i] = s]
    /\ valid' = [valid EXCEPT ![i] = TRUE]
    /\ active' = i
    /\ stored' = [stored EXCEPT ![s] = 0]
    /\ UNCHANGED live

\* basic_heap(basic_heap&&): the bytes stay where they are.
Move(i, other) ==
    /\ i \notin exists /\ other \in exists
    /\ exists' = exists \cup {i}
    /\ base' = [base EXCEPT ![i] = base[other], ![other] = Null]
    /\ valid' = [valid EXCEPT ![i] = valid[other], ![other] = FALSE]
    /\ live' = [live EXCEPT ![i] = live[other], ![other] = 0]
    /\ active' = IF active = other THEN i ELSE active
    /\ UNCHANGED stored

\* ~basic_heap() asserts that no managed object is left.
End(i) ==
    /\ i \in exists
    /\ base[i] # Null => live[i] = 0
    /\ exists' = exists \ {i}
    /\ base' = [base EXCEPT ![i] = Null]
    /\ valid' = [valid EXCEPT ![i] = FALSE]
    /\ live' = [live EXCEPT ![i] = 0]
    /\ active' = IF active = i THEN Null ELSE active
    /\ UNCHANGED stored

\* make() is called on a heap object, and refuses when it is not valid.
MakeObject(i) ==
    /\ i \in exists /\ valid[i]
    /\ live' = [live EXCEPT ![i] = @ + 1]
    /\ stored' = [stored EXCEPT ![base[i]] = @ + 1]
    /\ UNCHANGED <<exists, base, valid, active>>

\* The last managed_ptr to an object in s goes: release_ runs on the instance
\* that is active then.
ReleaseObject(s) ==
    /\ stored[s] > 0
    /\ active # Null
    /\ live' = [live EXCEPT ![active] = @ - 1]
    /\ stored' = [stored EXCEPT ![base[active]] = @ - 1]
    /\ UNCHANGED <<exists, base, valid, active>>

Next ==
    \/ \E i \in Instances :
           \/ \E s \in Storages \cup {Null} : CreateRefused(i, s) \/ Create(i, s)
           \/ \E other \in Instances : Move(i, other)
           \/ End(i) \/ MakeObject(i)
    \/ \E s \in Storages : ReleaseObject(s)

Spec == Init /\ [][Next]_vars

-----------------------------------------------------------------------------
TypeOK ==
    /\ exists \subseteq Instances
    /\ base \in [Instances -> Storages \cup {Null}]
    /\ valid \in [Instances -> BOOLEAN]
    /\ live \in [Instances -> Nat]
    /\ active \in Instances \cup {Null}
    /\ stored \in [Storages -> Nat]

\* The registration: the active instance is the one valid heap.
Registered ==
    /\ \A i \in Instances : valid[i] <=> active = i
    /\ active # Null => active \in exists /\ base[active] \in Storages

\* Only it has objects, and its count is the number its storage holds.
CountsAgree ==
    /\ \A i \in Instances : live[i] # 0 => active = i
    /\ active # Null => live[active] = stored[base[active]]

\* managed_ptr asserts that instance_() is not null, and finds its object only
\* in the storage of that instance: every object that is left is there, however
\* often heaps have been made, moved and ended.
HandlesResolve ==
    \A s \in Storages :
        stored[s] # 0 => active # Null /\ base[active] = s

\* No construction writes its first table over objects that are still named,
\* and a release takes its object from the storage that holds it.
ObjectsKept ==
    [][\A s \in Storages :
          stored'[s] # stored[s] =>
              \/ stored'[s] = stored[s] + 1
              \/ stored[s] = stored'[s] + 1 /\ ReleaseObject(s)]_vars
=============================================================================
