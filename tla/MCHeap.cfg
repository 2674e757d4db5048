\* Two descriptors to a table: tables are pushed, filled, and moved by reclamation.
CONSTANTS
    p = p
    q = q
    a = a
    b = b
    Junk = Junk
    Capacity = 14
    TableBytes = 4
    DescriptorsPerTable = 2
    HeapAlignment = 2
    Values = {a}
    Ptrs = {p, q}
    Sizes = {1, 3}
    Policies = {"evacuate", "shift"}
    Budgets = {3, 100}
    EvacuationAttempts = 1
    ShiftAttempts = 1
    MaxRefs = 2
    MaxScopes = 1
    MaxDepth = 2
    ConstructorsUseHeap = FALSE
    DestructorsReassign = FALSE
SPECIFICATION Spec
SYMMETRY Swaps
INVARIANTS
    TypeOK
    HeapSound
    RefsExact
PROPERTIES
    AddressesStable
    MovesMakeProgress
    FailedMakeLeavesNothing
    ImplementsObjectStore
