\* One descriptor to a table; budgets, all policies and two contents.
CONSTANTS
    p = p
    q = q
    a = a
    b = b
    Junk = Junk
    Capacity = 10
    TableBytes = 2
    DescriptorsPerTable = 1
    HeapAlignment = 2
    Values = {a, b}
    Ptrs = {p, q}
    Sizes = {1, 3}
    Policies = {"evacuate", "shift", "hybrid"}
    Budgets = {3, 100}
    EvacuationAttempts = 1
    ShiftAttempts = 1
    MaxRefs = 3
    MaxScopes = 1
    MaxDepth = 2
    ConstructorsUseHeap = FALSE
    DestructorsReassign = FALSE
SPECIFICATION Spec
PROPERTIES
    CompactionEnds
    ImplementsObjectStore
