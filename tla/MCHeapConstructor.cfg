\* Constructors that use the heap: the assertions at the end of a nested call.
CONSTANTS
    p = p
    q = q
    a = a
    b = b
    Junk = Junk
    Capacity = 10
    TableBytes = 2
    DescriptorsPerTable = 1
    HeapAlignment = 2
    Values = {a}
    Ptrs = {p, q}
    Sizes = {1, 3}
    Policies = {"evacuate", "shift", "hybrid"}
    Budgets = {3, 100}
    EvacuationAttempts = 1
    ShiftAttempts = 1
    MaxRefs = 2
    MaxScopes = 1
    MaxDepth = 2
    ConstructorsUseHeap = TRUE
    DestructorsReassign = FALSE
SPECIFICATION Spec
PROPERTY
    AssertionsHoldOnReturn
