SPECIFICATION Spec
CONSTANTS
    Node = {1, 2, 3, 4, 5}
    NULL = 0
    Width = 3
    Symbols <- NearAndFar
CHECK_DEADLOCK FALSE
INVARIANTS
    LookupsExact
    SymsFreed
