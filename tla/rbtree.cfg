SPECIFICATION Spec
CONSTANTS
    Node = {1, 2, 3, 4, 5, 6, 7, 8, 9, 10}
    NULL = 0
CHECK_DEADLOCK FALSE
INVARIANTS
    RedBlack
    WalkSorted
    FreedUnread
