SPECIFICATION Spec
CONSTANTS
    NULL = NULL
    o1 = o1
    o2 = o2
    o3 = o3
    Tool = {t1}
    Obj = {o1, o3}
    Slot = {s1, s2}
    File = {f1, f2}
    Addr <- MCAddrOverlap
    DstAddr <- MCDstOverlap
    Faults = {"crash", "munmap", "mem", "short"}
    Exclusive = TRUE
SYMMETRY MCSymmetry
INVARIANTS JumpsMapped BackupsOlder UniquePatches
