SPECIFICATION Spec
CONSTANTS
    NULL = NULL
    o1 = o1
    o2 = o2
    o3 = o3
    Tool = {t1}
    Obj = {o1, o2, o3}
    Slot = {s1, s2, s3}
    File = {f1, f2, f3}
    Addr <- MCAddrApart
    DstAddr <- MCDstApart
    Faults = {"crash"}
    Exclusive = TRUE
SYMMETRY MCSymmetry
INVARIANTS NoZeroText
