SPECIFICATION FairSpec
CONSTANTS
    NULL = NULL
    o1 = o1
    o2 = o2
    o3 = o3
    Tool = {t1, t2}
    Obj = {o1, o2, o3}
    Slot = {s1, s2, s3}
    File = {f1, f2, f3}
    Addr <- MCAddrOverlap
    DstAddr <- MCDstOverlap
    Faults = {"mem"}
    Exclusive = TRUE
INVARIANTS TextExact AreasComplete FilesMatchAreas
PROPERTIES ImplementsStack UnpatchDrains
