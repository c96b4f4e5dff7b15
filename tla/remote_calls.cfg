SPECIFICATION FairSpec
CONSTANTS
    g1 = g1
    g2 = g2
    g3 = g3
    g4 = g4
    Sig = {g1, g2, g3, g4}
    Kind <- MCKind
    Arch = "x86_64"
    MayDie = TRUE
CHECK_DEADLOCK FALSE
INVARIANTS AppResumes SignalsKept FdKept MapHonest NothingLeft CodeBack
PROPERTIES Finishes
