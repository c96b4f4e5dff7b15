CONSTANTS
    t1 = t1
    t2 = t2
    None = None
    Task <- Tasks
    Files <- MCFiles
    Images <- MCImages
    Exe <- MCExe
    Flags <- MCFlags
    Garbage <- MCGarbage
    Closable = {"fixed"}
    Patched = {102}
    Page = 4
    Losses = 1
SPECIFICATION Spec
SYMMETRY Symmetric
INVARIANTS
    RefsExact
    BreaksOnlyWhenLost
    ImagesExact
    DirFollowsPatches
CHECK_DEADLOCK FALSE
