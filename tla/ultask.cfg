SPECIFICATION Spec
CONSTANTS
    None = None
    Top = 8
    PageSize = 2
    JmpLen = 2
    File <- MCFile
    FSize <- MCFSize
    Layout <- MCLayout
    Options <- MCOptions
    MaxOptions = 3
    MaxChanges = 1
    OldLen = 5
CHECK_DEADLOCK FALSE
INVARIANTS ProtectExact Released WritesExact
PROPERTIES MapKeepsOthers UnmapExact
