SPECIFICATION Spec
CONSTANTS
    Top = 8
    Size = 2
    Base = 1
    Name <- Names
    UlpName <- Ulps
    Layouts <- LowHigh
    MaxChanges = 3
    None = None
CHECK_DEADLOCK FALSE
INVARIANTS
    TreeSound
    LeadersLead
    SpanFree
    PatchFound
    TableExact
