CONSTANTS
    Threads = {t1, t2}
    s1 = s1
    s2 = s2
    lib = lib
    Sites = {s1, s2}
    Blocks = {b1}
    MainObject = {}
    Library = {lib}
    Untagged = Untagged
    Empty = Empty
    Sizes = {20}
    Threshold = 1
    MaxShown = 1
    SiteTable = {s1}
    Symbols = {lib}
    StaticChoices <- MCStatic
SYMMETRY Symmetry
SPECIFICATION CheckSpec
INVARIANTS
    CheckTypeOK
    RecordsTruthful
    VerdictExact
CHECK_DEADLOCK FALSE
