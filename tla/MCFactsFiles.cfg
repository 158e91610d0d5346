CONSTANTS
    Programs <- MCPrograms
    PageSize = 2
SPECIFICATION FactsSpec
INVARIANTS
    FactsTypeOK
    NamesRight
    LastRecordWins
    NodesDescribed
    CallsitesKept
CHECK_DEADLOCK FALSE
