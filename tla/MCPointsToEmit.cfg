CONSTANTS
    Objects <- MCObjects
    Overrides <- MCOverrides
    MaxRuns = 2
SPECIFICATION Spec
INVARIANTS
    TypeOK
    InitialPassIsJoin
    BodiesCompile
    MissingExact
    PtsAreCurrent
CHECK_DEADLOCK FALSE
