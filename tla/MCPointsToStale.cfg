CONSTANTS
    Objects <- MCObjects
    Overrides <- MCOverrides
    MaxRuns = 2
SPECIFICATION Spec
INVARIANT MissingStayExtern
CHECK_DEADLOCK FALSE
