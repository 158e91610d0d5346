CONSTANT Programs <- AllPrograms
SPECIFICATION Spec
INVARIANTS
    TypeOK
    FlowsCovered
    SuppliesDeclared
    AllocasNumberedFirst
CHECK_DEADLOCK FALSE
