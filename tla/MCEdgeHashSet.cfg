SPECIFICATION Spec
CONSTANTS
  Edges = {e1, e2, e3, e4}
  Free = Free
  Log2Init = 1
  HashMod = 8
  EdgeHashes = {0, 3, 4}
  Mix <- MCMix
  Attempts = 4
  MaxCount = 8
INVARIANTS TypeOK FileKeepsEdges Findable AssertionsHold
PROPERTIES AddReturns ImplementsSet
CHECK_DEADLOCK FALSE
