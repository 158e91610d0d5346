SPECIFICATION Spec
CONSTANTS
  Half = 2
  LocalSize = 2
  Globals = {f, g}
  x = x
  y = y
  LocalNames = {x, y}
  Blank = Blank
  Boms <- MCBoms
  Components <- MCComponents
  Indices = {1}
  MaxGraphs = 2
  MaxEdges = 2
SYMMETRY Symmetry
INVARIANTS TypeOK ReadsAll
PROPERTIES ImplementsGraph
CHECK_DEADLOCK FALSE
