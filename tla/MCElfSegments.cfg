SPECIFICATION Spec
CONSTANTS
  Threads = {t1, t2}
  Objects = {exe, liba, libb}
  Main = {exe}
  Outside = Outside
INVARIANTS TypeOK StrictGrowth
PROPERTIES CallsReturn ImplementsObjects
