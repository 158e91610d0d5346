SPECIFICATION Spec
CONSTANTS
  Threads = {t1, t2}
  Regions = {r1, r2}
  Tags = {site}
  Untagged = Untagged
  Empty = Empty
  Unlocked = Unlocked
  Overprovision = 1
  SlabCap = 2
  MaxSlabs = 3
INVARIANTS TagFindsSlab
SYMMETRY ThreadSymmetry
CHECK_DEADLOCK FALSE
