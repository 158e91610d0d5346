SPECIFICATION Spec
CONSTANTS
  Threads = {t1, t2}
  Symbols = {s1}
  NULL = NULL
  Pages = {a1, a2, a3}
  PageCap = 1
  MaxCalls = 2
INVARIANTS TypeOK PagesOwned SlotsOwned NoPageAbandoned
PROPERTIES CallsReturn ReaderEnds ImplementsLog
CHECK_DEADLOCK FALSE
