SPECIFICATION DirectSpec
CONSTANTS
  d1 = d1
  Directs = {d1}
  Nested = {d1}
INVARIANTS CompleteIsComplete
CHECK_DEADLOCK FALSE
