SPECIFICATION FairSpec
CONSTANTS
  f1 = f1
  f2 = f2
  d1 = d1
  Files = {f1, f2}
  Watched = {f1}
  Cancellable = {f1}
  MaxConcurrent = 1
  Directs = {d1}
  Nested = {d1}
INVARIANTS SlotsBalance CancelSticks EndedStaysEnded
PROPERTIES UploadsEnd DirectEnds
CHECK_DEADLOCK FALSE
