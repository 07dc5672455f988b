\* One process with two workers on SQLite; heartbeats may stall, statements may fail.
SPECIFICATION Spec
CONSTANTS
  i1 = i1
  w1 = w1  w2 = w2
  j1 = j1  s1 = s1
  NoWorker = NoWorker
  DeadWorker = DeadWorker
  NoJob = NoJob
  Jobs = {j1}
  Sources = {s1}
  SourceOf <- OneOwner
  Priority <- FlatPriority
  Instances = {i1}
  Workers = {w1, w2}
  Home <- OneProcess
  MaxAttempts = 2
  LeaseTicks = 2
  BeatTicks = 1
  RetryDelay <- ShortRetry
  MaxScan = 2
  MaxCrashes = 1
  RowLock = FALSE
  Stalls = TRUE
  DbErrors = TRUE
INVARIANTS
  QueuedCanBeClaimed
PROPERTIES
  LifecycleHolds
