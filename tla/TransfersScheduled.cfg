SPECIFICATION Spec
CONSTANTS
  Transfers = {t1}
  t1 = t1
  Kinds = {"scheduled"}
  MaxAttempts = 2
  Cancellable = {}
  Stalls = FALSE
  Outages = FALSE
  MaxCrashes = 1
  NoRun = NoRun
INVARIANT InterruptedIsOver
CHECK_DEADLOCK FALSE
