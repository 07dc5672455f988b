SPECIFICATION Forecast
CONSTANTS
  Transfers = {t1}
  t1 = t1
  Kinds = {"upload", "download", "scheduled"}
  MaxAttempts = 2
  Cancellable = {t1}
  Stalls = FALSE
  Outages = FALSE
  MaxCrashes = 2
  NoRun = NoRun
INVARIANTS
  RunMatchesJob
  CompletedHasFile
  CancelReaches
  CalmDoneMeansEnded
PROPERTIES
  CalmTransfersEnd
  CalmRunsEnd
CHECK_DEADLOCK FALSE
