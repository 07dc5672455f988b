SPECIFICATION FairSpec
CONSTANTS
  Tasks = {d1, a1}
  Confirmable = {d1}
  MaxRuns = 2
  MaxStopped = 1
  Incidents = {"end", "timeout"}
INVARIANTS QuietMeansQuiet
PROPERTIES BusyEnds TaskEnds
CHECK_DEADLOCK FALSE
