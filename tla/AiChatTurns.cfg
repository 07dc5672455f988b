SPECIFICATION SceneSpec
CONSTANTS
  Tasks = {d1, d2}
  Confirmable = {d1, d2}
  MaxRuns = 3
  MaxStopped = 3
  Incidents = {}
SYMMETRY Symmetry
INVARIANTS ConfirmedFirst OneRunAtWork
PROPERTIES CancelledStays AskedWithAnswers
CHECK_DEADLOCK FALSE
