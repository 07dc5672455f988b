SPECIFICATION Forecast
CONSTANTS
  r1 = r1
  d1 = d1
  Runs = {r1}
  Instances = {i1}
  Requests = {q1, q2}
  Definitions = {d1}
  DefinitionOf <- OnlyRun
  MaxCrashes = 2
  Outages = FALSE
  Nobody = Nobody
INVARIANTS
  InterruptedIsDead
  CalmCancelingIsHeard
  ToldOnce
PROPERTIES
  StartedStaysStarted
  CalmRunsEnd
  ImplementsLifecycle
CHECK_DEADLOCK FALSE
