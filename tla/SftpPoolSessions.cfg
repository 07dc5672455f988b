SPECIFICATION Spec
CONSTANTS
  r1 = r1
  r2 = r2
  r3 = r3
  k1 = k1
  Requests = {r1, r2, r3}
  WithCredential = {r3}
  Flaky = {r1}
  Closers = {k1}
  MaxSessions = 2
  Cleaner = Cleaner
  None = None
INVARIANTS CountsMatch NothingLeaks
CHECK_DEADLOCK FALSE
