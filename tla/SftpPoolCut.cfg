SPECIFICATION Spec
CONSTANTS
  r1 = r1
  r2 = r2
  r3 = r3
  k1 = k1
  Requests = {r1, r2}
  WithCredential = {}
  Flaky = {}
  Closers = {k1}
  MaxSessions = 2
  Cleaner = Cleaner
  None = None
INVARIANTS InUseIsOpen
CHECK_DEADLOCK FALSE
