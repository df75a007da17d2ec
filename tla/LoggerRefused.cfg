\* A session ended by logger.stop(), the preferred way, and a new start.
CONSTANTS
  c1 = c1
  l1 = l1
  l2 = l2
  Nobody = Nobody
  Callers = {c1}
  Loggers = {l1, l2}
  MaxErrors = 1
  DirectStop = TRUE
  OnError = {"return"}
  Faults = {}
SPECIFICATION Spec
SYMMETRY Symmetry
INVARIANT
  RefusedOnlyWhileRunning
