SPECIFICATION Spec
CONSTANTS
  MaxLoops = 2
  Overlap = TRUE
  Timers = {t1, t2}
  t1 = t1
  t2 = t2
INVARIANT
  LoopsStopped
