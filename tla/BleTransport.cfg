SPECIFICATION FairSpec
CONSTANTS
  MaxLoops = 3
  Overlap = FALSE
  Timers = {t1, t2}
  t1 = t1
  t2 = t2
INVARIANTS
  TypeOK
  OneLoop
  BytesOfThisLink
  ClosedIsClosed
  OneChain
PROPERTIES
  CallsReturn
  TimersDie
