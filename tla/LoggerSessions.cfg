\* Both ways of stopping, every fault, polls that outlast the join timeout, and
\* callbacks that raise or stop.
CONSTANTS
  c1 = c1
  c2 = c2
  l1 = l1
  l2 = l2
  Nobody = Nobody
  Callers = {c1, c2}
  Loggers = {l1, l2}
  MaxErrors = 2
  DirectStop = TRUE
  OnError = {"return", "raise", "stop"}
  Faults = {"open", "poll", "disk", "slow"}
SPECIFICATION FairSpec
INVARIANTS
  TypeOK
  OneSession
  OneRowAfterStop
PROPERTIES
  StoppedThreadEnds
