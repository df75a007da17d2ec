\* Every fault, heartbeats, callbacks that raise or call the client again. A
\* callback that makes a request blocks for ever, so the system may stop.
CONSTANTS
  t1 = t1
  t2 = t2
  NoThread = NoThread
  Threads = {t1, t2}
  Retries = 1
  AutoReconnect = TRUE
  MaxReconnects = 2
  KeepAlive = TRUE
  Faults = {"drop", "lose", "late", "corrupt", "write", "stall", "linger",
            "dial"}
  Callbacks = {"return", "raise", "request"}
  MaxCalls = 2
  MaxBeats = 1
SPECIFICATION Spec
SYMMETRY Symmetry
CHECK_DEADLOCK FALSE
INVARIANTS
  LockDiscipline
  NothingCrossesReconnect
  RetryBudget
  SessionBudget
PROPERTIES
  GivesUpForGood
