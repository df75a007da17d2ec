\* The default retries=0 with auto_reconnect: one link loss.
CONSTANTS
  t1 = t1
  NoThread = NoThread
  Threads = {t1}
  Retries = 0
  AutoReconnect = TRUE
  MaxReconnects = 3
  KeepAlive = FALSE
  Faults = {"drop"}
  Callbacks = {"return"}
  MaxCalls = 1
  MaxBeats = 0
SPECIFICATION Spec
INVARIANT
  LoopNeverExhausted
