\* One heartbeat on a sound link.
CONSTANTS
  t1 = t1
  NoThread = NoThread
  Threads = {t1}
  Retries = 0
  AutoReconnect = FALSE
  MaxReconnects = 3
  KeepAlive = TRUE
  Faults = {}
  Callbacks = {"return"}
  MaxCalls = 2
  MaxBeats = 1
SPECIFICATION Spec
INVARIANT
  HeartbeatHarmless
