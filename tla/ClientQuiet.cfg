\* Every fault of a quiet link, with reconnects: answers belong to their calls
\* and the lock is always given back.
CONSTANTS
  t1 = t1
  t2 = t2
  NoThread = NoThread
  Threads = {t1, t2}
  Retries = 1
  AutoReconnect = TRUE
  MaxReconnects = 2
  KeepAlive = FALSE
  Faults = {"drop", "lose", "corrupt", "odd", "write", "dial"}
  Callbacks = {"return"}
  MaxCalls = 2
  MaxBeats = 0
SPECIFICATION FairSpec
INVARIANTS
  TypeOK
  AnswersOwnCall
PROPERTIES
  HolderReturns
  ImplementsService
