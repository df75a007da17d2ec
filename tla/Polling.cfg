SPECIFICATION FairSpec
CONSTANTS
  InfoPayloads <- MCInfoPayloads
  DataPayloads <- MCDataPayloads
  Intervals = {0, 2, 4}
  Timeouts = {0, 3}
  MaxErrors = {0, 1, 3}
  DEFAULT_MAX_CONSECUTIVE_ERRORS = 3
  PollTicks = 2
  ConsumerTicks = 2
  History = 3
INVARIANTS
  TypeOK
  RaisesOnStreak
  WaitKeepsDeadline
  ReadyIsReady
  ClockDecoded
PROPERTIES
  Paced
  LossRaises
  DashboardStops
