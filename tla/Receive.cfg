SPECIFICATION FairSpec
CONSTANTS
  DefaultTimeout = 1
  OverrideTimeout = 2
  Lines <- MCLines
INVARIANTS
  TypeOK
  NoLostWakeUp
  WholeFrames
  AcceptedIsGenuine
  LossExplained
  DurationBound
  FindAgrees
PROPERTIES
  ImplementsFrameQueue
  ReceiveEnds
