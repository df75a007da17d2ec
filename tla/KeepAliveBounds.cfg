\* Interval and writes of the code in half seconds (2.0 s, up to 0.5 s), a
\* device that tolerates 4.5 s and a settling delay of 2 s: the heartbeats after
\* the first are just in time, the first may be too late.
CONSTANTS
  Interval = 4
  DeviceTimeout = 9
  PostConnectDelay = 4
  MaxWrite = 1
  WritesFail = FALSE
  Horizon = 16
SPECIFICATION Spec
INVARIANTS
  TypeOK
  IdleBound
  PollingKeepsAlive
