\* The code's numbers in half seconds, granting that writes take no time and
\* that the device starts its clock only after the post-connect delay.
CONSTANTS
  Interval = 4
  DeviceTimeout = 5
  PostConnectDelay = 0
  MaxWrite = 0
  WritesFail = FALSE
  Horizon = 16
SPECIFICATION Spec
INVARIANT
  StaysUp
