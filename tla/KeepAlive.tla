----------------------------- MODULE KeepAlive -----------------------------
(***************************************************************************)
(* The timing of the keep-alive of BluetoothConnection. A timer fires      *)
(* every Interval; its tick sends a heartbeat only if the last send is at  *)
(* least Interval old, and then arms the timer again. The device drops a   *)
(* link on which it has heard nothing for DeviceTimeout.                   *)
(*                                                                         *)
(* Time is counted in ticks of a length the instance chooses (half a       *)
(* second in the runs with the code's own numbers). Steps take no time     *)
(* except the settling after connect, the timer and a heartbeat's write.   *)
(***************************************************************************)
EXTENDS Naturals

CONSTANTS
  Interval,          \* BLE_KEEPALIVE_INTERVAL_S: timer period and threshold
  DeviceTimeout,     \* BLE_DEVICE_TIMEOUT_S: what the device tolerates
  PostConnectDelay,  \* BLE_POST_CONNECT_DELAY_S
  MaxWrite,          \* the longest a heartbeat's write takes
  WritesFail,        \* may a heartbeat fail on a link that is up?
  Horizon            \* bound: how old the last send may grow

ASSUME KeepAliveAssumption ==
  /\ Interval \in Nat \ {0}
  /\ DeviceTimeout \in Nat
  /\ PostConnectDelay \in Nat
  /\ MaxWrite \in Nat
  /\ WritesFail \in BOOLEAN
  /\ Horizon \in Nat

VARIABLES
  conn,       \* "down", "settling" (inside connect) or "up" (_connected)
  beat,       \* the keep-alive thread: "waiting" for its timer or "writing"
  timer,      \* ticks left of the delay, of the timer or of the write
  sinceSend,  \* seconds_since_last_send
  silence,    \* how long the device has heard nothing
  linkUp      \* has the device kept the link?

vars == <<conn, beat, timer, sinceSend, silence, linkUp>>

Init ==
  /\ conn = "down" /\ beat = "waiting" /\ timer = 0
  /\ sinceSend = 0 /\ silence = 0 /\ linkUp = FALSE

-----------------------------------------------------------------------------
\* The link comes up and _async_connect sleeps for the mandatory delay.
Connect ==
  /\ conn = "down"
  /\ conn' = "settling" /\ timer' = PostConnectDelay
  /\ silence' = 0 /\ linkUp' = TRUE
  /\ UNCHANGED <<beat, sinceSend>>

\* The delay is over: _connected and _last_send_time are set, the first timer
\* is armed. The code does not look whether the link is still there.
Established ==
  /\ conn = "settling" /\ timer = 0
  /\ conn' = "up" /\ sinceSend' = 0
  /\ beat' = "waiting" /\ timer' = Interval
  /\ UNCHANGED <<silence, linkUp>>

TickDue == conn = "up" /\ beat = "waiting" /\ timer = 0

\* Mutated: the threshold is exclusive.
NeedsKeepaliveStrict == sinceSend > Interval

NeedsKeepalive == sinceSend >= Interval

\* _keepalive_tick finds a recent send and only arms the timer again.
TickSkips ==
  /\ TickDue /\ ~NeedsKeepalive
  /\ timer' = Interval
  /\ UNCHANGED <<conn, beat, sinceSend, silence, linkUp>>

\* _keepalive_tick hands a DEVICE_DATA_REQUEST to the loop and waits for it.
TickSends ==
  /\ TickDue /\ NeedsKeepalive
  /\ beat' = "writing" /\ timer' = MaxWrite
  /\ UNCHANGED <<conn, sinceSend, silence, linkUp>>

\* Mutated: the timer is armed with the device's timeout.
BeatWrittenArmsTimeout ==
  /\ conn = "up" /\ beat = "writing" /\ linkUp
  /\ beat' = "waiting" /\ timer' = DeviceTimeout
  /\ sinceSend' = 0 /\ silence' = 0
  /\ UNCHANGED <<conn, linkUp>>

\* The write is made, in at most MaxWrite ticks; the timer is armed again.
BeatWritten ==
  /\ conn = "up" /\ beat = "writing" /\ linkUp
  /\ beat' = "waiting" /\ timer' = Interval
  /\ sinceSend' = 0 /\ silence' = 0
  /\ UNCHANGED <<conn, linkUp>>

\* Mutated: the time of the last send is set before the write is made.
BeatFailsStamped ==
  /\ conn = "up" /\ beat = "writing" /\ (~linkUp \/ WritesFail)
  /\ beat' = "waiting" /\ timer' = Interval
  /\ sinceSend' = 0
  /\ UNCHANGED <<conn, silence, linkUp>>

\* The write fails or its future times out: logged, and the timer armed again.
BeatFails ==
  /\ conn = "up" /\ beat = "writing" /\ (~linkUp \/ WritesFail)
  /\ beat' = "waiting" /\ timer' = Interval
  /\ UNCHANGED <<conn, sinceSend, silence, linkUp>>

\* A request of the user.
UserSend ==
  /\ conn = "up" /\ linkUp
  /\ sinceSend' = 0 /\ silence' = 0
  /\ UNCHANGED <<conn, beat, timer, linkUp>>

\* disconnect() cancels the timer.
Disconnect ==
  /\ conn = "up"
  /\ conn' = "down" /\ linkUp' = FALSE
  /\ beat' = "waiting" /\ timer' = 0
  /\ UNCHANGED <<sinceSend, silence>>

\* The device gives up on a host it no longer hears.
DeviceDrops ==
  /\ linkUp /\ silence >= DeviceTimeout
  /\ linkUp' = FALSE
  /\ UNCHANGED <<conn, beat, timer, sinceSend, silence>>

\* One tick of time. Nothing that is due waits for it.
Pass ==
  /\ conn # "down" /\ timer > 0
  /\ conn = "up" => sinceSend < Horizon
  /\ linkUp => silence < DeviceTimeout
  /\ timer' = timer - 1
  /\ sinceSend' = IF conn = "up" THEN sinceSend + 1 ELSE sinceSend
  /\ silence' = IF linkUp THEN silence + 1 ELSE silence
  /\ UNCHANGED <<conn, beat, linkUp>>

Next ==
  \/ Connect \/ Established \/ TickSkips \/ TickSends \/ BeatWritten
  \/ BeatFails \/ UserSend \/ Disconnect \/ DeviceDrops \/ Pass

Spec == Init /\ [][Next]_vars

-----------------------------------------------------------------------------
\* Every variable keeps its type, and no timer is armed for longer than one of
\* the three times the connection waits.
TypeOK ==
  /\ conn \in {"down", "settling", "up"}
  /\ beat \in {"waiting", "writing"}
  /\ timer \in 0..Interval \cup 0..PostConnectDelay \cup 0..MaxWrite
  /\ sinceSend \in Nat /\ silence \in Nat
  /\ linkUp \in BOOLEAN

\* Because a tick that finds a recent send waits a whole Interval more, the
\* last send can be almost two intervals old, but never older while the link
\* is up and heartbeats go out.
IdleBound ==
  conn = "up" /\ linkUp => sinceSend <= 2 * Interval - 1 + MaxWrite

\* Only silence costs the link: when the device has dropped it, the host's own
\* last send is at least the device's timeout, less the delay, in the past,
\* whatever became of the heartbeats. So polling faster than that "naturally
\* keeps the BLE connection alive" (streaming.py:39).
PollingKeepsAlive ==
  conn = "up" /\ ~linkUp => sinceSend + PostConnectDelay >= DeviceTimeout

\* "Background timer sends heartbeat every 2s to prevent device disconnect"
\* (CHANGELOG.md:14): while the host is connected, the device keeps the link.
StaysUp == conn = "up" => linkUp
=============================================================================
