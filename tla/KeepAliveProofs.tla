-------------------------- MODULE KeepAliveProofs --------------------------
(***************************************************************************)
(* The bound on the age of the last send, and that only the host's own     *)
(* silence costs the link, for every value of the constants.               *)
(***************************************************************************)
EXTENDS KeepAlive, TLAPS

\* While the timer runs, the age of the last send when it fires is less than
\* two intervals; a heartbeat's write adds at most MaxWrite.
AgeAtTimer ==
  conn = "up" /\ linkUp =>
    /\ beat = "waiting" => sinceSend + timer <= 2 * Interval - 1
    /\ beat = "writing" => sinceSend + timer <= 2 * Interval - 1 + MaxWrite

Inv == TypeOK /\ AgeAtTimer

-----------------------------------------------------------------------------
\* The types at first.
LEMMA TypeInit == Init => TypeOK
<1> SUFFICES ASSUME Init PROVE TypeOK
  OBVIOUS
<1>1. linkUp \in BOOLEAN
  BY Zenon DEF Init
<1>2. /\ timer \in 0..Interval \cup 0..PostConnectDelay \cup 0..MaxWrite
      /\ sinceSend \in Nat /\ silence \in Nat
  BY KeepAliveAssumption DEF Init
<1> QED
  BY <1>1, <1>2, Zenon DEF Init, TypeOK

\* Every step keeps the types.
LEMMA TypeNext == TypeOK /\ [Next]_vars => TypeOK'
<1> SUFFICES ASSUME TypeOK, [Next]_vars PROVE TypeOK'
  OBVIOUS
<1>1. linkUp' \in BOOLEAN
  BY Zenon
  DEF TypeOK, Next, vars, Connect, Established, TickSkips, TickSends,
      BeatWritten, BeatFails, UserSend, Disconnect, DeviceDrops, Pass
<1>2. /\ timer' \in 0..Interval \cup 0..PostConnectDelay \cup 0..MaxWrite
      /\ sinceSend' \in Nat /\ silence' \in Nat
  BY KeepAliveAssumption
  DEF TypeOK, Next, vars, Connect, Established, TickSkips, TickSends,
      BeatWritten, BeatFails, UserSend, Disconnect, DeviceDrops, Pass
<1>3. /\ conn' \in {"down", "settling", "up"}
      /\ beat' \in {"waiting", "writing"}
  BY DEF TypeOK, Next, vars, Connect, Established, TickSkips, TickSends,
         BeatWritten, BeatFails, UserSend, Disconnect, DeviceDrops, Pass
<1> QED
  BY <1>1, <1>2, <1>3 DEF TypeOK

\* Every variable keeps its type, and no timer is armed for too long.
THEOREM TypeCorrect == Spec => []TypeOK
BY TypeInit, TypeNext, PTL DEF Spec

\* Every step keeps timer and last send related.
LEMMA AgeNext ==
  ASSUME ~WritesFail, Inv, [Next]_vars PROVE AgeAtTimer'
<1> USE KeepAliveAssumption DEF Inv, TypeOK, AgeAtTimer
<1>1. CASE Connect
  BY <1>1 DEF Connect
<1>2. CASE Established
  BY <1>2 DEF Established
<1>3. CASE TickSkips
  BY <1>3 DEF TickSkips, TickDue, NeedsKeepalive
<1>4. CASE TickSends
  BY <1>4 DEF TickSends, TickDue
<1>5. CASE BeatWritten
  BY <1>5 DEF BeatWritten
<1>6. CASE BeatFails
  BY <1>6 DEF BeatFails
<1>7. CASE UserSend
  BY <1>7 DEF UserSend
<1>8. CASE Disconnect
  BY <1>8 DEF Disconnect
<1>9. CASE DeviceDrops
  BY <1>9 DEF DeviceDrops
<1>10. CASE Pass
  BY <1>10 DEF Pass
<1>11. CASE UNCHANGED vars
  BY <1>11 DEF vars
<1> QED
  BY <1>1, <1>2, <1>3, <1>4, <1>5, <1>6, <1>7, <1>8, <1>9, <1>10, <1>11
  DEF Next

\* As long as no heartbeat fails, the last send is never two intervals (and a
\* write) old on a link that is up.
THEOREM IdleBounded == ASSUME ~WritesFail PROVE Spec => []IdleBound
<1>1. Init => Inv
  BY TypeInit DEF Init, Inv, AgeAtTimer
<1>2. Inv /\ [Next]_vars => Inv'
  BY AgeNext, TypeNext DEF Inv
<1>3. Inv => IdleBound
  BY KeepAliveAssumption DEF Inv, TypeOK, AgeAtTimer, IdleBound
<1> QED
  BY <1>1, <1>2, <1>3, PTL DEF Spec

-----------------------------------------------------------------------------
\* The device has heard nothing for as long as the host has sent nothing, plus
\* at most the delay after connect.
HeardInv ==
  /\ conn = "settling" => linkUp /\ silence + timer = PostConnectDelay
  /\ conn = "up" /\ linkUp => silence <= sinceSend + PostConnectDelay
  /\ PollingKeepsAlive

\* Every step keeps the device's silence behind the host's.
LEMMA HeardNext ==
  ASSUME PostConnectDelay < DeviceTimeout, TypeOK, HeardInv, [Next]_vars
  PROVE  HeardInv'
<1> USE KeepAliveAssumption DEF TypeOK, HeardInv, PollingKeepsAlive
<1>1. CASE Connect
  BY <1>1 DEF Connect
<1>2. CASE Established
  BY <1>2 DEF Established
<1>3. CASE TickSkips \/ TickSends \/ BeatWritten \/ BeatFails \/ UserSend
  BY <1>3
  DEF TickSkips, TickSends, TickDue, BeatWritten, BeatFails, UserSend
<1>4. CASE Disconnect
  BY <1>4 DEF Disconnect
<1>5. CASE DeviceDrops
  BY <1>5 DEF DeviceDrops
<1>6. CASE Pass
  BY <1>6 DEF Pass
<1>7. CASE UNCHANGED vars
  BY <1>7 DEF vars
<1> QED
  BY <1>1, <1>2, <1>3, <1>4, <1>5, <1>6, <1>7 DEF Next

\* If the device outlasts the delay after connect, requests closer together
\* than its timeout less that delay keep the link, even without a heartbeat.
THEOREM PollingSuffices ==
  ASSUME PostConnectDelay < DeviceTimeout PROVE Spec => []PollingKeepsAlive
<1>1. Init => HeardInv
  BY DEF Init, HeardInv, PollingKeepsAlive
<1>2. TypeOK /\ HeardInv /\ [Next]_vars => HeardInv'
  BY HeardNext
<1>3. HeardInv => PollingKeepsAlive
  BY DEF HeardInv
<1> QED
  BY <1>1, <1>2, <1>3, TypeCorrect, PTL DEF Spec
=============================================================================
