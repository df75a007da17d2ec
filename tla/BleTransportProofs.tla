------------------------- MODULE BleTransportProofs -------------------------
(***************************************************************************)
(* BluetoothConnection for any number of connects and timers, as long as   *)
(* no connect() begins while another thread is inside disconnect(). The    *)
(* invariant says what each stage of a disconnect() may rely on: from the  *)
(* join on, the loop it has stopped is the only one there is, and with it  *)
(* the only thread that writes the fields back.                            *)
(***************************************************************************)
EXTENDS BleTransport, FiniteSetTheorems, TLAPS

\* A caller past the join resets the fields of a loop that has ended.
StageOK(c) ==
  /\ pc[c] = "wait" => loop \in {0, on[c]} /\ on[c] # 0
  /\ pc[c] = "reset" => loop = 0 \/ loops[loop] = "stopped"

Stages ==
  /\ pc["app"] = "fresh" => loop = 0
  /\ \A c \in Callers : StageOK(c)

Inv ==
  /\ TypeOK /\ OneLoop /\ BytesOfThisLink /\ ClosedIsClosed /\ Stages

Pending(g) == Alive(g) /\ co[g] \in {"scan", "dial", "subscribe", "delay"}
AppClosed == pc["app"] \in (Closing \ {"cancel"}) \cup {"fresh"}

\* While no disconnect() has come at a bad time: the one live timer is the one
\* the field names, and a connect coroutine, or a closed transport, has none.
Chain ==
  ~missed =>
    /\ Live \subseteq {timer}
    /\ AppClosed => Live = {} /\ \A g \in Loops : ~Pending(g)
    /\ (\E g \in Loops : Pending(g)) => Live = {}

-----------------------------------------------------------------------------
\* Loops are numbered from one.
LEMMA LoopsFacts == Loops \subseteq Nat \ {0} /\ Loops \subseteq 0..MaxLoops
BY BleAssumption DEF Loops

\* The invariant holds at first.
LEMMA InvInit == Init => Inv
<1> SUFFICES ASSUME Init PROVE Inv
  OBVIOUS
<1>1. connected \in BOOLEAN /\ missed \in BOOLEAN
      /\ link \in [Loops -> BOOLEAN]
  BY Zenon DEF Init
<1>2. buffer = {} /\ \A g \in Loops : ~Alive(g)
  BY DEF Init, Alive
<1> QED
  BY <1>1, <1>2, BleAssumption
  DEF Init, Inv, TypeOK, OneLoop, BytesOfThisLink, ClosedIsClosed, Stages,
      StageOK, Callers, Closing

\* Steps of the keep-alive threads disturb nothing but their own variables.
LEMMA BeatKeeps ==
  ASSUME Inv, UNCHANGED <<loop, client, connected, buffer, bleVars, callVars,
                          missed>>,
         timer' \in Timers \cup {"none"},
         beat' \in [Timers -> {"none", "armed", "writing", "rearm"}],
         beatOn' \in [Timers -> 0..MaxLoops]
  PROVE  Inv'
BY DEF Inv, TypeOK, OneLoop, BytesOfThisLink, ClosedIsClosed, Stages, StageOK,
   Alive, bleVars, callVars

\* Without overlapping connects every step keeps the invariant.
LEMMA InvNext == ~Overlap /\ Inv /\ [Next]_vars => Inv'
<1> SUFFICES ASSUME ~Overlap, Inv, [Next]_vars PROVE Inv'
  OBVIOUS
<1> USE LoopsFacts, BleAssumption
    DEF Inv, TypeOK, OneLoop, BytesOfThisLink, ClosedIsClosed, Stages,
        StageOK, Callers, Closing, Alive, fields, bleVars, beatVars, callVars,
        Goto, Await, Leave
<1>1. ASSUME NEW g \in Loops, Connect(g) PROVE Inv'
  BY <1>1 DEF Connect
<1>2. ASSUME NEW g \in Loops, ScanFinds(g) PROVE Inv'
  BY <1>2 DEF ScanFinds
<1>3. ASSUME NEW g \in Loops, Dialed(g) PROVE Inv'
  BY <1>3 DEF Dialed
<1>4. ASSUME NEW g \in Loops, Subscribed(g) \/ ConnectFails(g) PROVE Inv'
  BY <1>4 DEF Subscribed, ConnectFails
<1>5. ASSUME NEW g \in Loops, Established(g) PROVE Inv'
  <2>1. \E i \in Timers : i \notin Live
    BY <1>5 DEF Established, Live
  <2>2. timer' \in Timers
    BY <1>5, <2>1 DEF Established
  <2>3. beat' \in [Timers -> {"none", "armed", "writing", "rearm"}]
    BY <1>5 DEF Established
  <2>4. /\ UNCHANGED <<loop, client, buffer, loops, link, beatOn, pc, on,
                       missed>>
        /\ connected' = TRUE /\ loop = g
        /\ co' = [co EXCEPT ![g] = "done"]
    BY <1>5 DEF Established
  <2> QED
    BY <2>2, <2>3, <2>4
<1>6. ASSUME NEW g \in Loops, Notify(g) PROVE Inv'
  BY <1>6 DEF Notify
<1>7. ASSUME NEW g \in Loops, LinkDrops(g) PROVE Inv'
  BY <1>7 DEF LinkDrops
<1>8. ASSUME NEW g \in Loops, LoopEnds(g) PROVE Inv'
  BY <1>8 DEF LoopEnds
<1>9. CASE Call \/ Awaiting
  <2>1. /\ UNCHANGED <<loop, client, connected, timer, loops, co, link, beat,
                        beatOn, missed>>
        /\ buffer' \in {buffer, {}}
    BY <1>9 DEF Call, Awaiting, Connected, ConnectTimesOut, Returned,
        CallTimesOut
  <2>2. \E l \in {"idle", "call"} : pc' = [pc EXCEPT !["app"] = l]
    BY <1>9 DEF Call, Awaiting, Connected, ConnectTimesOut, Returned,
        CallTimesOut
  <2>3. on' \in [Callers -> 0..MaxLoops]
    BY <1>9 DEF Call, Awaiting, Connected, ConnectTimesOut, Returned,
        CallTimesOut
  <2>4. on'["user"] = on["user"]
    BY <1>9 DEF Call, Awaiting, Connected, ConnectTimesOut, Returned,
        CallTimesOut
  <2> QED
    BY <2>1, <2>2, <2>3, <2>4
<1>10. ASSUME NEW c \in Callers, StartDisconnect(c) \/ CancelTimer(c)
       PROVE  Inv'
  <2>1. /\ UNCHANGED <<loop, client, connected, buffer, loops, co, link,
                        beatOn, on>>
        /\ timer' \in {timer, "none"}
    BY <1>10 DEF StartDisconnect, CancelTimer
  <2>2. \E l \in {"cancel", "close"} : pc' = [pc EXCEPT ![c] = l]
    BY <1>10 DEF StartDisconnect, CancelTimer
  <2>3. beat' \in [Timers -> {"none", "armed", "writing", "rearm"}]
    BY <1>10 DEF StartDisconnect, CancelTimer
  <2>4. missed' \in BOOLEAN
    BY <1>10, Zenon DEF StartDisconnect, CancelTimer, Arming, Live
  <2> QED
    BY <2>1, <2>2, <2>3, <2>4
<1>11. ASSUME NEW c \in Callers, CloseClient(c) PROVE Inv'
  BY <1>11 DEF CloseClient, ThenStop
<1>12. ASSUME NEW c \in Callers, Closed(c) PROVE Inv'
  <2>1. link' \in [Loops -> BOOLEAN]
    BY <1>12 DEF Closed
  <2>2. /\ UNCHANGED <<fields, loops, co, beatVars, missed>>
        /\ Goto(c, ThenStop) /\ on' = [on EXCEPT ![c] = 0]
    BY <1>12 DEF Closed
  <2> QED
    BY <2>1, <2>2 DEF ThenStop
<1>13. ASSUME NEW c \in Callers, CloseFails(c) PROVE Inv'
  BY <1>13 DEF CloseFails, ThenStop
<1>14. ASSUME NEW c \in Callers, StopLoop(c) PROVE Inv'
  BY <1>14 DEF StopLoop
<1>15. ASSUME NEW c \in Callers,
              SeeThread(c) \/ Join(c) \/ Joined(c) \/ Raises(c)
       PROVE  Inv'
  <2>1. CASE SeeThread(c)
    BY <2>1 DEF SeeThread
  <2>2. CASE Join(c)
    BY <2>2 DEF Join
  <2>3. CASE Joined(c)
    BY <2>3 DEF Joined
  <2>4. CASE Raises(c)
    BY <2>4 DEF Raises
  <2> QED
    BY <1>15, <2>1, <2>2, <2>3, <2>4
<1>16. ASSUME NEW c \in Callers, Reset(c) PROVE Inv'
  <2>1. \A g \in Loops : ~Alive(g)
    BY <1>16 DEF Reset
  <2>2. /\ loop' = 0 /\ client' = 0 /\ connected' = FALSE /\ buffer' = {}
        /\ UNCHANGED <<timer, loops, co, link, beat, beatOn, on, missed>>
    BY <1>16 DEF Reset
  <2>3. \E l \in {"fresh", "idle"} : pc' = [pc EXCEPT ![c] = l]
    BY <1>16 DEF Reset
  <2>4. connected' \in BOOLEAN
    BY <2>2, Zenon
  <2> QED
    BY <2>1, <2>2, <2>3, <2>4
<1>17. ASSUME NEW i \in Timers, Beating(i) PROVE Inv'
  <2>1. /\ UNCHANGED <<loop, client, connected, buffer, bleVars, callVars,
                        missed>>
        /\ timer' \in Timers \cup {"none"}
    BY <1>17 DEF Beating, TickEnds, TickSkips, TickSends, BeatWritten,
        BeatFails, Rearm
  <2>2. \E l \in {"none", "armed", "writing", "rearm"} :
          beat' = [beat EXCEPT ![i] = l]
    BY <1>17 DEF Beating, TickEnds, TickSkips, TickSends, BeatWritten,
        BeatFails, Rearm
  <2>3. beatOn' \in [Timers -> 0..MaxLoops]
    BY <1>17 DEF Beating, TickEnds, TickSkips, TickSends, BeatWritten,
        BeatFails, Rearm
  <2> QED
    BY <2>1, <2>2, <2>3, BeatKeeps
<1>18. CASE UNCHANGED vars
  BY <1>18 DEF vars
<1> QED
  BY <1>1, <1>2, <1>3, <1>4, <1>5, <1>6, <1>7, <1>8, <1>9, <1>10, <1>11,
     <1>12, <1>13, <1>14, <1>15, <1>16, <1>17, <1>18
  DEF Next, Loop, Disconnecting
-----------------------------------------------------------------------------
\* Steps of the keep-alive threads keep the chain.
LEMMA BeatChain ==
  ASSUME Inv, Chain, NEW i \in Timers, Beating(i)
  PROVE  Chain'
<1> USE DEF Beating, TickEnds, TickSkips, TickSends, BeatWritten, BeatFails,
        Rearm
<1>1. UNCHANGED <<loops, co, pc, missed>> /\ i \in Live
  BY DEF bleVars, callVars, Live
<1>2. beat \in [Timers -> {"none", "armed", "writing", "rearm"}]
  BY DEF Inv, TypeOK
<1>3. Live' \subseteq Live /\ timer' \in {timer, i}
  BY <1>1, <1>2 DEF Live, fields
<1>4. \A g \in Loops : Pending(g)' = Pending(g)
  BY <1>1 DEF Pending, Alive
<1>5. AppClosed' = AppClosed
  BY <1>1 DEF AppClosed
<1>6. ~missed => Live' \subseteq {timer'}
  BY <1>1, <1>3 DEF Chain
<1> QED
  BY <1>1, <1>3, <1>4, <1>5, <1>6 DEF Chain

\* Steps that leave timers alone, begin no coroutine and close nothing.
LEMMA OthersChain ==
  ASSUME Inv, Chain, UNCHANGED <<timer, beat, missed>>,
         \A g \in Loops : Pending(g)' => Pending(g),
         AppClosed' => AppClosed
  PROVE  Chain'
BY DEF Chain, Live

\* Every step keeps the one chain of timers.
LEMMA ChainNext == ~Overlap /\ Inv /\ Chain /\ [Next]_vars => Chain'
<1> SUFFICES ASSUME ~Overlap, Inv, Chain, [Next]_vars PROVE Chain'
  OBVIOUS
<1> USE DEF fields, bleVars, beatVars, callVars, Goto, Await, Leave
<1>a. pc \in [Callers -> Closing \cup {"fresh", "idle", "dial", "call"}]
      /\ beat \in [Timers -> {"none", "armed", "writing", "rearm"}]
      /\ co \in [Loops -> {"none", "scan", "dial", "subscribe", "delay",
                           "done", "failed", "lost"}]
      /\ loops \in [Loops -> {"new", "running", "stopping", "stopped"}]
  BY DEF Inv, TypeOK
<1>1. ASSUME NEW g \in Loops, Connect(g) PROVE Chain'
  <2>1. ~missed => Live = {}
    BY <1>1 DEF Connect, Chain, AppClosed
  <2>2. ~AppClosed'
    BY <1>1, <1>a DEF Connect, AppClosed, Closing, Callers
  <2> QED
    BY <1>1, <2>1, <2>2 DEF Connect, Chain, Live
<1>2. ASSUME NEW g \in Loops,
             \/ ScanFinds(g) \/ Dialed(g) \/ Subscribed(g) \/ ConnectFails(g)
             \/ LoopEnds(g) \/ Notify(g) \/ LinkDrops(g)
      PROVE  Chain'
  <2>1. UNCHANGED <<timer, beat, missed, pc>>
    BY <1>2 DEF ScanFinds, Dialed, Subscribed, ConnectFails, LoopEnds, Notify,
        LinkDrops
  <2>2. \A h \in Loops : Pending(h)' => Pending(h)
    BY <1>2, <1>a DEF ScanFinds, Dialed, Subscribed, ConnectFails, LoopEnds,
        Notify, LinkDrops, Pending, Alive
  <2> QED
    BY <2>1, <2>2, OthersChain DEF AppClosed
<1>3. ASSUME NEW g \in Loops, Established(g) PROVE Chain'
  <2>1. Pending(g) /\ missed' = missed /\ pc' = pc /\ loops' = loops
    BY <1>3 DEF Established, Pending
  <2>2. ~missed => Live = {} /\ ~AppClosed
    BY <2>1 DEF Chain
  <2>3. \A h \in Loops : Pending(h) => h = g
    BY <2>1 DEF Inv, OneLoop, Pending
  <2>4. \A h \in Loops : ~Pending(h)'
    BY <1>3, <1>a, <2>1, <2>3 DEF Established, Pending, Alive
  <2>5. Live' \subseteq Live \cup {timer'}
    BY <1>3, <1>a DEF Established, Live
  <2> QED
    BY <2>1, <2>2, <2>4, <2>5 DEF Chain, AppClosed
<1>4. CASE Call \/ Awaiting
  <2>1. UNCHANGED <<timer, beat, missed, loops, co>> /\ ~AppClosed'
    BY <1>4, <1>a DEF Call, Awaiting, Connected, ConnectTimesOut, Returned,
        CallTimesOut, AppClosed, Closing, Callers
  <2> QED
    BY <2>1, OthersChain DEF Pending, Alive
<1>9. ASSUME NEW c \in Callers, StartDisconnect(c) PROVE Chain'
  <2>1. CASE missed'
    BY <2>1 DEF Chain
  <2>2. CASE timer # "none"
    <3>1. UNCHANGED <<timer, beat, missed, loops, co>>
      <4>1. missed \in BOOLEAN
        BY DEF Inv, TypeOK
      <4>2. missed' = missed
        BY <1>9, <2>2, <4>1, Zenon DEF StartDisconnect
      <4> QED
        BY <1>9, <4>2 DEF StartDisconnect
    <3>2. AppClosed' => AppClosed
      BY <1>9, <1>a, <2>2 DEF StartDisconnect, AppClosed, Closing, Callers
    <3> QED
      BY <3>1, <3>2, OthersChain DEF Pending, Alive
  <2>3. CASE ~missed' /\ timer = "none"
    <3>1. UNCHANGED <<timer, beat, loops, co>> /\ ~missed /\ ~Arming
      <4>1. UNCHANGED <<timer, beat, loops, co>>
        BY <1>9 DEF StartDisconnect
      <4>2. missed' = (missed \/ (timer = "none" /\ Arming))
        BY <1>9 DEF StartDisconnect
      <4> QED
        BY <2>3, <4>1, <4>2
    <3>2. Live = {}
      BY <2>3, <3>1, BleAssumption DEF Chain, Live
    <3>3. \A g \in Loops : ~Pending(g)'
      BY <3>1 DEF Arming, Pending, Alive
    <3> QED
      BY <3>1, <3>2, <3>3 DEF Chain, Live
  <2> QED
    BY <2>1, <2>2, <2>3
<1>5. ASSUME NEW c \in Callers, CancelTimer(c) PROVE Chain'
  <2>1. CASE missed'
    BY <2>1 DEF Chain
  <2>2. CASE ~missed'
    <3>1. ~missed /\ ~Arming
      BY <1>5, <2>2 DEF CancelTimer
    <3>2. \A i \in Live : beat[i] = "armed" /\ i = timer
      BY <3>1 DEF Arming, Chain
    <3>3. Live' = {}
      <4>1. Live # {} => timer \in Live /\ timer # "none"
        BY <3>2, BleAssumption DEF Live
      <4>2. CASE Live = {}
        BY <1>5, <1>a, <4>2, BleAssumption DEF CancelTimer, Live
      <4>3. CASE Live # {}
        BY <1>5, <1>a, <3>2, <4>1, <4>3 DEF CancelTimer, Live
      <4> QED
        BY <4>2, <4>3
    <3>4. \A g \in Loops : ~Pending(g)'
      BY <1>5, <3>1 DEF CancelTimer, Arming, Pending, Alive
    <3> QED
      BY <3>3, <3>4 DEF Chain
  <2> QED
    BY <2>1, <2>2
<1>6. ASSUME NEW c \in Callers, Disconnecting(c), ~CancelTimer(c)
      PROVE  Chain'
  <2> USE DEF Disconnecting, CloseClient, Closed, CloseFails, ThenStop,
          StopLoop, SeeThread, Join, Joined, Reset, Raises
  <2>1. UNCHANGED <<timer, beat, missed, co>>
    BY <1>6
  <2>2. AppClosed' => AppClosed
    BY <1>6, <1>a DEF AppClosed, Closing, Callers
  <2>3. \A g \in Loops : Alive(g)' => Alive(g)
    BY <1>6, <1>a DEF Alive
  <2>4. \A g \in Loops : Pending(g)' => Pending(g)
    BY <2>1, <2>3 DEF Pending
  <2> QED
    BY <2>1, <2>2, <2>4, OthersChain
<1>7. ASSUME NEW i \in Timers, Beating(i) PROVE Chain'
  BY <1>7, BeatChain
<1>8. CASE UNCHANGED vars
  BY <1>8, OthersChain DEF vars, Pending, Alive, AppClosed
<1> QED
  BY <1>1, <1>2, <1>3, <1>4, <1>5, <1>6, <1>7, <1>8, <1>9 DEF Next, Loop

-----------------------------------------------------------------------------
\* Every variable keeps its type however often the transport is opened, and
\* _client is always the client of _loop, or None (bluetooth.py:95-237).
THEOREM TypeCorrect == ASSUME ~Overlap PROVE Spec => []TypeOK
<1>1. Inv => TypeOK
  BY DEF Inv
<1> QED
  BY <1>1, InvInit, InvNext, PTL DEF Spec

\* disconnect() leaves no loop running, after any connect(), one that failed or
\* timed out included, as long as the calls do not overlap
\* (bluetooth.py:106, 228-235).
THEOREM NoLoopLeft == ASSUME ~Overlap PROVE Spec => []OneLoop
<1>1. Inv => OneLoop
  BY DEF Inv
<1> QED
  BY <1>1, InvInit, InvNext, PTL DEF Spec

\* No byte of an earlier link is ever in the receive buffer (bluetooth.py:237).
THEOREM NoOldBytes == ASSUME ~Overlap PROVE Spec => []BytesOfThisLink
<1>1. Inv => BytesOfThisLink
  BY DEF Inv
<1> QED
  BY <1>1, InvInit, InvNext, PTL DEF Spec

\* After disconnect() the flag, the client and the buffer stay reset until the
\* next connect(), whatever was under way on the loop (bluetooth.py:228-237).
THEOREM StaysReset == ASSUME ~Overlap PROVE Spec => []ClosedIsClosed
<1>1. Inv => ClosedIsClosed
  BY DEF Inv
<1> QED
  BY <1>1, InvInit, InvNext, PTL DEF Spec

\* As long as no disconnect() comes while a tick or a connect coroutine runs,
\* there is at most one keep-alive thread, over any number of reconnects
\* (bluetooth.py:181-213).
THEOREM OneKeepAlive == ASSUME ~Overlap PROVE Spec => []OneChain
<1>1. Init => Chain
  <2> SUFFICES ASSUME Init PROVE Chain
    OBVIOUS
  <2>1. Live = {} /\ \A g \in Loops : ~Alive(g)
    BY DEF Init, Live, Alive
  <2> QED
    BY <2>1 DEF Chain, Pending
<1>2. Chain => OneChain
  <2> SUFFICES ASSUME Chain, ~missed PROVE Cardinality(Live) <= 1
    BY DEF OneChain
  <2>1. CASE Live = {}
    BY <2>1, FS_EmptySet
  <2>2. CASE Live # {}
    <3>1. Live = {timer}
      BY <2>2 DEF Chain
    <3> QED
      BY <3>1, FS_Singleton
  <2> QED
    BY <2>1, <2>2
<1> QED
  BY <1>1, <1>2, InvInit, InvNext, ChainNext, PTL DEF Spec
=============================================================================
