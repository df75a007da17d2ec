---------------------------- MODULE BleTransport ----------------------------
(***************************************************************************)
(* The threads of BluetoothConnection: each connect() makes an event loop  *)
(* on a thread of its own and runs the connect coroutine there, callers    *)
(* hand the loop their calls and wait for the futures, keep-alive timers   *)
(* run on threads of theirs, and disconnect() stops the loop and resets    *)
(* the fields. Nothing in the class holds a lock. "app" is the thread with *)
(* the client's lock: it connects, makes calls and reconnects. "user" may  *)
(* call disconnect() at any time, as AccuRad.disconnect does, lock or not. *)
(*                                                                         *)
(* Loops are numbered; loop g carries the g-th connect coroutine and the   *)
(* g-th BleakClient. A timeout of a future may come at any time. A stopped *)
(* loop ends within the five seconds of the join. _loop and _thread are    *)
(* set and reset together and are one variable.                            *)
(***************************************************************************)
EXTENDS Naturals, FiniteSets

CONSTANTS
  MaxLoops,  \* bound: connect() is called so often
  Timers,    \* bound: the keep-alive timers alive at the same time
  Overlap    \* may a connect() begin while a disconnect() is under way?

ASSUME BleAssumption ==
  /\ MaxLoops \in Nat
  /\ IsFiniteSet(Timers) /\ "none" \notin Timers
  /\ Overlap \in BOOLEAN

VARIABLES
  loop,       \* _loop (and _thread): its number, 0 for None
  client,     \* _client: the number of its loop, 0 for None
  connected,  \* _connected
  timer,      \* _keepalive_timer, or "none"
  buffer,     \* _rx_buffer: the links its bytes came over
  loops,      \* the loop threads: "new", "running", "stopping" or "stopped"
  co,         \* how far each _async_connect is
  link,       \* does the BleakClient get notifications?
  beat,       \* the keep-alive threads
  beatOn,     \* the loop such a thread has handed its heartbeat to
  pc,         \* where the callers are
  on,         \* the loop a caller waits for
  missed      \* ghost: disconnect() came while a tick or a connect was running

fields == <<loop, client, connected, timer, buffer>>
bleVars == <<loops, co, link>>
beatVars == <<beat, beatOn>>
callVars == <<pc, on>>
vars == <<fields, bleVars, beatVars, callVars, missed>>

Callers == {"app", "user"}
Loops == 1..MaxLoops
Closing ==
  {"cancel", "close", "closing", "stop", "thread", "join", "wait", "reset"}
Alive(g) == loops[g] \in {"running", "stopping"}
Live == {i \in Timers : beat[i] # "none"}

Init ==
  /\ loop = 0 /\ client = 0 /\ connected = FALSE /\ timer = "none"
  /\ buffer = {}
  /\ loops = [g \in Loops |-> "new"]
  /\ co = [g \in Loops |-> "none"]
  /\ link = [g \in Loops |-> FALSE]
  /\ beat = [i \in Timers |-> "none"] /\ beatOn = [i \in Timers |-> 0]
  /\ pc = [c \in Callers |-> IF c = "app" THEN "fresh" ELSE "idle"]
  /\ on = [c \in Callers |-> 0]
  /\ missed = FALSE

Goto(c, l) == pc' = [pc EXCEPT ![c] = l]
Await(c, l, g) == Goto(c, l) /\ on' = [on EXCEPT ![c] = g]
Leave(c, l) == Goto(c, l) /\ on' = [on EXCEPT ![c] = 0]

-----------------------------------------------------------------------------
\* connect(): a new loop on a new thread, and the coroutine on it. The client
\* does so once, and again only after a disconnect().
Connect(g) ==
  /\ pc["app"] = "fresh" /\ (pc["user"] \in Closing => Overlap)
  /\ loops[g] = "new" /\ \A h \in 1..(g - 1) : loops[h] # "new"
  /\ loop' = g
  /\ loops' = [loops EXCEPT ![g] = "running"]
  /\ co' = [co EXCEPT ![g] = "scan"]
  /\ Await("app", "dial", g)
  /\ UNCHANGED <<client, connected, timer, buffer, link, beatVars, missed>>

\* The coroutine has ended: connect() returns, or raises what it raised.
Connected ==
  /\ pc["app"] = "dial" /\ co[on["app"]] \in {"done", "failed"}
  /\ Leave("app", "idle")
  /\ UNCHANGED <<fields, bleVars, beatVars, missed>>

\* Mutated: the future of connect() is awaited without a timeout.
ConnectWaits == Connected

\* future.result(timeout) raises; the coroutine goes on.
ConnectTimesOut ==
  /\ pc["app"] = "dial"
  /\ Leave("app", "idle")
  /\ UNCHANGED <<fields, bleVars, beatVars, missed>>

\* _async_connect, from await to await.
ScanFinds(g) ==
  /\ Alive(g) /\ co[g] = "scan"
  /\ co' = [co EXCEPT ![g] = "dial"]
  /\ client' = g
  /\ UNCHANGED <<loop, connected, timer, buffer, loops, link, beatVars,
                 callVars, missed>>

Dialed(g) ==
  /\ Alive(g) /\ co[g] = "dial"
  /\ co' = [co EXCEPT ![g] = "subscribe"]
  /\ link' = [link EXCEPT ![g] = TRUE]
  /\ UNCHANGED <<fields, loops, beatVars, callVars, missed>>

\* "await self._client.start_notify(...)" reads the field again.
Subscribed(g) ==
  /\ Alive(g) /\ co[g] = "subscribe" /\ client = g
  /\ co' = [co EXCEPT ![g] = "delay"]
  /\ UNCHANGED <<fields, loops, link, beatVars, callVars, missed>>

\* The scan, the dial or the subscription fails; nothing is cleaned up.
ConnectFails(g) ==
  /\ Alive(g) /\ co[g] \in {"scan", "dial", "subscribe"}
  /\ co' = [co EXCEPT ![g] = "failed"]
  /\ UNCHANGED <<fields, loops, link, beatVars, callVars, missed>>

\* After the delay: the flag is set, whatever became of the link, and
\* _start_keepalive arms a timer.
Established(g) ==
  /\ Alive(g) /\ co[g] = "delay"
  /\ co' = [co EXCEPT ![g] = "done"]
  /\ connected' = TRUE
  /\ Live # Timers
  /\ timer' = CHOOSE i \in Timers : i \notin Live
  /\ beat' = [beat EXCEPT ![timer'] = "armed"]
  /\ UNCHANGED <<loop, client, buffer, loops, link, beatOn, callVars, missed>>

\* _notification_handler.
Notify(g) ==
  /\ Alive(g) /\ link[g] /\ co[g] \in {"delay", "done"}
  /\ buffer' = buffer \cup {g}
  /\ UNCHANGED <<loop, client, connected, timer, bleVars, beatVars, callVars,
                 missed>>

\* The device drops the link. The class asks bleak for no callback.
LinkDrops(g) ==
  /\ link[g]
  /\ link' = [link EXCEPT ![g] = FALSE]
  /\ UNCHANGED <<fields, loops, co, beatVars, callVars, missed>>

\* run_forever() returns, at the end of the round that stop() falls into. A
\* coroutine that has not ended never will, and nobody hears the link.
LoopEnds(g) ==
  /\ loops[g] = "stopping"
  /\ loops' = [loops EXCEPT ![g] = "stopped"]
  /\ co' = [co EXCEPT ![g] = IF @ \in {"done", "failed"} THEN @ ELSE "lost"]
  /\ link' = [link EXCEPT ![g] = FALSE]
  /\ UNCHANGED <<fields, beatVars, callVars, missed>>

-----------------------------------------------------------------------------
\* send() and receive() hand the loop a coroutine.
Call ==
  /\ pc["app"] = "idle" /\ connected /\ loop # 0
  /\ Await("app", "call", loop)
  /\ UNCHANGED <<fields, bleVars, beatVars, missed>>

\* It ends; a receive has taken the frame out of the buffer.
Returned ==
  /\ pc["app"] = "call" /\ Alive(on["app"])
  /\ buffer' \in {buffer, {}}
  /\ Leave("app", "idle")
  /\ UNCHANGED <<loop, client, connected, timer, bleVars, beatVars, missed>>

CallTimesOut ==
  /\ pc["app"] = "call"
  /\ Leave("app", "idle")
  /\ UNCHANGED <<fields, bleVars, beatVars, missed>>

-----------------------------------------------------------------------------
\* "user" has the object once the first connect() is under way.
MayDisconnect(c) ==
  pc[c] = "idle" /\ \E g \in Loops : loops[g] # "new"

\* Who may still arm a timer after a cancel().
Arming ==
  \/ \E i \in Live : beat[i] # "armed"
  \/ \E g \in Loops :
       Alive(g) /\ co[g] \in {"scan", "dial", "subscribe", "delay"}

\* disconnect(): _stop_keepalive looks at the timer. Between this test, or one
\* of those below, and the use of the field it is about, another disconnect()
\* may reset the field (Raises).
StartDisconnect(c) ==
  /\ MayDisconnect(c)
  /\ Goto(c, IF timer = "none" THEN "close" ELSE "cancel")
  /\ missed' = (missed \/ (timer = "none" /\ Arming))
  /\ UNCHANGED <<fields, bleVars, beatVars, on>>

\* Mutated: the timer is forgotten, not cancelled.
ForgetTimer(c) ==
  /\ pc[c] = "cancel" /\ timer # "none"
  /\ Goto(c, "close")
  /\ timer' = "none"
  /\ missed' = (missed \/ Arming)
  /\ UNCHANGED <<loop, client, connected, buffer, bleVars, beatVars, on>>

\* A cancelled timer does not fire; a tick that is running goes on.
CancelTimer(c) ==
  /\ pc[c] = "cancel" /\ timer # "none"
  /\ Goto(c, "close")
  /\ beat' = IF beat[timer] = "armed" THEN [beat EXCEPT ![timer] = "none"]
             ELSE beat
  /\ timer' = "none"
  /\ missed' = (missed \/ Arming)
  /\ UNCHANGED <<loop, client, connected, buffer, bleVars, beatOn, on>>

\* Where a disconnect() goes on behind the client: "if self._loop is not None".
ThenStop == IF loop # 0 THEN "stop" ELSE "thread"

\* Mutated: without a client nothing is stopped either.
CloseOnlyWithClient(c) ==
  /\ pc[c] = "close"
  /\ IF loop # 0 /\ client # 0
     THEN Await(c, "closing", loop)
     ELSE Goto(c, "reset") /\ UNCHANGED on
  /\ UNCHANGED <<fields, bleVars, beatVars, missed>>

CloseClient(c) ==
  /\ pc[c] = "close"
  /\ IF loop # 0 /\ client # 0
     THEN Await(c, "closing", loop)
     ELSE Goto(c, ThenStop) /\ UNCHANGED on
  /\ UNCHANGED <<fields, bleVars, beatVars, missed>>

\* "await self._client.disconnect()" is done.
Closed(c) ==
  /\ pc[c] = "closing" /\ Alive(on[c])
  /\ link' = [link EXCEPT ![on[c]] = FALSE]
  /\ Leave(c, ThenStop)
  /\ UNCHANGED <<fields, loops, co, beatVars, missed>>

\* It has not answered in five seconds, or raised: "except Exception: pass".
CloseFails(c) ==
  /\ pc[c] = "closing"
  /\ Leave(c, ThenStop)
  /\ UNCHANGED <<fields, bleVars, beatVars, missed>>

StopLoop(c) ==
  /\ pc[c] = "stop" /\ loop # 0
  /\ loops' = [loops EXCEPT ![loop] = IF @ = "running" THEN "stopping" ELSE @]
  /\ Goto(c, "thread")
  /\ UNCHANGED <<fields, co, link, beatVars, on, missed>>

\* "if self._thread is not None", and its join().
SeeThread(c) ==
  /\ pc[c] = "thread"
  /\ Goto(c, IF loop # 0 THEN "join" ELSE "reset")
  /\ UNCHANGED <<fields, bleVars, beatVars, on, missed>>

Join(c) ==
  /\ pc[c] = "join" /\ loop # 0
  /\ Await(c, "wait", loop)
  /\ UNCHANGED <<fields, bleVars, beatVars, missed>>

\* Mutated: join() does not wait for the loop's thread.
JoinedAtOnce(c) ==
  /\ pc[c] = "wait"
  /\ Leave(c, "reset")
  /\ UNCHANGED <<fields, bleVars, beatVars, missed>>

Joined(c) ==
  /\ pc[c] = "wait" /\ loops[on[c]] = "stopped"
  /\ Leave(c, "reset")
  /\ UNCHANGED <<fields, bleVars, beatVars, missed>>

\* The field that has been looked at is None when it is used: AttributeError
\* ends disconnect() half-way, and with it the reconnect that called it.
Raises(c) ==
  /\ \/ pc[c] = "cancel" /\ timer = "none"
     \/ pc[c] \in {"stop", "join"} /\ loop = 0
  /\ Leave(c, "idle")
  /\ UNCHANGED <<fields, bleVars, beatVars, missed>>

\* Mutated: the client is kept.
ResetKeepingClient(c) ==
  /\ pc[c] = "reset"
  /\ loop' = 0 /\ connected' = FALSE /\ buffer' = {}
  /\ Goto(c, IF c = "app" THEN "fresh" ELSE "idle")
  /\ UNCHANGED <<client, timer, bleVars, beatVars, on, missed>>

\* Mutated: the receive buffer is kept.
ResetKeepingBuffer(c) ==
  /\ pc[c] = "reset"
  /\ client' = 0 /\ loop' = 0 /\ connected' = FALSE
  /\ Goto(c, IF c = "app" THEN "fresh" ELSE "idle")
  /\ UNCHANGED <<timer, buffer, bleVars, beatVars, on, missed>>

Reset(c) ==
  /\ pc[c] = "reset"
  /\ client' = 0 /\ loop' = 0 /\ connected' = FALSE /\ buffer' = {}
  /\ Goto(c, IF c = "app" THEN "fresh" ELSE "idle")
  /\ UNCHANGED <<timer, bleVars, beatVars, on, missed>>

-----------------------------------------------------------------------------
\* _keepalive_tick: nothing to do without a connection; otherwise a heartbeat
\* if one is needed, and another timer.
TickEnds(i) ==
  /\ beat[i] = "armed" /\ (~connected \/ loop = 0)
  /\ beat' = [beat EXCEPT ![i] = "none"]
  /\ UNCHANGED <<fields, bleVars, beatOn, callVars, missed>>

TickSkips(i) ==
  /\ beat[i] = "armed" /\ connected /\ loop # 0
  /\ beat' = [beat EXCEPT ![i] = "rearm"]
  /\ UNCHANGED <<fields, bleVars, beatOn, callVars, missed>>

TickSends(i) ==
  /\ beat[i] = "armed" /\ connected /\ loop # 0
  /\ beat' = [beat EXCEPT ![i] = "writing"]
  /\ beatOn' = [beatOn EXCEPT ![i] = loop]
  /\ UNCHANGED <<fields, bleVars, callVars, missed>>

BeatWritten(i) ==
  /\ beat[i] = "writing" /\ Alive(beatOn[i])
  /\ beat' = [beat EXCEPT ![i] = "rearm"]
  /\ beatOn' = [beatOn EXCEPT ![i] = 0]
  /\ UNCHANGED <<fields, bleVars, callVars, missed>>

\* Mutated: the future of the heartbeat is awaited without a timeout.
BeatWaits(i) == BeatWritten(i)

\* Any failure of a heartbeat is logged.
BeatFails(i) ==
  /\ beat[i] = "writing"
  /\ beat' = [beat EXCEPT ![i] = "rearm"]
  /\ beatOn' = [beatOn EXCEPT ![i] = 0]
  /\ UNCHANGED <<fields, bleVars, callVars, missed>>

\* _start_keepalive, by the tick.
Rearm(i) ==
  /\ beat[i] = "rearm"
  /\ beat' = [beat EXCEPT ![i] = IF connected THEN "armed" ELSE "none"]
  /\ timer' = IF connected THEN i ELSE timer
  /\ UNCHANGED <<loop, client, connected, buffer, bleVars, beatOn, callVars,
                 missed>>

-----------------------------------------------------------------------------
Loop(g) ==
  \/ ScanFinds(g) \/ Dialed(g) \/ Subscribed(g) \/ ConnectFails(g)
  \/ Established(g) \/ Notify(g) \/ LinkDrops(g) \/ LoopEnds(g)

Awaiting == Connected \/ ConnectTimesOut \/ Returned \/ CallTimesOut

Disconnecting(c) ==
  \/ CancelTimer(c) \/ CloseClient(c) \/ Closed(c) \/ CloseFails(c)
  \/ StopLoop(c) \/ SeeThread(c) \/ Join(c) \/ Joined(c) \/ Reset(c)
  \/ Raises(c)

Beating(i) ==
  \/ TickEnds(i) \/ TickSkips(i) \/ TickSends(i)
  \/ BeatWritten(i) \/ BeatFails(i) \/ Rearm(i)

Next ==
  \/ \E g \in Loops : Connect(g) \/ Loop(g)
  \/ Call \/ Awaiting
  \/ \E c \in Callers : StartDisconnect(c) \/ Disconnecting(c)
  \/ \E i \in Timers : Beating(i)

Spec == Init /\ [][Next]_vars

\* The threads run: callers that wait, timers, and loops told to stop.
Fairness ==
  /\ WF_vars(Awaiting)
  /\ \A c \in Callers : WF_vars(Disconnecting(c))
  /\ \A i \in Timers : WF_vars(Beating(i))
  /\ \A g \in Loops : WF_vars(LoopEnds(g))

FairSpec == Spec /\ Fairness

-----------------------------------------------------------------------------
\* Every variable keeps its type, and the client is never that of another loop:
\* what is handed to _loop is about the link it carries.
TypeOK ==
  /\ loop \in 0..MaxLoops /\ client \in {0, loop}
  /\ connected \in BOOLEAN
  /\ timer \in Timers \cup {"none"} /\ buffer \subseteq Loops
  /\ loops \in [Loops -> {"new", "running", "stopping", "stopped"}]
  /\ co \in [Loops -> {"none", "scan", "dial", "subscribe", "delay", "done",
                       "failed", "lost"}]
  /\ link \in [Loops -> BOOLEAN]
  /\ beat \in [Timers -> {"none", "armed", "writing", "rearm"}]
  /\ beatOn \in [Timers -> 0..MaxLoops]
  /\ pc \in [Callers -> Closing \cup {"fresh", "idle", "dial", "call"}]
  /\ on \in [Callers -> 0..MaxLoops]
  /\ missed \in BOOLEAN

\* No loop is left behind: the only one that can be running is the one _loop
\* names, however the connects failed (bluetooth.py:106: a failed connect()
\* leaves its loop running, for the disconnect() before the next one to stop).
OneLoop == \A g \in Loops : Alive(g) => g = loop

\* The receive buffer holds nothing of an earlier link: a new session does not
\* read an old answer (bluetooth.py:233-237).
BytesOfThisLink == buffer \subseteq {loop}

\* Once disconnect() has reset the fields nothing comes back to life: the flag
\* stays down, although a connect coroutine or a tick may have been running.
ClosedIsClosed == loop = 0 => ~connected /\ client = 0 /\ buffer = {}

\* There is one chain of keep-alive timers unless a disconnect() has met a tick
\* or a connect coroutine that was running: its cancel() then misses the timer
\* they arm, and after a quick reconnect two chains go on (bluetooth.py:207).
OneChain == ~missed => Cardinality(Live) <= 1

\* Every connect(), call and disconnect() ends, even when the other thread has
\* stopped the loop it waits for or reset a field under its hands
\* (bluetooth.py:114, 248, 286).
CallsReturn ==
  \A c \in Callers :
    /\ pc[c] \in {"dial", "call"} ~> pc[c] = "idle"
    /\ pc[c] \in Closing ~> pc[c] \in {"idle", "fresh"}

\* Once the transport stays closed the keep-alive threads die out, those that
\* cancel() missed included, and those that wait for a stopped loop.
TimersDie == <>[]~connected => <>[](Live = {})

\* "Disconnect from the BLE device and stop the event loop."
\* (bluetooth.py:216): when nobody is connecting or disconnecting and the
\* fields are reset, every loop has been stopped.
LoopsStopped ==
  loop = 0 /\ (\A c \in Callers : pc[c] \in {"fresh", "idle"}) =>
    \A g \in Loops : ~Alive(g)
=============================================================================
