------------------------------- MODULE Client -------------------------------
(***************************************************************************)
(* The request path of accurad.client.AccuRad: several threads call        *)
(* get_device_info / get_measurements on one client, whose _request sends  *)
(* a request and waits for the answer under a lock, retries what is        *)
(* recoverable and, when auto_reconnect is on, reconnects the transport    *)
(* after a connection error.                                               *)
(*                                                                         *)
(* Below the client lie the transport (connected, rx), reduced to what the *)
(* AccuRadConnection interface shows, the physical link (linkUp) and the   *)
(* detector (dev: the requests it has received and not yet answered).      *)
(* disconnect() of the user and the keep-alive heartbeat use the transport *)
(* without taking the client's lock, and so does a Bluetooth connect whose *)
(* caller has given it up (pending).                                       *)
(*                                                                         *)
(* A request or answer carries, besides its frame ID, the call it belongs  *)
(* to (0: a heartbeat), and an answer the session it arrived in, i.e. the  *)
(* number of reconnects before it. Both are ghosts.                        *)
(***************************************************************************)
EXTENDS Naturals, Sequences

CONSTANTS
  Threads,        \* the caller threads
  NoThread,       \* not a thread: the lock is free
  Retries,        \* AccuRad(retries=...)
  AutoReconnect,  \* AccuRad(auto_reconnect=...)
  MaxReconnects,  \* AccuRad._max_reconnects, 3 in the code
  KeepAlive,      \* does the transport send heartbeats?
  Faults,         \* what may go wrong below the client, see FaultKinds
  Callbacks,      \* what on_reconnect and on_disconnect may do
  MaxCalls,       \* bound: calls made in a behaviour
  MaxBeats        \* bound: heartbeats sent in a behaviour

FaultKinds ==
  { "drop",       \* the link goes down, unnoticed by the host
    "lose",       \* an answer never arrives
    "late",       \* an answer arrives after its request timed out
    "corrupt",    \* an answer arrives with a wrong CRC
    "odd",        \* a valid frame whose payload cannot be decoded
    "write",      \* connection.send raises a connection error
    "stall",      \* connection.send raises the timeout of its future
    "linger",     \* the detector answers what it was asked before a cut
    "dial" }      \* connection.connect fails

CallbackKinds == {"return", "raise", "request"}

ASSUME ClientAssumption ==
  /\ NoThread \notin Threads
  /\ Retries \in Nat
  /\ MaxReconnects \in Nat
  /\ MaxCalls \in Nat
  /\ MaxBeats \in Nat
  /\ AutoReconnect \in BOOLEAN
  /\ KeepAlive \in BOOLEAN
  /\ Faults \subseteq FaultKinds
  /\ Callbacks \subseteq CallbackKinds

VARIABLES
  lock,           \* self._lock: its holder, or NoThread
  pc,             \* where each thread is in its call
  want,           \* the frame ID each call asks for
  call,           \* the number of each thread's call (ghost)
  raw,            \* the frame _request returned
  outcome,        \* how the last call of each thread ended
  tries,          \* sends begun by each thread's call (ghost)
  attempt,        \* loop variable of _request, of the lock holder
  lastExc,        \* last_exc of _request, of the lock holder
  reconnectCount, \* self._reconnect_count
  connected,      \* connection.is_connected
  linkUp,         \* is the device really at the other end?
  pending,        \* a connect() that timed out is still under way
  session,        \* reconnects so far (ghost)
  answered,       \* the session of the last answer received (ghost)
  closed,         \* has the user called disconnect()? (ghost)
  rx,             \* answers in the receive buffer
  dev,            \* requests the device has not answered
  calls,          \* calls made so far
  beats           \* heartbeats sent so far

threadVars == <<pc, want, call, raw, outcome, tries>>
loopVars   == <<attempt, lastExc>>
linkVars   == <<connected, linkUp, pending, session>>
wireVars   == <<rx, dev>>
ghostVars  == <<closed, calls, beats>>
budgetVars == <<reconnectCount, answered>>
vars == <<lock, threadVars, loopVars, budgetVars, linkVars, wireVars,
          ghostVars>>

-----------------------------------------------------------------------------
FrameIDs == {0, 1}          \* DEVICE_INFO_REQUEST, DEVICE_DATA_REQUEST
Qualities == {"good", "crc", "size", "value"}

Request == [id : FrameIDs, call : 0..MaxCalls]
Frame   == [id : FrameIDs, call : 0..MaxCalls, session : Nat,
            quality : Qualities]
NoFrame == [id |-> 0, call |-> 0, session |-> 0, quality |-> "crc"]

\* The exceptions a call may end with. "foreign" stands for every one that is
\* not an AccuRadError.
LoopErrors == {"ReadTimeoutError", "ConnectionError"}
Errors == LoopErrors \cup {"CRCMismatchError", "PayloadSizeMismatchError",
                           "UnexpectedFrameIDError", "foreign"}
Recoverable(e) == e \in {"ReadTimeoutError", "CRCMismatchError"}

\* The program points inside "with self._lock".
Locked == {"send", "recv", "except", "close", "dial", "on_reconnect",
           "on_disconnect", "stuck"}
Labels == Locked \cup {"idle", "lock", "exhausted", "parse"}

Goto(t, l) == pc' = [pc EXCEPT ![t] = l]

\* Mutated: the lock is not given back on the error path.
RaiseKeepingLock(t, e) ==
  /\ Goto(t, "idle")
  /\ outcome' = [outcome EXCEPT ![t] = e]
  /\ lock' = lock

\* The exception e leaves _request: the lock is released, the call is over.
RaiseLocked(t, e) ==
  /\ Goto(t, "idle")
  /\ outcome' = [outcome EXCEPT ![t] = e]
  /\ lock' = NoThread

Init ==
  /\ lock = NoThread
  /\ pc = [t \in Threads |-> "idle"]
  /\ want = [t \in Threads |-> 0]
  /\ call = [t \in Threads |-> 0]
  /\ raw = [t \in Threads |-> NoFrame]
  /\ outcome = [t \in Threads |-> "none"]
  /\ tries = [t \in Threads |-> 0]
  /\ attempt = 0 /\ lastExc = "none"
  /\ reconnectCount = 0
  /\ connected = TRUE /\ linkUp = TRUE /\ pending = FALSE
  /\ session = 0 /\ answered = 0
  /\ closed = FALSE /\ calls = 0 /\ beats = 0
  /\ rx = <<>> /\ dev = <<>>

-----------------------------------------------------------------------------
(* A call, up to the lock.                                                 *)

\* get_device_info (frame ID 0) or get_measurements (frame ID 1).
Call(t, id) ==
  /\ pc[t] = "idle" /\ calls < MaxCalls
  /\ calls' = calls + 1
  /\ Goto(t, "lock")
  /\ want' = [want EXCEPT ![t] = id]
  /\ call' = [call EXCEPT ![t] = calls']
  /\ raw' = [raw EXCEPT ![t] = NoFrame]
  /\ outcome' = [outcome EXCEPT ![t] = "none"]
  /\ tries' = [tries EXCEPT ![t] = 0]
  /\ UNCHANGED <<lock, loopVars, budgetVars, linkVars, wireVars, closed,
                 beats>>

\* Mutated: the lock is taken although another thread holds it.
AcquireHeldLock(t) ==
  /\ pc[t] = "lock"
  /\ lock' = t
  /\ attempt' = 0 /\ lastExc' = "none"
  /\ Goto(t, "send")
  /\ UNCHANGED <<want, call, raw, outcome, tries, budgetVars, linkVars,
                 wireVars, ghostVars>>

\* "with self._lock" and the first turn of the retry loop.
Acquire(t) ==
  /\ pc[t] = "lock" /\ lock = NoThread
  /\ lock' = t
  /\ attempt' = 0 /\ lastExc' = "none"
  /\ Goto(t, "send")
  /\ UNCHANGED <<want, call, raw, outcome, tries, budgetVars, linkVars,
                 wireVars, ghostVars>>

-----------------------------------------------------------------------------
(* The try block: connection.send, then connection.receive.                *)

RequestOf(t) == [id |-> want[t], call |-> call[t]]

BeginTry(t) == tries' = [tries EXCEPT ![t] = @ + 1]

Send(t) ==
  /\ pc[t] = "send" /\ connected /\ linkUp
  /\ BeginTry(t)
  /\ dev' = Append(dev, RequestOf(t))
  /\ Goto(t, "recv")
  /\ UNCHANGED <<lock, want, call, raw, outcome, loopVars, budgetVars,
                 linkVars, rx, ghostVars>>

\* Not connected, or the write fails: a connection error, caught below.
SendRaises(t) ==
  /\ pc[t] = "send"
  /\ ~connected \/ ~linkUp \/ "write" \in Faults
  /\ BeginTry(t)
  /\ lastExc' = "ConnectionError"
  /\ Goto(t, "except")
  /\ UNCHANGED <<lock, want, call, raw, outcome, attempt, budgetVars, linkVars,
                 wireVars, ghostVars>>

\* future.result(timeout=5.0) gives up on the write, which may have been made
\* all the same. Its TimeoutError is no AccuRadError: nothing catches it.
SendStalls(t) ==
  /\ pc[t] = "send" /\ connected /\ "stall" \in Faults
  /\ BeginTry(t)
  /\ \/ dev' = dev
     \/ linkUp /\ dev' = Append(dev, RequestOf(t))
  /\ RaiseLocked(t, "foreign")
  /\ UNCHANGED <<want, call, raw, loopVars, budgetVars, linkVars, rx,
                 ghostVars>>

\* receive returns the oldest complete frame of the buffer, whatever asked
\* for it; _request returns it and releases the lock.
Receive(t) ==
  /\ pc[t] = "recv" /\ connected /\ rx # <<>>
  /\ raw' = [raw EXCEPT ![t] = Head(rx)]
  /\ rx' = Tail(rx)
  /\ reconnectCount' = 0
  /\ answered' = session
  /\ lock' = NoThread
  /\ Goto(t, "parse")
  /\ UNCHANGED <<want, call, outcome, tries, loopVars, linkVars, dev,
                 ghostVars>>

Catch(t, e) ==
  /\ lastExc' = e
  /\ Goto(t, "except")
  /\ UNCHANGED <<lock, want, call, raw, outcome, tries, attempt, budgetVars,
                 linkVars, wireVars, ghostVars>>

\* The transport was closed between send and receive.
ReceiveRaises(t) ==
  /\ pc[t] = "recv" /\ ~connected
  /\ Catch(t, "ConnectionError")

\* Without "late", the timeout is long enough for every answer that comes.
ReceiveTimesOut(t) ==
  /\ pc[t] = "recv" /\ connected /\ rx = <<>>
  /\ dev = <<>> \/ "late" \in Faults
  /\ Catch(t, "ReadTimeoutError")

\* The transport is closed, or the port disappears, while receive waits: a
\* SerialException, or the TimeoutError of a future whose loop has stopped.
ReceiveForeign(t) ==
  /\ pc[t] = "recv" /\ rx = <<>>
  /\ ~connected \/ ~linkUp
  /\ RaiseLocked(t, "foreign")
  /\ UNCHANGED <<want, call, raw, tries, loopVars, budgetVars, linkVars,
                 wireVars, ghostVars>>

-----------------------------------------------------------------------------
(* "except AccuRadError": reconnect, raise, or sleep and try again.        *)

\* Mutated: one reconnect too many.
MayReconnectOnceMore ==
  /\ AutoReconnect
  /\ ~Recoverable(lastExc)
  /\ reconnectCount <= MaxReconnects

MayReconnect ==
  /\ AutoReconnect
  /\ ~Recoverable(lastExc)
  /\ reconnectCount < MaxReconnects

\* Mutated: one attempt too many.
MayRetryOnceMore == Recoverable(lastExc) /\ attempt <= Retries

MayRetry == Recoverable(lastExc) /\ attempt < Retries

StartReconnect(t) ==
  /\ pc[t] = "except" /\ MayReconnect
  /\ reconnectCount' = reconnectCount + 1
  /\ Goto(t, "close")
  /\ UNCHANGED <<lock, want, call, raw, outcome, tries, loopVars, answered,
                 linkVars, wireVars, ghostVars>>

GiveUp(t) ==
  /\ pc[t] = "except" /\ ~MayReconnect /\ ~MayRetry
  /\ RaiseLocked(t, lastExc)
  /\ UNCHANGED <<want, call, raw, tries, loopVars, budgetVars, linkVars,
                 wireVars, ghostVars>>

\* Mutated: the thread sleeps between attempts without the lock.
RetryUnlocked(t) ==
  /\ pc[t] = "except" /\ ~MayReconnect /\ MayRetry
  /\ attempt' = attempt + 1
  /\ Goto(t, "lock")
  /\ lock' = NoThread
  /\ UNCHANGED <<want, call, raw, outcome, tries, lastExc, budgetVars,
                 linkVars, wireVars, ghostVars>>

Retry(t) ==
  /\ pc[t] = "except" /\ ~MayReconnect /\ MayRetry
  /\ attempt' = attempt + 1
  /\ Goto(t, "send")
  /\ UNCHANGED <<lock, want, call, raw, outcome, tries, lastExc, budgetVars,
                 linkVars, wireVars, ghostVars>>

\* What the detector does with the requests it has not answered when the link
\* is cut: it forgets them, or answers them on the next link.
DeviceCutOff ==
  \/ dev' = <<>>
  \/ dev' = dev /\ "linger" \in Faults

\* Mutated: the receive buffer is not cleared.
CloseKeepingBuffer ==
  /\ connected' = FALSE /\ linkUp' = FALSE /\ pending' = FALSE
  /\ rx' = rx /\ DeviceCutOff

\* connection.disconnect(): the link is given up and the buffer emptied; a
\* connect still under way is stopped with its event loop.
CloseTransport ==
  /\ connected' = FALSE /\ linkUp' = FALSE /\ pending' = FALSE
  /\ rx' = <<>> /\ DeviceCutOff

Close(t) ==
  /\ pc[t] = "close"
  /\ CloseTransport
  /\ Goto(t, "dial")
  /\ UNCHANGED <<lock, want, call, raw, outcome, tries, loopVars, budgetVars,
                 session, ghostVars>>

DialOk(t) ==
  /\ pc[t] = "dial"
  /\ connected' = TRUE /\ linkUp' = TRUE /\ UNCHANGED pending
  /\ session' = session + 1
  /\ Goto(t, "on_reconnect")
  /\ UNCHANGED <<lock, want, call, raw, outcome, tries, loopVars, budgetVars,
                 wireVars, ghostVars>>

\* Mutated: a failed connect is tried again and again, uncounted.
DialFailsRedials(t) ==
  /\ pc[t] = "dial" /\ "dial" \in Faults
  /\ Goto(t, "close")
  /\ UNCHANGED <<lock, want, call, raw, outcome, tries, loopVars, budgetVars,
                 linkVars, wireVars, ghostVars>>

\* connect() raises, and leaves the transport down; or, on a serial port whose
\* flush fails, open; or, on a Bluetooth link whose future is given up,
\* connecting.
DialFails(t) ==
  /\ pc[t] = "dial" /\ "dial" \in Faults
  /\ \/ UNCHANGED linkVars
     \/ /\ connected' = TRUE /\ linkUp' \in BOOLEAN
        /\ session' = session + 1
        /\ UNCHANGED pending
     \/ /\ pending' = TRUE
        /\ UNCHANGED <<connected, linkUp, session>>
  /\ Goto(t, "on_disconnect")
  /\ UNCHANGED <<lock, want, call, raw, outcome, tries, loopVars, budgetVars,
                 wireVars, ghostVars>>

\* _try_reconnect returns True: "continue", which takes the next attempt if
\* there is one and otherwise falls out of the loop and of the lock.
OnReconnectReturns(t) ==
  /\ pc[t] = "on_reconnect" /\ "return" \in Callbacks
  /\ \/ /\ attempt < Retries
        /\ attempt' = attempt + 1
        /\ Goto(t, "send")
        /\ UNCHANGED <<lock, outcome>>
     \/ /\ attempt >= Retries
        /\ outcome' = [outcome EXCEPT ![t] = lastExc]
        /\ lock' = NoThread
        /\ Goto(t, "exhausted")
        /\ UNCHANGED attempt
  /\ UNCHANGED <<want, call, raw, tries, lastExc, budgetVars, linkVars,
                 wireVars, ghostVars>>

\* The exception of on_reconnect is handled as a failed reconnect.
OnReconnectRaises(t) ==
  /\ pc[t] = "on_reconnect" /\ "raise" \in Callbacks
  /\ Goto(t, "on_disconnect")
  /\ UNCHANGED <<lock, want, call, raw, outcome, tries, loopVars, budgetVars,
                 linkVars, wireVars, ghostVars>>

\* _try_reconnect returns False; the error that led here is not recoverable.
OnDisconnectReturns(t) ==
  /\ pc[t] = "on_disconnect" /\ "return" \in Callbacks
  /\ RaiseLocked(t, lastExc)
  /\ UNCHANGED <<want, call, raw, tries, loopVars, budgetVars, linkVars,
                 wireVars, ghostVars>>

OnDisconnectRaises(t) ==
  /\ pc[t] = "on_disconnect" /\ "raise" \in Callbacks
  /\ RaiseLocked(t, "foreign")
  /\ UNCHANGED <<want, call, raw, tries, loopVars, budgetVars, linkVars,
                 wireVars, ghostVars>>

\* A callback that makes a request waits for the lock its own thread holds.
CallbackBlocks(t) ==
  /\ pc[t] \in {"on_reconnect", "on_disconnect"} /\ "request" \in Callbacks
  /\ Goto(t, "stuck")
  /\ UNCHANGED <<lock, want, call, raw, outcome, tries, loopVars, budgetVars,
                 linkVars, wireVars, ghostVars>>

\* "raise last_exc" after the loop.
RaiseLast(t) ==
  /\ pc[t] = "exhausted"
  /\ Goto(t, "idle")
  /\ UNCHANGED <<lock, want, call, raw, outcome, tries, loopVars, budgetVars,
                 linkVars, wireVars, ghostVars>>

-----------------------------------------------------------------------------
(* After the lock: parse_frame, the frame ID, parse_device_info / _data.   *)

Verdict(frame, id) ==
  CASE frame.quality = "crc"   -> "CRCMismatchError"
    [] frame.quality = "size"  -> "PayloadSizeMismatchError"
    [] frame.quality \in {"good", "value"} /\ frame.id # id
                               -> "UnexpectedFrameIDError"
    [] frame.quality = "value" /\ frame.id = id -> "foreign"
    [] frame.quality = "good"  /\ frame.id = id -> "ok"

Parse(t) ==
  /\ pc[t] = "parse"
  /\ outcome' = [outcome EXCEPT ![t] = Verdict(raw[t], want[t])]
  /\ Goto(t, "idle")
  /\ UNCHANGED <<lock, want, call, raw, tries, loopVars, budgetVars, linkVars,
                 wireVars, ghostVars>>

-----------------------------------------------------------------------------
(* What happens without the lock: the user's disconnect(), the keep-alive  *)
(* timer, the link and the device.                                         *)

Disconnect ==
  /\ ~closed
  /\ closed' = TRUE
  /\ CloseTransport
  /\ UNCHANGED <<lock, threadVars, loopVars, budgetVars, session, calls,
                 beats>>

\* The connect that its caller has given up comes through all the same.
ConnectsLate ==
  /\ pending
  /\ connected' = TRUE /\ linkUp' = TRUE /\ pending' = FALSE
  /\ session' = session + 1
  /\ UNCHANGED <<lock, threadVars, loopVars, budgetVars, wireVars, ghostVars>>

Heartbeat ==
  /\ KeepAlive /\ connected /\ linkUp /\ beats < MaxBeats
  /\ beats' = beats + 1
  /\ dev' = Append(dev, [id |-> 1, call |-> 0])
  /\ UNCHANGED <<lock, threadVars, loopVars, budgetVars, linkVars, rx, closed,
                 calls>>

\* The device answers its oldest request; the frame may be damaged on its way
\* ("corrupt") or hold what the decoder rejects ("odd").
Answer(q) ==
  /\ dev # <<>> /\ linkUp
  /\ \/ q = "good"
     \/ q = "crc" /\ "corrupt" \in Faults
     \/ q \in {"size", "value"} /\ "odd" \in Faults
  /\ dev' = Tail(dev)
  /\ rx' = Append(rx, [id |-> Head(dev).id, call |-> Head(dev).call,
                       session |-> session, quality |-> q])
  /\ UNCHANGED <<lock, threadVars, loopVars, budgetVars, linkVars, ghostVars>>

\* An answer is lost on its way, or sent while nobody is at the other end.
Lose ==
  /\ dev # <<>>
  /\ "lose" \in Faults \/ ~linkUp
  /\ dev' = Tail(dev)
  /\ UNCHANGED <<lock, threadVars, loopVars, budgetVars, linkVars, rx,
                 ghostVars>>

LinkDrop ==
  /\ linkUp /\ "drop" \in Faults
  /\ linkUp' = FALSE
  /\ DeviceCutOff
  /\ UNCHANGED <<lock, threadVars, loopVars, budgetVars, connected, pending,
                 session, rx, ghostVars>>

\* Every call has returned: the program may stop here.
Finished ==
  /\ \A t \in Threads : pc[t] = "idle"
  /\ UNCHANGED vars

-----------------------------------------------------------------------------
TryStep(t) ==
  \/ Send(t) \/ SendRaises(t) \/ SendStalls(t)
  \/ Receive(t) \/ ReceiveRaises(t) \/ ReceiveTimesOut(t) \/ ReceiveForeign(t)

ExceptStep(t) ==
  \/ StartReconnect(t) \/ GiveUp(t) \/ Retry(t)
  \/ Close(t) \/ DialOk(t) \/ DialFails(t)
  \/ OnReconnectReturns(t) \/ OnReconnectRaises(t)
  \/ OnDisconnectReturns(t) \/ OnDisconnectRaises(t)
  \/ CallbackBlocks(t)

Step(t) ==
  \/ Acquire(t) \/ TryStep(t) \/ ExceptStep(t) \/ RaiseLast(t) \/ Parse(t)

Device == Lose \/ \E q \in Qualities : Answer(q)

Next ==
  \/ \E t \in Threads : Step(t) \/ \E id \in FrameIDs : Call(t, id)
  \/ Disconnect \/ ConnectsLate \/ Heartbeat \/ LinkDrop \/ Device
  \/ Finished

Spec == Init /\ [][Next]_vars

\* A thread that can go on does, and the device treats what it has received;
\* nobody has to call, to disconnect, to keep the link up or to bring up a
\* connect that was given up. That "recv" ends is Receive's ReceiveEnds, with
\* the exception it names: a serial line on which noise never stops.
Fairness == WF_vars(Device) /\ \A t \in Threads : WF_vars(Step(t))

FairSpec == Spec /\ Fairness

-----------------------------------------------------------------------------
(* Properties.                                                             *)

\* Every variable keeps its type; the counters of self._reconnect_count and
\* of the attempts never leave the ranges the loop's comparisons rely on.
TypeOK ==
  /\ lock \in Threads \cup {NoThread}
  /\ pc \in [Threads -> Labels]
  /\ want \in [Threads -> FrameIDs]
  /\ call \in [Threads -> 0..MaxCalls]
  /\ raw \in [Threads -> Frame]
  /\ outcome \in [Threads -> Errors \cup {"none", "ok"}]
  /\ tries \in [Threads -> 0..(Retries + 1)]
  /\ attempt \in 0..Retries
  /\ lastExc \in LoopErrors \cup {"none"}
  /\ reconnectCount \in 0..MaxReconnects
  /\ connected \in BOOLEAN /\ linkUp \in BOOLEAN /\ pending \in BOOLEAN
  /\ session \in Nat /\ answered \in Nat
  /\ closed \in BOOLEAN /\ calls \in 0..MaxCalls /\ beats \in 0..MaxBeats
  /\ rx \in Seq(Frame) /\ dev \in Seq(Request)

\* Whatever way _request is left (answer, error, reconnect, fall-through), the
\* thread inside "with self._lock" holds the lock and nobody else believes to.
LockDiscipline == \A t \in Threads : lock = t <=> pc[t] \in Locked

\* A call that returns normally returns the answer to its own request: never
\* the answer to another thread's call, to an earlier call of its own that
\* timed out, or one that was damaged. get_measurements promises "current"
\* measurements (client.py:184).
AnswersOwnCall ==
  \A t \in Threads : outcome[t] = "ok" =>
    /\ raw[t].call = call[t]
    /\ raw[t].id = want[t]
    /\ raw[t].quality = "good"

\* AnswersOwnCall needs a link on which no answer comes that nobody waits for.
QuietLink == ~KeepAlive /\ Faults \cap {"late", "stall", "linger"} = {}

\* Nothing that arrived before a reconnect is received after it, whichever way
\* the connection was closed and opened again: every frame in the buffer came
\* in the session that is open.
NothingCrossesReconnect == \A i \in 1..Len(rx) : rx[i].session = session

\* Retries and reconnects together never make one call use the transport more
\* than 1 + retries times, and a timeout is reported only after all of them.
RetryBudget ==
  \A t \in Threads :
    /\ tries[t] <= 1 + Retries
    /\ outcome[t] = "ReadTimeoutError" => tries[t] = 1 + Retries

\* Between two answers received the connection comes up at most MaxReconnects
\* times, over the calls of all threads together: however connecting fails or
\* comes through after it has failed, and whatever the callbacks do.
SessionBudget == session <= answered + MaxReconnects

Reconnecting == \E t \in Threads : pc[t] \in {"close", "dial"}
GivenUp ==
  /\ reconnectCount >= MaxReconnects
  /\ ~connected /\ ~pending /\ ~Reconnecting

\* Once the reconnect budget is spent on a connection that is down, with no
\* connect still under way that could bring it up, no later call of any thread
\* tries again: only an answer received renews the budget.
GivesUpForGood == [][GivenUp => GivenUp']_vars

\* The thread that holds the lock gives it back and comes out of its call,
\* whatever the link and the device do: retries, reconnects and timeouts end
\* (on the terms of Fairness: each receive does).
HolderReturns ==
  \A t \in Threads : (lock = t) ~> (pc[t] = "idle" /\ lock # t)

-----------------------------------------------------------------------------
(* What the project's documentation says of the client and the code does   *)
(* not do. Each is checked by a run that shows how it fails.               *)

\* "Should not be reached" (client.py:423). A successful reconnect on the last
\* attempt falls out of the loop and raises the error it has just repaired.
LoopNeverExhausted == \A t \in Threads : pc[t] # "exhausted"

\* The keep-alive timer "does not conflict" with requests (README_DEV.md:115).
\* The answer to a heartbeat is received by the next call, of either kind.
HeartbeatHarmless ==
  \A t \in Threads : outcome[t] # "UnexpectedFrameIDError"
=============================================================================
