---------------------------- MODULE ClientProofs ----------------------------
(***************************************************************************)
(* What Client guarantees for every number of threads, retries, reconnects *)
(* and calls, and for every set of faults.                                 *)
(*                                                                         *)
(* LoopInv is the inductive invariant of the retry loop: it says how far   *)
(* the lock holder's counters are at each program point. TypeOK,           *)
(* LockDiscipline and RetryBudget follow from it. UpsInv is the account of *)
(* the times the connection has come up or still may, which bounds the     *)
(* sessions between two answers. The third part is about the wire: nothing *)
(* crosses a reconnect (SessionInv), and on a quiet link every answer      *)
(* belongs to its call (WireInv). The last part is the refinement: on a    *)
(* quiet link, Client implements Service. The steps inside an exchange,    *)
(* and those of the user's disconnect(), a late connect, the link and the  *)
(* device, are stuttering steps of Service.                                *)
(***************************************************************************)
EXTENDS ClientService, TLAPS

\* In the except clause there is an exception; a reconnect follows only a
\* connection error.
HolderLastExc(t) ==
  /\ pc[t] = "except" => lastExc \in LoopErrors
  /\ pc[t] \in {"close", "dial", "on_reconnect", "on_disconnect", "stuck"}
       => lastExc = "ConnectionError"

\* The attempt under way has begun its send, except at "send" itself.
HolderTries(t) ==
  /\ pc[t] = "lock" => tries[t] = 0
  /\ pc[t] = "send" => tries[t] = attempt
  /\ pc[t] \in Locked \ {"send"} => tries[t] = attempt + 1

CallOutcome(t) ==
  /\ pc[t] \notin {"idle", "exhausted"} => outcome[t] = "none"
  /\ outcome[t] = "ReadTimeoutError" => tries[t] = 1 + Retries

LoopInv ==
  /\ TypeOK
  /\ LockDiscipline
  /\ \A t \in Threads : HolderLastExc(t) /\ HolderTries(t) /\ CallOutcome(t)

-----------------------------------------------------------------------------
\* A verdict on a frame is "ok" or one of the exceptions.
LEMMA VerdictType ==
  ASSUME NEW f \in Frame, NEW id \in FrameIDs
  PROVE  Verdict(f, id) \in (Errors \cup {"ok"}) \ {"ReadTimeoutError"}
<1>1. f.quality \in Qualities /\ f.id \in FrameIDs
  BY DEF Frame
<1>2. f.quality \in {"crc", "size", "good", "value"}
  BY <1>1 DEF Qualities
<1> QED
  BY <1>2 DEF Verdict, Errors, LoopErrors

\* The empty buffer has the types of both buffers.
LEMMA EmptyWire == <<>> \in Seq(Frame) /\ <<>> \in Seq(Request)
OBVIOUS

\* A connect that fails or comes late keeps the types of the transport.
LEMMA DialTypes ==
  ASSUME connected \in BOOLEAN, linkUp \in BOOLEAN, pending \in BOOLEAN,
         session \in Nat,
         ConnectsLate \/ \E t \in Threads : DialFails(t)
  PROVE  /\ connected' \in BOOLEAN /\ linkUp' \in BOOLEAN
         /\ pending' \in BOOLEAN /\ session' \in Nat
<1>1. session' = session + 1 \/ session' = session
  BY DEF ConnectsLate, DialFails, linkVars
<1>2. session' \in Nat
  BY <1>1
<1>3. CASE ConnectsLate
  BY <1>2, <1>3 DEF ConnectsLate
<1>4. ASSUME NEW t \in Threads, DialFails(t)
      PROVE  /\ connected' \in BOOLEAN /\ linkUp' \in BOOLEAN
             /\ pending' \in BOOLEAN
  <2>1. CASE UNCHANGED linkVars
    BY <2>1 DEF linkVars
  <2>2. CASE connected' = TRUE /\ linkUp' \in BOOLEAN /\ pending' = pending
    BY <2>2
  <2>3. CASE pending' = TRUE /\ connected' = connected /\ linkUp' = linkUp
    BY <2>3
  <2> QED
    BY <1>4, <2>1, <2>2, <2>3 DEF DialFails
<1> QED
  BY <1>2, <1>3, <1>4

\* The loop's invariant holds at first.
LEMMA LoopInit == Init => LoopInv
<1> SUFFICES ASSUME Init PROVE LoopInv
  OBVIOUS
<1> USE ClientAssumption
<1>1. NoFrame \in Frame
  BY DEF NoFrame, Frame, FrameIDs, Qualities
<1>2. TypeOK
  <2>1. /\ pc \in [Threads -> Labels] /\ want \in [Threads -> FrameIDs]
        /\ call \in [Threads -> 0..MaxCalls] /\ raw \in [Threads -> Frame]
    BY <1>1 DEF Init, Labels, FrameIDs
  <2>2. /\ outcome \in [Threads -> Errors \cup {"none", "ok"}]
        /\ tries \in [Threads -> 0..(Retries + 1)]
    BY DEF Init
  <2>3. /\ attempt \in 0..Retries /\ reconnectCount \in 0..MaxReconnects
        /\ session \in Nat /\ calls \in 0..MaxCalls /\ beats \in 0..MaxBeats
    BY DEF Init
  <2>4. rx \in Seq(Frame) /\ dev \in Seq(Request)
    BY EmptyWire DEF Init
  <2> QED
    BY <2>1, <2>2, <2>3, <2>4 DEF Init, TypeOK
<1>3. LockDiscipline
  BY DEF Init, LockDiscipline, Locked
<1>4. ASSUME NEW t \in Threads
      PROVE  HolderLastExc(t) /\ HolderTries(t) /\ CallOutcome(t)
  BY DEF Init, HolderLastExc, HolderTries, CallOutcome, Locked
<1> QED
  BY <1>2, <1>3, <1>4 DEF LoopInv

\* Every step keeps the loop's invariant.
LEMMA LoopNext == LoopInv /\ [Next]_vars => LoopInv'
<1> SUFFICES ASSUME LoopInv, [Next]_vars PROVE LoopInv'
  OBVIOUS
<1> USE ClientAssumption
<1> USE DEF LoopInv, TypeOK, LockDiscipline, HolderLastExc, HolderTries,
        CallOutcome, Locked, Labels, Goto, threadVars, loopVars, budgetVars,
        linkVars, wireVars, ghostVars
<1>1. ASSUME NEW t \in Threads, NEW id \in FrameIDs, Call(t, id) PROVE LoopInv'
  <2>1. NoFrame \in Frame
    BY DEF NoFrame, Frame, FrameIDs, Qualities
  <2> QED
    BY <1>1, <2>1 DEF Call
<1>2. ASSUME NEW t \in Threads, Acquire(t) PROVE LoopInv'
  BY <1>2 DEF Acquire
<1>3. ASSUME NEW t \in Threads, TryStep(t) PROVE LoopInv'
  <2> USE DEF BeginTry, LoopErrors, Errors
  <2>1. RequestOf(t) \in Request
    BY DEF RequestOf, Request
  <2>2. CASE Send(t)
    BY <2>1, <2>2 DEF Send
  <2>3. CASE SendRaises(t)
    <3>1. /\ pc[t] = "send" /\ pc' = [pc EXCEPT ![t] = "except"]
          /\ tries' = [tries EXCEPT ![t] = @ + 1]
          /\ lastExc' = "ConnectionError"
          /\ UNCHANGED <<lock, want, call, raw, outcome, attempt, budgetVars,
                         linkVars, wireVars, ghostVars>>
      BY <2>3 DEF SendRaises
    <3>2. lock = t /\ tries[t] = attempt
      BY <3>1
    <3> QED
      BY <3>1, <3>2
  <2>4. CASE SendStalls(t)
    <3>1. dev' \in Seq(Request)
      <4>1. dev' = dev \/ dev' = Append(dev, RequestOf(t))
        BY <2>4 DEF SendStalls
      <4>2. dev \in Seq(Request)
        OBVIOUS
      <4> HIDE DEF LoopInv, TypeOK
      <4> QED
        BY <2>1, <4>1, <4>2
    <3>2. /\ pc[t] = "send" /\ lock = t /\ tries[t] = attempt
          /\ "foreign" \in Errors
      BY <2>4 DEF SendStalls
    <3>3. /\ pc' = [pc EXCEPT ![t] = "idle"] /\ lock' = NoThread
          /\ outcome' = [outcome EXCEPT ![t] = "foreign"]
          /\ tries' = [tries EXCEPT ![t] = @ + 1]
      BY <2>4 DEF SendStalls, RaiseLocked
    <3>4. /\ want' = want /\ call' = call /\ raw' = raw
          /\ attempt' = attempt /\ lastExc' = lastExc
          /\ reconnectCount' = reconnectCount /\ connected' = connected
          /\ linkUp' = linkUp /\ pending' = pending /\ session' = session
          /\ answered' = answered /\ rx' = rx
          /\ closed' = closed /\ calls' = calls /\ beats' = beats
      BY <2>4 DEF SendStalls
    <3>5. TypeOK'
      <4>1. tries' \in [Threads -> 0..(Retries + 1)]
        BY <3>2, <3>3
      <4>2. outcome' \in [Threads -> Errors \cup {"none", "ok"}]
        BY <3>2, <3>3
      <4> QED
        BY <3>1, <3>3, <3>4, <4>1, <4>2
    <3>6. LockDiscipline'
      BY <3>2, <3>3
    <3>7. \A s \in Threads : HolderTries(s)' /\ HolderLastExc(s)'
      BY <3>2, <3>3, <3>4
    <3>8. \A s \in Threads : CallOutcome(s)'
      BY <3>2, <3>3, <3>4
    <3> QED
      BY <3>5, <3>6, <3>7, <3>8
  <2>5. CASE Receive(t)
    BY <2>5 DEF Receive
  <2>6. CASE ReceiveRaises(t)
    BY <2>6 DEF ReceiveRaises, Catch
  <2>7. CASE ReceiveTimesOut(t)
    BY <2>7 DEF ReceiveTimesOut, Catch
  <2>8. CASE ReceiveForeign(t)
    BY <2>8 DEF ReceiveForeign, RaiseLocked
  <2> QED
    BY <1>3, <2>2, <2>3, <2>4, <2>5, <2>6, <2>7, <2>8 DEF TryStep
<1>4. ASSUME NEW t \in Threads, ExceptStep(t) PROVE LoopInv'
  <2> USE DEF LoopErrors, Errors, Recoverable, MayReconnect, MayRetry
  <2>1. CASE StartReconnect(t)
    BY <2>1 DEF StartReconnect
  <2>2. CASE GiveUp(t)
    BY <2>2 DEF GiveUp, RaiseLocked
  <2>3. CASE Retry(t)
    BY <2>3 DEF Retry
  <2>4. CASE Close(t)
    BY <2>4, EmptyWire DEF Close, CloseTransport, DeviceCutOff
  <2>5. CASE DialOk(t)
    BY <2>5 DEF DialOk
  <2>6. CASE DialFails(t)
    <3>1. /\ connected' \in BOOLEAN /\ linkUp' \in BOOLEAN
          /\ pending' \in BOOLEAN /\ session' \in Nat
      <4>1. /\ connected \in BOOLEAN /\ linkUp \in BOOLEAN
            /\ pending \in BOOLEAN /\ session \in Nat
        OBVIOUS
      <4> HIDE DEF LoopInv
      <4> QED
        BY <2>6, <4>1, DialTypes
    <3>2. /\ pc[t] = "dial" /\ pc' = [pc EXCEPT ![t] = "on_disconnect"]
          /\ UNCHANGED <<lock, want, call, raw, outcome, tries, loopVars,
                         budgetVars, wireVars, ghostVars>>
      BY <2>6 DEF DialFails
    <3> QED
      BY <3>1, <3>2
  <2>7. CASE OnReconnectReturns(t)
    <3>1. /\ tries[t] = attempt + 1 /\ lastExc = "ConnectionError"
          /\ pc[t] # "idle" /\ lock = t
      BY <2>7 DEF OnReconnectReturns
    <3>2. CASE attempt < Retries
      <4>1. /\ pc' = [pc EXCEPT ![t] = "send"] /\ attempt' = attempt + 1
            /\ lock' = lock /\ outcome' = outcome
        BY <2>7, <3>2 DEF OnReconnectReturns
      <4> QED
        BY <2>7, <3>1, <3>2, <4>1 DEF OnReconnectReturns
    <3>3. CASE attempt >= Retries
      <4>1. /\ pc' = [pc EXCEPT ![t] = "exhausted"] /\ attempt' = attempt
            /\ lock' = NoThread
            /\ outcome' = [outcome EXCEPT ![t] = "ConnectionError"]
        BY <2>7, <3>1, <3>3 DEF OnReconnectReturns
      <4> QED
        BY <2>7, <3>1, <3>3, <4>1 DEF OnReconnectReturns
    <3>4. attempt < Retries \/ attempt >= Retries
      OBVIOUS
    <3> QED
      BY <3>2, <3>3, <3>4
  <2>8. CASE OnReconnectRaises(t)
    BY <2>8 DEF OnReconnectRaises
  <2>9. CASE OnDisconnectReturns(t)
    BY <2>9 DEF OnDisconnectReturns, RaiseLocked
  <2>10. CASE OnDisconnectRaises(t)
    BY <2>10 DEF OnDisconnectRaises, RaiseLocked
  <2>11. CASE CallbackBlocks(t)
    BY <2>11 DEF CallbackBlocks
  <2> QED
    BY <1>4, <2>1, <2>2, <2>3, <2>4, <2>5, <2>6, <2>7, <2>8, <2>9, <2>10,
       <2>11 DEF ExceptStep
<1>5. ASSUME NEW t \in Threads, RaiseLast(t) PROVE LoopInv'
  BY <1>5 DEF RaiseLast
<1>6. ASSUME NEW t \in Threads, Parse(t) PROVE LoopInv'
  <2>1. Verdict(raw[t], want[t])
          \in (Errors \cup {"ok"}) \ {"ReadTimeoutError"}
    BY VerdictType
  <2> QED
    BY <1>6, <2>1 DEF Parse
<1>7. CASE Disconnect
  BY <1>7, EmptyWire DEF Disconnect, CloseTransport, DeviceCutOff
<1>8. CASE Heartbeat
  <2>1. [id |-> 1, call |-> 0] \in Request
    BY DEF Request, FrameIDs
  <2> QED
    BY <1>8, <2>1 DEF Heartbeat
<1>9. ASSUME NEW q \in Qualities, Answer(q) PROVE LoopInv'
  <2>1. Head(dev) \in Request /\ Tail(dev) \in Seq(Request)
    BY <1>9 DEF Answer
  <2>2. [id |-> Head(dev).id, call |-> Head(dev).call,
         session |-> session, quality |-> q] \in Frame
    BY <2>1 DEF Request, Frame
  <2> QED
    BY <1>9, <2>1, <2>2 DEF Answer
<1>10. CASE Lose
  BY <1>10 DEF Lose
<1>11. CASE LinkDrop
  BY <1>11, EmptyWire DEF LinkDrop, DeviceCutOff
<1>12. CASE ConnectsLate
  <2>1. /\ connected' \in BOOLEAN /\ linkUp' \in BOOLEAN
        /\ pending' \in BOOLEAN /\ session' \in Nat
    <3>1. /\ connected \in BOOLEAN /\ linkUp \in BOOLEAN
          /\ pending \in BOOLEAN /\ session \in Nat
      OBVIOUS
    <3> HIDE DEF LoopInv
    <3> QED
      BY <1>12, <3>1, DialTypes
  <2>2. UNCHANGED <<lock, threadVars, loopVars, budgetVars, wireVars,
                    ghostVars>>
    BY <1>12 DEF ConnectsLate
  <2> QED
    BY <2>1, <2>2
<1>13. CASE UNCHANGED vars
  BY <1>13 DEF vars
<1> QED
  BY <1>1, <1>2, <1>3, <1>4, <1>5, <1>6, <1>7, <1>8, <1>9, <1>10, <1>11,
     <1>12, <1>13
  DEF Next, Step, Device, Finished

\* The inductive invariant of the retry loop holds in every behaviour of the
\* client, with any number of threads.
THEOREM LoopInvariant == Spec => []LoopInv
BY LoopInit, LoopNext, PTL DEF Spec

\* Every variable keeps its type; in particular self._reconnect_count stays
\* within _max_reconnects and the attempts within 1 + retries.
THEOREM TypeCorrect == Spec => []TypeOK
<1>1. LoopInv => TypeOK
  BY DEF LoopInv
<1> QED
  BY <1>1, LoopInvariant, PTL

\* However _request is left, its lock is held exactly by the thread inside.
THEOREM LockHeldInside == Spec => []LockDiscipline
<1>1. LoopInv => LockDiscipline
  BY DEF LoopInv
<1> QED
  BY <1>1, LoopInvariant, PTL

\* Retries and reconnects share one budget of 1 + retries uses of the
\* transport, and a call that reports a timeout has used all of it.
THEOREM BudgetRespected == Spec => []RetryBudget
<1>1. LoopInv => RetryBudget
  <2> SUFFICES ASSUME LoopInv, NEW t \in Threads
               PROVE  /\ tries[t] <= 1 + Retries
                      /\ outcome[t] = "ReadTimeoutError"
                           => tries[t] = 1 + Retries
    BY DEF RetryBudget
  <2>1. tries[t] \in 0..(Retries + 1) /\ CallOutcome(t)
    BY DEF LoopInv, TypeOK
  <2> QED
    BY <2>1, ClientAssumption DEF CallOutcome
<1> QED
  BY <1>1, LoopInvariant, PTL

-----------------------------------------------------------------------------
\* A client that has given up takes no step out of giving up: nobody is about
\* to connect or still connecting, and nothing else brings the transport up.
LEMMA GivenUpStays == LoopInv /\ [Next]_vars => [GivenUp => GivenUp']_vars
<1> SUFFICES ASSUME LoopInv, Next, GivenUp PROVE GivenUp'
  OBVIOUS
<1>0. /\ pc \in [Threads -> Labels]
      /\ reconnectCount \in Nat /\ reconnectCount >= MaxReconnects
      /\ MaxReconnects \in Nat /\ ~connected /\ ~pending
      /\ \A t \in Threads : pc[t] \notin {"close", "dial"}
  BY ClientAssumption DEF LoopInv, TypeOK, GivenUp, Reconnecting
<1> USE DEF GivenUp, Reconnecting, Goto, threadVars, loopVars, budgetVars,
        linkVars, wireVars, ghostVars
<1>1. ASSUME NEW t \in Threads,
             \/ \E id \in FrameIDs : Call(t, id)
             \/ Acquire(t) \/ RaiseLast(t) \/ Parse(t)
      PROVE  GivenUp'
  BY <1>0, <1>1 DEF Call, Acquire, RaiseLast, Parse
<1>2. ASSUME NEW t \in Threads, TryStep(t) PROVE GivenUp'
  BY <1>0, <1>2
  DEF TryStep, Send, SendRaises, SendStalls, Receive, ReceiveRaises,
      ReceiveTimesOut, ReceiveForeign, Catch, RaiseLocked
<1>3. ASSUME NEW t \in Threads, ExceptStep(t) PROVE GivenUp'
  <2>1. ~StartReconnect(t) /\ ~Close(t) /\ ~DialOk(t) /\ ~DialFails(t)
    BY <1>0 DEF StartReconnect, MayReconnect, Close, DialOk, DialFails
  <2> QED
    BY <1>0, <1>3, <2>1
    DEF ExceptStep, GiveUp, Retry, OnReconnectReturns, OnReconnectRaises,
        OnDisconnectReturns, OnDisconnectRaises, CallbackBlocks, RaiseLocked
<1>4. CASE Disconnect
  BY <1>0, <1>4 DEF Disconnect, CloseTransport
<1>5. CASE Heartbeat \/ LinkDrop \/ Device \/ Finished
  <2>1. UNCHANGED <<pc, reconnectCount, connected, pending>>
    BY <1>5 DEF Heartbeat, LinkDrop, Device, Lose, Answer, Finished, vars
  <2> QED
    BY <1>0, <2>1
<1>6. ~ConnectsLate
  BY <1>0 DEF ConnectsLate
<1> QED
  BY <1>1, <1>2, <1>3, <1>4, <1>5, <1>6 DEF Next, Step

\* Once the reconnect budget is spent on a connection that is down, with no
\* connect under way that was given up, nothing brings the connection back.
THEOREM GivesUpForever == Spec => GivesUpForGood
BY LoopInvariant, GivenUpStays, PTL DEF Spec, GivesUpForGood

-----------------------------------------------------------------------------
\* How often the connection can still come up on the reconnects counted so far:
\* by the connect that was given up, and by the thread about to connect.
PendingUps == IF pending THEN 1 ELSE 0
DialUps == IF Reconnecting THEN 1 ELSE 0

\* Each time the connection came up since the last answer, and each time it
\* still may, has been counted. Whoever is about to connect has closed the
\* transport and ended the connect given up, which leaves the transport down.
UpsInv ==
  /\ session + PendingUps + DialUps <= answered + reconnectCount
  /\ pending => ~connected
  /\ \A t \in Threads : pc[t] = "dial" => ~connected /\ ~pending

\* A step that leaves the transport, the counters and whoever reconnects alone.
LEMMA UpsFrame ==
  ASSUME UpsInv, UNCHANGED <<connected, pending, session, budgetVars>>,
         \A t \in Threads : pc'[t] = "close" <=> pc[t] = "close",
         \A t \in Threads : pc'[t] = "dial" <=> pc[t] = "dial"
  PROVE  UpsInv'
<1>1. Reconnecting' <=> Reconnecting
  BY DEF Reconnecting
<1>2. UNCHANGED <<PendingUps, DialUps>>
  BY <1>1 DEF PendingUps, DialUps
<1> QED
  BY <1>2 DEF UpsInv, budgetVars

\* Every step keeps the account of the times the connection comes up.
LEMMA UpsNext == LoopInv /\ UpsInv /\ [Next]_vars => UpsInv'
<1> SUFFICES ASSUME LoopInv, UpsInv, [Next]_vars PROVE UpsInv'
  OBVIOUS
<1>0. /\ pc \in [Threads -> Labels]
      /\ session \in Nat /\ answered \in Nat /\ reconnectCount \in Nat
      /\ \A s, t \in Threads : pc[s] \in Locked /\ pc[t] \in Locked => s = t
  BY ClientAssumption DEF LoopInv, TypeOK, LockDiscipline
<1> USE DEF Goto, threadVars, loopVars, budgetVars, linkVars, wireVars,
        ghostVars
<1>1. ASSUME NEW t \in Threads,
             \/ \E id \in FrameIDs : Call(t, id)
             \/ Acquire(t) \/ RaiseLast(t) \/ Parse(t)
      PROVE  UpsInv'
  BY <1>0, <1>1, UpsFrame DEF Call, Acquire, RaiseLast, Parse
<1>2. ASSUME NEW t \in Threads, TryStep(t), ~Receive(t) PROVE UpsInv'
  BY <1>0, <1>2, UpsFrame
  DEF TryStep, Send, SendRaises, SendStalls, ReceiveRaises, ReceiveTimesOut,
      ReceiveForeign, Catch, RaiseLocked
<1>3. ASSUME NEW t \in Threads,
             \/ GiveUp(t) \/ Retry(t)
             \/ OnReconnectReturns(t) \/ OnReconnectRaises(t)
             \/ OnDisconnectReturns(t) \/ OnDisconnectRaises(t)
             \/ CallbackBlocks(t)
      PROVE  UpsInv'
  BY <1>0, <1>3, UpsFrame
  DEF GiveUp, Retry, OnReconnectReturns, OnReconnectRaises,
      OnDisconnectReturns, OnDisconnectRaises, CallbackBlocks, RaiseLocked
<1>4. ASSUME NEW t \in Threads, Receive(t) PROVE UpsInv'
  <2>1. /\ pc[t] = "recv" /\ pc' = [pc EXCEPT ![t] = "parse"] /\ connected
        /\ answered' = session /\ reconnectCount' = 0
        /\ UNCHANGED <<connected, pending, session>>
    BY <1>4 DEF Receive
  <2>2. \A s \in Threads : pc'[s] \notin {"close", "dial"}
    BY <1>0, <2>1 DEF Locked
  <2>3. PendingUps' = 0 /\ DialUps' = 0
    BY <2>1, <2>2 DEF UpsInv, PendingUps, DialUps, Reconnecting
  <2> QED
    BY <1>0, <2>1, <2>2, <2>3 DEF UpsInv
<1>5. ASSUME NEW t \in Threads, StartReconnect(t) PROVE UpsInv'
  <2>1. /\ pc[t] = "except" /\ pc' = [pc EXCEPT ![t] = "close"]
        /\ reconnectCount' = reconnectCount + 1
        /\ UNCHANGED <<connected, pending, session, answered>>
    BY <1>5 DEF StartReconnect
  <2>2. DialUps = 0 /\ DialUps' = 1 /\ PendingUps' = PendingUps
    BY <1>0, <2>1 DEF DialUps, PendingUps, Reconnecting, Locked
  <2>3. \A s \in Threads : pc'[s] # "dial"
    BY <1>0, <2>1 DEF Locked
  <2> QED
    BY <1>0, <2>1, <2>2, <2>3 DEF UpsInv, PendingUps
<1>6. ASSUME NEW t \in Threads, Close(t) PROVE UpsInv'
  <2>1. /\ pc[t] = "close" /\ pc' = [pc EXCEPT ![t] = "dial"]
        /\ connected' = FALSE /\ pending' = FALSE
        /\ UNCHANGED <<session, budgetVars>>
    BY <1>6 DEF Close, CloseTransport
  <2>2. DialUps = 1 /\ DialUps' = 1 /\ PendingUps' = 0
    BY <1>0, <2>1 DEF DialUps, PendingUps, Reconnecting
  <2> QED
    BY <1>0, <2>1, <2>2 DEF UpsInv, PendingUps
<1>7. ASSUME NEW t \in Threads, DialOk(t) \/ DialFails(t) PROVE UpsInv'
  <2>1. /\ pc[t] = "dial"
        /\ \E l \in {"on_reconnect", "on_disconnect"} :
             pc' = [pc EXCEPT ![t] = l]
        /\ UNCHANGED budgetVars
    BY <1>7 DEF DialOk, DialFails
  <2>2. ~connected /\ ~pending
    BY <2>1 DEF UpsInv
  <2>3. \A s \in Threads : pc'[s] \notin {"close", "dial"}
    BY <1>0, <2>1 DEF Locked
  <2>4. DialUps = 1 /\ DialUps' = 0 /\ PendingUps = 0
    BY <2>1, <2>2, <2>3 DEF DialUps, PendingUps, Reconnecting
  <2>5. \/ UNCHANGED <<connected, pending, session>>
        \/ session' = session + 1 /\ pending' = pending
        \/ pending' = TRUE /\ UNCHANGED <<connected, session>>
    BY <1>7 DEF DialOk, DialFails
  <2>6. pending' => ~connected'
    BY <2>2, <2>5
  <2>7. /\ session + 1 <= answered + reconnectCount
        /\ answered' = answered /\ reconnectCount' = reconnectCount
    BY <1>0, <2>1, <2>4 DEF UpsInv
  <2>8. CASE pending'
    <3>1. PendingUps' = 1 /\ session' = session
      BY <2>2, <2>5, <2>8 DEF PendingUps
    <3> QED
      BY <1>0, <2>3, <2>4, <2>6, <2>7, <3>1 DEF UpsInv
  <2>9. CASE ~pending'
    <3>1. PendingUps' = 0
      BY <2>9 DEF PendingUps
    <3>2. CASE session' = session
      BY <1>0, <2>3, <2>4, <2>6, <2>7, <3>1, <3>2 DEF UpsInv
    <3>3. CASE session' = session + 1
      BY <1>0, <2>3, <2>4, <2>6, <2>7, <3>1, <3>3 DEF UpsInv
    <3> QED
      BY <2>5, <2>9, <3>2, <3>3
  <2> QED
    BY <2>8, <2>9
<1>8. CASE Disconnect
  <2>1. /\ connected' = FALSE /\ pending' = FALSE
        /\ UNCHANGED <<pc, session, budgetVars>>
    BY <1>8 DEF Disconnect, CloseTransport
  <2>2. DialUps' = DialUps /\ PendingUps' = 0
    BY <2>1 DEF DialUps, PendingUps, Reconnecting
  <2> QED
    BY <1>0, <2>1, <2>2 DEF UpsInv, PendingUps, DialUps
<1>9. CASE ConnectsLate
  <2>1. /\ pending /\ pending' = FALSE /\ session' = session + 1
        /\ UNCHANGED <<pc, budgetVars>>
    BY <1>9 DEF ConnectsLate
  <2>2. DialUps' = DialUps /\ PendingUps = 1 /\ PendingUps' = 0
    BY <2>1 DEF DialUps, PendingUps, Reconnecting
  <2> QED
    BY <1>0, <2>1, <2>2 DEF UpsInv, DialUps
<1>10. CASE Heartbeat \/ LinkDrop \/ Device \/ UNCHANGED vars
  <2>1. UNCHANGED <<pc, connected, pending, session, budgetVars>>
    BY <1>10 DEF Heartbeat, LinkDrop, Device, Lose, Answer, vars
  <2> QED
    BY <2>1, UpsFrame
<1> QED
  BY <1>1, <1>2, <1>3, <1>4, <1>5, <1>6, <1>7, <1>8, <1>9, <1>10
  DEF Next, Step, ExceptStep, TryStep, Finished

\* The account holds in every behaviour.
THEOREM UpsInvariant == Spec => []UpsInv
<1>1. Init => UpsInv
  BY DEF Init, UpsInv, PendingUps, DialUps, Reconnecting
<1> QED
  BY <1>1, UpsNext, LoopInvariant, PTL DEF Spec

\* Between two answers the connection comes up no more often than the reconnect
\* budget allows, over all calls of all threads.
THEOREM SessionsBudgeted == Spec => []SessionBudget
<1>1. LoopInv /\ UpsInv => SessionBudget
  <2> SUFFICES ASSUME LoopInv, UpsInv PROVE SessionBudget
    OBVIOUS
  <2>1. /\ session \in Nat /\ answered \in Nat
        /\ reconnectCount \in 0..MaxReconnects /\ MaxReconnects \in Nat
    BY ClientAssumption DEF LoopInv, TypeOK
  <2>2. PendingUps \in {0, 1} /\ DialUps \in {0, 1}
    BY DEF PendingUps, DialUps
  <2> QED
    BY <2>1, <2>2 DEF UpsInv, SessionBudget
<1> QED
  BY <1>1, UpsInvariant, LoopInvariant, PTL

-----------------------------------------------------------------------------
\* The wire.

\* A transport that is closed has an empty buffer, and behind a link that is
\* down no request waits, unless it lingers in the detector.
LinkInv ==
  /\ ~connected => ~linkUp /\ rx = <<>>
  /\ ~linkUp /\ "linger" \notin Faults => dev = <<>>

SessionInv == LinkInv /\ NothingCrossesReconnect

\* At most one frame is on the wire while t waits: its request or its answer.
OnWire(t) ==
  \/ rx = <<>> /\ dev = <<>>
  \/ /\ rx = <<>> /\ Len(dev) = 1
     /\ dev[1].call = call[t] /\ dev[1].id = want[t]
  \/ /\ dev = <<>> /\ Len(rx) = 1
     /\ rx[1].call = call[t] /\ rx[1].id = want[t]

\* On a quiet link the wire is empty unless the lock holder waits for an
\* answer, and what a thread takes into parse_frame is its own.
WireInv ==
  /\ (\A t \in Threads : pc[t] # "recv") => rx = <<>> /\ dev = <<>>
  /\ \A t \in Threads : pc[t] = "recv" => OnWire(t)
  /\ \A t \in Threads :
       pc[t] = "parse" => raw[t].call = call[t] /\ raw[t].id = want[t]
  /\ AnswersOwnCall

-----------------------------------------------------------------------------
\* Nothing has arrived at first.
LEMMA SessionInit == Init => SessionInv
BY DEF Init, SessionInv, LinkInv, NothingCrossesReconnect

\* A step that leaves the transport and the buffer alone and has the detector
\* receive requests only over a link that is up.
LEMMA SessionFrame ==
  ASSUME SessionInv, UNCHANGED <<linkVars, rx>>, linkUp \/ dev' = dev
  PROVE  SessionInv'
BY DEF SessionInv, LinkInv, NothingCrossesReconnect, linkVars

\* A step after which the buffer is empty and the transport is up.
LEMMA SessionOpened ==
  ASSUME SessionInv, ~connected, connected', UNCHANGED wireVars
  PROVE  SessionInv'
BY DEF SessionInv, LinkInv, NothingCrossesReconnect, wireVars

\* Every step keeps what has arrived in the open session.
LEMMA SessionNext ==
  LoopInv /\ UpsInv /\ SessionInv /\ [Next]_vars => SessionInv'
<1> SUFFICES ASSUME LoopInv, UpsInv, SessionInv, [Next]_vars
             PROVE  SessionInv'
  OBVIOUS
<1>0. rx \in Seq(Frame) /\ dev \in Seq(Request)
  BY DEF LoopInv, TypeOK
<1> USE DEF threadVars, loopVars, budgetVars, linkVars, wireVars, ghostVars
<1>1. ASSUME NEW t \in Threads, Send(t) \/ SendStalls(t) PROVE SessionInv'
  BY <1>1, SessionFrame DEF Send, SendStalls
<1>2. CASE Heartbeat
  BY <1>2, SessionFrame DEF Heartbeat
<1>3. ASSUME NEW t \in Threads, Receive(t) PROVE SessionInv'
  <2>1. /\ rx # <<>> /\ rx' = Tail(rx) /\ dev' = dev /\ connected
        /\ UNCHANGED linkVars
    BY <1>3 DEF Receive
  <2>2. LinkInv'
    BY <2>1 DEF SessionInv, LinkInv
  <2>3. \A i \in 1..Len(rx') : rx'[i].session = session
    BY <1>0, <2>1 DEF SessionInv, NothingCrossesReconnect
  <2> QED
    BY <2>1, <2>2, <2>3 DEF SessionInv, NothingCrossesReconnect
<1>4. ASSUME CloseTransport PROVE SessionInv'
  BY <1>4
  DEF CloseTransport, DeviceCutOff, SessionInv, LinkInv,
      NothingCrossesReconnect
<1>5. ASSUME NEW t \in Threads, DialOk(t) PROVE SessionInv'
  BY <1>5, SessionOpened DEF DialOk, UpsInv
<1>6. ASSUME NEW t \in Threads, DialFails(t) PROVE SessionInv'
  <2>1. ~connected /\ UNCHANGED wireVars
    BY <1>6 DEF DialFails, UpsInv
  <2>2. connected' \/ UNCHANGED <<connected, linkUp, session>>
    BY <1>6 DEF DialFails
  <2> QED
    BY <2>1, <2>2, SessionOpened
    DEF SessionInv, LinkInv, NothingCrossesReconnect
<1>7. CASE ConnectsLate
  BY <1>7, SessionOpened DEF ConnectsLate, UpsInv
<1>8. ASSUME NEW q \in Qualities, Answer(q) PROVE SessionInv'
  <2> DEFINE f == [id |-> Head(dev).id, call |-> Head(dev).call,
                   session |-> session, quality |-> q]
  <2>1. /\ dev # <<>> /\ linkUp /\ rx' = Append(rx, f)
        /\ UNCHANGED linkVars
    BY <1>8 DEF Answer
  <2>2. f \in Frame /\ f.session = session
    <3>1. Head(dev) \in Request
      BY <1>0, <2>1
    <3> QED
      BY <1>8, <3>1 DEF Request, Frame, LoopInv, TypeOK
  <2>3. \A i \in 1..Len(rx') : rx'[i].session = session
    <3> HIDE DEF f
    <3> QED
      BY <1>0, <2>1, <2>2 DEF SessionInv, NothingCrossesReconnect
  <2>4. LinkInv'
    BY <2>1 DEF SessionInv, LinkInv
  <2> QED
    BY <2>1, <2>3, <2>4 DEF SessionInv, NothingCrossesReconnect
<1>9. CASE Lose
  <2>1. dev # <<>> /\ dev' = Tail(dev) /\ UNCHANGED <<linkVars, rx>>
    BY <1>9 DEF Lose
  <2> QED
    BY <1>0, <2>1 DEF SessionInv, LinkInv, NothingCrossesReconnect
<1>10. CASE LinkDrop
  BY <1>10
  DEF LinkDrop, DeviceCutOff, SessionInv, LinkInv, NothingCrossesReconnect
<1>11. ASSUME NEW t \in Threads,
              \/ \E id \in FrameIDs : Call(t, id)
              \/ Acquire(t) \/ SendRaises(t) \/ ReceiveRaises(t)
              \/ ReceiveTimesOut(t) \/ ReceiveForeign(t) \/ StartReconnect(t)
              \/ GiveUp(t) \/ Retry(t)
       PROVE  SessionInv'
  BY <1>11, SessionFrame
  DEF Call, Acquire, SendRaises, ReceiveRaises, ReceiveTimesOut, Catch,
      ReceiveForeign, StartReconnect, GiveUp, Retry
<1>12. ASSUME NEW t \in Threads,
              \/ OnReconnectReturns(t) \/ OnReconnectRaises(t)
              \/ OnDisconnectReturns(t) \/ OnDisconnectRaises(t)
              \/ CallbackBlocks(t) \/ RaiseLast(t) \/ Parse(t)
       PROVE  SessionInv'
  BY <1>12, SessionFrame
  DEF OnReconnectReturns, OnReconnectRaises, OnDisconnectReturns,
      OnDisconnectRaises, CallbackBlocks, RaiseLast, Parse
<1>13. CASE UNCHANGED vars
  BY <1>13, SessionFrame DEF vars
<1> QED
  BY <1>1, <1>2, <1>3, <1>4, <1>5, <1>6, <1>7, <1>8, <1>9, <1>10, <1>11,
     <1>12, <1>13
  DEF Next, Step, TryStep, ExceptStep, Device, Finished, Close, Disconnect

\* What is in the buffer and behind the link is as SessionInv says, always.
THEOREM SessionInvariant == Spec => []SessionInv
BY SessionInit, SessionNext, LoopInvariant, UpsInvariant, PTL DEF Spec

\* No answer survives a reconnect: every frame that the client can still
\* receive has arrived on the connection that is open now.
THEOREM NoFrameCrossesReconnect == Spec => []NothingCrossesReconnect
<1>1. SessionInv => NothingCrossesReconnect
  BY DEF SessionInv
<1> QED
  BY <1>1, SessionInvariant, PTL

-----------------------------------------------------------------------------
\* The wire is empty at first.
LEMMA WireInit == Init => WireInv
BY DEF Init, WireInv, AnswersOwnCall

\* A step that leaves the wire alone, starts or ends no wait for an answer,
\* takes no frame to parse_frame and lets no call return normally.
LEMMA WireFrame ==
  ASSUME WireInv, UNCHANGED <<rx, dev, want, call, raw>>,
         \A t \in Threads : pc'[t] = "recv" <=> pc[t] = "recv",
         \A t \in Threads : pc'[t] = "parse" => pc[t] = "parse",
         \A t \in Threads : outcome'[t] = "ok" => outcome[t] = "ok"
  PROVE  WireInv'
BY DEF WireInv, OnWire, AnswersOwnCall

\* A step after which the wire is empty and nobody's call is nearer its end.
LEMMA WireEmptied ==
  ASSUME WireInv, UNCHANGED <<want, call, raw>>, rx' = <<>>, dev' = <<>>,
         \A t \in Threads : pc'[t] = "parse" => pc[t] = "parse",
         \A t \in Threads : outcome'[t] = "ok" => outcome[t] = "ok"
  PROVE  WireInv'
BY DEF WireInv, OnWire, AnswersOwnCall

\* On a quiet link every step keeps at most one frame on the wire.
LEMMA WireNext ==
  ASSUME QuietLink, LoopInv, SessionInv, WireInv, [Next]_vars
  PROVE  WireInv'
<1>0. /\ pc \in [Threads -> Labels]
      /\ outcome \in [Threads -> Errors \cup {"none", "ok"}]
      /\ raw \in [Threads -> Frame] /\ want \in [Threads -> FrameIDs]
      /\ call \in [Threads -> 0..MaxCalls]
      /\ rx \in Seq(Frame) /\ dev \in Seq(Request)
  BY DEF LoopInv, TypeOK
<1>a. \A s, t \in Threads :
        pc[s] \in Locked /\ pc[t] = "recv" => s = t
  BY DEF LoopInv, LockDiscipline, Locked
<1> USE DEF Goto, threadVars, loopVars, budgetVars, linkVars, wireVars,
        ghostVars
<1>1. ASSUME NEW t \in Threads, NEW id \in FrameIDs, Call(t, id) PROVE WireInv'
  <2>1. /\ pc[t] = "idle" /\ pc' = [pc EXCEPT ![t] = "lock"]
        /\ rx' = rx /\ dev' = dev
        /\ outcome' = [outcome EXCEPT ![t] = "none"]
        /\ \A s \in Threads \ {t} :
             /\ want'[s] = want[s] /\ call'[s] = call[s] /\ raw'[s] = raw[s]
    BY <1>0, <1>1 DEF Call
  <2> QED
    BY <1>0, <2>1 DEF WireInv, OnWire, AnswersOwnCall
<1>2. ASSUME NEW t \in Threads, Send(t) PROVE WireInv'
  <2>1. /\ pc[t] = "send" /\ pc' = [pc EXCEPT ![t] = "recv"]
        /\ dev' = Append(dev, RequestOf(t))
        /\ UNCHANGED <<rx, want, call, raw, outcome>>
    BY <1>2 DEF Send
  <2>2. rx = <<>> /\ dev = <<>>
    BY <1>a, <2>1 DEF WireInv, Locked
  <2>3. Len(dev') = 1 /\ dev'[1] = RequestOf(t)
    BY <2>1, <2>2
  <2>4. \A s \in Threads : pc'[s] = "recv" => s = t
    BY <1>0, <1>a, <2>1 DEF Locked
  <2>5. OnWire(t)'
    BY <2>1, <2>2, <2>3 DEF OnWire, RequestOf
  <2> QED
    BY <1>0, <2>1, <2>4, <2>5 DEF WireInv, AnswersOwnCall
<1>3. ASSUME NEW t \in Threads, Receive(t) PROVE WireInv'
  <2>1. /\ pc[t] = "recv" /\ pc' = [pc EXCEPT ![t] = "parse"]
        /\ rx # <<>> /\ rx' = Tail(rx) /\ raw' = [raw EXCEPT ![t] = Head(rx)]
        /\ UNCHANGED <<dev, want, call, outcome>>
    BY <1>3 DEF Receive
  <2>2. /\ dev = <<>> /\ Len(rx) = 1
        /\ rx[1].call = call[t] /\ rx[1].id = want[t]
    BY <2>1 DEF WireInv, OnWire
  <2>3. rx' = <<>> /\ Head(rx) = rx[1]
    BY <1>0, <2>1, <2>2
  <2>4. outcome[t] = "none"
    BY <2>1 DEF LoopInv, CallOutcome
  <2> QED
    BY <1>0, <2>1, <2>2, <2>3, <2>4 DEF WireInv, OnWire, AnswersOwnCall
<1>4. ASSUME NEW t \in Threads,
             ReceiveRaises(t) \/ ReceiveTimesOut(t) \/ ReceiveForeign(t)
      PROVE  WireInv'
  <2>1. rx = <<>> /\ dev = <<>>
    BY <1>4
    DEF ReceiveRaises, ReceiveTimesOut, ReceiveForeign, QuietLink, SessionInv,
        LinkInv
  <2> QED
    BY <1>0, <1>4, <2>1, WireEmptied
    DEF ReceiveRaises, ReceiveTimesOut, ReceiveForeign, Catch, RaiseLocked
<1>5. ASSUME NEW t \in Threads, Close(t) PROVE WireInv'
  BY <1>0, <1>5, WireEmptied DEF Close, CloseTransport, DeviceCutOff, QuietLink
<1>6. CASE Disconnect
  BY <1>6, WireEmptied DEF Disconnect, CloseTransport, DeviceCutOff, QuietLink
<1>7. ASSUME NEW t \in Threads, Parse(t) PROVE WireInv'
  <2>1. Verdict(raw[t], want[t]) = "ok" => raw[t].quality = "good"
    BY <1>0 DEF Verdict, Frame, Qualities
  <2>2. /\ pc[t] = "parse" /\ pc' = [pc EXCEPT ![t] = "idle"]
        /\ outcome' = [outcome EXCEPT ![t] = Verdict(raw[t], want[t])]
        /\ UNCHANGED <<rx, dev, want, call, raw>>
    BY <1>7 DEF Parse
  <2> QED
    BY <1>0, <2>1, <2>2 DEF WireInv, OnWire, AnswersOwnCall
<1>8. ASSUME NEW q \in Qualities, Answer(q) PROVE WireInv'
  <2> DEFINE f == [id |-> Head(dev).id, call |-> Head(dev).call,
                   session |-> session, quality |-> q]
  <2>1. /\ dev # <<>> /\ dev' = Tail(dev) /\ rx' = Append(rx, f)
        /\ UNCHANGED threadVars
    BY <1>8 DEF Answer
  <2>2. PICK t \in Threads : pc[t] = "recv"
    BY <2>1 DEF WireInv
  <2>3. /\ rx = <<>> /\ Len(dev) = 1
        /\ dev[1].call = call[t] /\ dev[1].id = want[t]
    BY <2>1, <2>2 DEF WireInv, OnWire
  <2>4. dev' = <<>> /\ Head(dev) = dev[1]
    BY <1>0, <2>1, <2>3
  <2>5. Len(rx') = 1 /\ rx'[1] = f
    <3> HIDE DEF f
    <3> QED
      BY <2>1, <2>3
  <2>6. \A s \in Threads : pc[s] = "recv" => s = t
    BY <1>a, <2>2 DEF Locked
  <2>7. rx'[1].call = call'[t] /\ rx'[1].id = want'[t]
    BY <2>1, <2>3, <2>4, <2>5
  <2>8. OnWire(t)'
    BY <2>4, <2>5, <2>7 DEF OnWire
  <2>9. \A s \in Threads : pc'[s] = "recv" => s = t
    BY <2>1, <2>6
  <2> QED
    BY <2>1, <2>2, <2>8, <2>9 DEF WireInv, AnswersOwnCall
<1>9. CASE Lose
  <2>1. /\ dev # <<>> /\ dev' = Tail(dev)
        /\ UNCHANGED <<threadVars, rx>>
    BY <1>9 DEF Lose
  <2>2. PICK t \in Threads : pc[t] = "recv"
    BY <2>1 DEF WireInv
  <2>3. rx = <<>> /\ Len(dev) = 1
    BY <2>1, <2>2 DEF WireInv, OnWire
  <2>4. dev' = <<>> /\ rx' = <<>>
    BY <1>0, <2>1, <2>3
  <2> QED
    BY <2>1, <2>4, WireEmptied
<1>10. CASE LinkDrop
  <2>1. dev' = <<>> /\ UNCHANGED <<threadVars, rx>>
    BY <1>10 DEF LinkDrop, DeviceCutOff, QuietLink
  <2> QED
    BY <2>1 DEF WireInv, OnWire, AnswersOwnCall
<1>11. ASSUME NEW t \in Threads,
              \/ Acquire(t) \/ SendRaises(t) \/ StartReconnect(t)
              \/ GiveUp(t) \/ Retry(t) \/ DialOk(t) \/ DialFails(t)
       PROVE  WireInv'
  <2>1. lastExc # "ok"
    BY DEF LoopInv, TypeOK, LoopErrors
  <2> QED
    BY <1>0, <1>11, <2>1, WireFrame
    DEF Acquire, SendRaises, StartReconnect, GiveUp, RaiseLocked, Retry,
        DialOk, DialFails
<1>12. ASSUME NEW t \in Threads,
              \/ OnReconnectReturns(t) \/ OnReconnectRaises(t)
              \/ OnDisconnectReturns(t) \/ OnDisconnectRaises(t)
              \/ CallbackBlocks(t) \/ RaiseLast(t)
       PROVE  WireInv'
  <2>1. lastExc # "ok"
    BY DEF LoopInv, TypeOK, LoopErrors
  <2> QED
    BY <1>0, <1>12, <2>1, WireFrame
    DEF OnReconnectReturns, OnReconnectRaises, OnDisconnectReturns,
        OnDisconnectRaises, RaiseLocked, CallbackBlocks, RaiseLast
<1>13. CASE ConnectsLate \/ UNCHANGED vars
  BY <1>13, WireFrame DEF ConnectsLate, vars
<1>14. ~Heartbeat /\ \A t \in Threads : ~SendStalls(t)
  BY DEF QuietLink, Heartbeat, SendStalls
<1> QED
  BY <1>1, <1>2, <1>3, <1>4, <1>5, <1>6, <1>7, <1>8, <1>9, <1>10, <1>11,
     <1>12, <1>13, <1>14
  DEF Next, Step, TryStep, ExceptStep, Device, Finished

\* On a quiet link the wire is as WireInv says, always.
THEOREM WireInvariant ==
  ASSUME QuietLink PROVE Spec => []WireInv
<1>1. LoopInv /\ SessionInv /\ WireInv /\ [Next]_vars => WireInv'
  BY QuietLink, WireNext
<1> QED
  BY <1>1, WireInit, LoopInvariant, SessionInvariant, PTL DEF Spec

\* When no answer can arrive that nobody waits for (no heartbeats, timeouts
\* longer than every answer, no write that is abandoned), a call that returns
\* returns the undamaged answer to its own request: with any number of
\* threads, whatever is lost, damaged or cut off and however often the client
\* reconnects or is closed.
THEOREM QuietLinkAnswersOwnCall ==
  ASSUME QuietLink PROVE Spec => []AnswersOwnCall
<1>1. WireInv => AnswersOwnCall
  BY DEF WireInv
<1>2. Spec => []WireInv
  BY QuietLink, WireInvariant
<1> QED
  BY <1>1, <1>2, PTL

-----------------------------------------------------------------------------
\* Who has fallen out of the retry loop has an exception to raise.
ExhaustedInv == \A t \in Threads : pc[t] = "exhausted" => outcome[t] \in Errors

Stages  == [t \in Threads |-> StageOf(pc[t])]
Asked   == [t \in Threads |-> [number |-> call[t], id |-> want[t]]]
Answers == [t \in Threads |-> [number |-> raw[t].call, id |-> raw[t].id]]
Results == [t \in Threads |-> ResultOf(outcome[t])]

-----------------------------------------------------------------------------
\* The stage of each program point.
LEMMA StageValues ==
  /\ StageOf("idle") = "outside" /\ StageOf("lock") = "queued"
  /\ \A l \in Locked : StageOf(l) = "inside"
  /\ StageOf("exhausted") = "leaving" /\ StageOf("parse") = "leaving"
BY DEF StageOf, Locked

\* The result each outcome stands for.
LEMMA ResultValues ==
  /\ ResultOf("none") = "none" /\ ResultOf("ok") = "ok"
  /\ \A e \in Errors : ResultOf(e) = "error"
BY DEF ResultOf, Errors, LoopErrors

\* A thread that goes to a label goes to the stage of that label.
LEMMA StageStep ==
  ASSUME pc \in [Threads -> Labels], NEW t \in Threads, NEW l, Goto(t, l)
  PROVE  Stages' = [Stages EXCEPT ![t] = StageOf(l)]
BY DEF Stages, Goto

\* Inside an exchange, the thread stays at its stage.
LEMMA StageStays ==
  ASSUME pc \in [Threads -> Labels], NEW t \in Threads, NEW l \in Locked,
         pc[t] \in Locked, Goto(t, l)
  PROVE  UNCHANGED Stages
<1>1. Stages' = [Stages EXCEPT ![t] = StageOf(l)]
  BY StageStep
<1>2. Stages[t] = "inside" /\ StageOf(l) = "inside"
  BY StageValues DEF Stages
<1> QED
  BY <1>1, <1>2 DEF Stages

\* A new outcome of one thread is a new result of that thread.
LEMMA ResultStep ==
  ASSUME outcome \in [Threads -> Errors \cup {"none", "ok"}],
         NEW t \in Threads, NEW o, outcome' = [outcome EXCEPT ![t] = o]
  PROVE  Results' = [Results EXCEPT ![t] = ResultOf(o)]
BY DEF Results

\* A step of Service is a step of its variables, named as above.
LEMMA Stutter ==
  ASSUME UNCHANGED <<calls, lock, want, call, raw, outcome, Stages>>
  PROVE  UNCHANGED Abstract!vars
BY DEF Abstract!vars, Stages

\* An exchange that ends without an answer.
LEMMA FailStep ==
  ASSUME pc \in [Threads -> Labels],
         outcome \in [Threads -> Errors \cup {"none", "ok"}],
         NEW t \in Threads, lock = t, lock' = NoThread,
         pc[t] \in Locked, NEW l \in {"idle", "exhausted"}, Goto(t, l),
         NEW e \in Errors, outcome' = [outcome EXCEPT ![t] = e],
         UNCHANGED <<calls, want, call, raw>>
  PROVE  Abstract!Next
<1>1. Stages' = [Stages EXCEPT ![t] = StageOf(l)] /\ Stages[t] = "inside"
  BY StageStep, StageValues DEF Stages
<1>2. StageOf(l) \in {"outside", "leaving"}
  BY StageValues
<1>3. Results' = [Results EXCEPT ![t] = "error"]
  BY ResultStep, ResultValues
<1>4. Abstract!Fail(t)
  BY <1>1, <1>2, <1>3 DEF Abstract!Fail, Abstract!Goto, Stages, Results
<1> QED
  BY <1>4 DEF Abstract!Next

\* A step of thread t inside an exchange, which its callers do not see.
LEMMA InsideStep ==
  ASSUME pc \in [Threads -> Labels], NEW t \in Threads, NEW l \in Locked,
         pc[t] \in Locked, Goto(t, l),
         UNCHANGED <<calls, lock, want, call, raw, outcome>>
  PROVE  UNCHANGED Abstract!vars
BY StageStays, Stutter

\* A step of no thread.
LEMMA OutsideStep ==
  ASSUME UNCHANGED <<calls, lock, want, call, raw, outcome, pc>>
  PROVE  UNCHANGED Abstract!vars
BY Stutter DEF Stages

-----------------------------------------------------------------------------
\* A thread that raises after the loop has an error to raise.
LEMMA ExhaustedNext == LoopInv /\ ExhaustedInv /\ [Next]_vars => ExhaustedInv'
<1> SUFFICES ASSUME LoopInv, ExhaustedInv, [Next]_vars PROVE ExhaustedInv'
  OBVIOUS
<1>0. /\ pc \in [Threads -> Labels]
      /\ outcome \in [Threads -> Errors \cup {"none", "ok"}]
  BY DEF LoopInv, TypeOK
<1> USE DEF ExhaustedInv, Goto, threadVars
<1>1. ASSUME NEW t \in Threads,
             pc'[t] # "exhausted",
             \A u \in Threads \ {t} :
               pc'[u] = pc[u] /\ outcome'[u] = outcome[u]
      PROVE  ExhaustedInv'
  BY <1>1
<1>2. ASSUME NEW t \in Threads, OnReconnectReturns(t) PROVE ExhaustedInv'
  <2>1. lastExc \in Errors
    BY <1>2 DEF OnReconnectReturns, LoopInv, HolderLastExc, Errors, LoopErrors
  <2> QED
    BY <1>0, <1>2, <2>1 DEF OnReconnectReturns
<1>3. ASSUME NEW t \in Threads,
             \/ \E id \in FrameIDs : Call(t, id)
             \/ Acquire(t) \/ TryStep(t) \/ RaiseLast(t) \/ Parse(t)
      PROVE  ExhaustedInv'
  BY <1>0, <1>1, <1>3
  DEF Call, Acquire, TryStep, RaiseLast, Parse, Send, SendRaises, SendStalls,
      Receive, ReceiveRaises, ReceiveTimesOut, ReceiveForeign, Catch,
      RaiseLocked
<1>4. ASSUME NEW t \in Threads, ExceptStep(t), ~OnReconnectReturns(t)
      PROVE  ExhaustedInv'
  BY <1>0, <1>1, <1>4
  DEF ExceptStep, StartReconnect, GiveUp, Retry, Close, DialOk, DialFails,
      OnReconnectRaises, OnDisconnectReturns, OnDisconnectRaises,
      CallbackBlocks, RaiseLocked
<1>5. CASE Disconnect \/ ConnectsLate \/ Heartbeat \/ LinkDrop \/ Device
           \/ Finished \/ UNCHANGED vars
  <2>1. UNCHANGED <<pc, outcome>>
    BY <1>5 DEF Disconnect, ConnectsLate, Heartbeat, LinkDrop, Device, Lose,
                Answer, Finished, vars
  <2> QED
    BY <2>1
<1> QED
  BY <1>2, <1>3, <1>4, <1>5 DEF Next, Step

\* Initial states map to initial states.
LEMMA ServiceInit == Init => Abstract!Init
BY DEF Init, Abstract!Init, Abstract!NoCall, StageOf, ResultOf, NoFrame,
       Errors, LoopErrors, Locked

\* Every step maps to a step of the service or to a stuttering step.
LEMMA ServiceNext ==
  ASSUME QuietLink, LoopInv, ExhaustedInv, WireInv, [Next]_vars
  PROVE  [Abstract!Next]_(Abstract!vars)
<1>0. /\ pc \in [Threads -> Labels]
      /\ outcome \in [Threads -> Errors \cup {"none", "ok"}]
      /\ want \in [Threads -> FrameIDs]
      /\ call \in [Threads -> 0..MaxCalls]
      /\ raw \in [Threads -> Frame]
      /\ \A t \in Threads : lock = t <=> pc[t] \in Locked
  BY DEF LoopInv, TypeOK, LockDiscipline
<1> USE DEF loopVars, budgetVars, linkVars, wireVars, ghostVars, threadVars
<1>1. ASSUME NEW t \in Threads, NEW id \in FrameIDs, Call(t, id)
      PROVE  Abstract!Next
  <2>1. Stages' = [Stages EXCEPT ![t] = "queued"] /\ Stages[t] = "outside"
    BY <1>0, <1>1, StageStep, StageValues DEF Call, Stages
  <2>2. Results' = [Results EXCEPT ![t] = "none"]
    <3>1. outcome' = [outcome EXCEPT ![t] = "none"]
      BY <1>1 DEF Call
    <3> QED
      BY <1>0, <3>1, ResultStep, ResultValues
  <2>3. Asked' = [Asked EXCEPT ![t] = [number |-> calls', id |-> id]]
    BY <1>0, <1>1 DEF Call, Asked
  <2>4. Answers' = [Answers EXCEPT ![t] = Abstract!NoCall]
    BY <1>0, <1>1 DEF Call, Answers, NoFrame, Abstract!NoCall
  <2>5. calls' = calls + 1 /\ lock' = lock
    BY <1>1 DEF Call
  <2>6. Abstract!Ask(t, id)
    BY <2>1, <2>2, <2>3, <2>4, <2>5
    DEF Abstract!Ask, Abstract!Goto, Stages, Results, Asked, Answers
  <2> QED
    BY <2>6 DEF Abstract!Next
<1>2. ASSUME NEW t \in Threads, Acquire(t) PROVE Abstract!Next
  <2>1. Stages' = [Stages EXCEPT ![t] = "inside"] /\ Stages[t] = "queued"
    <3>1. Goto(t, "send") /\ pc[t] = "lock"
      BY <1>2 DEF Acquire
    <3>2. StageOf("send") = "inside"
      BY StageValues DEF Locked
    <3> QED
      BY <1>0, <3>1, <3>2, StageStep, StageValues DEF Stages
  <2>2. Abstract!Enter(t)
    BY <1>2, <2>1 DEF Acquire, Abstract!Enter, Abstract!Goto, Stages
  <2> QED
    BY <2>2 DEF Abstract!Next
<1>3. ASSUME NEW t \in Threads, Receive(t) PROVE Abstract!Next
  <2>1. Stages' = [Stages EXCEPT ![t] = "leaving"] /\ Stages[t] = "inside"
    <3>1. Goto(t, "parse") /\ pc[t] = "recv"
      BY <1>3 DEF Receive
    <3>2. StageOf("recv") = "inside"
      BY StageValues DEF Locked
    <3> QED
      BY <1>0, <3>1, <3>2, StageStep, StageValues DEF Stages
  <2>2. OnWire(t) /\ rx # <<>>
    BY <1>3 DEF Receive, WireInv
  <2>3. Head(rx).call = call[t] /\ Head(rx).id = want[t]
    BY <2>2 DEF OnWire, LoopInv, TypeOK
  <2>4. Answers' = [Answers EXCEPT ![t] = Asked[t]]
    BY <1>0, <1>3, <2>3 DEF Receive, Answers, Asked
  <2>5. lock = t /\ lock' = NoThread
    BY <1>0, <1>3 DEF Receive, Locked
  <2>6. Abstract!Serve(t)
    BY <1>3, <2>1, <2>4, <2>5
    DEF Receive, Abstract!Serve, Abstract!Goto, Stages, Asked, Answers
  <2> QED
    BY <2>6 DEF Abstract!Next
<1>4. ASSUME NEW t \in Threads, Send(t) PROVE UNCHANGED Abstract!vars
  BY <1>0, <1>4, InsideStep DEF Send, Locked
<1>5. ASSUME NEW t \in Threads,
             SendRaises(t) \/ ReceiveRaises(t) \/ ReceiveTimesOut(t)
      PROVE  UNCHANGED Abstract!vars
  BY <1>0, <1>5, InsideStep
  DEF SendRaises, ReceiveRaises, ReceiveTimesOut, Catch, Locked
<1>6. ASSUME NEW t \in Threads, ReceiveForeign(t) \/ SendStalls(t)
      PROVE  Abstract!Next
  BY <1>0, <1>6, FailStep
  DEF ReceiveForeign, SendStalls, RaiseLocked, Errors, Locked
<1>7. ASSUME NEW t \in Threads,
             \/ StartReconnect(t) \/ Retry(t) \/ Close(t) \/ DialOk(t)
             \/ DialFails(t) \/ OnReconnectRaises(t) \/ CallbackBlocks(t)
      PROVE  UNCHANGED Abstract!vars
  BY <1>0, <1>7, InsideStep
  DEF StartReconnect, Retry, Close, DialOk, DialFails, OnReconnectRaises,
      CallbackBlocks, Locked
<1>8. ASSUME NEW t \in Threads,
             GiveUp(t) \/ OnDisconnectReturns(t) \/ OnDisconnectRaises(t)
      PROVE  Abstract!Next
  <2>1. lastExc \in Errors /\ "foreign" \in Errors
    BY <1>8 DEF GiveUp, OnDisconnectReturns, OnDisconnectRaises, LoopInv,
                HolderLastExc, Errors, LoopErrors
  <2> QED
    BY <1>0, <1>8, <2>1, FailStep
    DEF GiveUp, OnDisconnectReturns, OnDisconnectRaises, RaiseLocked, Locked
<1>9. ASSUME NEW t \in Threads, OnReconnectReturns(t)
      PROVE  Abstract!Next \/ UNCHANGED Abstract!vars
  <2>0. UNCHANGED <<calls, want, call, raw>> /\ pc[t] = "on_reconnect"
    BY <1>9 DEF OnReconnectReturns
  <2>1. CASE /\ Goto(t, "send")
             /\ UNCHANGED <<lock, outcome>>
    BY <1>0, <2>0, <2>1, InsideStep DEF Locked
  <2>2. CASE /\ Goto(t, "exhausted")
             /\ outcome' = [outcome EXCEPT ![t] = lastExc]
             /\ lock' = NoThread
    <3>1. lastExc \in Errors
      BY <2>0 DEF LoopInv, HolderLastExc, Errors, LoopErrors
    <3>2. lock = t /\ pc[t] \in Locked
      BY <1>0, <2>0 DEF Locked
    <3> QED
      BY <1>0, <2>0, <2>2, <3>1, <3>2, FailStep
  <2> QED
    BY <1>9, <2>1, <2>2 DEF OnReconnectReturns
<1>10. ASSUME NEW t \in Threads, RaiseLast(t) PROVE Abstract!Next
  <2>1. Stages' = [Stages EXCEPT ![t] = "outside"] /\ Stages[t] = "leaving"
    BY <1>0, <1>10, StageStep, StageValues DEF RaiseLast, Stages
  <2>2. Results[t] = "error"
    BY <1>10, ResultValues DEF RaiseLast, ExhaustedInv, Results
  <2>3. Abstract!Raise(t)
    BY <1>10, <2>1, <2>2
    DEF RaiseLast, Abstract!Raise, Abstract!Goto, Stages, Results
  <2> QED
    BY <2>3 DEF Abstract!Next
<1>11. ASSUME NEW t \in Threads, Parse(t) PROVE Abstract!Next
  <2>1. Stages' = [Stages EXCEPT ![t] = "outside"] /\ Stages[t] = "leaving"
    BY <1>0, <1>11, StageStep, StageValues DEF Parse, Stages
  <2>2. Results[t] = "none"
    BY <1>11, ResultValues DEF Parse, LoopInv, CallOutcome, Results
  <2>3. Verdict(raw[t], want[t]) \in Errors \cup {"ok"}
    BY <1>0, VerdictType
  <2>4. /\ ResultOf(Verdict(raw[t], want[t])) \in {"ok", "error"}
        /\ Results' = [Results EXCEPT
                         ![t] = ResultOf(Verdict(raw[t], want[t]))]
    <3>1. outcome' = [outcome EXCEPT ![t] = Verdict(raw[t], want[t])]
      BY <1>11 DEF Parse
    <3> QED
      BY <1>0, <2>3, <3>1, ResultStep, ResultValues
  <2>5. Abstract!Decide(t)
    BY <1>11, <2>1, <2>2, <2>4
    DEF Parse, Abstract!Decide, Abstract!Goto, Stages, Results
  <2> QED
    BY <2>5 DEF Abstract!Next
<1>12. CASE Disconnect \/ ConnectsLate \/ Heartbeat \/ LinkDrop \/ Device
            \/ Finished \/ UNCHANGED vars
  BY <1>12, OutsideStep
  DEF Disconnect, ConnectsLate, Heartbeat, LinkDrop, Device, Lose, Answer,
      Finished, vars
<1> QED
  BY <1>1, <1>2, <1>3, <1>4, <1>5, <1>6, <1>7, <1>8, <1>9, <1>10, <1>11,
     <1>12
  DEF Next, Step, TryStep, ExceptStep

\* On a quiet link the client is the exclusive service it promises to be:
\* retries, reconnects, callbacks, disconnect() and the faults of the link
\* are invisible to its callers.
THEOREM ClientIsService ==
  ASSUME QuietLink PROVE Spec => ImplementsService
<1>1. Init => ExhaustedInv
  BY DEF Init, ExhaustedInv
<1>2. Spec => []ExhaustedInv
  BY <1>1, ExhaustedNext, LoopInvariant, PTL DEF Spec
<1>3. Spec => []WireInv
  BY QuietLink, WireInvariant
<1>4. LoopInv /\ ExhaustedInv /\ WireInv /\ [Next]_vars
        => [Abstract!Next]_(Abstract!vars)
  BY QuietLink, ServiceNext
<1> QED
  BY <1>2, <1>3, <1>4, ServiceInit, LoopInvariant, PTL
  DEF Spec, ImplementsService, Abstract!Spec
=============================================================================
