---------------------------- MODULE LoggerProofs ----------------------------
(***************************************************************************)
(* The logging sessions for every number of callers and loggers: at most   *)
(* one thread that has not been told to stop, and at most one row from one *)
(* that has. The invariant ties the three places that know of a session    *)
(* together: _active_logger, the stop events and the callers inside stop().*)
(***************************************************************************)
EXTENDS Logger, TLAPS

\* A thread nobody has told to stop is the registered session's.
UnstoppedIsActive ==
  \A l \in Loggers : Running(l) /\ ~stopEvent[l] => activeLogger = l

\* A caller past the first step of stop() has set the event of its target.
StopperHasSet ==
  \A c \in Callers :
    /\ pc[c] # "idle" => target[c] \in Loggers
    /\ pc[c] \notin {"idle", "set"} => stopEvent[target[c]]

\* Whoever keeps the lock is stopping the registered session.
LockStopsActive ==
  \A c \in Callers :
    loggerLock = c => pc[c] # "idle" /\ target[c] = activeLogger

\* A thread that wrote a row after its stop event looks at the event next.
LateIsLast ==
  \A l \in Loggers :
    /\ late[l] <= 1
    /\ late[l] # 0 => stopEvent[l] /\ thread[l] \in {"wait", "test", "dead"}

\* A thread that polls has an error left, unless errors are unlimited.
ErrorsLeft ==
  \A l \in Loggers :
    thread[l] \notin {"on_error", "dead"} /\ MaxErrors > 0
      => errors[l] < MaxErrors

Inv ==
  /\ TypeOK /\ ErrorsLeft
  /\ UnstoppedIsActive /\ StopperHasSet /\ LockStopsActive /\ LateIsLast

-----------------------------------------------------------------------------
\* The invariant holds at first.
LEMMA InvInit == Init => Inv
<1> SUFFICES ASSUME Init PROVE Inv
  OBVIOUS
<1>1. refused \in BOOLEAN
  BY Zenon DEF Init
<1> QED
  BY <1>1, LoggerAssumption
  DEF Init, Inv, TypeOK, UnstoppedIsActive, Running, StopperHasSet,
      LockStopsActive, LateIsLast, ErrorsLeft

\* Every step keeps the invariant.
LEMMA InvNext == Inv /\ [Next]_vars => Inv'
<1> SUFFICES ASSUME Inv, [Next]_vars PROVE Inv'
  OBVIOUS
<1> USE LoggerAssumption
<1> USE DEF Inv, TypeOK, UnstoppedIsActive, Running, StopperHasSet,
        LockStopsActive, LateIsLast, ErrorsLeft, GotoC, GotoW, workerVars,
        callerVars, Others
<1>1. ASSUME NEW c \in Callers, NEW l \in Loggers, StartLogging(c, l)
      PROVE  Inv'
  BY <1>1 DEF StartLogging
<1>2. ASSUME NEW c \in Callers, StartRefused(c) PROVE Inv'
  <2>1. refused' \in BOOLEAN
    BY <1>2, Zenon DEF StartRefused
  <2> QED
    BY <1>2, <2>1 DEF StartRefused
<1>3. ASSUME NEW c \in Callers, StopLogging(c) PROVE Inv'
  BY <1>3 DEF StopLogging
<1>4. ASSUME NEW c \in Callers, NEW l \in Loggers, LoggerStop(c, l)
      PROVE  Inv'
  BY <1>4 DEF LoggerStop
<1>5. ASSUME NEW c \in Callers, StopSet(c) PROVE Inv'
  BY <1>5 DEF StopSet
<1>6. ASSUME NEW c \in Callers, StopCheck(c) PROVE Inv'
  BY <1>6 DEF StopCheck, LeaveStop
<1>7. ASSUME NEW c \in Callers, StopLoad(c) PROVE Inv'
  BY <1>7 DEF StopLoad
<1>8. ASSUME NEW c \in Callers, StopJoined(c) PROVE Inv'
  BY <1>8 DEF StopJoined, LeaveStop
<1>9. ASSUME NEW l \in Loggers, Worker(l) PROVE Inv'
  <2>1. CASE OpenFile(l)
    BY <2>1 DEF OpenFile
  <2>2. CASE TestStop(l)
    BY <2>2 DEF TestStop
  <2>3. CASE PollOk(l)
    BY <2>3 DEF PollOk
  <2>4. CASE PollFails(l)
    BY <2>4 DEF PollFails
  <2>5. CASE HandleError(l)
    BY <2>5 DEF HandleError, AfterError
  <2>6. CASE OnErrorRaises(l)
    BY <2>6 DEF OnErrorRaises
  <2>7. CASE OnErrorStops(l)
    BY <2>7 DEF OnErrorStops, AfterError
  <2>8. CASE WriteRow(l)
    BY <2>8 DEF WriteRow
  <2>9. CASE WriteFails(l)
    BY <2>9 DEF WriteFails
  <2>10. CASE Wake(l)
    BY <2>10 DEF Wake
  <2> QED
    BY <1>9, <2>1, <2>2, <2>3, <2>4, <2>5, <2>6, <2>7, <2>8, <2>9, <2>10
    DEF Worker
<1>10. CASE UNCHANGED vars
  BY <1>10 DEF vars
<1> QED
  BY <1>1, <1>2, <1>3, <1>4, <1>5, <1>6, <1>7, <1>8, <1>9, <1>10
  DEF Next, UserStep, StopStep

\* The inductive invariant of the logging sessions.
THEOREM SessionInvariant == Spec => []Inv
BY InvInit, InvNext, PTL DEF Spec

\* Type correctness, and with it the bound on consecutive errors.
THEOREM TypeCorrect == Spec => []TypeOK
<1>1. Inv => TypeOK
  BY DEF Inv
<1> QED
  BY <1>1, SessionInvariant, PTL

\* No two threads log at once unless one of them has been told to stop.
THEOREM OneSessionAtATime == Spec => []OneSession
<1>1. Inv => OneSession
  BY DEF Inv, UnstoppedIsActive, OneSession
<1> QED
  BY <1>1, SessionInvariant, PTL

\* After its stop event, a thread writes at most the row it is about to write.
THEOREM AtMostOneRowAfterStop == Spec => []OneRowAfterStop
<1>1. Inv => OneRowAfterStop
  BY DEF Inv, LateIsLast, OneRowAfterStop
<1> QED
  BY <1>1, SessionInvariant, PTL
=============================================================================
