------------------------------- MODULE Logger -------------------------------
(***************************************************************************)
(* Measurement logging of accurad.streaming: start_logging, stop_logging,  *)
(* _MeasurementLogger.stop and the background thread of each logger.       *)
(*                                                                         *)
(* start_logging and stop_logging share _active_logger under _logger_lock; *)
(* a logger's own stop() may be called by whoever holds the object, and    *)
(* takes no lock. A logger is started once, so its thread goes by its name.*)
(***************************************************************************)
EXTENDS Naturals

CONSTANTS
  Callers,     \* the user's threads
  Loggers,     \* bound: the loggers that can ever be created
  Nobody,      \* neither a caller nor a logger: None, or a free lock
  MaxErrors,   \* max_errors; 0: unlimited
  DirectStop,  \* do callers call logger.stop() as well as stop_logging()?
  OnError,     \* what on_error may do: "return", "raise", "stop"
  Faults       \* "open", "poll", "disk": what may fail in the thread;
               \* "slow": a poll may outlast the join timeout of stop()

ASSUME LoggerAssumption ==
  /\ Nobody \notin Callers \cup Loggers
  /\ MaxErrors \in Nat
  /\ DirectStop \in BOOLEAN
  /\ OnError \subseteq {"return", "raise", "stop"}
  /\ Faults \subseteq {"open", "poll", "disk", "slow"}

VARIABLES
  activeLogger,  \* _active_logger
  loggerLock,    \* holder of _logger_lock across a stop
  stopEvent,     \* _stop_event of each logger
  hasThread,     \* is _thread of the logger set?
  thread,        \* where each logger's thread is
  errors,        \* its consecutive_errors, counted if max_errors > 0
  late,          \* rows it wrote after its stop event was set (ghost)
  pc,            \* where each caller is in stop()
  target,        \* the logger the caller is stopping
  refused        \* was a start refused while no session ran? (ghost)

workerVars == <<thread, errors, late>>
callerVars == <<pc, target>>
vars == <<activeLogger, loggerLock, stopEvent, hasThread, workerVars,
          callerVars, refused>>

Init ==
  /\ activeLogger = Nobody /\ loggerLock = Nobody
  /\ stopEvent = [l \in Loggers |-> FALSE]
  /\ hasThread = [l \in Loggers |-> FALSE]
  /\ thread = [l \in Loggers |-> "unborn"]
  /\ errors = [l \in Loggers |-> 0]
  /\ late = [l \in Loggers |-> 0]
  /\ pc = [c \in Callers |-> "idle"]
  /\ target = [c \in Callers |-> Nobody]
  /\ refused = FALSE

Running(l) == thread[l] \notin {"unborn", "dead"}

-----------------------------------------------------------------------------
(* The callers. The bodies of "with _logger_lock" that do not wait are one *)
(* step; stop_logging keeps the lock while it joins the thread.            *)

GotoC(c, label) == pc' = [pc EXCEPT ![c] = label]

\* start_logging: construct the logger, start its thread, register it.
StartLogging(c, l) ==
  /\ pc[c] = "idle" /\ loggerLock = Nobody
  /\ activeLogger = Nobody /\ thread[l] = "unborn"
  /\ activeLogger' = l
  /\ hasThread' = [hasThread EXCEPT ![l] = TRUE]
  /\ thread' = [thread EXCEPT ![l] = "open"]
  /\ UNCHANGED <<loggerLock, stopEvent, errors, late, callerVars, refused>>

\* start_logging: "A logging session is already active."
StartRefused(c) ==
  /\ pc[c] = "idle" /\ loggerLock = Nobody
  /\ activeLogger # Nobody
  /\ refused' = (refused \/ ~Running(activeLogger))
  /\ UNCHANGED <<activeLogger, loggerLock, stopEvent, hasThread, workerVars,
                 callerVars>>

\* Mutated: the session is forgotten, its thread not stopped.
StopLoggingForgets(c) ==
  /\ pc[c] = "idle" /\ loggerLock = Nobody
  /\ activeLogger # Nobody
  /\ activeLogger' = Nobody
  /\ UNCHANGED <<loggerLock, stopEvent, hasThread, workerVars, callerVars,
                 refused>>

\* stop_logging, with a session registered; otherwise it does nothing.
StopLogging(c) ==
  /\ pc[c] = "idle" /\ loggerLock = Nobody
  /\ activeLogger # Nobody
  /\ loggerLock' = c
  /\ target' = [target EXCEPT ![c] = activeLogger]
  /\ GotoC(c, "set")
  /\ UNCHANGED <<activeLogger, stopEvent, hasThread, workerVars, refused>>

\* logger.stop() of a logger that start_logging has returned.
LoggerStop(c, l) ==
  /\ DirectStop /\ pc[c] = "idle" /\ thread[l] # "unborn"
  /\ target' = [target EXCEPT ![c] = l]
  /\ GotoC(c, "set")
  /\ UNCHANGED <<activeLogger, loggerLock, stopEvent, hasThread, workerVars,
                 refused>>

StopSet(c) ==
  /\ pc[c] = "set"
  /\ stopEvent' = [stopEvent EXCEPT ![target[c]] = TRUE]
  /\ GotoC(c, "check")
  /\ UNCHANGED <<activeLogger, loggerLock, hasThread, workerVars, target,
                 refused>>

\* stop() is over; stop_logging also forgets the session and its lock.
LeaveStop(c) ==
  /\ GotoC(c, "idle")
  /\ target' = [target EXCEPT ![c] = Nobody]
  /\ IF loggerLock = c
     THEN activeLogger' = Nobody /\ loggerLock' = Nobody
     ELSE UNCHANGED <<activeLogger, loggerLock>>

\* "if self._thread is not None"
StopCheck(c) ==
  /\ pc[c] = "check"
  /\ \/ /\ hasThread[target[c]]
        /\ GotoC(c, "load")
        /\ UNCHANGED <<activeLogger, loggerLock, target>>
     \/ /\ ~hasThread[target[c]]
        /\ LeaveStop(c)
  /\ UNCHANGED <<stopEvent, hasThread, workerVars, refused>>

\* self._thread is read again for the join; a concurrent stop() may have reset
\* it to None meanwhile, and the AttributeError leaves the session registered.
StopLoad(c) ==
  /\ pc[c] = "load"
  /\ \/ /\ hasThread[target[c]]
        /\ GotoC(c, "join")
        /\ UNCHANGED <<loggerLock, target>>
     \/ /\ ~hasThread[target[c]]
        /\ GotoC(c, "idle")
        /\ target' = [target EXCEPT ![c] = Nobody]
        /\ loggerLock' = IF loggerLock = c THEN Nobody ELSE loggerLock
  /\ UNCHANGED <<activeLogger, stopEvent, hasThread, workerVars, refused>>

\* join(timeout=5.0) ends with the thread, or without it.
StopJoined(c) ==
  /\ pc[c] = "join"
  /\ thread[target[c]] = "dead" \/ "slow" \in Faults
  /\ hasThread' = [hasThread EXCEPT ![target[c]] = FALSE]
  /\ LeaveStop(c)
  /\ UNCHANGED <<stopEvent, workerVars, refused>>

-----------------------------------------------------------------------------
(* The thread: _run_csv or _run_json, which differ only in what they write. *)

GotoW(l, label) == thread' = [thread EXCEPT ![l] = label]

Others == <<activeLogger, loggerLock, hasThread, callerVars, refused>>

OpenFile(l) ==
  /\ thread[l] = "open"
  /\ \/ GotoW(l, "test")
     \/ "open" \in Faults /\ GotoW(l, "dead")
  /\ UNCHANGED <<stopEvent, errors, late, Others>>

\* Mutated: the loop does not look at the event.
TestStopNever(l) ==
  /\ thread[l] = "test"
  /\ GotoW(l, "poll")
  /\ UNCHANGED <<stopEvent, errors, late, Others>>

TestStop(l) ==
  /\ thread[l] = "test"
  /\ GotoW(l, IF stopEvent[l] THEN "dead" ELSE "poll")
  /\ UNCHANGED <<stopEvent, errors, late, Others>>

PollOk(l) ==
  /\ thread[l] = "poll"
  /\ GotoW(l, "write")
  /\ errors' = [errors EXCEPT ![l] = 0]
  /\ UNCHANGED <<stopEvent, late, Others>>

\* An error that comes with a stop is not reported.
PollFails(l) ==
  /\ thread[l] = "poll" /\ "poll" \in Faults
  /\ \/ /\ stopEvent[l]
        /\ GotoW(l, "dead")
        /\ UNCHANGED errors
     \/ /\ ~stopEvent[l]
        /\ GotoW(l, "on_error")
        /\ errors' = [errors EXCEPT ![l] = IF MaxErrors > 0 THEN @ + 1 ELSE 0]
  /\ UNCHANGED <<stopEvent, late, Others>>

\* Mutated: one error too many.
AfterErrorOffByOne(l) ==
  GotoW(l, IF MaxErrors > 0 /\ errors[l] > MaxErrors THEN "dead" ELSE "wait")

\* _handle_error after on_error has returned (or is not set).
AfterError(l) ==
  GotoW(l, IF MaxErrors > 0 /\ errors[l] >= MaxErrors THEN "dead" ELSE "wait")

HandleError(l) ==
  /\ thread[l] = "on_error" /\ "return" \in OnError
  /\ AfterError(l)
  /\ UNCHANGED <<stopEvent, errors, late, Others>>

\* Nothing catches what on_error raises: the thread ends.
OnErrorRaises(l) ==
  /\ thread[l] = "on_error" /\ "raise" \in OnError
  /\ GotoW(l, "dead")
  /\ UNCHANGED <<stopEvent, errors, late, Others>>

\* on_error calls stop() of its own logger, whose join raises, as a thread
\* cannot join itself; unless another stop() has already reset _thread.
OnErrorStops(l) ==
  /\ thread[l] = "on_error" /\ "stop" \in OnError
  /\ stopEvent' = [stopEvent EXCEPT ![l] = TRUE]
  /\ \/ hasThread[l] /\ GotoW(l, "dead")
     \/ ~hasThread[l] /\ AfterError(l)
  /\ UNCHANGED <<errors, late, Others>>

WriteRow(l) ==
  /\ thread[l] = "write"
  /\ GotoW(l, "wait")
  /\ late' = IF stopEvent[l] THEN [late EXCEPT ![l] = @ + 1] ELSE late
  /\ UNCHANGED <<stopEvent, errors, Others>>

WriteFails(l) ==
  /\ thread[l] = "write" /\ "disk" \in Faults
  /\ GotoW(l, "dead")
  /\ UNCHANGED <<stopEvent, errors, late, Others>>

\* Mutated: a wait that the stop event has ended is begun again.
WakeWaitsAgain(l) ==
  /\ thread[l] = "wait" /\ ~stopEvent[l]
  /\ GotoW(l, "test")
  /\ UNCHANGED <<stopEvent, errors, late, Others>>

\* The rest of the interval is over, or the stop event ends it.
Wake(l) ==
  /\ thread[l] = "wait"
  /\ GotoW(l, "test")
  /\ UNCHANGED <<stopEvent, errors, late, Others>>

-----------------------------------------------------------------------------
StopStep(c) == StopSet(c) \/ StopCheck(c) \/ StopLoad(c) \/ StopJoined(c)

UserStep(c) ==
  \/ StartRefused(c) \/ StopLogging(c)
  \/ \E l \in Loggers : StartLogging(c, l) \/ LoggerStop(c, l)

Worker(l) ==
  \/ OpenFile(l) \/ TestStop(l) \/ PollOk(l) \/ PollFails(l)
  \/ HandleError(l) \/ OnErrorRaises(l) \/ OnErrorStops(l)
  \/ WriteRow(l) \/ WriteFails(l) \/ Wake(l)

Next ==
  \/ \E c \in Callers : UserStep(c) \/ StopStep(c)
  \/ \E l \in Loggers : Worker(l)

Spec == Init /\ [][Next]_vars

\* A stop() under way and a thread that is not blocked go on; nobody has to
\* start or stop anything. A poll ends: the client's timeouts see to that.
Fairness ==
  /\ \A c \in Callers : WF_vars(StopStep(c))
  /\ \A l \in Loggers : WF_vars(Worker(l))

FairSpec == Spec /\ Fairness

-----------------------------------------------------------------------------
\* Every variable keeps its type; consecutive errors never exceed max_errors.
TypeOK ==
  /\ activeLogger \in Loggers \cup {Nobody}
  /\ loggerLock \in Callers \cup {Nobody}
  /\ stopEvent \in [Loggers -> BOOLEAN]
  /\ hasThread \in [Loggers -> BOOLEAN]
  /\ thread \in [Loggers -> {"unborn", "open", "test", "poll", "on_error",
                             "write", "wait", "dead"}]
  /\ errors \in [Loggers -> 0..MaxErrors]
  /\ late \in [Loggers -> Nat]
  /\ pc \in [Callers -> {"idle", "set", "check", "load", "join"}]
  /\ target \in [Callers -> Loggers \cup {Nobody}]
  /\ refused \in BOOLEAN

\* However callers start and stop, through either interface, no two threads
\* poll the device and write at once unless one of them has been told to stop.
OneSession ==
  \A k, l \in Loggers :
    Running(k) /\ Running(l) /\ ~stopEvent[k] /\ ~stopEvent[l] => k = l

\* A thread that has been told to stop writes at most the row it is about to.
OneRowAfterStop == \A l \in Loggers : late[l] <= 1

\* start_logging raises RuntimeError "If a logging session is already active"
\* (streaming.py:307): never because of one that has ended by itself or by its
\* own stop().
RefusedOnlyWhileRunning == ~refused

\* A thread that has been told to stop does, however polls and callbacks fail.
StoppedThreadEnds ==
  \A l \in Loggers : (stopEvent[l] /\ Running(l)) ~> thread[l] = "dead"
=============================================================================
