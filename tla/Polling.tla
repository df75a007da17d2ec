------------------------------ MODULE Polling ------------------------------
(***************************************************************************)
(* The loops that poll a connected client: the generator                   *)
(* stream_measurements with its consumer, wait_for_ready, ping, and the    *)
(* demo's dashboard, which reads the device's information once and then    *)
(* consumes a stream until Ctrl-C.                                         *)
(*                                                                         *)
(* One of these programs runs on one thread. The client's request path     *)
(* (module Client) is one step here, which takes up to PollTicks: it       *)
(* brings a payload, parsed as in module Payload, or an exception, and     *)
(* with auto_reconnect it may leave the connection up or down. Other       *)
(* threads of the user's may meanwhile close the connection or reconnect   *)
(* it. Time is counted in ticks.                                           *)
(***************************************************************************)
EXTENDS Payload

CONSTANTS
  InfoPayloads,   \* the answers of the device to get_device_info
  DataPayloads,   \* the answers to get_measurements
  Intervals,      \* values of the parameter interval
  Timeouts,       \* values of the parameter timeout of wait_for_ready
  MaxErrors,      \* values of the parameter max_errors
  DEFAULT_MAX_CONSECUTIVE_ERRORS,
  PollTicks,      \* bound: how long one call of the client takes
  ConsumerTicks,  \* bound: how long callback and consumer keep a sample
  History         \* bound: how many outcomes the ghost remembers

ASSUME PollingAssumption ==
  /\ Intervals \subseteq Nat /\ Timeouts \subseteq Nat
  /\ MaxErrors \subseteq 0..History
  /\ DEFAULT_MAX_CONSECUTIVE_ERRORS \in 1..History
  /\ PollTicks \in Nat /\ ConsumerTicks \in Nat /\ History \in Nat

\* A payload is a string of bytes.
ASSUME PayloadAssumption ==
  InfoPayloads \cup DataPayloads \subseteq Seq(0..255)

VARIABLES
  program,    \* "stream", "wait", "ping" or "dashboard"
  interval, maxErrors, autoReconnect,  \* its parameters
  pc,         \* where the program stands
  since,      \* ticks since start = time.monotonic()
  nap,        \* ticks left of time.sleep()
  left,       \* ticks to the deadline of wait_for_ready
  errors,     \* consecutive_errors
  connected,  \* is_connected
  reach,      \* is the device there to answer?
  stop,       \* STOP of the dashboard
  recent,     \* ghost: the outcomes of the last polls, the newest first
  payload,    \* ghost: the payload of the last good poll
  closed      \* ghost: the connection has been closed, by whomever

parameters == <<program, interval, maxErrors, autoReconnect>>
environment == <<reach, stop>>
vars == <<parameters, pc, since, nap, left, errors, connected, environment,
          recent, payload, closed>>

Ended == {"ended", "raised", "left"}
Final == {"returned", "timedout", "unreachable", "crashed", "exit"}

Init ==
  /\ program \in {"stream", "wait", "ping", "dashboard"}
  /\ interval \in Intervals
  /\ maxErrors \in IF program = "dashboard"
                   THEN {DEFAULT_MAX_CONSECUTIVE_ERRORS} ELSE MaxErrors
  /\ autoReconnect \in IF program = "dashboard" THEN {FALSE} ELSE BOOLEAN
  /\ left \in IF program = "wait" THEN Timeouts ELSE {0}
  /\ pc = IF program \in {"stream", "wait"} THEN "head" ELSE "info"
  /\ since = 0 /\ nap = 0 /\ errors = 0
  /\ connected = TRUE /\ reach = TRUE /\ stop = FALSE
  /\ recent = [i \in 1..History |-> "none"]
  /\ payload = <<>> /\ closed = FALSE

-----------------------------------------------------------------------------
\* What the parsers make of each answer.
InfoOf == [p \in InfoPayloads |-> parse_device_info(p)]
MeasurementsOf == [p \in DataPayloads |-> parse_device_data(p)]

Remember(outcome) ==
  recent' = [i \in 1..History |-> IF i = 1 THEN outcome ELSE recent[i - 1]]

\* bound: the count stops where it can no longer matter.
OneMore == IF errors < History THEN errors + 1 ELSE errors

Keeps(all) == UNCHANGED <<parameters, environment, all>>

\* The head of the loop: "while device.is_connected", or the deadline.
LoopHead ==
  /\ pc = "head"
  /\ pc' = IF program = "wait"
           THEN IF left > 0 THEN "poll" ELSE "timedout"
           ELSE IF connected THEN "poll" ELSE "ended"
  /\ since' = 0
  /\ UNCHANGED payload
  /\ Keeps(<<nap, left, errors, connected, recent, closed>>)

\* Mutated: a failed poll of a stream is not counted.
FailedUncounted ==
  /\ pc' = IF program = "wait" THEN "raised" ELSE "failed"
  /\ Remember("failed")
  /\ UNCHANGED <<errors, payload>>

\* The call has raised: a stream counts it, everything else passes it on.
Failed ==
  /\ pc' = IF program = "wait" THEN "raised" ELSE "failed"
  /\ errors' = IF program = "wait" THEN errors ELSE OneMore
  /\ Remember("failed")
  /\ UNCHANGED payload

\* Mutated: errors are counted over the whole stream.
SampledForgetless(p) ==
  /\ pc' = "callback"
  /\ Remember("ok") /\ payload' = p
  /\ UNCHANGED <<nap, errors>>

\* A stream has a sample: it resets the count and calls back.
Sampled(p) ==
  /\ pc' = "callback"
  /\ errors' = 0
  /\ Remember("ok") /\ payload' = p
  /\ UNCHANGED nap

Shorter(a, b) == IF a <= b THEN a ELSE b

\* Mutated: the sleep is not cut at the deadline.
AwaitsWholeInterval(p) ==
  LET ready == is_ready(MeasurementsOf[p].system_state)
  IN  /\ pc' = IF ready THEN "returned"
               ELSE IF left <= 0 THEN "timedout" ELSE "sleep"
      /\ nap' = IF ~ready /\ left > 0 THEN interval ELSE 0
      /\ Remember("ok") /\ payload' = p
      /\ UNCHANGED errors

\* wait_for_ready has a sample: it is what was awaited, or it is too late, or
\* the next one is awaited.
Awaits(p) ==
  LET ready == is_ready(MeasurementsOf[p].system_state)
  IN  /\ pc' = IF ready THEN "returned"
               ELSE IF left <= 0 THEN "timedout" ELSE "sleep"
      /\ nap' = IF ~ready /\ left > 0 THEN Shorter(interval, left) ELSE 0
      /\ Remember("ok") /\ payload' = p
      /\ UNCHANGED errors

\* get_measurements brings a payload; over a connection that is down only
\* after a reconnect.
Answered(p) ==
  /\ pc = "poll" /\ reach
  /\ connected \/ autoReconnect
  /\ connected' = TRUE
  /\ IF MeasurementsOf[p].verdict # "ok" THEN Failed /\ UNCHANGED nap
     ELSE IF program = "wait" THEN Awaits(p) ELSE Sampled(p)
  /\ Keeps(<<since, left, closed>>)

\* get_measurements raises. With auto_reconnect it may have closed the
\* connection and dialled again, in vain or not.
PollFails ==
  /\ pc = "poll"
  /\ connected' \in IF autoReconnect THEN BOOLEAN ELSE {connected}
  /\ closed' = (closed \/ (connected /\ ~connected'))
  /\ Failed
  /\ Keeps(<<since, nap, left>>)

-----------------------------------------------------------------------------
\* Mutated: the time the poll took is not taken off the sleep.
RestWholeInterval == pc' = "sleep" /\ nap' = interval

\* "sleep_time = interval - elapsed", and no sleep when nothing is left.
Rest ==
  /\ pc' = "sleep"
  /\ nap' = IF interval > since THEN interval - since ELSE 0

\* Mutated: the limit may be passed by one.
AfterErrorOffByOne ==
  /\ pc = "failed"
  /\ IF maxErrors > 0 /\ errors > maxErrors
     THEN pc' = "raised" /\ UNCHANGED nap
     ELSE Rest
  /\ Keeps(<<since, left, errors, connected, recent, payload, closed>>)

\* on_error has returned: the stream raises the error or sleeps and goes on.
AfterError ==
  /\ pc = "failed"
  /\ IF maxErrors > 0 /\ errors >= maxErrors
     THEN pc' = "raised" /\ UNCHANGED nap
     ELSE Rest
  /\ Keeps(<<since, left, errors, connected, recent, payload, closed>>)

\* callback(data) has returned: yield data. The consumer has the sample.
Yields ==
  /\ pc = "callback"
  /\ pc' = "yielded"
  /\ Keeps(<<since, nap, left, errors, connected, recent, payload, closed>>)

\* Mutated: the dashboard does not look at STOP.
ConsumerShowsAlways ==
  /\ pc = "yielded"
  /\ pc' = "shown"
  /\ Keeps(<<since, nap, left, errors, connected, recent, payload, closed>>)

\* The consumer goes to work on the sample; the dashboard looks at STOP before
\* that, and not again until the next sample.
ConsumerShows ==
  /\ pc = "yielded"
  /\ program = "dashboard" => ~stop
  /\ pc' = "shown"
  /\ Keeps(<<since, nap, left, errors, connected, recent, payload, closed>>)

\* The consumer asks for the next sample.
ConsumerResumes ==
  /\ pc = "shown"
  /\ Rest /\ payload' = <<>>
  /\ Keeps(<<since, left, errors, connected, recent, closed>>)

\* The consumer leaves its loop; the dashboard because of STOP.
ConsumerLeaves ==
  /\ \/ program = "dashboard" /\ pc = "yielded" /\ stop
     \/ program = "stream" /\ pc = "shown"
  /\ pc' = "left" /\ payload' = <<>>
  /\ Keeps(<<since, nap, left, errors, connected, recent, closed>>)

Wakes ==
  /\ pc = "sleep" /\ nap = 0
  /\ pc' = "head" /\ payload' = <<>>
  /\ Keeps(<<since, nap, left, errors, connected, recent, closed>>)

\* Time passes inside a call of the client, in a callback, at the consumer and
\* asleep.
Tick ==
  /\ \/ pc \in {"info", "poll"} /\ since < PollTicks /\ UNCHANGED nap
     \/ /\ pc \in {"failed", "callback", "shown"}
        /\ since < PollTicks + ConsumerTicks /\ UNCHANGED nap
     \/ pc = "sleep" /\ nap > 0 /\ nap' = nap - 1
  /\ since' = since + 1
  /\ left' = IF program = "wait" THEN left - 1 ELSE left
  /\ UNCHANGED pc
  /\ Keeps(<<errors, connected, recent, payload, closed>>)

-----------------------------------------------------------------------------
\* get_device_info returns or raises, for ping and for the dashboard, where it
\* stands before the "try" whose "finally" closes the connection.
InfoArrives(p) ==
  /\ pc = "info" /\ reach
  /\ connected \/ autoReconnect
  /\ connected' = TRUE
  /\ LET ok == InfoOf[p].verdict = "ok"
     IN  pc' = IF program = "dashboard"
               THEN IF ok THEN "head" ELSE "crashed"
               ELSE IF ok THEN "returned" ELSE "unreachable"
  /\ Keeps(<<since, nap, left, errors, recent, payload, closed>>)

InfoFails ==
  /\ pc = "info"
  /\ connected' \in IF autoReconnect THEN BOOLEAN ELSE {connected}
  /\ closed' = (closed \/ (connected /\ ~connected'))
  /\ pc' = IF program = "dashboard" THEN "crashed" ELSE "unreachable"
  /\ Keeps(<<since, nap, left, errors, recent, payload>>)

\* "finally: device.disconnect()", however the dashboard's loop has ended.
Finally ==
  /\ program = "dashboard" /\ pc \in Ended
  /\ pc' = "exit" /\ connected' = FALSE
  /\ Keeps(<<since, nap, left, errors, recent, payload, closed>>)

-----------------------------------------------------------------------------
\* Another thread closes the connection: disconnect(), or the first half of
\* a reconnect. The second half opens it again.
OtherCloses ==
  /\ program # "dashboard" /\ connected
  /\ connected' = FALSE /\ closed' = TRUE
  /\ UNCHANGED <<parameters, pc, since, nap, left, errors, environment,
                 recent, payload>>

OtherReopens ==
  /\ autoReconnect /\ ~connected /\ reach
  /\ connected' = TRUE
  /\ UNCHANGED <<parameters, pc, since, nap, left, errors, environment,
                 recent, payload, closed>>

\* The device goes out of reach and comes back; no flag of the host's notices.
DeviceMoves ==
  /\ reach' = ~reach
  /\ UNCHANGED <<parameters, pc, since, nap, left, errors, connected, stop,
                 recent, payload, closed>>

\* on_signal.
Signal ==
  /\ program = "dashboard" /\ ~stop
  /\ stop' = TRUE
  /\ UNCHANGED <<parameters, pc, since, nap, left, errors, connected, reach,
                 recent, payload, closed>>

\* What the thread does by itself; a call that could bring an answer could as
\* well raise.
Proceeds ==
  \/ LoopHead \/ PollFails \/ AfterError \/ Yields
  \/ ConsumerShows \/ ConsumerResumes \/ ConsumerLeaves \/ Wakes \/ Tick
  \/ InfoFails \/ Finally

Next ==
  \/ Proceeds
  \/ \E p \in DataPayloads : Answered(p)
  \/ \E p \in InfoPayloads : InfoArrives(p)
  \/ OtherCloses \/ OtherReopens \/ DeviceMoves \/ Signal

Spec == Init /\ [][Next]_vars

\* The thread of the program is scheduled; calls and sleeps end.
FairSpec == Spec /\ WF_vars(Proceeds)

-----------------------------------------------------------------------------
Labels ==
  {"head", "poll", "failed", "callback", "yielded", "shown", "sleep", "info"}
    \cup Ended \cup Final

\* Every variable has its type, and the count of errors stays below the limit
\* except between an error and the stream's end.
TypeOK ==
  /\ program \in {"stream", "wait", "ping", "dashboard"}
  /\ interval \in Intervals
  /\ maxErrors \in MaxErrors \cup {DEFAULT_MAX_CONSECUTIVE_ERRORS}
  /\ autoReconnect \in BOOLEAN
  /\ pc \in Labels
  /\ since \in Nat /\ nap \in Nat /\ left \in Int
  /\ errors \in 0..History
  /\ \/ maxErrors = 0 \/ errors < maxErrors
     \/ errors = maxErrors /\ pc \in {"failed", "raised", "exit"}
  /\ connected \in BOOLEAN /\ reach \in BOOLEAN /\ stop \in BOOLEAN
  /\ recent \in [1..History -> {"none", "ok", "failed"}]
  /\ payload \in DataPayloads \cup {<<>>}
  /\ closed \in BOOLEAN

\* A stream raises when, and only when, max_errors polls in a row have failed
\* (none that works may lie between), and never without a limit.
RaisesOnStreak ==
  program \in {"stream", "dashboard"} =>
    /\ pc = "raised" =>
         maxErrors > 0 /\ \A i \in 1..maxErrors : recent[i] = "failed"
    /\ pc \in {"head", "poll", "sleep"} /\ maxErrors > 0 =>
         \E i \in 1..maxErrors : recent[i] # "failed"

\* Polls of a stream begin at least the interval apart, and later only by as
\* much as the poll and its consumer took longer than the interval: sleeping
\* does not add to them.
Paced ==
  [][pc = "head" /\ pc' = "poll" /\ program # "wait" /\ recent[1] # "none"
       => since >= interval
          /\ (since = interval \/ since <= PollTicks + ConsumerTicks)]_vars

\* wait_for_ready outlives its deadline by no more than one poll, and does not
\* report a timeout before it.
WaitKeepsDeadline ==
  program = "wait" => /\ left >= -PollTicks
                      /\ pc = "timedout" => left <= 0

\* The state word as bytes: bit 30 is bit 6 of the last one; the faults are the
\* lowest three bits of the first and bits 1 to 6 of the third.
ReportsReady(p) ==
  /\ (p[43] \div 64) % 2 = 1
  /\ p[40] % 8 = 0
  /\ (p[42] \div 2) % 64 = 0

\* What wait_for_ready returns reports a device that is initialised and without
\* a fault, and it does not time out on such an answer.
ReadyIsReady ==
  program = "wait" =>
    /\ pc = "returned" => payload # <<>> /\ ReportsReady(payload)
    /\ pc = "timedout" /\ payload # <<>> => ~ReportsReady(payload)

\* The clock in an answer is decoded to the date and time of day that the
\* device has packed, and refused when and only when there is no such date or
\* time; the offset of every timezone is the one its label names; and a sample
\* is handed out with the date and the time of day that are in its bytes. The
\* daylight saving is in those bytes and has no influence
\* (datetime.py:138-147), although enums.py:23 has it applied to the offset
\* from UTC.
ClockDecoded ==
  /\ WrongTimes = {} /\ WrongDates = {} /\ WrongZones = {}
  /\ payload # <<>> =>
       \E daylight \in DaylightSaving, day_of_week \in 0..7 :
         SubSeq(payload, 22, 29)
           = PackedClock(MeasurementsOf[payload].dose_datetime, daylight,
                         day_of_week)

\* A stream with a limit, whose device goes out of reach for good and whose
\* connection nobody closes, raises (or its consumer leaves it): is_connected
\* stays true on the dead link, only the failed polls end the loop.
LossRaises ==
  (/\ program = "stream" /\ maxErrors > 0
   /\ <>[](~reach) /\ [](~closed)) => <>(pc \in {"raised", "left"})

\* After Ctrl-C the dashboard comes to its end, although it looks at STOP only
\* when a sample arrives, before it shows it: with the default limit on errors
\* there is either another sample or an exception.
DashboardStops ==
  (program = "dashboard" /\ stop) ~> (pc \in {"exit", "crashed"})
=============================================================================
