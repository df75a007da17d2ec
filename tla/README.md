# Verification of accurad

`accurad` is a Python driver for the AccuRad personal radiation detector. Caller
threads share one client; the client exchanges small binary frames with the
detector over Bluetooth LE or a USB serial port, and keeps exactly one exchange
in flight. This directory holds TLA+ models of that code, the TLC runs that
check them on small instances, and TLAPS proofs for every value of the
constants. `PROJECT.json` names, for each definition, the source lines it
stands for.

## 1. Inventory

Paths are relative to `src/accurad/`.

| Component | State | Operations | Correct when |
|---|---|---|---|
| **Client request path** `client.py` | `_lock`, `_reconnect_count`, the locals of `_request` | `get_device_info`, `get_measurements`, `ping`, `wait_for_ready`, `disconnect`, `_request`, `_try_reconnect`, the callbacks | one exchange at a time; a call returns its own answer; retries and reconnects end; the lock always comes back |
| **BLE transport** `connection/bluetooth.py` | `_client`, `_loop`, `_thread`, `_connected`, `_last_send_time`, `_keepalive_timer`, `_rx_buffer`, `_rx_event` | `connect`, `disconnect`, `send`, `receive`, the notification handler, the timer's tick | a complete frame is returned once; no wake-up is lost; one timer chain; no thread outlives the connection |
| **BLE keep-alive** (part of the above) | the timer, `_last_send_time` | `_start_keepalive`, `_keepalive_tick`, `needs_keepalive` | the device never hears nothing for longer than its 2.5 s; one chain of timers, which dies with the connection |
| **Serial transport** `connection/serial.py` | the port and its `timeout` | `connect`, `disconnect`, `send`, `receive` (synchronises on the marker) | receive ends; what it returns is one frame; the port's timeout is restored |
| **Framing** `protocol/frame.py`, `crc.py` | none | `parse_frame`, `find_frame_in_stream`, `crc16` | damage is reported, never decoded; no frame is lost to noise |
| **Decoding** `protocol/parsers.py`, `models/` | none | sizes, bit fields of the clock and the state words, the timezone tables | a clock decodes to what was packed, or is refused |
| **Streaming** `streaming.py` | `consecutive_errors` | `stream_measurements` | polls at its interval while connected; ends with an exception exactly after `max_errors` failures in a row |
| **Demo** `../demo/live_dashboard.py` | `STOP` | `main`, `on_signal` | ends after Ctrl-C, closes the connection |
| **Logging** `streaming.py` | `_active_logger`, `_logger_lock`; per logger `_thread`, `_stop_event` | `start_logging`, `stop_logging`, `logger.stop()`, the thread | one session at a time; a stop ends it; a start is refused only while one runs |
| Requests, configuration, frozen records, examples, tests | — | — | not modelled (values only) |

**Interactions.** Threads call the client, which holds a plain (non-reentrant)
`threading.Lock` around send and receive; under that lock it also sleeps,
reconnects and runs the user's callbacks. The BLE transport adds two threads of
its own: an asyncio loop that owns the radio, and a `threading.Timer` chain
that writes a heartbeat *without* the client's lock. `disconnect()` is not
locked either. The logger adds one thread per session that polls the client.
`stream_measurements`, `wait_for_ready` and `ping` are loops over the client on
the caller's thread, and see of the connection only the flag `is_connected`,
which other threads change.

**Where the difficulty is.** Interleavings of callers, timer, user disconnect
and reconnect; an answer that comes after its timeout; a link that dies
unnoticed; retry and reconnect counters that interact; errors that bypass both;
callbacks under a lock; stops that race. `PROJECT.json` lists these as hazards,
each at its line.

## 2. What the modules model

### Client

One caller is a value of `Threads`; `pc[t]` is where it stands in its call:

| `pc` | code |
|---|---|
| `idle`, `lock` | before the call; at `with self._lock` |
| `send`, `recv` | the `try` block of `_request`: `connection.send`, `connection.receive` |
| `except` | the handler: reconnect, raise, or sleep and retry |
| `close`, `dial`, `on_reconnect`, `on_disconnect` | `_try_reconnect` |
| `exhausted` | `raise last_exc` after the loop, with the lock released |
| `parse` | `parse_frame`, the frame ID and the decoder, after `_request` |
| `stuck` | a callback that made a request and waits for its own thread's lock |

`attempt`, `lastExc` belong to the lock's holder, so they are single variables.
The transport is what `AccuRadConnection` shows of it (`connected`, the buffer
`rx`); the link and the detector are `linkUp` and the queue `dev` of requests
not answered yet. `Disconnect` and `Heartbeat` need no lock, as in the code.

A `connect()` that raises (`DialFails`) may leave three things behind: a
transport that is down; a serial port that has opened but could not be flushed
(`serial.py:59`), which stays in `_serial` and counts as connected, whether or
not the device is there; or a Bluetooth connect whose future was given up
(`bluetooth.py:114`) and whose coroutine goes on (`pending`). The last one may
come through at any later time, without a lock (`ConnectsLate`), until a
`disconnect()` stops its loop.

*Data.* A frame is its ID, its quality (`good`, wrong CRC, wrong size, or valid
with a value the decoder rejects) and two ghost fields: the call that asked for
it (0 for a heartbeat) and the session, i.e. how often the transport has come
up before, by a connect that succeeded or by one that had failed.
A constant `Faults` selects what may go wrong below the client.

*Grain.* Each step is one access to what threads share. `Close` (the
transport's `disconnect`) and `DialOk`/`DialFails` (its `connect`) are one step
each: their internal races are the subject of BleTransport. A write
whose future times out (`SendStalls`) is made at that moment or never; one that
is made later still is not modelled. In `ReceiveTimesOut`, without `"late"`,
the receive timeout outlasts every answer that does come. `ReadTimeoutError`,
the connection errors and "foreign" (not an `AccuRadError`) are told apart
because `_request` treats them differently; other subclasses of the connection
error are one value.

*External, read off how the code uses it.* The link may drop unnoticed, lose or
damage an answer; the detector answers in the order of the requests. When the
link is cut, by either side, the detector may forget the requests it has not
answered or, with the fault `"linger"`, keep them (`DeviceCutOff`): closing a
serial port tells it nothing. It then answers into the next link, or into
nothing while the line is down (`Lose`).

### Service and ClientService

`Service` is the promise `Client` keeps to its callers: exchanges take place one
after another, each for the one call that asked, and end with that call's own
answer or with an error. It knows nothing of links, retries or reconnects.
`ClientService` maps `Client` to it: `lock` is the holder, the program points
are folded into the stages outside / queued / inside / leaving, the frame a call
received stands for the call it answers, every exception for "error".

### KeepAlive

The timing of the heartbeat on one connection, in ticks of time. `conn` is the
connection as the host sees it (`settling` inside `connect`'s post-connect
delay), `timer` what is left of the delay, the timer or the write, `sinceSend`
is `seconds_since_last_send`, `silence` what the device has (not) heard.
`TickSkips` and `TickSends` are the two branches of `_keepalive_tick`; the timer
is armed again in both, after the write. What is due happens before time
passes (`Pass`), so the model has no scheduling jitter: the real code can only
be later. The races of a tick with `disconnect` and `connect` are in
BleTransport. Not here: `keepalive=False`, the loop's own delays.

### Frame and Receive

`Frame` holds the pure functions of the protocol on a line of bytes: `crc16` bit
for bit (with its step that replaces 0 by 1), `parse_frame` with the exception
it ends in, `find_frame_in_stream` with the count of bytes its caller may drop.
*Scaled down:* the start marker keeps three of its eleven bytes (`#!#`, which
like the original ends with the byte it begins with, so that overlapping
candidates occur), LEN, ID and CRC are one item of the line each, and the
payloads of the two known frames have 2 and 1 bytes.

`Receive` is `receive()` of either transport over such a line. The line does not
change; `arrived` counts what has reached the host and `taken` what has left the
buffer, so `_rx_buffer` is the stretch between them.

| action | code |
|---|---|
| `Arrive` | the notification handler (or the port's input), one item at a time |
| `SearchLate`, `SearchFinds`, `SearchWaits` | one round of `_async_receive`: deadline, frame there, drop and clear the event |
| `Wake`, `WaitTimesOut` | `wait_for` sees the event, or its timeout |
| `ReadSync`, `ReadLen`, `ReadBody`, `ReadTimesOut` | the serial reads: marker window, LEN, rest |
| `Ends` | the port gets its timeout back, the locals go |
| `ReadNoise`, `NotifyNoise` | noise that goes on after the line's last item |

A round of the search has no `await` in it, so the handler, on the same loop,
cannot come in between; that is why `SearchWaits` both searches and clears.
A line is finite, but its last item may come again for ever (`EndlessNoise`).
Where that changes nothing but the time (the marker window is full of the item;
no marker is in the buffer or begins with it) the repetition is not counted:
`ReadNoise` restarts the port's timeout, `NotifyNoise` wakes a search that finds
nothing. An endless line of items that do change something is not modelled, and
neither is `future.result(timeout + 2)` (`bluetooth.py:286`) giving up on a loop
that is too slow, whose `_async_receive` then takes a frame for nobody.
Time is counted in ticks and passes only while a call waits. The ghosts `sent`
(where the genuine frames lie), `got` (what was returned) and `cuts` (frames in
which a serial read gave up) serve the properties. The lines are in `MCReceive`.

### FrameQueue and ReceiveQueue

`FrameQueue` is what `AccuRadConnection.receive` promises: frames join a queue
one at a time, a receive takes the oldest, a timeout takes none. It is why
`Client` may treat the bytes of its connection as the queue of frames `rx`, of
which `Receive` takes the head and `ReceiveTimesOut` nothing. `ReceiveQueue`
maps `Receive` to it: the queue is `FramesBehind`, the frames that one search
after the other finds in what has arrived, from `Base` on, which is where the
buffer begins, with what the serial receive has read of a frame and not given
up. The promise leaves open *which* frames join: a damaged LEN may make one of
two (`LossExplained` and `AcceptedIsGenuine` say what is lost and what is taken
for genuine). `Client` goes a step further when it puts a whole answer into
`rx`.

### BleTransport

The threads and the fields of `BluetoothConnection`. Every `connect()` makes a
loop with a number; `co[g]` is how far the coroutine of loop `g` is, `link[g]`
whether its client still gets notifications, `beat[i]` where a timer thread
stands in `_keepalive_tick`. `app` is the thread with the client's lock, which
connects, calls and reconnects; `user` may `disconnect()` at any time after the
first `connect()` has begun.

`StartDisconnect` and `CancelTimer` (`_stop_keepalive`), `CloseClient`,
`Closed`/`CloseFails`, `StopLoop`, `SeeThread`, `Join`, `Joined`, `Reset` are
the lines of `disconnect()` in order. A field is tested in one step and used in
the next. When another `disconnect()` has reset it in between, `Raises` is the
`AttributeError` that ends this one half-way; at the client's `disconnect()`
coroutine the code catches it, which is `CloseFails`. `Subscribed` needs
`_client` because the code reads the field again after the `await`. A future's
timeout may come at any time (`ConnectTimesOut`, `CallTimesOut`, `BeatFails`,
`CloseFails`), the coroutine goes on. *Coarser than the code:* the assignments
of `Reset` are one step, `_loop` and `_thread` are one variable, a stopped loop
has ended when `join` returns (the code waits 5 s), and the bytes of the buffer
are reduced to the link they came over. `Overlap` says whether a `connect()` may
begin while another thread is inside `disconnect()`: the passing run and the
theorems exclude it, the run `ble_overlap` shows what it does.

### Payload and Polling

`Payload` has the parsers: sizes, the bit fields of time and date on real bytes,
when `datetime()` and the enumeration refuse them, both timezone tables, the
state word and what counts as a fault. Floats, text and `to_dict` are left out.
Its last part is the device's side, with which the parsers are compared: the
bytes a time and a date occupy (`PackedTime`, `PackedDate`, written as a
division of each field between two bytes, where the decoder reads bit after bit)
and what a clock is (`IsClock`).

`Polling` is one thread that runs `stream_measurements` with its callback and
its consumer, `wait_for_ready`, `ping`, or the demo's dashboard (`program`). The
dashboard tests `STOP` when it has a sample and before it shows it
(`ConsumerShows`, `ConsumerLeaves`); any consumer may take its time. A
call of the client is one step of up to `PollTicks`: it brings one of the
payloads, which `Payload` parses, or an exception, and with `auto_reconnect` it
may leave the connection up or down. Meanwhile others may close or reopen it,
and the device may go out of reach. `since` is `time.monotonic() - start`,
`left` the time to the deadline, `nap` what is left of a sleep, `errors` is
`consecutive_errors` (capped at `History`). `recent`, `payload` and `closed` are
ghosts. User callbacks return, and do so without an exception (a callback that
raises ends a stream like its consumer does); the dashboard is the only thread
of its process.

### Logger

`pc[c]` is where a caller stands in `stop()`, `thread[l]` where the thread of
logger `l` stands in its loop (CSV and JSON differ in the text they write, not
in the control). `stop_logging` keeps `_logger_lock` across the whole `stop()`,
`logger.stop()` takes no lock. The test of `_thread` and its use in `join` are
two steps, as another `stop()` may reset it in between (`StopLoad`). `"slow"`
lets the join's 5 s pass before the thread has ended. Errors count toward
`max_errors`; `on_error` returns, raises, or calls `stop()` of its own logger
from the logger's thread. Not modelled: calling `start()` on a logger a second
time, and `stop_logging()` from `on_error`, where the lock may be held by
somebody who is joining that very thread, for at most 5 s.

## 3. What is checked

Passing runs:

| Run | Instance | Shows |
|---|---|---|
| `client_quiet` | 2 threads, 2 calls, 1 retry, 2 reconnects, every fault except late answers, stalled writes and a device that answers after a cut, no heartbeats, callbacks that return | `AnswersOwnCall`, `HolderReturns`, and that `Client` implements `Service` (`ImplementsService`) |
| `client_hostile` | the same with these faults too (payloads that cannot be decoded, which play no part below the decoder, are left to `client_quiet`), a heartbeat, callbacks that raise or block | `LockDiscipline`, `NothingCrossesReconnect`, `RetryBudget`, `SessionBudget`, `GivesUpForGood` |
| `keepalive_bounds` | intervals just within and just beyond what the device tolerates | `IdleBound`, `PollingKeepsAlive` |
| `receive` | both transports; 55 lines of two or three pieces: genuine frames behind noise, half markers, cut frames, damaged LEN, payload or CRC, a marker inside a payload | `NoLostWakeUp`, `WholeFrames`, `AcceptedIsGenuine`, `LossExplained`, `DurationBound`, `FindAgrees`, `ReceiveEnds`, and that both receives implement `FrameQueue` (`ImplementsFrameQueue`) |
| `ble_transport` | 3 connects, 2 timers alive at a time, a second thread that disconnects | `OneLoop`, `BytesOfThisLink`, `ClosedIsClosed`, `OneChain`, `CallsReturn`, `TimersDie` |
| `polling` | 4 programs, intervals 0, 2 and 4, limits 0, 1 and 3, answers of every verdict | `RaisesOnStreak`, `Paced`, `WaitKeepsDeadline`, `ReadyIsReady`, `ClockDecoded`, `LossRaises`, `DashboardStops` |
| `logger_sessions` | 2 callers, 2 loggers, both ways to stop, every fault | `OneSession`, `OneRowAfterStop`, `StoppedThreadEnds` |

**Why the bounds are enough.** Two threads give every conflict over the lock,
and two calls an earlier and a later one, of one thread or of two. One retry
makes the last attempt differ from the first; two reconnects make the budget's
last differ from its first, and a budget of two is spent within two calls. One
heartbeat suffices to put an unsolicited answer before, between or after two
requests. The code has `_max_reconnects = 3`; nothing depends on 3 rather than
2, and the theorems hold for every number. Two loggers are an old session that
lingers and a new one. `Horizon` bounds how old the last send grows and lies
beyond the device's timeout in every run. The lines of `receive` put one or two
pieces of each kind in front of a genuine frame: damage reaches at most over the
next frame header, which the scaled sizes let happen (`LongLength` claims four
items too many); a line of three lets one frame come before and one after. Its
two timeouts tell a default from an override that must not stick. Three connects
give `ble_transport` an old loop, a current one and a next one, two timers are a
stray chain and the proper one. In `polling` the intervals are none, as long as
a poll may take and longer, the limits none, the least, and one that needs a
streak. `ClockDecoded` packs each field of a clock at its edges and at the
largest value its bits hold, all times with one date and all dates with one time
(the two words are decoded separately), and packs the datetime of every sample
again; `DecodesClock` (section 4) has no such bounds. `client_hostile` does not
check for deadlock: there, a callback that makes a request blocks for ever.

**Fairness.** `Client`: each thread that can take a step does so eventually
(they are operating-system threads; sends, receives, sleeps and connects all end
by their timeouts, except a serial receive that noise feeds for ever, see
`ReceiveEnds`: on such a line `HolderReturns` claims nothing), and the detector
treats what it has received. Nothing is assumed of the lock: `HolderReturns`
speaks of its holder, not of those who wait, because `threading.Lock` promises
no order. Nobody has to call, disconnect or keep the link up. `Logger`: a
`stop()` under way proceeds, and so does the thread, whose polls end by the
client's timeouts. `Receive`: a call that can go on does, and time passes when
it waits; nothing is assumed of the line. `ReceiveEnds` names the one way in
which a call does not end all the same: the sync loop reads noise for ever, each
byte within the port's timeout (`serial.py:108-117`). `BleTransport`: callers
that wait, timer threads and loops told to stop are scheduled; nothing is
assumed of scans, dials or the device, because every wait has its timeout.
`Polling`: the thread is scheduled and calls end; where an answer may come an
exception may come instead, so no answer is ever assumed.

Runs that contradict what the repository says of itself (each checks the one
property that fails; the counterexamples are short):

* `client_fall_through` — `# Should not be reached` is reached: with the default
  `retries=0`, every successful reconnect is followed by raising the error that
  it repaired.
* `client_heartbeat` — "does not conflict": the answer to a heartbeat is
  received by the next `get_device_info`, which raises.
* `keepalive_gap` — "every 2s": timer period and idle threshold are both 2.0 s,
  so 4 s can pass between sends; the device waits 2.5 s. Granted instantaneous
  writes and no settling delay.
* `ble_overlap` — `disconnect()` resets the fields that a `connect()` of
  another thread has just set: the new loop runs on, and nothing can stop it.
* `logger_refused` — `start_logging` refuses because of a session that has
  ended by `logger.stop()`, the way of ending it the docs recommend.

### Divergences without a run of their own

The models contain these; a run would only repeat the action that shows them.

*Client.* `_request`'s docstring says `CRCMismatchError` is retried (381), but
`parse_frame` runs after `_request` (171), so it never is (`Parse`). With
`auto_reconnect`, a request under way opens again the connection the user's
`disconnect()` has closed (`DialOk`, from `client.py:408`). `on_disconnect`
("Connection lost!" in `README.md:123`) runs after each attempt that fails, and
may run on a connection that is up: `on_reconnect` has raised
(`OnReconnectRaises`), a port has stayed open, or a Bluetooth connect comes
through just then (`DialFails`, `ConnectsLate`). A client whose last reconnect
has failed may thus be connected again later; `SessionBudget` bounds how often
that can happen, and `GivesUpForGood` says that nothing else brings it back. The
late answer to a request that timed out is returned by the next call, as its own
(`client.py:400`): `AnswersOwnCall` is therefore checked and proved on links
without late answers only. "All exceptions inherit from `AccuRadError`", yet
`TimeoutError` of a stalled future, errors of a closed port and the `ValueError`
of an impossible clock reach the caller; the lock is released all the same
(`LockDiscipline`).

*Framing.* A bit flip can keep the CRC: the step that avoids 0 (`crc.py:36`)
maps two accumulators to one, e.g. 206 and 207 as the last byte of the payload
`<<52, 206>>` of frame 0; `AcceptedIsGenuine` excepts exactly this.
`find_frame_in_stream` does not return 0 when there is no marker, as its
docstring says (167), but all except a possible beginning of one (175), which is
the better choice (`FindAgrees`); and on a damaged frame it raises without
telling its caller how much to drop. A LEN of 0 or 1 passes the length check and
ends `parse_frame` in a `struct.error` (`frame.py:108`), which is none of the
errors its docstring lists. `_constants.py:31` has the CRC cover the
payload only; the code covers ID and payload (`frame.py:124`).

*Receiving.* `receive` promises a `ReadTimeoutError` "if no response within the
timeout period" (`base.py:59`). The serial timeout is per read, so while noise
keeps coming no error is raised at all (`ReadNoise`). `_async_receive` looks at
its deadline before the buffer, so a frame that came in time can be reported as
a timeout and is left for the next call (`SearchLate`). Noise without a marker
is never dropped: the Bluetooth buffer grows until a marker comes or the
connection is closed. A damaged LEN makes the receive swallow what follows;
`LossExplained` says that nothing else over Bluetooth does.

*Transport.* `is_connected` is documented as the state of the connection, but
no callback resets it when the link drops (`LinkDrops` touches no field). A
`connect()` that fails leaves its loop running for the next `disconnect()` to
stop (`ConnectFails`), and its future's timeout is shorter than a scan, a dial
and the delay together, so a `connect()` that has raised can come up later.

*Polling.* With `auto_reconnect`, a stream whose own poll ends in a reconnect
that failed finds `is_connected` false and ends without an exception, whatever
`max_errors` says (`PollFails`, `LoopHead`), and so does one that looks while
another thread is between the halves of a reconnect; this is why `LossRaises`
assumes that nobody closes the connection. `wait_for_ready` documents only
`TimeoutError`, but passes on the first error of a poll, the `ValueError` of a
clock not yet set included (`Failed`), and spends what is left before the
deadline asleep, without a last poll. `ping` calls a device that answers with an
impossible clock unreachable. An unknown timezone index is silently UTC. The
daylight-saving field is "Applied to the base UTC offset indicated by the
timezone index" (`enums.py:23`), but `decode_datetime` hands on neither it nor
the day of the week (`datetime.py:138-147`): the model's `Datetime` has neither,
and `ClockDecoded` gets the payload's bytes back for *some* value of the two. In
the dashboard, `get_device_info` stands before the `try` whose `finally` closes
the connection (`InfoFails`), and Ctrl-C is seen only at the next sample
(`DashboardStops` shows that the default limit on errors saves it).

*Logging.* `stop()` "waits for [the thread] to finish", but for 5 s at most,
after which the thread may write one more row (`OneRowAfterStop` is the bound).

## 4. What is proved

All for arbitrary constants, under each module's named assumption.

**ClientProofs.** `LoopInv` is inductive. It adds to `TypeOK` and
`LockDiscipline` what the loop's counters mean at each program point: `tries` is
`attempt` at `send` and `attempt + 1` after it, `lastExc` is an error once the
handler is reached, a reconnect is only under way for a connection error, and a
call that reports a timeout has made all its attempts. Neither `TypeOK` (tries
could pass its bound) nor `RetryBudget` is inductive without it. From it follow
`TypeCorrect`, `LockHeldInside`, `BudgetRespected` and `GivesUpForever` (an
action property: with the budget spent, the connection down and no connect
pending, only an answer could renew the budget, and none can be received).

`SessionsBudgeted` (`SessionBudget`) has an invariant of its own, `UpsInv`: the
sessions since the last answer received, and one more while a reconnect is
closing or dialling or its connect is pending, are no more than the reconnects
counted since. So whatever a failed connect leaves behind, it has been paid for.

The next part of the module is about the wire. `SessionInv`: what is buffered
has arrived in the open session, because a transport that is closed has an empty
buffer, and comes up only from there (by a connect, or late); hence
`NoFrameCrossesReconnect`. `WireInv`: on a quiet link (`QuietLink`: no
heartbeats, no late answers, no stalled writes, no request that lingers in the
detector) buffer and device together hold at most one frame, and only while its
caller waits in `recv`; hence `QuietLinkAnswersOwnCall`. The run
`client_heartbeat` and the late answer described in section 3 show that neither
premise can be dropped.

The last part is `ClientIsService`: on a quiet link, `Client` implements
`Service` under the refinement mapping of `ClientService`. Every step is one of
Service's (`Call` asks, `Acquire` enters, `Receive` serves, each way out of
`_request` by an exception fails, `Parse` decides, `RaiseLast` raises) or leaves
its variables alone. The step that needs an invariant is `Receive`: the frame at
the head of the buffer is the caller's own because of `WireInv`.

**KeepAliveProofs.** The invariants relate timer and last send (a timer with
*k* ticks left was armed when the last send was less than an interval old),
the device's silence and the last send. They give `IdleBounded`
and `PollingSuffices`. That the keep-alive by itself keeps the link up is not
among the theorems: with the code's 2.0 s and 2.5 s it does not
(`keepalive_gap`).

**Steps.** What the next modules share: induction over a set of numbers
(`Inductive`), the existence of functions that are defined step by step
(`Stepwise`: the recursive functions of `Frame` and `Payload` are what their
equations say), division, and shifts by powers of two.

**FrameProofs.** On sequences of every length. `Find` is the *least* marker
(from the well-founded order of the naturals), and what precedes it may be
dropped. `OneByteFound` is the promise of the CRC: two strings of bytes of the
same length that differ in one byte have different CRCs, unless the register is
0 or 1 somewhere before the step that replaces 0 by 1. The argument: exclusive
or, on words put together from nibbles, can be undone (`XorFacts`); so can the
shift to the right, because the polynomial's highest bit is set and the result
therefore shows whether a 1 was shifted out (`ShiftFacts`), and with it eight
shifts; the step that avoids zero can be undone except at 0 and 1
(`AvoidZeroFacts`). So a register that differs after the damaged byte still
differs at the end.

**ReceiveProofs.** For every line, whatever it holds, and every timeout. `Inv`
adds to `TypeOK` and `DurationBound` what the serial receive knows: its window
holds the items it has read last, after the marker `need` is the LEN it has just
read, and its port has the timeout asked for. Over Bluetooth the central fact is
about the search: dropping what is before the least marker makes the frame head
the buffer. From there: `NeverSleepsOnFrame` (clearing the event after a search
in vain leaves no frame behind), `ReturnsWholeFrames` (with a second inductive
invariant that orders what was returned) and `DurationBounded`.
`ReceiveIsFrameQueue` is the refinement. `FramesBehind` recurs towards the end
of what has arrived, so that it defines a function is shown first
(`FramesRecursion`); where nothing is found behind a position nothing is found
from anywhere up to the end. The step that matters is `Arrive`: one more item
leaves every frame there is as it was and completes at most one, by induction
backwards from the end. A search in vain drops only what precedes the first
marker, a serial read only what cannot begin one (its window is not yet a
marker, `WindowShort`), a return exactly one frame.

`LossHasCause` (`LossExplained`): `LossInv` says that every genuine frame whose
beginning `Base` has passed has been returned, was claimed by a false header, or
was cut by a read that gave up. A step therefore has to account for the genuine
frames that begin in what it moves past: in a frame that is returned, only that
frame itself or one its false header had claimed (`FoundOrClaimed`); before the
marker found, none (it would begin with a marker, `NoMarkerPassed`); behind a
serial read that gives up, those it cuts (`CutOrClaimed`). Why this needs an
invariant of its own: `LossExplained` speaks of a frame's last byte, but the
cause lies at its first.

`FindAgreesAlways` (`FindAgrees`): the search over what is kept finds the same
first frame as the search over everything, because what was dropped holds no
marker and no beginning of one that the next bytes could complete
(`DropKeepsFirst`).

`AcceptsOnlyGenuine` (`AcceptedIsGenuine`): a genuine frame passes each test of
`parse_frame` (`ParsesGenuine`). A returned stretch that is not one of `sent` is
a false claim (`ReturnedFacts`); if it is accepted its CRC is right, and with
`OneByteFound` one damaged byte explains that only by the zero-avoidance step.
The theorem has a hypothesis, `OnlyBytesDamaged`: a stretch with a false header
that carries its CRC differs in one byte from one that carried the same CRC.
Without it the property is false for every checksum (noise may hold a frame by
chance, and two damaged bytes may cancel). The lines of the run `receive`
satisfy it, which TLC confirms (`MCDamage`), and `Twin` is a stretch it speaks
of. `GenuineAssumption`, on the lines, only says what `genuine` means: these
stretches are well-formed frames with their CRC and do not overlap.

**BleTransportProofs.** For any number of connects and timers, without
`Overlap`. `Stages` says what each stage of a `disconnect()` may rely on: from
the join on, the loop it has stopped is the only one, so nobody is left to write
the fields back; and a caller about to connect finds them empty. This makes
`TypeOK`, `OneLoop`, `BytesOfThisLink` and `ClosedIsClosed` inductive together.
`Chain` then gives `OneKeepAlive`: while no `disconnect()` has come at a bad
moment, the one live timer is the one the field names, and a connect coroutine
or a closed transport has none.

**PollingProofs.** For all intervals, timeouts and limits. Each part of the
invariant serves one theorem: `Streak` (the count is the number of failures
since the last success) `RaisesExactlyOnStreak`, `Deadline` (a sleep never
passes the deadline, a poll began before it) `DeadlineKept`, `Pace` (where the
clock stands at each point of a round) `PollsPaced`. What the parsers make of a
payload plays no role there.

It does in the rest, for every payload (`PayloadAssumption`: a payload is a
string of bytes). `WaitsForReady` (`ReadyIsReady`): bit by bit, `is_ready` of
the state word is what its bytes report (`ReadyBits`), so `wait_for_ready`
neither returns on a device that is not ready nor times out on one that was
ready at its last poll. `DecodesClock`: any time and date that fit their bit
fields, when packed, are decoded to the datetime they stand for or refused, and
refused exactly if they are no clock (`IsClock`); their daylight saving and day
of the week change nothing in what comes out. `ClocksDecoded` (`ClockDecoded`)
is the way back: the datetime of any sample, packed with a daylight saving and a
day of the week, which it no longer has, is the eight bytes it was read from.
The argument goes through the number that four bytes form: bit *n* of the bytes
is bit *n* of that number (`BitOfWord`), the function that gathers a field bit
by bit computes a quotient and a remainder (`FieldOfWord`, by induction over the
width), and the fields of a time or date make up the number in one way only.

**LoggerProofs.** One invariant ties `_active_logger`, the stop events and the
callers inside `stop()` together: a running thread nobody has told to stop is
the registered one, and whoever holds the lock is stopping that one. Hence
`TypeCorrect`, `OneSessionAtATime` and `AtMostOneRowAfterStop`.

Only model-checked: liveness (`HolderReturns`, `ReceiveEnds`, `CallsReturn`,
`TimersDie`, `LossRaises`, `DashboardStops`, `StoppedThreadEnds`), which the
proof system does not reach. Every invariant that a passing run checks is
stated by a theorem. What the theorems about `Receive` inherit from the model is
its scale (section 2: a marker of three bytes, payloads of two and one).

## 5. Not modelled, and what is left to do

* `start()` called again on a logger (`streaming.py:141`), and `stop_logging()`
  from `on_error`.
* A write that is given up and made later still; a receive whose future is given
  up and whose coroutine then takes a frame for nobody; the assignments of
  `disconnect()`'s reset one by one; a loop that outlives its 5 s of `join`.
* Request bytes (two constants), `AccuRadConfig` (not used by the client),
  floats, text fields, firmware version and `to_dict` (reading or formatting
  them cannot fail), rows and printed text, `discover_*` and the detection of a
  port (lists of what the operating system finds), examples, tests, CI.

Next, in this order: `FrameQueue` with a connection that opens and closes, which
`BleTransport` implements and `Client` uses in place of its own `rx`, so that
the three compose, and the proof that they do; the restarted logger.

## 6. Running

    tlc -workers 2 -config ClientQuiet.cfg MCClient.tla
    tlapm ClientProofs.tla

`client_quiet`, `client_hostile`, `ble_transport`, `receive`, `polling` and
`logger_sessions` take from some seconds to two and a half minutes each, the
other runs seconds. `MCClient` and `MCLogger` only define the symmetry of the
instances (runs with liveness do not use it); `MCReceive` builds the lines (on
top of `ReceiveQueue`) and `MCPolling` the payloads.
