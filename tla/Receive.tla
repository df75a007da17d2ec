------------------------------ MODULE Receive ------------------------------
(***************************************************************************)
(* receive() of the two transports: how a line of bytes is cut into        *)
(* frames. BluetoothConnection searches a buffer that a notification       *)
(* handler fills and waits on an asyncio event; SerialConnection reads the *)
(* port byte by byte up to the marker, then the header and the body.       *)
(*                                                                         *)
(* The line is an immutable sequence: the first "arrived" items have       *)
(* reached the host, the first "taken" of them have left the buffer. It is *)
(* one of Lines: genuine frames among damaged ones and noise. A line is    *)
(* finite, but its last item may come again and again (EndlessNoise):      *)
(* where one more of it changes nothing that a receive looks at, it is not *)
(* counted, and shows only in the waiting it ends. Time is counted in      *)
(* ticks and passes only while a call has nothing to do but wait.          *)
(***************************************************************************)
EXTENDS Frame

CONSTANTS
  Lines,           \* the lines considered
  DefaultTimeout,  \* the connection's read timeout
  OverrideTimeout  \* a timeout given to receive()

\* A line: its items, and where the frames lie in it that the device has made
\* and nothing has damaged, as pairs of first and last.
Line == [items : Seq(Nat), genuine : SUBSET (Nat \X Nat)]

ASSUME ReceiveAssumption ==
  /\ Lines \subseteq Line
  /\ DefaultTimeout \in Nat \ {0}
  /\ OverrideTimeout \in Nat \ {0}

\* A frame as the device makes it: a marker, its length, an ID with the payload
\* that belongs to it, and their CRC.
IsGenuine(data) ==
  /\ MarkerAt(data, 1) /\ HasHeader(data)
  /\ data[MarkerLength + 1] >= LEN_OVERHEAD
  /\ TotalSize(data) = Len(data)
  /\ FrameCrc(Id(data), Payload(data)) = Crc(data)
  /\ Id(data) \in DOMAIN ExpectedSize =>
       Len(Payload(data)) = ExpectedSize[Id(data)]

\* The genuine frames of a line are genuine, and lie one after another.
ASSUME GenuineAssumption ==
  \A l \in Lines : \A f \in l.genuine :
    /\ f[1] \in DOMAIN l.items /\ f[2] \in DOMAIN l.items
    /\ IsGenuine(SubSeq(l.items, f[1], f[2]))
    /\ \A g \in l.genuine \ {f} : f[2] < g[1] \/ g[2] < f[1]

VARIABLES
  transport,  \* "ble" or "serial"
  line,       \* all items the device will ever send
  sent,       \* ghost: where the genuine frames lie in it
  arrived,    \* items that have reached the host
  taken,      \* items that have left the receive buffer
  event,      \* _rx_event is set
  pc,         \* where the call stands
  window,     \* marker_buf of the serial receive
  need,       \* frame_len of the serial receive
  port,       \* the timeout set on the serial port
  saved,      \* original_timeout
  asked,      \* the timeout the caller asked for
  elapsed,    \* ticks since a Bluetooth call began
  waited,     \* ticks since its current wait, or the current read, began
  got,        \* ghost: where the frames lie that receive() has returned
  cuts        \* ghost: the genuine frames in which a read of the port gave up

lineVars == <<transport, line, sent>>
callVars == <<port, saved, asked>>
ghosts == <<got, cuts>>
vars == <<lineVars, arrived, taken, event, pc, window, need, callVars,
          elapsed, waited, ghosts>>

-----------------------------------------------------------------------------
Items(first, last) == SubSeq(line, first, last)
Buffer == Items(taken + 1, arrived)

Init ==
  /\ transport \in {"ble", "serial"}
  /\ \E l \in Lines : line = l.items /\ sent = l.genuine
  /\ arrived = 0 /\ taken = 0 /\ event = FALSE
  /\ pc = "idle" /\ window = <<>> /\ need = 0
  /\ port = DefaultTimeout /\ saved = DefaultTimeout
  /\ asked = DefaultTimeout /\ elapsed = 0 /\ waited = 0
  /\ got = <<>> /\ cuts = {}

-----------------------------------------------------------------------------
\* Mutated: the handler fills the buffer and forgets the event.
ArriveSilently ==
  /\ arrived < Len(line)
  /\ arrived' = arrived + 1
  /\ UNCHANGED <<lineVars, taken, event, pc, window, need, callVars, elapsed,
                 waited, ghosts>>

\* One item reaches the host. Over Bluetooth it is the notification handler
\* that stores it, on the loop that also runs the search. A notification of
\* several bytes is several of these steps in a row.
Arrive ==
  /\ arrived < Len(line)
  /\ arrived' = arrived + 1
  /\ event' = (transport = "ble")
  /\ UNCHANGED <<lineVars, taken, pc, window, need, callVars, elapsed, waited,
                 ghosts>>

\* receive(), without or with a timeout of its own. The serial one puts the
\* timeout on the port.
Call(limit) ==
  /\ pc = "idle"
  /\ pc' = IF transport = "ble" THEN "search" ELSE "sync"
  /\ asked' = limit /\ saved' = port
  /\ port' = IF transport = "serial" /\ limit = OverrideTimeout
             THEN OverrideTimeout ELSE port
  /\ elapsed' = 0 /\ waited' = 0 /\ window' = <<>>
  /\ UNCHANGED <<lineVars, arrived, taken, event, need, ghosts>>

\* The locals of the call are gone.
Forget ==
  /\ window' = <<>> /\ need' = 0
  /\ saved' = DefaultTimeout /\ asked' = DefaultTimeout
  /\ elapsed' = 0 /\ waited' = 0

\* Mutated: the port keeps the timeout of the call.
EndsKeepingTimeout ==
  /\ pc' = "idle" /\ Forget
  /\ UNCHANGED <<lineVars, arrived, port>>

\* The call ends, in whichever way; the port gets its old timeout back.
Ends ==
  /\ pc' = "idle" /\ Forget
  /\ port' = saved
  /\ UNCHANGED <<lineVars, arrived>>

Returns(first, last) == Ends /\ got' = Append(got, <<first, last>>)

\* The call raises ReadTimeoutError.
TimesOut == Ends /\ UNCHANGED got

-----------------------------------------------------------------------------
\* BluetoothConnection._async_receive. One round of its loop runs without an
\* await in it, so no notification comes between the search and the clearing
\* of the event.
Start == taken + Find(Buffer)
FrameThere == Find(Buffer) > 0 /\ IsComplete(From(Buffer, Find(Buffer)))

SearchLate ==
  /\ pc = "search" /\ elapsed >= asked
  /\ TimesOut
  /\ UNCHANGED <<taken, event, cuts>>

\* Mutated: with the frame the whole buffer goes.
SearchFindsClearing ==
  /\ pc = "search" /\ elapsed < asked /\ FrameThere
  /\ LET last == Start + TotalSize(From(Buffer, Find(Buffer))) - 1
     IN  taken' = arrived /\ Returns(Start, last)
  /\ UNCHANGED <<event, cuts>>

\* Mutated: what precedes the marker is not dropped first.
SearchFindsUnaligned ==
  /\ pc = "search" /\ elapsed < asked /\ FrameThere
  /\ LET last == taken + TotalSize(From(Buffer, Find(Buffer)))
     IN  taken' = last /\ Returns(taken + 1, last)
  /\ UNCHANGED <<event, cuts>>

SearchFinds ==
  /\ pc = "search" /\ elapsed < asked /\ FrameThere
  /\ LET last == Start + TotalSize(From(Buffer, Find(Buffer))) - 1
     IN  taken' = last /\ Returns(Start, last)
  /\ UNCHANGED <<event, cuts>>

\* What is left of the buffer after a search in vain.
DropBeforeMarker == IF Find(Buffer) > 0 THEN Start - 1 ELSE taken

SearchWaits ==
  /\ pc = "search" /\ elapsed < asked /\ ~FrameThere
  /\ taken' = DropBeforeMarker
  /\ event' = FALSE
  /\ pc' = "wait" /\ waited' = 0
  /\ UNCHANGED <<lineVars, arrived, window, need, callVars, elapsed,
                 ghosts>>

Wake ==
  /\ pc = "wait" /\ event
  /\ pc' = "search"
  /\ UNCHANGED <<lineVars, arrived, taken, event, window, need, callVars,
                 elapsed, waited, ghosts>>

\* Mutated: each wait gets the whole timeout again.
WaitOver == waited >= asked

\* "wait_for(..., timeout=remaining)"
RemainingOver == elapsed >= asked

\* At the deadline it is open whether wait_for sees the event or the timeout.
WaitTimesOut ==
  /\ pc = "wait" /\ RemainingOver
  /\ TimesOut
  /\ UNCHANGED <<taken, event, cuts>>

-----------------------------------------------------------------------------
\* SerialConnection.receive.
Available == arrived - taken

LastOf(data) ==
  IF Len(data) > MarkerLength THEN From(data, Len(data) - MarkerLength + 1)
  ELSE data

\* Mutated: after a byte that does not fit, the marker is awaited from its
\* beginning.
SlideRestarting(byte) ==
  LET longer == Append(window, byte)
  IN  IF longer = SubSeq(START_MARKER, 1, Len(longer)) THEN longer ELSE <<>>

\* marker_buf after one more byte.
Slide(byte) == LastOf(Append(window, byte))

ReadSync ==
  /\ pc = "sync" /\ Available >= 1
  /\ taken' = taken + 1
  /\ window' = Slide(line[taken + 1])
  /\ pc' = IF window' = START_MARKER THEN "len" ELSE "sync"
  /\ waited' = 0
  /\ UNCHANGED <<lineVars, arrived, event, need, callVars, elapsed,
                 ghosts>>

ReadLen ==
  /\ pc = "len" /\ Available >= 1
  /\ taken' = taken + 1
  /\ need' = line[taken + 1]
  /\ pc' = "body" /\ waited' = 0
  /\ UNCHANGED <<lineVars, arrived, event, window, callVars, elapsed,
                 ghosts>>

ReadBody ==
  /\ pc = "body" /\ Available >= need
  /\ taken' = taken + need
  /\ Returns(taken - MarkerLength, taken + need)
  /\ UNCHANGED <<event, cuts>>

\* What the current read of the port waits for.
Wanted == IF pc = "body" THEN need ELSE 1

\* Mutated: only the search for the marker gives up.
SyncTimesOut ==
  /\ pc = "sync"
  /\ Available < Wanted /\ waited >= port
  /\ TimesOut
  /\ taken' = arrived
  /\ UNCHANGED <<event, cuts>>

\* The port's timeout passes: the read returns what there was, and it is lost.
ReadTimesOut ==
  /\ pc \in {"sync", "len", "body"}
  /\ Available < Wanted /\ waited >= port
  /\ TimesOut
  /\ taken' = arrived
  /\ cuts' = cuts \cup {f \in sent : f[1] <= arrived /\ arrived < f[2]}
  /\ UNCHANGED event

-----------------------------------------------------------------------------
\* The line is at its end, and its last item comes again.
EndlessNoise == arrived = Len(line) /\ Len(line) > 0

\* The sync loop reads it: marker_buf is already full of that item, and the
\* port's timeout starts anew.
ReadNoise ==
  /\ pc = "sync" /\ Available = 0 /\ EndlessNoise
  /\ Slide(line[arrived]) = window
  /\ waited' = 0
  /\ UNCHANGED <<lineVars, arrived, taken, event, pc, window, need, callVars,
                 elapsed, ghosts>>

\* The notification handler stores it behind a buffer in which no marker is,
\* and wakes the search; a tick passes from each such notification to the next.
NotifyNoise ==
  /\ pc = "wait" /\ ~RemainingOver /\ EndlessNoise
  /\ Find(Append(Buffer, line[arrived])) = 0
  /\ event' = TRUE
  /\ elapsed' = elapsed + 1 /\ waited' = waited + 1
  /\ UNCHANGED <<lineVars, arrived, taken, pc, window, need, callVars, ghosts>>

\* A tick passes: the call waits, and its timeout is not due.
Tick ==
  /\ \/ pc = "wait" /\ ~event /\ ~RemainingOver
     \/ pc \in {"sync", "len", "body"} /\ Available < Wanted /\ waited < port
  /\ elapsed' = IF transport = "ble" THEN elapsed + 1 ELSE elapsed
  /\ waited' = waited + 1
  /\ UNCHANGED <<lineVars, arrived, taken, event, pc, window, need, callVars,
                 ghosts>>

Bluetooth == SearchLate \/ SearchFinds \/ SearchWaits \/ Wake \/ WaitTimesOut
Serial == ReadSync \/ ReadLen \/ ReadBody \/ ReadTimesOut

Next ==
  \/ Arrive
  \/ \E limit \in {DefaultTimeout, OverrideTimeout} : Call(limit)
  \/ Bluetooth \/ Serial \/ ReadNoise \/ NotifyNoise \/ Tick

Spec == Init /\ [][Next]_vars
FairSpec == Spec /\ WF_vars(Bluetooth) /\ WF_vars(Serial) /\ WF_vars(Tick)
-----------------------------------------------------------------------------
\* Every variable keeps its type; the buffer never runs ahead of the line, and
\* between two calls the port has the timeout it was opened with.
TypeOK ==
  /\ transport \in {"ble", "serial"}
  /\ line \in Seq(Nat) /\ sent \subseteq Nat \X Nat
  /\ arrived \in 0..Len(line) /\ taken \in 0..arrived
  /\ event \in BOOLEAN
  /\ pc \in IF transport = "ble" THEN {"idle", "search", "wait"}
            ELSE {"idle", "sync", "len", "body"}
  /\ window \in Seq(Nat) /\ need \in Nat
  /\ {port, saved, asked} \subseteq {DefaultTimeout, OverrideTimeout}
  /\ elapsed \in Nat /\ waited \in Nat
  /\ got \in Seq(Nat \X Nat) /\ cuts \subseteq sent
  /\ pc = "idle" => port = DefaultTimeout

\* Nobody sleeps on a complete frame: when the Bluetooth receive waits and its
\* event is not set, no frame is in the buffer (bluetooth.py:324 clears the
\* event after the search; a notification in between must not be lost).
NoLostWakeUp == pc = "wait" /\ ~event => ~FrameThere

\* What receive() returns is a frame as the header says: it begins with the
\* start marker, it is exactly as long as its LEN claims, it has left the
\* buffer, and no byte of the line is returned twice or out of order.
WholeFrames ==
  \A i \in DOMAIN got :
    LET first == got[i][1]  last == got[i][2]
    IN  /\ \A k \in 1..MarkerLength : line[first + k - 1] = START_MARKER[k]
        /\ last = first + MarkerLength + line[first + MarkerLength]
        /\ last <= taken
        /\ \A j \in DOMAIN got : i < j => last < got[j][1]

\* The bytes of a frame that its CRC covers.
Covered(data) == <<Id(data) % 256, Id(data) \div 256>> \o Payload(data)

\* The CRC of a frame passes the zero-avoidance step, where two accumulators
\* become one (crc.py:36).
AtZero(data) ==
  \E k \in DOMAIN Covered(data) :
    Xor16(Accumulators(Covered(data))[k - 1], Covered(data)[k]) \in {0, 1}

\* What the client does with what it receives: parse_frame accepts or raises.
Accepted(i) == parse_frame(Items(got[i][1], got[i][2])) = "ok"

\* What parse_frame accepts is a frame the device has sent, whatever noise and
\* damage surround it; and it accepts them all. The one exception is damage the
\* CRC cannot see: a bit that vanishes in the zero-avoidance step.
AcceptedIsGenuine ==
  \A i \in DOMAIN got :
    IF got[i] \in sent THEN Accepted(i)
    ELSE Accepted(i) => AtZero(Items(got[i][1], got[i][2]))

\* The stretches of a line that a marker and the LEN after it claim for a frame
\* although none begins there.
FalseClaimsOf(items, genuine) ==
  {<<p, p + TotalSize(From(items, p)) - 1>> :
     p \in {q \in DOMAIN items : /\ MarkerAt(items, q)
                                  /\ HasHeader(From(items, q))
                                  /\ \A f \in genuine : f[1] # q}}

FalseClaims == FalseClaimsOf(line, sent)

\* One byte that the CRC covers is not the one the device has sent: with that
\* one the CRC is the same.
OneByteOff(data) ==
  /\ Covered(data) \in Seq(0..255)
  /\ \E k \in DOMAIN Covered(data) : \E b \in 0..255 \ {Covered(data)[k]} :
       crc16([Covered(data) EXCEPT ![k] = b]) = Crc(data)

\* What a theorem about AcceptedIsGenuine has to assume of the noise: where a
\* false header claims a stretch that carries its CRC, the device has sent that
\* CRC, and one byte is damaged. Noise does not hit a CRC by chance, which no
\* check of 16 bits could tell.
OnlyBytesDamaged ==
  \A l \in Lines : \A claim \in FalseClaimsOf(l.items, l.genuine) :
    claim[2] <= Len(l.items) =>
      LET data == SubSeq(l.items, claim[1], claim[2])
      IN  /\ data[MarkerLength + 1] >= LEN_OVERHEAD
          /\ FrameCrc(Id(data), Payload(data)) = Crc(data)
          => OneByteOff(data)

\* No frame is lost without a cause on the line: a genuine frame leaves the
\* buffer unaccepted only if a false header had claimed its beginning, or, on
\* the port, a read timed out in the middle of it. A Bluetooth timeout loses
\* nothing, nor do noise and damage that leave headers alone.
LossExplained ==
  \A f \in sent :
    taken >= f[2] /\ (\A i \in DOMAIN got : got[i] # f) =>
      \/ \E claim \in FalseClaims : claim[1] < f[1] /\ f[1] <= claim[2]
      \/ f \in cuts

\* How long a receive may take. Over Bluetooth the timeout holds for the whole
\* call, however often a notification wakes it; on the port it holds for each
\* read (serial.py:109), and is the caller's own, not an earlier call's.
DurationBound ==
  pc # "idle" => (IF transport = "ble" THEN elapsed ELSE waited) <= asked

\* The frame that heads data once the bytes before its marker are dropped.
FirstFrame(data) ==
  LET rest == From(data, Find(data))
  IN  IF Find(data) > 0 /\ IsComplete(rest)
      THEN SubSeq(rest, 1, TotalSize(rest)) ELSE <<>>

\* find_frame_in_stream agrees with receive(): it sees a frame exactly when the
\* search does, and what it lets its caller drop (the bytes before a marker,
\* or all but a possible beginning of one) never costs a frame, whatever comes
\* next on the line.
FindAgrees ==
  LET result == find_frame_in_stream(Buffer)
      kept == Items(taken + 1 + result.consumed, Len(line))
  IN  IF FrameThere
      THEN /\ result.frame = parse_frame(FirstFrame(Buffer))
           /\ result.frame = "ok" =>
                result.consumed = Start - taken - 1 + Len(FirstFrame(Buffer))
      ELSE /\ result.frame = "none"
           /\ FirstFrame(kept) = FirstFrame(Items(taken + 1, Len(line)))

\* Every receive ends, with a frame or by its timeout. Bluetooth's does
\* whatever the line does, its deadline being one for all the rounds of its
\* loop. What keeps the serial one from ending is noise without end, each byte
\* of which the sync loop takes for progress (serial.py:108-117), and nothing
\* else.
ReceiveEnds ==
  []<><<ReadNoise>>_vars \/ (pc # "idle" ~> pc = "idle")
=============================================================================
