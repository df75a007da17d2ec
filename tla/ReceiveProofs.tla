--------------------------- MODULE ReceiveProofs ---------------------------
(***************************************************************************)
(* receive() for every line, whatever bytes it holds, and for every        *)
(* timeout.                                                                *)
(*                                                                         *)
(* First: what it returns is a whole frame, nobody sleeps on a complete    *)
(* one, and the timeout bounds the call (Bluetooth) or the read (serial).  *)
(* The serial receive needs to know that its window holds the items it has *)
(* read last; what the search finds is in FrameProofs.                     *)
(*                                                                         *)
(* Second: both implement FrameQueue. The queue is read off the line by a  *)
(* recursion that moves towards the end of what has arrived, so facts      *)
(* about it go backwards from there.                                       *)
(*                                                                         *)
(* Third: no genuine frame is lost without a cause. Every step is made to  *)
(* account for the genuine frames whose beginning it moves past.           *)
(*                                                                         *)
(* Fourth: find_frame_in_stream sees what the search sees, and lets its    *)
(* caller drop nothing that could begin a frame.                           *)
(*                                                                         *)
(* Fifth: what parse_frame accepts is genuine, by what FrameProofs shows   *)
(* of the CRC.                                                             *)
(***************************************************************************)
EXTENDS ReceiveQueue, FrameProofs

\* The serial receive knows where it is on the line, and its port has the
\* timeout asked for.
SerialState ==
  /\ transport = "serial" /\ pc # "idle" => port = asked
  /\ pc = "sync" =>
       /\ Len(window) <= taken
       /\ \A k \in 1..Len(window) : window[k] = line[taken - Len(window) + k]
  /\ pc = "len" =>
       /\ MarkerLength <= taken
       /\ \A k \in 1..MarkerLength :
            line[taken - MarkerLength + k] = START_MARKER[k]
  /\ pc = "body" =>
       /\ MarkerLength + 1 <= taken
       /\ \A k \in 1..MarkerLength :
            line[taken - MarkerLength - 1 + k] = START_MARKER[k]
       /\ need = line[taken]

Inv ==
  /\ TypeOK /\ saved = DefaultTimeout
  /\ SerialState /\ DurationBound

-----------------------------------------------------------------------------
\* The buffer is the stretch of the line between taken and arrived.
LEMMA BufferFacts ==
  ASSUME TypeOK
  PROVE  /\ Buffer \in Seq(Nat)
         /\ Len(Buffer) = arrived - taken
         /\ \A k \in 1..(arrived - taken) : Buffer[k] = line[taken + k]
BY PartFacts DEF TypeOK, Buffer, Items

\* Where the Bluetooth search finds a frame, and that all of it is there.
LEMMA FrameFacts ==
  ASSUME TypeOK, FrameThere,
         NEW last, last = Start + TotalSize(From(Buffer, Find(Buffer))) - 1
  PROVE  /\ Start \in (taken + 1)..arrived
         /\ last \in Nat /\ Start + MarkerLength <= last /\ last <= arrived
         /\ last = Start + MarkerLength + line[Start + MarkerLength]
         /\ \A k \in 1..MarkerLength : line[Start + k - 1] = START_MARKER[k]
<1>1. PICK data : data = Buffer
  OBVIOUS
<1>2. PICK f : f = Find(data)
  OBVIOUS
<1>3. PICK total : total = TotalSize(From(data, f))
  OBVIOUS
<1>4. /\ data \in Seq(Nat) /\ Len(data) = arrived - taken
      /\ \A k \in 1..(arrived - taken) : data[k] = line[taken + k]
  BY <1>1, BufferFacts
<1>5. /\ f \in 1..Len(data) /\ data[f + MarkerLength] \in Nat
      /\ total = MarkerLength + 1 + data[f + MarkerLength]
      /\ f + total - 1 <= Len(data)
      /\ \A k \in 1..MarkerLength : data[f + k - 1] = START_MARKER[k]
  <2>1. f > 0 /\ IsComplete(From(data, f))
    BY <1>1, <1>2 DEF FrameThere
  <2> QED
    BY <1>2, <1>3, <1>4, <2>1, HeadFacts
<1>6. arrived \in Nat /\ taken \in Nat /\ MarkerLength = 3
  BY MarkerFacts DEF TypeOK
<1>7. PICK size : size = data[f + MarkerLength]
  OBVIOUS
<1>8. /\ f \in Nat /\ f > 0 /\ size \in Nat /\ total = 4 + size
      /\ f + total - 1 <= arrived - taken
  BY <1>4, <1>5, <1>6, <1>7
<1>9. Start = taken + f /\ last = taken + f + total - 1
  BY <1>1, <1>2, <1>3 DEF Start
<1>10. \A k \in 0..MarkerLength : data[f + k] = line[taken + f + k]
  <2> SUFFICES ASSUME NEW k \in 0..MarkerLength
               PROVE  data[f + k] = line[taken + f + k]
    OBVIOUS
  <2>1. f + k \in 1..(arrived - taken)
    BY <1>6, <1>8
  <2>2. data[f + k] = line[taken + (f + k)]
    BY <1>4, <2>1
  <2> QED
    BY <1>5, <1>6, <2>2, MarkerFacts
<1>11. line[taken + f + MarkerLength] = data[f + MarkerLength]
  BY <1>10, MarkerFacts
<1>12. \A k \in 1..MarkerLength : line[taken + f + k - 1] = START_MARKER[k]
  <2> SUFFICES ASSUME NEW k \in 1..MarkerLength
               PROVE  line[taken + f + k - 1] = START_MARKER[k]
    OBVIOUS
  <2>1. data[f + (k - 1)] = line[taken + f + (k - 1)]
    BY <1>10, MarkerFacts
  <2> QED
    BY <1>5, <1>6, <2>1, MarkerFacts
<1>13. /\ Start \in (taken + 1)..arrived
       /\ last \in Nat /\ Start + MarkerLength <= last /\ last <= arrived
       /\ last = Start + MarkerLength + size
  BY <1>6, <1>9, <1>8
<1> QED
  BY <1>9, <1>11, <1>12, <1>13, <1>7

\* The window after a byte holds the last items of the longer one.
LEMMA SlideFacts ==
  ASSUME window \in Seq(Nat), NEW byte \in Nat
  PROVE  LET longer == Append(window, byte)
         IN  /\ Slide(byte) \in Seq(Nat)
             /\ Len(Slide(byte)) <= Len(window) + 1
             /\ \A k \in 1..Len(Slide(byte)) :
                  Slide(byte)[k]
                    = longer[Len(window) + 1 - Len(Slide(byte)) + k]
<1> DEFINE longer == Append(window, byte)
<1>1. longer \in Seq(Nat) /\ Len(longer) = Len(window) + 1
  OBVIOUS
<1> HIDE DEF longer
<1>2. CASE Len(longer) > MarkerLength
  <2>1. /\ LastOf(longer) \in Seq(Nat) /\ Len(LastOf(longer)) = MarkerLength
        /\ \A k \in 1..MarkerLength :
             LastOf(longer)[k] = longer[Len(longer) - MarkerLength + k]
    BY <1>1, <1>2, PartFacts, MarkerFacts DEF LastOf, From
  <2> QED
    BY <1>1, <1>2, <2>1, MarkerFacts DEF Slide, longer
<1>3. CASE ~(Len(longer) > MarkerLength)
  <2>1. LastOf(longer) = longer
    BY <1>3 DEF LastOf
  <2> QED
    BY <1>1, <2>1 DEF Slide, longer
<1> QED
  BY <1>2, <1>3

\* The window holds the items read last, and goes on doing so.
LEMMA WindowFacts ==
  ASSUME window \in Seq(Nat), taken \in Nat, line[taken + 1] \in Nat,
         Len(window) <= taken,
         \A k \in 1..Len(window) : window[k] = line[taken - Len(window) + k],
         NEW next, next = Slide(line[taken + 1])
  PROVE  /\ next \in Seq(Nat) /\ Len(next) <= taken + 1
         /\ \A k \in 1..Len(next) : next[k] = line[taken + 1 - Len(next) + k]
<1> DEFINE byte == line[taken + 1]
           longer == Append(window, byte)
<1>1. /\ next \in Seq(Nat) /\ Len(next) <= Len(window) + 1
      /\ \A k \in 1..Len(next) :
           next[k] = longer[Len(window) + 1 - Len(next) + k]
  BY SlideFacts
<1>2. Len(window) \in Nat /\ Len(next) \in Nat
  BY <1>1
<1>3. /\ longer[Len(window) + 1] = byte
      /\ \A i \in 1..Len(window) : longer[i] = window[i]
  OBVIOUS
<1> HIDE DEF longer
<1>4. \A i \in 1..(Len(window) + 1) : longer[i] = line[taken - Len(window) + i]
  <2> SUFFICES ASSUME NEW i \in 1..(Len(window) + 1)
               PROVE  longer[i] = line[taken - Len(window) + i]
    OBVIOUS
  <2>1. CASE i = Len(window) + 1
    <3>1. taken - Len(window) + i = taken + 1
      BY <1>2, <2>1
    <3> QED
      BY <1>3, <2>1, <3>1
  <2>2. CASE i \in 1..Len(window)
    BY <1>3, <2>2
  <2> QED
    BY <1>2, <2>1, <2>2
<1>5. ASSUME NEW k \in 1..Len(next)
      PROVE  next[k] = line[taken + 1 - Len(next) + k]
  <2>1. Len(window) + 1 - Len(next) + k \in 1..(Len(window) + 1)
    BY <1>1, <1>2
  <2>2. next[k] = line[taken - Len(window) + (Len(window) + 1 - Len(next) + k)]
    BY <1>1, <1>4, <2>1
  <2>3. taken - Len(window) + (Len(window) + 1 - Len(next) + k)
          = taken + 1 - Len(next) + k
    BY <1>2
  <2> QED
    BY <2>2, <2>3
<1> QED
  BY <1>1, <1>2, <1>5

-----------------------------------------------------------------------------
\* The invariant holds at first.
LEMMA InvInit == Init => Inv
<1> SUFFICES ASSUME Init PROVE Inv
  OBVIOUS
<1>1. line \in Seq(Nat) /\ sent \subseteq Nat \X Nat
  BY ReceiveAssumption DEF Init, Line
<1>2. event \in BOOLEAN
  BY Zenon DEF Init
<1>3. window \in Seq(Nat) /\ got \in Seq(Nat \X Nat)
  <2>1. \A S : <<>> \in Seq(S)
    OBVIOUS
  <2> QED
    BY <2>1, Zenon DEF Init
<1>4. Len(line) \in Nat
  BY <1>1
<1> QED
  BY <1>1, <1>2, <1>3, <1>4, ReceiveAssumption
  DEF Init, Inv, TypeOK, SerialState, DurationBound

\* A call that ends leaves the invariant, wherever the buffer now begins.
LEMMA EndsKeeps ==
  ASSUME Inv, Ends, UNCHANGED transport, UNCHANGED sent,
         taken' \in 0..arrived, event' \in BOOLEAN,
         got' \in Seq(Nat \X Nat), cuts' \subseteq sent
  PROVE  Inv'
<1>1. window' \in Seq(Nat) /\ need' \in Nat /\ elapsed' \in Nat
      /\ waited' \in Nat
  <2>1. \A S : <<>> \in Seq(S)
    OBVIOUS
  <2>2. window' \in Seq(Nat)
    BY <2>1, Zenon DEF Ends, Forget
  <2> QED
    BY <2>2 DEF Ends, Forget
<1>2. /\ pc' = "idle" /\ port' = DefaultTimeout /\ saved' = DefaultTimeout
      /\ asked' = DefaultTimeout /\ line' = line /\ arrived' = arrived
  BY DEF Ends, Forget, Inv, lineVars
<1> QED
  BY <1>1, <1>2 DEF Inv, TypeOK, SerialState, DurationBound

\* Every step keeps the invariant.
LEMMA InvNext == Inv /\ [Next]_vars => Inv'
<1> SUFFICES ASSUME Inv, [Next]_vars PROVE Inv'
  OBVIOUS
<1> USE ReceiveAssumption DEF Inv, TypeOK, SerialState, DurationBound,
        lineVars, callVars, ghosts
<1>a. /\ arrived \in Nat /\ taken \in Nat /\ taken <= arrived
      /\ Len(line) \in Nat /\ arrived <= Len(line)
  OBVIOUS
<1>b. \A k \in 1..Len(line) : line[k] \in Nat
  OBVIOUS
<1>1. CASE Arrive
  BY <1>1, <1>a DEF Arrive
<1>2. ASSUME NEW limit \in {DefaultTimeout, OverrideTimeout}, Call(limit)
      PROVE  Inv'
  <2>1. window' \in Seq(Nat) /\ Len(window') = 0
    BY <1>2 DEF Call
  <2> QED
    BY <1>2, <1>a, <2>1 DEF Call
<1>3. CASE SearchLate
  BY <1>3, <1>a, EndsKeeps DEF SearchLate, TimesOut, Ends
<1>4. CASE SearchFinds
  <2>1. PICK last : last = Start + TotalSize(From(Buffer, Find(Buffer))) - 1
    OBVIOUS
  <2>2. taken' = last /\ Ends /\ got' = Append(got, <<Start, last>>)
        /\ event' = event /\ cuts' = cuts /\ FrameThere
    BY <1>4, <2>1 DEF SearchFinds, Returns
  <2>3. Start \in Nat /\ last \in 0..arrived
    BY <1>a, <2>1, <2>2, FrameFacts
  <2>4. got' \in Seq(Nat \X Nat)
    BY <2>2, <2>3
  <2>5. UNCHANGED transport /\ UNCHANGED sent
    BY <1>4 DEF SearchFinds, Returns, Ends
  <2> QED
    BY <2>2, <2>3, <2>4, <2>5, EndsKeeps
<1>5. CASE SearchWaits
  <2>1. taken' \in 0..arrived
    <3>1. Find(Buffer) \in 0..(arrived - taken)
      BY BufferFacts, FindFacts
    <3> QED
      BY <1>5, <1>a, <3>1 DEF SearchWaits, DropBeforeMarker, Start
  <2> QED
    BY <1>5, <2>1 DEF SearchWaits
<1>6. CASE Wake
  BY <1>6 DEF Wake
<1>7. CASE WaitTimesOut
  BY <1>7, <1>a, EndsKeeps DEF WaitTimesOut, TimesOut, Ends
<1>8. CASE ReadSync
  <2>1. /\ pc = "sync" /\ taken + 1 <= arrived /\ taken' = taken + 1
        /\ window' = Slide(line[taken + 1]) /\ line[taken + 1] \in Nat
    BY <1>8, <1>a, <1>b DEF ReadSync, Available
  <2>2. /\ window' \in Seq(Nat) /\ Len(window') <= taken'
        /\ \A k \in 1..Len(window') :
             window'[k] = line[taken' - Len(window') + k]
    BY <1>a, <2>1, WindowFacts
  <2>3. /\ UNCHANGED <<transport, line, sent, arrived, event, need, port,
                       saved, asked, elapsed, got, cuts>>
        /\ waited' = 0
        /\ pc' = IF window' = START_MARKER THEN "len" ELSE "sync"
    BY <1>8 DEF ReadSync
  <2>4. transport = "serial" /\ taken' \in 0..arrived'
    BY <1>a, <2>1, <2>3
  <2>5. CASE window' = START_MARKER
    <3>1. MarkerLength <= taken' /\ Len(window') = MarkerLength
      BY <2>2, <2>5, MarkerFacts
    <3>2. \A k \in 1..MarkerLength :
            line'[taken' - MarkerLength + k] = START_MARKER[k]
      BY <2>2, <2>3, <2>5, <3>1
    <3>3. SerialState'
      BY <2>1, <2>3, <2>5, <3>1, <3>2
    <3>4. TypeOK'
      BY <2>1, <2>2, <2>3, <2>4, <2>5
    <3> QED
      BY <2>1, <2>3, <2>4, <2>5, <3>3, <3>4
  <2>6. CASE window' # START_MARKER
    <3>1. SerialState'
      BY <2>1, <2>2, <2>3, <2>6
    <3>2. TypeOK'
      BY <2>1, <2>2, <2>3, <2>4, <2>6
    <3> QED
      BY <2>1, <2>3, <2>4, <2>6, <3>1, <3>2
  <2> QED
    BY <2>5, <2>6
<1>9. CASE ReadLen
  <2>1. /\ pc = "len" /\ taken + 1 <= arrived /\ line[taken + 1] \in Nat
        /\ taken' = taken + 1 /\ need' = line[taken + 1] /\ pc' = "body"
        /\ waited' = 0
        /\ UNCHANGED <<transport, line, sent, arrived, event, window, port,
                       saved, asked, elapsed, got, cuts>>
    BY <1>9, <1>a, <1>b DEF ReadLen, Available
  <2>2. /\ MarkerLength <= taken
        /\ \A k \in 1..MarkerLength :
             line[taken - MarkerLength + k] = START_MARKER[k]
    BY <2>1
  <2>3. \A k \in 1..MarkerLength :
          taken' - MarkerLength - 1 + k = taken - MarkerLength + k
    BY <1>a, <2>1, MarkerFacts
  <2>4. SerialState'
    BY <1>a, <2>1, <2>2, <2>3, MarkerFacts
  <2>5. TypeOK'
    BY <1>a, <2>1
  <2> QED
    BY <1>a, <2>1, <2>4, <2>5
<1>10. CASE ReadBody
  <2>1. taken' \in 0..arrived /\ taken - MarkerLength \in Nat
        /\ taken + need \in Nat
    BY <1>10, <1>a, MarkerFacts DEF ReadBody, Available
  <2>2. got' \in Seq(Nat \X Nat) /\ Ends
    BY <1>10, <2>1 DEF ReadBody, Returns
  <2> QED
    BY <1>10, <2>1, <2>2, EndsKeeps DEF ReadBody, Returns, Ends
<1>11. CASE ReadTimesOut
  <2>1. cuts' \subseteq sent
    BY <1>11 DEF ReadTimesOut
  <2> QED
    BY <1>11, <1>a, <2>1, EndsKeeps DEF ReadTimesOut, TimesOut, Ends
<1>12. CASE Tick
  BY <1>12 DEF Tick, RemainingOver
<1>13. CASE ReadNoise
  BY <1>13 DEF ReadNoise
<1>14. CASE NotifyNoise
  BY <1>14, <1>a DEF NotifyNoise, RemainingOver
<1>15. CASE UNCHANGED vars
  BY <1>15 DEF vars
<1> QED
  BY <1>1, <1>2, <1>3, <1>4, <1>5, <1>6, <1>7, <1>8, <1>9, <1>10, <1>11,
     <1>12, <1>13, <1>14, <1>15 DEF Next, Bluetooth, Serial
-----------------------------------------------------------------------------
\* The search in vain leaves no frame in what it leaves of the buffer.
LEMMA SearchLeavesNone ==
  ASSUME TypeOK, SearchWaits
  PROVE  ~FrameThere'
<1>1. /\ ~FrameThere /\ line' = line /\ arrived' = arrived
      /\ taken' = DropBeforeMarker
  BY DEF SearchWaits, lineVars
<1>2. CASE Find(Buffer) = 0
  BY <1>1, <1>2 DEF FrameThere, DropBeforeMarker, Buffer, Items
<1>3. CASE Find(Buffer) > 0
  <2>1. PICK data : data = Buffer
    OBVIOUS
  <2>2. PICK f : f = Find(data)
    OBVIOUS
  <2>3. /\ data \in Seq(Nat) /\ Len(data) = arrived - taken
        /\ arrived \in Nat /\ taken \in Nat /\ arrived <= Len(line)
        /\ line \in Seq(Nat)
    BY <2>1, BufferFacts DEF TypeOK
  <2>4. f \in 1..(arrived - taken)
    BY <1>3, <2>1, <2>2, <2>3, FindFacts
  <2>5. taken' = taken + f - 1
    BY <1>1, <1>3, <2>1, <2>2, <2>3, <2>4 DEF DropBeforeMarker, Start
  <2>6. Buffer' = SubSeq(line, taken + f, arrived)
    BY <1>1, <2>3, <2>4, <2>5 DEF Buffer, Items
  <2>7. From(data, f) = SubSeq(SubSeq(line, taken + 1, arrived),
                               f, arrived - taken)
    BY <2>1, <2>3 DEF From, Buffer, Items
  <2>8. SubSeq(SubSeq(line, taken + 1, arrived), f, arrived - taken)
          = SubSeq(line, taken + f, arrived)
    <3>1. /\ taken + 1 \in 1..Len(line) /\ arrived \in 1..Len(line)
          /\ f \in 1..(arrived - (taken + 1) + 1)
          /\ arrived - taken \in 1..(arrived - (taken + 1) + 1)
          /\ (taken + 1) + f - 1 = taken + f
          /\ (taken + 1) + (arrived - taken) - 1 = arrived
      BY <2>3, <2>4
    <3> QED
      BY <2>3, <3>1, SubSeqOfSubSeq
  <2>9. Buffer' = From(data, f)
    BY <2>6, <2>7, <2>8
  <2>10. Find(Buffer') = 1 /\ From(Buffer', 1) = Buffer'
    BY <1>3, <2>1, <2>2, <2>3, <2>9, FoundAtHead
  <2>11. ~IsComplete(From(data, f))
    BY <1>1, <1>3, <2>1, <2>2 DEF FrameThere
  <2> QED
    BY <2>9, <2>10, <2>11 DEF FrameThere
<1>4. Find(Buffer) \in Nat
  BY BufferFacts, FindFacts
<1> QED
  BY <1>2, <1>3, <1>4

\* The step that clears the event has searched; every other keeps it set or
\* adds nothing to the buffer.
LEMMA WakeUpNext == Inv /\ NoLostWakeUp /\ [Next]_vars => NoLostWakeUp'
<1> SUFFICES ASSUME Inv, NoLostWakeUp, [Next]_vars PROVE NoLostWakeUp'
  OBVIOUS
<1> USE DEF NoLostWakeUp
<1>a. pc = "wait" => transport = "ble"
  BY DEF Inv, TypeOK
<1>1. CASE Arrive
  BY <1>1, <1>a DEF Arrive
<1>2. ASSUME NEW limit \in {DefaultTimeout, OverrideTimeout}, Call(limit)
      PROVE  NoLostWakeUp'
  BY <1>2, <1>a DEF Call
<1>3. CASE SearchWaits
  BY <1>3, SearchLeavesNone DEF Inv
<1>4. CASE SearchLate \/ SearchFinds \/ Wake \/ WaitTimesOut
  BY <1>4 DEF SearchLate, SearchFinds, Wake, WaitTimesOut, TimesOut, Returns,
      Ends
<1>5. CASE Serial
  BY <1>5 DEF Serial, ReadSync, ReadLen, ReadBody, ReadTimesOut, TimesOut,
      Returns, Ends
<1>6. CASE Tick
  BY <1>6 DEF Tick, FrameThere, Buffer, Items, lineVars
<1>7. CASE ReadNoise \/ NotifyNoise
  BY <1>7, <1>a DEF ReadNoise, NotifyNoise
<1>8. CASE UNCHANGED vars
  BY <1>8 DEF vars, FrameThere, Buffer, Items, lineVars
<1> QED
  BY <1>1, <1>2, <1>3, <1>4, <1>5, <1>6, <1>7, <1>8 DEF Next, Bluetooth
-----------------------------------------------------------------------------
\* A step that returns nothing and gives nothing back to the buffer.
LEMMA NothingReturned ==
  ASSUME WholeFrames, TypeOK, taken' \in Nat, taken <= taken',
         line' = line, got' = got
  PROVE  WholeFrames'
<1>1. \A i \in DOMAIN got : got[i][2] \in Nat
  BY DEF TypeOK
<1> QED
  BY <1>1 DEF WholeFrames, TypeOK

\* A step that returns one more frame, out of what was left of the line.
LEMMA FrameReturned ==
  ASSUME WholeFrames, TypeOK, line' = line,
         NEW first \in Nat, NEW last \in Nat,
         got' = Append(got, <<first, last>>), taken' \in Nat,
         \A i \in DOMAIN got : got[i][2] < first,
         first <= last, last <= taken', taken <= taken',
         last = first + MarkerLength + line[first + MarkerLength],
         \A k \in 1..MarkerLength : line[first + k - 1] = START_MARKER[k]
  PROVE  WholeFrames'
<1> DEFINE n == Len(got)
<1>1. /\ n \in Nat /\ DOMAIN got = 1..n /\ DOMAIN got' = 1..(n + 1)
      /\ got'[n + 1] = <<first, last>>
      /\ \A i \in 1..n : got'[i] = got[i] /\ got[i][2] \in Nat
  BY DEF TypeOK
<1> HIDE DEF n
<1>2. taken \in Nat
  BY DEF TypeOK
<1> SUFFICES ASSUME NEW i \in 1..(n + 1)
             PROVE  LET a == got'[i][1]  b == got'[i][2]
                    IN  /\ \A k \in 1..MarkerLength :
                             line[a + k - 1] = START_MARKER[k]
                        /\ b = a + MarkerLength + line[a + MarkerLength]
                        /\ b <= taken'
                        /\ \A j \in 1..(n + 1) : i < j => b < got'[j][1]
  BY <1>1 DEF WholeFrames
<1>3. CASE i = n + 1
  <2>1. got'[i][1] = first /\ got'[i][2] = last
    BY <1>1, <1>3
  <2>2. \A j \in 1..(n + 1) : ~(i < j)
    BY <1>1, <1>3
  <2> QED
    BY <2>1, <2>2
<1>4. CASE i \in 1..n
  <2>1. got'[i] = got[i] /\ got[i][2] \in Nat
    BY <1>1, <1>4
  <2>2. /\ \A k \in 1..MarkerLength :
             line[got[i][1] + k - 1] = START_MARKER[k]
        /\ got[i][2]
             = got[i][1] + MarkerLength + line[got[i][1] + MarkerLength]
        /\ got[i][2] <= taken
        /\ \A j \in 1..n : i < j => got[i][2] < got[j][1]
    BY <1>1, <1>4 DEF WholeFrames
  <2>3. got[i][2] <= taken'
    BY <1>2, <2>1, <2>2
  <2>4. ASSUME NEW j \in 1..(n + 1), i < j
        PROVE  got[i][2] < got'[j][1]
    <3>1. CASE j = n + 1
      BY <1>1, <1>4, <3>1
    <3>2. CASE j \in 1..n
      BY <1>1, <2>2, <2>4, <3>2
    <3> QED
      BY <1>1, <3>1, <3>2
  <2> QED
    BY <2>1, <2>2, <2>3, <2>4
<1> QED
  BY <1>1, <1>3, <1>4

\* What the serial receive holds of a next frame comes after all it returned.
NothingTwice ==
  \A i \in DOMAIN got :
    /\ pc = "sync" => got[i][2] <= taken - Len(window)
    /\ pc = "len" => got[i][2] <= taken - MarkerLength
    /\ pc = "body" => got[i][2] <= taken - MarkerLength - 1

\* Each frame returned lies behind those before it.
LEMMA TwiceNext ==
  Inv /\ WholeFrames /\ NothingTwice /\ [Next]_vars => NothingTwice'
<1> SUFFICES ASSUME Inv, WholeFrames, NothingTwice, [Next]_vars
             PROVE  NothingTwice'
  OBVIOUS
<1>a. /\ taken \in Nat /\ window \in Seq(Nat)
      /\ \A i \in DOMAIN got : got[i][2] \in Nat /\ got[i][2] <= taken
  BY DEF Inv, TypeOK, WholeFrames
<1>b. transport = "ble" => pc \notin {"sync", "len", "body"}
  BY DEF Inv, TypeOK
<1> USE DEF NothingTwice
<1>1. CASE Arrive
  BY <1>1 DEF Arrive, ghosts
<1>2. ASSUME NEW limit \in {DefaultTimeout, OverrideTimeout}, Call(limit)
      PROVE  NothingTwice'
  <2>1. /\ got' = got /\ taken' = taken /\ window' = <<>>
        /\ pc' \in {"search", "sync"}
    BY <1>2 DEF Call, ghosts
  <2>2. Len(window') = 0
    BY <2>1
  <2> QED
    BY <1>a, <2>1, <2>2
<1>3. CASE \/ SearchLate \/ SearchFinds \/ WaitTimesOut
           \/ ReadTimesOut \/ ReadBody
  <2>1. pc' = "idle"
    BY <1>3 DEF SearchLate, SearchFinds, WaitTimesOut, ReadTimesOut, ReadBody,
        TimesOut, Returns, Ends
  <2> QED
    BY <2>1
<1>4. CASE SearchWaits \/ Wake
  <2>1. pc' \in {"search", "wait"}
    BY <1>4 DEF SearchWaits, Wake
  <2> QED
    BY <2>1
<1>5. CASE ReadSync
  <2>1. line[taken + 1] \in Nat
    BY <1>5 DEF ReadSync, Available, Inv, TypeOK
  <2>2. /\ window' \in Seq(Nat) /\ Len(window') <= Len(window) + 1
        /\ taken' = taken + 1 /\ got' = got /\ pc = "sync"
        /\ pc' = IF window' = START_MARKER THEN "len" ELSE "sync"
    BY <1>5, <1>a, <2>1, SlideFacts DEF ReadSync, ghosts
  <2>3. Len(window) \in Nat /\ Len(window') \in Nat
    BY <1>a, <2>2
  <2>4. window' = START_MARKER => Len(window') = MarkerLength
    BY MarkerFacts
  <2> SUFFICES ASSUME NEW i \in DOMAIN got
               PROVE  IF window' = START_MARKER
                      THEN got[i][2] <= taken' - MarkerLength
                      ELSE got[i][2] <= taken' - Len(window')
    BY <2>2
  <2>5. got[i][2] \in Nat /\ got[i][2] <= taken - Len(window)
    BY <1>a, <2>2
  <2>6. got[i][2] <= taken' - Len(window')
    BY <1>a, <2>2, <2>3, <2>5
  <2> QED
    BY <2>4, <2>6
<1>6. CASE ReadLen
  BY <1>6, <1>a, MarkerFacts DEF ReadLen, ghosts
<1>7. CASE Tick
  BY <1>7 DEF Tick, ghosts
<1>8. CASE ReadNoise \/ NotifyNoise
  BY <1>8 DEF ReadNoise, NotifyNoise, ghosts
<1>9. CASE UNCHANGED vars
  BY <1>9 DEF vars, ghosts
<1> QED
  BY <1>1, <1>2, <1>3, <1>4, <1>5, <1>6, <1>7, <1>8, <1>9
  DEF Next, Bluetooth, Serial

\* What a step returns is a frame as its header says.
LEMMA WholeNext ==
  Inv /\ WholeFrames /\ NothingTwice /\ [Next]_vars => WholeFrames'
<1> SUFFICES ASSUME Inv, WholeFrames, NothingTwice, [Next]_vars
             PROVE  WholeFrames'
  OBVIOUS
<1>a. /\ TypeOK /\ SerialState
      /\ arrived \in Nat /\ taken \in Nat /\ taken <= arrived
      /\ arrived <= Len(line) /\ need \in Nat
      /\ \A k \in 1..Len(line) : line[k] \in Nat
  BY DEF Inv, TypeOK
<1>b. \A i \in DOMAIN got : got[i][2] <= taken
  BY DEF WholeFrames
<1>c. \A i \in DOMAIN got : got[i][2] \in Nat
  BY <1>a DEF TypeOK
<1>1. CASE Arrive
  BY <1>1, <1>a, NothingReturned DEF Arrive, lineVars, ghosts
<1>2. ASSUME NEW limit \in {DefaultTimeout, OverrideTimeout}, Call(limit)
      PROVE  WholeFrames'
  BY <1>2, <1>a, NothingReturned DEF Call, lineVars, ghosts
<1>3. CASE SearchLate \/ WaitTimesOut \/ ReadTimesOut
  BY <1>3, <1>a, NothingReturned
  DEF SearchLate, WaitTimesOut, ReadTimesOut, TimesOut, Ends, lineVars
<1>4. CASE SearchFinds
  <2>1. PICK last : last = Start + TotalSize(From(Buffer, Find(Buffer))) - 1
    OBVIOUS
  <2>2. PICK first : first = Start
    OBVIOUS
  <2>3. taken' = last /\ got' = Append(got, <<first, last>>) /\ line' = line
        /\ FrameThere
    BY <1>4, <2>1, <2>2 DEF SearchFinds, Returns, Ends, lineVars
  <2>4. /\ first \in (taken + 1)..arrived
        /\ last \in Nat /\ first + MarkerLength <= last /\ last <= arrived
        /\ last = first + MarkerLength + line[first + MarkerLength]
        /\ \A k \in 1..MarkerLength : line[first + k - 1] = START_MARKER[k]
    BY <1>a, <2>1, <2>2, <2>3, FrameFacts
  <2>5. first \in Nat /\ first <= last /\ taken <= taken' /\ taken' \in Nat
        /\ last <= taken' /\ taken < first
    BY <1>a, <2>3, <2>4, MarkerFacts
  <2>6. \A i \in DOMAIN got : got[i][2] < first
    BY <1>a, <1>b, <1>c, <2>5
  <2> QED
    BY <1>a, <2>3, <2>4, <2>5, <2>6, FrameReturned
<1>5. CASE SearchWaits
  <2>1. Find(Buffer) \in Nat
    BY <1>a, BufferFacts, FindFacts
  <2>2. taken' \in Nat /\ taken <= taken'
    BY <1>5, <1>a, <2>1 DEF SearchWaits, DropBeforeMarker, Start
  <2> QED
    BY <1>5, <1>a, <2>2, NothingReturned DEF SearchWaits, lineVars, ghosts
<1>6. CASE Wake \/ Tick
  BY <1>6, <1>a, NothingReturned DEF Wake, Tick, lineVars, ghosts
<1>7. CASE ReadSync \/ ReadLen
  BY <1>7, <1>a, NothingReturned DEF ReadSync, ReadLen, lineVars, ghosts
<1>8. CASE ReadBody
  <2>1. PICK first : first = taken - MarkerLength
    OBVIOUS
  <2>2. /\ pc = "body" /\ taken' = taken + need /\ taken' <= arrived
        /\ got' = Append(got, <<first, taken + need>>) /\ line' = line
    BY <1>8, <1>a, <2>1
    DEF ReadBody, Returns, Ends, Available, lineVars
  <2>3. /\ MarkerLength + 1 <= taken /\ need = line[taken]
        /\ \A k \in 1..MarkerLength :
             line[taken - MarkerLength - 1 + k] = START_MARKER[k]
    BY <1>a, <2>2 DEF SerialState
  <2>4. /\ first \in Nat /\ taken + need \in Nat /\ first <= taken + need
        /\ taken <= taken' /\ taken' \in Nat
        /\ taken + need = first + MarkerLength + line[first + MarkerLength]
    <3>1. first + MarkerLength = taken /\ first \in Nat
      BY <1>a, <2>1, <2>3, MarkerFacts
    <3>2. taken + need \in Nat /\ taken <= taken + need
      BY <1>a
    <3> QED
      BY <1>a, <2>2, <2>3, <3>1, <3>2, MarkerFacts
  <2>5. \A k \in 1..MarkerLength : line[first + k - 1] = START_MARKER[k]
    <3>1. \A k \in 1..MarkerLength :
            first + k - 1 = taken - MarkerLength - 1 + k
      BY <1>a, <2>1, MarkerFacts
    <3> QED
      BY <2>3, <3>1
  <2>6. \A i \in DOMAIN got : got[i][2] < first
    BY <1>a, <1>c, <2>1, <2>2, MarkerFacts DEF NothingTwice
  <2>7. taken + need <= taken'
    BY <2>2, <2>4
  <2> QED
    BY <1>a, <2>2, <2>4, <2>5, <2>6, <2>7, FrameReturned
<1>9. CASE ReadNoise \/ NotifyNoise
  BY <1>9, <1>a, NothingReturned
  DEF ReadNoise, NotifyNoise, lineVars, ghosts
<1>10. CASE UNCHANGED vars
  BY <1>10, <1>a, NothingReturned DEF vars, lineVars, ghosts
<1> QED
  BY <1>1, <1>2, <1>3, <1>4, <1>5, <1>6, <1>7, <1>8, <1>9, <1>10
  DEF Next, Bluetooth, Serial
-----------------------------------------------------------------------------
\* Every variable keeps its type on every line: the buffer never runs ahead of
\* what has arrived, and after every call the port has its own timeout again
\* (serial.py:101-140).
THEOREM TypeCorrect == Spec => []TypeOK
<1>1. Inv => TypeOK
  BY DEF Inv
<1> QED
  BY <1>1, InvInit, InvNext, PTL DEF Spec

\* On no line and with no timeout does a Bluetooth receive wait, its event
\* clear, for a frame that is already in the buffer (bluetooth.py:295-332).
THEOREM NeverSleepsOnFrame == Spec => []NoLostWakeUp
<1>1. Init => NoLostWakeUp
  BY DEF Init, NoLostWakeUp
<1> QED
  BY <1>1, InvInit, InvNext, WakeUpNext, PTL DEF Spec

\* Whatever the line holds, both receives return stretches of it that begin
\* with a marker and are as long as the LEN after it says, in order and never
\* a byte twice (bluetooth.py:300-321, serial.py:105-136).
THEOREM ReturnsWholeFrames == Spec => []WholeFrames
<1>1. Init => WholeFrames /\ NothingTwice
  BY DEF Init, WholeFrames, NothingTwice
<1> QED
  BY <1>1, InvInit, InvNext, WholeNext, TwiceNext, PTL DEF Spec

\* The timeout a caller gives bounds his call over Bluetooth, and each of its
\* reads on the port (bluetooth.py:293-298, serial.py:101-131).
THEOREM DurationBounded == Spec => []DurationBound
<1>1. Inv => DurationBound
  BY DEF Inv
<1> QED
  BY <1>1, InvInit, InvNext, PTL DEF Spec

-----------------------------------------------------------------------------
\* Receive as a queue of frames.

\* p begins the first marker behind item b, and its frame has arrived.
IsNext(l, a, b, p) ==
  /\ p \in (b + 1)..a /\ p + MarkerLength <= a
  /\ AtMarker(l, p) /\ \A j \in (b + 1)..(p - 1) : ~AtMarker(l, j)
  /\ LastOfFrame(l, p) <= a

\* The search finds a frame exactly when there is a next one, and finds that.
LEMMA FoundIsNext ==
  ASSUME NEW l \in Seq(Nat), NEW a \in 0..Len(l), NEW b \in Nat,
         FoundBehind(l, a, b)
  PROVE  /\ IsNext(l, a, b, FirstBehind(l, a, b))
         /\ LastBehind(l, a, b) = LastOfFrame(l, FirstBehind(l, a, b))
<1>1. PICK rest : rest = SubSeq(l, b + 1, a)
  OBVIOUS
<1>2. PICK f : f = Find(rest)
  OBVIOUS
<1>3. PICK total : total = TotalSize(From(rest, f))
  OBVIOUS
<1>4. /\ rest \in Seq(Nat) /\ Len(rest) = IF b < a THEN a - b ELSE 0
      /\ \A i \in 1..(a - b) : rest[i] = l[b + i]
      /\ \A i \in 1..Len(rest) :
           MarkerAt(rest, i) <=> b + i + 2 <= a /\ AtMarker(l, b + i)
  BY <1>1, RestFacts
<1>5. f > 0 /\ IsComplete(From(rest, f))
  BY <1>1, <1>2 DEF FoundBehind
<1>6. /\ f \in 1..Len(rest) /\ rest[f + MarkerLength] \in Nat
      /\ total = MarkerLength + 1 + rest[f + MarkerLength]
      /\ f + total - 1 <= Len(rest)
  BY <1>2, <1>3, <1>4, <1>5, HeadFacts
<1>7. /\ MarkerAt(rest, f)
      /\ \A j \in 1..(f - 1) : ~MarkerAt(rest, j)
  BY <1>2, <1>4, <1>5, FindFacts
<1>8. PICK size \in Nat : size = rest[f + MarkerLength]
  BY <1>6
<1>9. /\ Len(rest) = a - b /\ total = 4 + size /\ b + f + 3 + size <= a
      /\ f + MarkerLength \in 1..(a - b)
  <2>1. a \in Nat /\ f \in Nat /\ 1 <= f /\ f <= Len(rest)
    BY <1>6
  <2>2. Len(rest) = a - b
    BY <1>4, <2>1
  <2>3. total = 4 + size
    BY <1>6, <1>8, MarkerFacts
  <2>4. f + total - 1 <= a - b
    BY <1>6, <2>2
  <2> QED
    BY <2>1, <2>2, <2>3, <2>4, MarkerFacts
<1>10. l[b + f + MarkerLength] = size
  <2>1. rest[f + MarkerLength] = l[b + (f + MarkerLength)]
    BY <1>4, <1>9
  <2> QED
    BY <1>6, <1>8, <2>1, MarkerFacts
<1>11. FirstBehind(l, a, b) = b + f
  BY <1>1, <1>2 DEF FirstBehind
<1>12. LastBehind(l, a, b) = b + f + 3 + size
  <2>1. LastBehind(l, a, b) = b + f + total - 1
    BY <1>1, <1>2, <1>3 DEF LastBehind
  <2> QED
    BY <1>6, <1>9, <2>1
<1>13. LastOfFrame(l, b + f) = b + f + 3 + size
  BY <1>10, MarkerFacts DEF LastOfFrame
<1>14. AtMarker(l, b + f)
  BY <1>4, <1>6, <1>7
<1>15. ASSUME NEW j \in (b + 1)..(b + f - 1)
       PROVE  ~AtMarker(l, j)
  <2>1. j - b \in 1..(f - 1) /\ j - b \in 1..Len(rest) /\ b + (j - b) = j
        /\ j + 2 <= a
    BY <1>6, <1>9
  <2> QED
    BY <1>4, <1>7, <2>1
<1>16. /\ b + f \in (b + 1)..a /\ b + f + MarkerLength <= a
       /\ LastOfFrame(l, b + f) <= a
  BY <1>6, <1>9, <1>13, MarkerFacts
<1>17. IsNext(l, a, b, b + f)
  <2>1. \A j \in (b + 1)..((b + f) - 1) : ~AtMarker(l, j)
    <3>1. (b + f) - 1 = b + f - 1
      BY <1>6
    <3> QED
      BY <1>15, <3>1
  <2> QED
    BY <1>14, <1>16, <2>1, Zenon DEF IsNext
<1> QED
  BY <1>11, <1>12, <1>13, <1>17

\* Conversely, the next frame is what the search finds.
LEMMA NextIsFound ==
  ASSUME NEW l \in Seq(Nat), NEW a \in 0..Len(l), NEW b \in Nat,
         NEW p, IsNext(l, a, b, p)
  PROVE  FoundBehind(l, a, b) /\ FirstBehind(l, a, b) = p
<1>1. PICK rest : rest = SubSeq(l, b + 1, a)
  OBVIOUS
<1>2. PICK f : f = Find(rest)
  OBVIOUS
<1>3. /\ rest \in Seq(Nat) /\ Len(rest) = IF b < a THEN a - b ELSE 0
      /\ \A i \in 1..(a - b) : rest[i] = l[b + i]
      /\ \A i \in 1..Len(rest) :
           MarkerAt(rest, i) <=> b + i + 2 <= a /\ AtMarker(l, b + i)
  BY <1>1, RestFacts
<1>4. /\ p \in (b + 1)..a /\ p + 3 <= a /\ MarkerLength = 3
      /\ AtMarker(l, p) /\ \A j \in (b + 1)..(p - 1) : ~AtMarker(l, j)
      /\ LastOfFrame(l, p) <= a
  BY MarkerFacts DEF IsNext
<1>5. /\ p - b \in 1..Len(rest) /\ b + (p - b) = p /\ Len(rest) = a - b
      /\ MarkerAt(rest, p - b)
  BY <1>3, <1>4
<1>6. f = p - b
  <2>1. f \in 1..Len(rest) /\ MarkerAt(rest, f)
        /\ \A j \in 1..(f - 1) : ~MarkerAt(rest, j)
    <3>1. p - b \in DOMAIN rest
      BY <1>3, <1>5
    <3>2. f \in 0..Len(rest) /\ f # 0
      BY <1>2, <1>3, <1>5, <3>1, FindFacts
    <3> QED
      BY <1>2, <1>3, <3>2, FindFacts
  <2>2. b + f \in (b + 1)..a /\ AtMarker(l, b + f)
    BY <1>3, <1>5, <2>1
  <2>3. ~(b + f < p) /\ ~(p - b < f)
    BY <1>4, <1>5, <2>1, <2>2
  <2> QED
    BY <1>4, <2>1, <2>3
<1>7. PICK data : data = From(rest, f)
  OBVIOUS
<1>8. /\ Len(data) = a - p + 1
      /\ \A i \in 1..(a - p + 1) : data[i] = l[p + i - 1]
  <2>1. f \in Nat \ {0} /\ Len(rest) \in 0..Len(rest) /\ f <= Len(rest)
        /\ Len(rest) - f + 1 = a - p + 1
    BY <1>4, <1>5, <1>6
  <2>2. /\ Len(data) = Len(rest) - f + 1
        /\ \A i \in 1..(Len(rest) - f + 1) : data[i] = rest[f + i - 1]
    BY <1>3, <1>7, <2>1, PartFacts, Zenon DEF From
  <2>3. ASSUME NEW i \in 1..(a - p + 1)
        PROVE  data[i] = l[p + i - 1]
    <3>1. data[i] = rest[f + i - 1] /\ f + i - 1 \in 1..(a - b)
      BY <1>4, <1>6, <2>1, <2>2
    <3>2. rest[f + i - 1] = l[b + (f + i - 1)] /\ b + (f + i - 1) = p + i - 1
      BY <1>3, <1>4, <1>6, <3>1
    <3> QED
      BY <3>1, <3>2
  <2> QED
    BY <2>1, <2>2, <2>3
<1>9. data[MarkerLength + 1] = l[p + MarkerLength]
  <2>1. MarkerLength + 1 \in 1..(a - p + 1)
    BY <1>4
  <2>2. data[MarkerLength + 1] = l[p + (MarkerLength + 1) - 1]
    BY <1>8, <2>1
  <2> QED
    BY <1>4, <2>2
<1>10. l[p + MarkerLength] \in Nat
  BY <1>4
<1>11. IsComplete(data)
  <2>1. TotalSize(data) = 4 + l[p + MarkerLength]
    BY <1>4, <1>9, <1>10 DEF TotalSize
  <2>2. p + 3 + l[p + MarkerLength] <= a
    BY <1>4 DEF LastOfFrame
  <2>3. p \in Nat /\ a \in Nat /\ Len(data) = a - p + 1
    BY <1>4, <1>8
  <2>4. Len(data) > 3 /\ Len(data) >= TotalSize(data)
    BY <1>4, <1>10, <2>1, <2>2, <2>3
  <2> QED
    BY <1>4, <2>4 DEF IsComplete, HasHeader
<1> QED
  BY <1>1, <1>2, <1>4, <1>5, <1>6, <1>7, <1>11 DEF FoundBehind, FirstBehind

\* What a next frame is: it lies behind b, ends behind its beginning, and is
\* the only one.
LEMMA NextFacts ==
  ASSUME NEW l \in Seq(Nat), NEW a \in 0..Len(l), NEW b \in Nat,
         NEW p, IsNext(l, a, b, p)
  PROVE  /\ p \in (b + 1)..a /\ LastOfFrame(l, p) \in (p + 3)..a
         /\ FirstBehind(l, a, b) = p /\ LastBehind(l, a, b) = LastOfFrame(l, p)
         /\ FoundBehind(l, a, b)
<1>1. p \in (b + 1)..a /\ p + MarkerLength \in 1..Len(l) /\ MarkerLength = 3
  BY MarkerFacts DEF IsNext
<1>2. l[p + MarkerLength] \in Nat
  BY <1>1
<1>3. LastOfFrame(l, p) \in (p + 3)..a
  BY <1>1, <1>2 DEF IsNext, LastOfFrame
<1> QED
  BY <1>1, <1>3, NextIsFound, FoundIsNext

\* What is found lies behind b and has arrived.
LEMMA FoundFacts ==
  ASSUME NEW l \in Seq(Nat), NEW a \in 0..Len(l), NEW b \in Nat,
         FoundBehind(l, a, b)
  PROVE  /\ FirstBehind(l, a, b) \in (b + 1)..a
         /\ LastBehind(l, a, b) \in (b + 1)..a
<1>1. PICK p : p = FirstBehind(l, a, b)
  OBVIOUS
<1>2. IsNext(l, a, b, p) /\ LastBehind(l, a, b) = LastOfFrame(l, p)
  BY <1>1, FoundIsNext
<1>3. p \in (b + 1)..a /\ LastOfFrame(l, p) \in (p + 3)..a
  BY <1>2, NextFacts
<1> QED
  BY <1>1, <1>2, <1>3

\* The recursion of FramesBehind goes towards the end of what has arrived: it
\* defines a function.
LEMMA FramesRecursion ==
  ASSUME NEW l \in Seq(Nat), NEW a \in 0..Len(l), NEW b \in Nat
  PROVE  FramesBehind(l, a)[b]
           = IF FoundBehind(l, a, b)
             THEN <<<<FirstBehind(l, a, b), LastBehind(l, a, b)>>>>
                    \o FramesBehind(l, a)[LastBehind(l, a, b)]
             ELSE <<>>
<1> DEFINE Body(f, c) ==
             IF FoundBehind(l, a, c)
             THEN <<<<FirstBehind(l, a, c), LastBehind(l, a, c)>>>>
                    \o f[LastBehind(l, a, c)]
             ELSE <<>>
           IsFrames(f) == f = [c \in Nat |-> Body(f, c)]
           Near(f, n) == \A c \in Nat : c + n >= a => f[c] = Body(f, c)
           Open == {n \in Nat : ~(\E f : /\ f = [c \in Nat |-> f[c]]
                                         /\ Near(f, n))}
<1>1. Open = {}
  <2> SUFFICES ASSUME Open # {} PROVE FALSE
    OBVIOUS
  <2>1. PICK n \in Open : \A m \in Open : <<m, n>> \notin OpToRel(<, Nat)
    BY WFMin, NatLessThanWellFounded, Zenon
  <2>2. n \in Nat /\ \A m \in Open : ~(m < n)
    BY <2>1 DEF OpToRel
  <2>3. CASE n = 0
    <3> DEFINE f == [c \in Nat |-> <<>>]
    <3>1. ASSUME NEW c \in Nat, c + n >= a
          PROVE  f[c] = Body(f, c)
      <4>1. ~FoundBehind(l, a, c)
        BY <2>3, <3>1, FoundFacts
      <4> QED
        BY <4>1
    <3>2. f = [c \in Nat |-> f[c]]
      OBVIOUS
    <3> HIDE DEF f
    <3> QED
      BY <2>1, <3>1, <3>2
  <2>4. CASE n > 0
    <3>1. n - 1 \in Nat /\ n - 1 \notin Open
      <4> HIDE DEF Open
      <4>1. n - 1 \in Nat /\ n - 1 < n
        BY <2>2, <2>4
      <4> QED
        BY <2>2, <4>1
    <3>2. PICK f : f = [c \in Nat |-> f[c]] /\ Near(f, n - 1)
      BY <3>1
    <3> DEFINE g == [c \in Nat |-> IF c + n = a THEN Body(f, c) ELSE f[c]]
    <3>3. ASSUME NEW c \in Nat, c + n >= a
          PROVE  g[c] = Body(g, c)
      <4>1. g[c] = Body(f, c)
        <5>1. CASE c + n = a
          BY <5>1
        <5>2. CASE c + n # a
          <6>1. c + (n - 1) >= a
            <7>1. c \in Nat /\ n \in Nat /\ a \in Nat
              BY <2>2
            <7> HIDE DEF Open, Body, g, Near
            <7> QED
              BY <3>3, <5>2, <7>1
          <6>2. f[c] = Body(f, c)
            BY <3>2, <6>1
          <6> QED
            BY <5>2, <6>2
        <5> QED
          BY <5>1, <5>2
      <4>2. ASSUME FoundBehind(l, a, c)
            PROVE  g[LastBehind(l, a, c)] = f[LastBehind(l, a, c)]
        <5>1. LastBehind(l, a, c) \in (c + 1)..a
          BY <4>2, FoundFacts
        <5>2. LastBehind(l, a, c) \in Nat /\ LastBehind(l, a, c) + n # a
          BY <2>2, <3>3, <5>1
        <5> QED
          BY <5>2
      <4> HIDE DEF g
      <4> QED
        BY <4>1, <4>2
    <3>4. g = [c \in Nat |-> g[c]]
      OBVIOUS
    <3> HIDE DEF g
    <3>5. Near(g, n)
      BY <3>3
    <3> QED
      BY <2>1, <3>4, <3>5
  <2> QED
    BY <2>2, <2>3, <2>4
<1>2. \E f : IsFrames(f)
  <2>1. a \in Nat /\ a \notin Open
    BY <1>1
  <2>2. PICK f : f = [c \in Nat |-> f[c]] /\ Near(f, a)
    BY <2>1
  <2>3. ASSUME NEW c \in Nat PROVE f[c] = Body(f, c)
    <3>1. c + a >= a
      BY <2>1
    <3> HIDE DEF Body
    <3> QED
      BY <2>2, <3>1
  <2>4. f = [c \in Nat |-> Body(f, c)]
    <3> HIDE DEF Body
    <3> QED
      BY <2>2, <2>3
  <2> QED
    BY <2>4
<1>3. FramesBehind(l, a) = CHOOSE f : IsFrames(f)
  BY Zenon DEF FramesBehind
<1>4. IsFrames(FramesBehind(l, a))
  <2> HIDE DEF IsFrames
  <2> QED
    BY <1>2, <1>3, Zenon
<1> QED
  BY <1>4

\* Induction from what has arrived back to the beginning of the line.
LEMMA Backwards ==
  ASSUME NEW a \in Nat, NEW S,
         \A b \in Nat : (\A c \in (b + 1)..a : c \in S) => b \in S
  PROVE  Nat \subseteq S
<1> DEFINE Height(b) == IF b < a THEN a - b ELSE 0
           Open == {n \in Nat : \E b \in Nat \ S : n = Height(b)}
<1> SUFFICES ASSUME NEW z \in Nat \ S PROVE FALSE
  OBVIOUS
<1>1. Height(z) \in Open
  OBVIOUS
<1>2. PICK n \in Open : \A m \in Open : <<m, n>> \notin OpToRel(<, Nat)
  BY <1>1, WFMin, NatLessThanWellFounded, Zenon
<1>3. n \in Nat /\ \A m \in Open : ~(m < n)
  BY <1>2 DEF OpToRel
<1>4. PICK b \in Nat \ S : n = Height(b)
  BY <1>2
<1>5. ASSUME NEW c \in (b + 1)..a, c \notin S
      PROVE  FALSE
  <2>1. Height(c) \in Open /\ Height(c) < n
    BY <1>4, <1>5
  <2> QED
    BY <1>3, <2>1
<1> QED
  BY <1>4, <1>5

\* How FramesBehind goes on, with and without a next frame.
LEMMA FramesUnfold ==
  ASSUME NEW l \in Seq(Nat), NEW a \in 0..Len(l), NEW b \in Nat
  PROVE  /\ \A p : IsNext(l, a, b, p) =>
              FramesBehind(l, a)[b]
                = <<<<p, LastOfFrame(l, p)>>>>
                    \o FramesBehind(l, a)[LastOfFrame(l, p)]
         /\ (\A p : ~IsNext(l, a, b, p)) => FramesBehind(l, a)[b] = <<>>
<1>1. ASSUME NEW p, IsNext(l, a, b, p)
      PROVE  FramesBehind(l, a)[b]
               = <<<<p, LastOfFrame(l, p)>>>>
                   \o FramesBehind(l, a)[LastOfFrame(l, p)]
  <2>1. /\ FoundBehind(l, a, b) /\ FirstBehind(l, a, b) = p
        /\ LastBehind(l, a, b) = LastOfFrame(l, p)
    BY <1>1, NextFacts
  <2> QED
    BY <2>1, FramesRecursion
<1>2. ASSUME \A p : ~IsNext(l, a, b, p)
      PROVE  FramesBehind(l, a)[b] = <<>>
  <2>1. ~FoundBehind(l, a, b)
    BY <1>2, FoundIsNext
  <2> QED
    BY <2>1, FramesRecursion
<1> QED
  BY <1>1, <1>2

\* The queue of frames is a sequence of places.
LEMMA FramesType ==
  ASSUME NEW l \in Seq(Nat), NEW a \in 0..Len(l)
  PROVE  \A b \in Nat : FramesBehind(l, a)[b] \in Seq(Nat \X Nat)
<1> DEFINE frames == FramesBehind(l, a)
           Typed == {b \in Nat : frames[b] \in Seq(Nat \X Nat)}
<1>1. ASSUME NEW b \in Nat, \A c \in (b + 1)..a : c \in Typed
      PROVE  b \in Typed
  <2>1. ASSUME NEW p, IsNext(l, a, b, p)
        PROVE  b \in Typed
    <3>1. /\ p \in Nat /\ LastOfFrame(l, p) \in Nat
          /\ LastOfFrame(l, p) \in (b + 1)..a
      BY <2>1, NextFacts
    <3>2. frames[LastOfFrame(l, p)] \in Seq(Nat \X Nat)
      BY <1>1, <3>1
    <3>3. frames[b] = <<<<p, LastOfFrame(l, p)>>>> \o frames[LastOfFrame(l, p)]
      BY <2>1, FramesUnfold
    <3>4. <<<<p, LastOfFrame(l, p)>>>> \in Seq(Nat \X Nat)
      BY <3>1
    <3> HIDE DEF frames
    <3>5. frames[b] \in Seq(Nat \X Nat)
      BY <3>2, <3>3, <3>4, ConcatProperties, Zenon
    <3> QED
      BY <3>5
  <2>2. CASE \A p : ~IsNext(l, a, b, p)
    <3>1. frames[b] = <<>>
      BY <2>2, FramesUnfold
    <3> HIDE DEF frames
    <3>2. <<>> \in Seq(Nat \X Nat)
      OBVIOUS
    <3> QED
      BY <3>1, <3>2
  <2> QED
    BY <2>1, <2>2
<1>2. Nat \subseteq Typed
  <2> HIDE DEF Typed
  <2>1. a \in Nat
    OBVIOUS
  <2> QED
    BY <1>1, <2>1, Backwards
<1> QED
  BY <1>2

\* What an item that arrives does to the frames that are there.
Grown(old, new) == new = old \/ \E x \in Nat \X Nat : new = Append(old, x)

\* A queue that grows behind its first frame grows.
LEMMA GrownBehind ==
  ASSUME NEW x \in Nat \X Nat, NEW old \in Seq(Nat \X Nat), NEW new,
         Grown(old, new)
  PROVE  Grown(<<x>> \o old, <<x>> \o new)
<1>1. ASSUME NEW y \in Nat \X Nat, new = Append(old, y)
      PROVE  <<x>> \o new = Append(<<x>> \o old, y)
  BY <1>1
<1> QED
  BY <1>1 DEF Grown

\* One more item adds at most one frame, behind those there.
LEMMA FramesGrow ==
  ASSUME NEW l \in Seq(Nat), NEW a \in Nat, a + 1 <= Len(l)
  PROVE  \A b \in Nat :
           Grown(FramesBehind(l, a)[b], FramesBehind(l, a + 1)[b])
<1> DEFINE old == FramesBehind(l, a)
           new == FramesBehind(l, a + 1)
           Good == {b \in Nat : Grown(old[b], new[b])}
<1>1. a \in 0..Len(l) /\ a + 1 \in 0..Len(l)
  OBVIOUS
<1>2. ASSUME NEW b \in Nat, \A c \in (b + 1)..(a + 1) : c \in Good
      PROVE  b \in Good
  <2>1. ASSUME NEW p, IsNext(l, a, b, p)
        PROVE  b \in Good
    <3>1. PICK q : q = LastOfFrame(l, p)
      OBVIOUS
    <3>2. p \in (b + 1)..a /\ q \in (p + 3)..a
      BY <1>1, <2>1, <3>1, NextFacts
    <3>3. IsNext(l, a + 1, b, p)
      BY <2>1, <3>1, <3>2, MarkerFacts DEF IsNext
    <3>4. /\ old[b] = <<<<p, q>>>> \o old[q]
          /\ new[b] = <<<<p, q>>>> \o new[q]
      BY <1>1, <2>1, <3>1, <3>3, FramesUnfold
    <3>5. q \in Nat /\ p \in Nat /\ Grown(old[q], new[q])
          /\ old[q] \in Seq(Nat \X Nat)
      BY <1>1, <1>2, <3>2, FramesType
    <3>6. <<p, q>> \in Nat \X Nat
      BY <3>5
    <3> HIDE DEF old, new
    <3>7. Grown(<<<<p, q>>>> \o old[q], <<<<p, q>>>> \o new[q])
      BY <3>5, <3>6, GrownBehind
    <3> QED
      BY <3>4, <3>7
  <2>2. CASE \A p : ~IsNext(l, a, b, p)
    <3>1. old[b] = <<>>
      BY <1>1, <2>2, FramesUnfold
    <3>2. ASSUME NEW p, IsNext(l, a + 1, b, p)
          PROVE  b \in Good
      <4>1. PICK q : q = LastOfFrame(l, p)
        OBVIOUS
      <4>2. p \in (b + 1)..(a + 1) /\ q \in (p + 3)..(a + 1)
        BY <1>1, <3>2, <4>1, NextFacts
      <4>3. q = a + 1
        <5>1. ~IsNext(l, a, b, p)
          BY <2>2
        <5>2. q <= a => IsNext(l, a, b, p)
          BY <3>2, <4>1, <4>2, MarkerFacts DEF IsNext
        <5> QED
          BY <4>2, <5>1, <5>2
      <4>4. \A k : ~IsNext(l, a + 1, a + 1, k)
        BY DEF IsNext
      <4>5. new[q] = <<>>
        BY <1>1, <4>3, <4>4, FramesUnfold
      <4>6. new[b] = <<<<p, q>>>> \o new[q]
        BY <1>1, <3>2, <4>1, FramesUnfold
      <4>7. <<p, q>> \in Nat \X Nat
        BY <4>2
      <4> HIDE DEF old, new
      <4>8. new[b] = Append(old[b], <<p, q>>)
        BY <3>1, <4>5, <4>6
      <4> QED
        BY <4>7, <4>8 DEF Grown
    <3>3. CASE \A p : ~IsNext(l, a + 1, b, p)
      <4>1. new[b] = <<>>
        BY <1>1, <3>3, FramesUnfold
      <4> QED
        BY <3>1, <4>1 DEF Grown
    <3> QED
      BY <3>2, <3>3
  <2> QED
    BY <2>1, <2>2
<1>3. Nat \subseteq Good
  <2> HIDE DEF Good
  <2>1. a + 1 \in Nat
    OBVIOUS
  <2> QED
    BY <1>2, <2>1, Backwards
<1> QED
  BY <1>3

\* An item that begins no marker can go from the front.
LEMMA FramesSlide ==
  ASSUME NEW l \in Seq(Nat), NEW a \in 0..Len(l), NEW b \in Nat,
         ~AtMarker(l, b + 1)
  PROVE  FramesBehind(l, a)[b] = FramesBehind(l, a)[b + 1]
<1>1. b + 1 \in Nat
  OBVIOUS
<1>2. ASSUME NEW p PROVE IsNext(l, a, b, p) <=> IsNext(l, a, b + 1, p)
  <2>1. IsNext(l, a, b, p) => p # b + 1
    BY DEF IsNext
  <2> QED
    BY <2>1 DEF IsNext
<1>3. ASSUME NEW p, IsNext(l, a, b, p)
      PROVE  FramesBehind(l, a)[b] = FramesBehind(l, a)[b + 1]
  BY <1>1, <1>2, <1>3, FramesUnfold
<1>4. CASE \A p : ~IsNext(l, a, b, p)
  BY <1>1, <1>2, <1>4, FramesUnfold
<1> QED
  BY <1>3, <1>4

-----------------------------------------------------------------------------
\* The window of the serial receive is no longer than a marker, and is not yet
\* one while bytes are read into it.
WindowShort ==
  pc = "sync" => Len(window) <= MarkerLength /\ window # START_MARKER

QueueInv == Inv /\ WindowShort

\* How long the window is after one more byte.
LEMMA SlideShort ==
  ASSUME window \in Seq(Nat), NEW byte \in Nat
  PROVE  /\ Len(window) < MarkerLength => Len(Slide(byte)) = Len(window) + 1
         /\ Len(window) = MarkerLength => Len(Slide(byte)) = MarkerLength
<1> DEFINE longer == Append(window, byte)
<1>1. longer \in Seq(Nat) /\ Len(longer) = Len(window) + 1
  OBVIOUS
<1> HIDE DEF longer
<1>2. Slide(byte) = LastOf(longer)
  BY DEF Slide, longer
<1>3. CASE Len(longer) > MarkerLength
  <2>1. Len(LastOf(longer)) = MarkerLength
    BY <1>1, <1>3, PartFacts, MarkerFacts DEF LastOf, From
  <2> QED
    BY <1>1, <1>2, <1>3, <2>1, MarkerFacts
<1>4. CASE ~(Len(longer) > MarkerLength)
  <2>1. LastOf(longer) = longer
    BY <1>4 DEF LastOf
  <2> QED
    BY <1>1, <1>2, <1>4, <2>1, MarkerFacts
<1> QED
  BY <1>3, <1>4

\* While the port is searched, the window is not a marker.
LEMMA WindowShortNext == QueueInv /\ [Next]_vars => WindowShort'
<1> SUFFICES ASSUME QueueInv, [Next]_vars PROVE WindowShort'
  OBVIOUS
<1> USE DEF WindowShort
<1>1. CASE Arrive
  BY <1>1 DEF Arrive, QueueInv
<1>2. ASSUME NEW limit \in {DefaultTimeout, OverrideTimeout}, Call(limit)
      PROVE  WindowShort'
  BY <1>2, MarkerFacts DEF Call
<1>3. CASE Bluetooth
  BY <1>3 DEF Bluetooth, SearchLate, SearchFinds, SearchWaits, Wake,
      WaitTimesOut, TimesOut, Returns, Ends
<1>4. CASE ReadSync
  <2>1. window \in Seq(Nat) /\ line[taken + 1] \in Nat
    BY <1>4 DEF ReadSync, QueueInv, Inv, TypeOK, Available
  <2>2. /\ window' = Slide(line[taken + 1])
        /\ pc' = IF window' = START_MARKER THEN "len" ELSE "sync"
        /\ Len(window) <= MarkerLength
    BY <1>4 DEF ReadSync, QueueInv
  <2>3. Len(window') <= MarkerLength
    BY <2>1, <2>2, SlideShort, MarkerFacts
  <2> QED
    BY <2>2, <2>3
<1>5. CASE ReadLen \/ ReadBody \/ ReadTimesOut
  BY <1>5 DEF ReadLen, ReadBody, ReadTimesOut, TimesOut, Returns, Ends
<1>6. CASE Tick
  BY <1>6 DEF Tick, QueueInv
<1>7. CASE ReadNoise \/ NotifyNoise
  BY <1>7 DEF ReadNoise, NotifyNoise, QueueInv
<1>8. CASE UNCHANGED vars
  BY <1>8 DEF vars, QueueInv
<1> QED
  BY <1>1, <1>2, <1>3, <1>4, <1>5, <1>6, <1>7, <1>8 DEF Next, Serial

\* The queue begins where the buffer does, or before.
LEMMA BaseFacts ==
  ASSUME QueueInv
  PROVE  /\ Base \in Nat /\ Base <= taken
         /\ line \in Seq(Nat) /\ arrived \in 0..Len(line)
         /\ arrived \in Nat /\ taken \in 0..arrived
<1>1. /\ line \in Seq(Nat) /\ arrived \in 0..Len(line)
      /\ taken \in 0..arrived /\ window \in Seq(Nat)
      /\ pc \in {"idle", "search", "wait", "sync", "len", "body"}
  BY DEF QueueInv, Inv, TypeOK
<1>2. taken \in Nat /\ arrived \in Nat /\ Len(window) \in Nat
  BY <1>1
<1>3. /\ pc = "sync" => Len(window) <= taken
      /\ pc = "len" => 3 <= taken
      /\ pc = "body" => 3 + 1 <= taken
  BY MarkerFacts DEF QueueInv, Inv, SerialState
<1>4. Base = CASE pc = "sync" -> taken - Len(window)
               [] pc = "len" -> taken - 3
               [] pc = "body" -> taken - 3 - 1
               [] OTHER -> taken
  BY MarkerFacts DEF Base
<1>5. Base \in Nat /\ Base <= taken
  BY <1>2, <1>3, <1>4
<1> QED
  BY <1>1, <1>2, <1>5

\* In the body of a frame the serial receive knows where the frame lies.
LEMMA BodyFacts ==
  ASSUME QueueInv, pc = "body"
  PROVE  /\ Base = taken - 4 /\ taken >= 4 /\ need \in Nat
         /\ AtMarker(line, Base + 1)
         /\ LastOfFrame(line, Base + 1) = taken + need
<1>1. taken \in Nat /\ need \in Nat /\ MarkerLength = 3
  BY BaseFacts, MarkerFacts DEF QueueInv, Inv, TypeOK
<1>2. Base = taken - 4
  BY <1>1 DEF Base
<1>3. /\ 3 + 1 <= taken /\ need = line[taken]
      /\ \A k \in 1..3 : line[taken - 3 - 1 + k] = START_MARKER[k]
  BY <1>1 DEF QueueInv, Inv, SerialState
<1>4. \A k \in 1..3 : Base + 1 + k - 1 = taken - 3 - 1 + k
  <2> SUFFICES ASSUME NEW k \in 1..3
               PROVE  Base + 1 + k - 1 = taken - 3 - 1 + k
    OBVIOUS
  <2>1. k \in Int
    OBVIOUS
  <2> QED
    BY <1>1, <1>2, <2>1
<1>5. AtMarker(line, Base + 1)
  BY <1>1, <1>3, <1>4 DEF AtMarker
<1>6. LastOfFrame(line, Base + 1) = taken + need
  BY <1>1, <1>2, <1>3 DEF LastOfFrame
<1> QED
  BY <1>1, <1>2, <1>3, <1>5, <1>6

\* No frame is behind the place where a read of the port has timed out.
LEMMA NothingCut ==
  ASSUME QueueInv, pc \in {"sync", "len", "body"}, Available < Wanted
  PROVE  FramesBehind(line, arrived)[Base] = <<>>
<1>1. /\ Base \in Nat /\ line \in Seq(Nat) /\ arrived \in 0..Len(line)
      /\ arrived \in Nat /\ taken \in 0..arrived /\ MarkerLength = 3
  BY BaseFacts, MarkerFacts
<1>2. window \in Seq(Nat) /\ need \in Nat
  BY DEF QueueInv, Inv, TypeOK
<1>3. CASE pc \in {"sync", "len"}
  <2>1. taken = arrived /\ arrived <= Base + 3
    <3>1. taken = arrived
      BY <1>1, <1>3 DEF Available, Wanted
    <3>2. Base = IF pc = "sync" THEN taken - Len(window) ELSE taken - 3
      BY <1>1, <1>3 DEF Base
    <3>3. pc = "sync" => Len(window) <= 3
      BY <1>1 DEF QueueInv, WindowShort
    <3> QED
      BY <1>1, <1>2, <1>3, <3>1, <3>2, <3>3
  <2>2. \A p : ~IsNext(line, arrived, Base, p)
    BY <1>1, <2>1 DEF IsNext
  <2> QED
    BY <1>1, <2>2, FramesUnfold
<1>4. CASE pc = "body"
  <2>1. /\ Base = taken - 4 /\ AtMarker(line, Base + 1)
        /\ LastOfFrame(line, Base + 1) = taken + need
    BY <1>4, BodyFacts
  <2>2. arrived < taken + need
    BY <1>1, <1>2, <1>4 DEF Available, Wanted
  <2>3. ASSUME NEW p, IsNext(line, arrived, Base, p)
        PROVE  FALSE
    <3>1. p = Base + 1
      BY <1>1, <2>1, <2>3 DEF IsNext
    <3> QED
      BY <1>1, <1>2, <2>1, <2>2, <2>3, <3>1 DEF IsNext
  <2> QED
    BY <1>1, <2>3, FramesUnfold
<1> QED
  BY <1>3, <1>4

\* The end of what has arrived has no frame behind it.
LEMMA NothingBehindEnd ==
  ASSUME NEW l \in Seq(Nat), NEW a \in 0..Len(l)
  PROVE  FramesBehind(l, a)[a] = <<>>
<1>1. \A p : ~IsNext(l, a, a, p)
  BY DEF IsNext
<1> QED
  BY <1>1, FramesUnfold

\* An item that arrives lets a frame join, or changes nothing.
LEMMA QueueArrives ==
  ASSUME QueueInv, Arrive
  PROVE  [Queue!Next]_(Queue!vars)
<1> DEFINE old == FramesBehind(line, arrived)[Base]
           new == FramesBehind(line, arrived + 1)[Base]
<1>1. /\ Base \in Nat /\ line \in Seq(Nat) /\ arrived \in 0..Len(line)
      /\ arrived \in Nat
  BY BaseFacts
<1>2. /\ line' = line /\ arrived' = arrived + 1 /\ arrived < Len(line)
      /\ pc' = pc /\ taken' = taken /\ window' = window /\ got' = got
  BY DEF Arrive, lineVars, ghosts
<1>3. Base' = Base
  BY <1>2 DEF Base
<1>4. /\ old \in Seq(Nat \X Nat) /\ Grown(old, new)
      /\ FramesBehind(line, arrived)'[Base'] = new
  <2>1. arrived + 1 <= Len(line)
    BY <1>1, <1>2
  <2>2. old \in Seq(Nat \X Nat)
    BY <1>1, FramesType
  <2>3. Grown(old, new)
    BY <1>1, <2>1, FramesGrow
  <2> QED
    BY <1>2, <1>3, <2>2, <2>3, Zenon
<1> HIDE DEF old, new
<1>5. CASE new = old
  BY <1>2, <1>4, <1>5 DEF Queue!vars, old
<1>6. ASSUME NEW x \in Nat \X Nat, new = Append(old, x)
      PROVE  Queue!Join
  <2>1. Len(new) = Len(old) + 1 /\ SubSeq(new, 1, Len(old)) = old
    BY <1>4, <1>6, AppendProperties
  <2> QED
    BY <1>2, <1>4, <2>1 DEF Queue!Join, old
<1> QED
  BY <1>4, <1>5, <1>6 DEF Grown, Queue!Next

\* A step that leaves the line and the place the receive has come to.
LEMMA QueueKept ==
  ASSUME line' = line, arrived' = arrived,
         FramesBehind(line, arrived)[Base'] = FramesBehind(line, arrived)[Base]
  PROVE  FramesBehind(line, arrived)'[Base'] =
           FramesBehind(line, arrived)[Base]
BY Zenon

\* A receive ends and returns nothing.
LEMMA QueueGivesUp ==
  ASSUME pc # "idle", TimesOut,
         FramesBehind(line, arrived)[taken'] =
           FramesBehind(line, arrived)[Base]
  PROVE  Queue!GiveUp
<1>1. /\ line' = line /\ arrived' = arrived /\ pc' = "idle" /\ got' = got
  BY DEF TimesOut, Ends, lineVars
<1>2. Base' = taken'
  BY <1>1 DEF Base
<1>3. FramesBehind(line, arrived)'[Base'] = FramesBehind(line, arrived)[Base]
  BY <1>1, <1>2, QueueKept
<1> QED
  BY <1>1, <1>3 DEF Queue!GiveUp

\* Head and tail of a sequence put together from a first item and the rest.
LEMMA FirstOfConcat ==
  ASSUME NEW S, NEW x \in S, NEW s \in Seq(S)
  PROVE  /\ <<x>> \o s # <<>>
         /\ Head(<<x>> \o s) = x
         /\ Tail(<<x>> \o s) = s
OBVIOUS

\* A receive ends with the next frame.
LEMMA QueueTakes ==
  ASSUME QueueInv, pc # "idle", NEW p, IsNext(line, arrived, Base, p),
         Returns(p, LastOfFrame(line, p)), taken' = LastOfFrame(line, p)
  PROVE  Queue!Take
<1> DEFINE q == LastOfFrame(line, p)
           frames == FramesBehind(line, arrived)
<1>1. /\ Base \in Nat /\ line \in Seq(Nat) /\ arrived \in 0..Len(line)
      /\ arrived \in Nat
  BY BaseFacts
<1>2. /\ line' = line /\ arrived' = arrived /\ pc' = "idle"
      /\ got' = Append(got, <<p, q>>)
  BY DEF Returns, Ends, lineVars
<1>3. Base' = q
  BY <1>2 DEF Base
<1>4. p \in Nat /\ q \in Nat
  BY <1>1, NextFacts
<1>5. frames[Base] = <<<<p, q>>>> \o frames[q]
  BY <1>1, FramesUnfold
<1>6. frames[q] \in Seq(Nat \X Nat)
  BY <1>1, <1>4, FramesType
<1>7. FramesBehind(line, arrived)'[Base'] = frames[q]
  BY <1>2, <1>3, Zenon
<1> HIDE DEF frames, q
<1>8. /\ frames[Base] # <<>> /\ Head(frames[Base]) = <<p, q>>
      /\ Tail(frames[Base]) = frames[q]
  <2>1. <<p, q>> \in Nat \X Nat
    BY <1>4
  <2>2. /\ <<<<p, q>>>> \o frames[q] # <<>>
        /\ Head(<<<<p, q>>>> \o frames[q]) = <<p, q>>
        /\ Tail(<<<<p, q>>>> \o frames[q]) = frames[q]
    BY <1>6, <2>1, FirstOfConcat
  <2> QED
    BY <1>5, <2>2, Zenon
<1> QED
  BY <1>2, <1>7, <1>8 DEF Queue!Take, frames

\* A byte that goes through the window: what leaves it begins no marker.
LEMMA SlidesBase ==
  ASSUME QueueInv, ReadSync
  PROVE  Base' = Base \/ (Base' = Base + 1 /\ ~AtMarker(line, Base + 1))
<1>1. /\ Base \in Nat /\ line \in Seq(Nat) /\ arrived \in 0..Len(line)
      /\ arrived \in Nat /\ taken \in 0..arrived /\ MarkerLength = 3
  BY BaseFacts, MarkerFacts
<1>2. /\ line' = line /\ arrived' = arrived /\ got' = got
      /\ pc = "sync" /\ pc' = IF window' = START_MARKER THEN "len" ELSE "sync"
      /\ taken' = taken + 1 /\ taken + 1 <= arrived
      /\ window' = Slide(line[taken + 1])
  BY <1>1 DEF ReadSync, lineVars, ghosts, Available
<1>3. /\ window \in Seq(Nat) /\ Len(window) \in Nat /\ Len(window) <= 3
      /\ window # START_MARKER
      /\ \A k \in 1..Len(window) : window[k] = line[taken - Len(window) + k]
  BY <1>1, <1>2
  DEF QueueInv, Inv, TypeOK, SerialState, WindowShort
<1>4. Base = taken - Len(window) /\ line[taken + 1] \in Nat
  BY <1>1, <1>2 DEF Base
<1>5. Base' = taken + 1 - Len(window')
  <2>1. CASE window' = START_MARKER
    <3>1. Len(window') = 3 /\ pc' = "len"
      BY <1>1, <1>2, <2>1, MarkerFacts
    <3> QED
      BY <1>1, <1>2, <3>1 DEF Base
  <2>2. CASE window' # START_MARKER
    <3>1. Base' = (taken + 1) - Len(window')
      BY <1>2, <2>2 DEF Base
    <3>2. Len(window') \in Nat /\ taken \in Nat
      BY <1>1, <1>2, <1>3, <1>4, SlideFacts
    <3> QED
      BY <3>1, <3>2
  <2> QED
    BY <2>1, <2>2
<1>6. Base' = Base \/ (Base' = Base + 1 /\ ~AtMarker(line, Base + 1))
  <2>1. CASE Len(window) < 3
    <3>1. Len(window') = Len(window) + 1
      BY <1>1, <1>2, <1>3, <1>4, <2>1, SlideShort
    <3>2. Base' = Base
      BY <1>1, <1>3, <1>4, <1>5, <3>1
    <3> QED
      BY <3>2
  <2>2. CASE Len(window) = 3
    <3>1. Len(window') = 3
      BY <1>1, <1>2, <1>3, <1>4, <2>2, SlideShort
    <3>2. Base' = Base + 1
      BY <1>1, <1>4, <1>5, <2>2, <3>1
    <3>3. ~AtMarker(line, Base + 1)
      <4> SUFFICES ASSUME AtMarker(line, Base + 1) PROVE FALSE
        OBVIOUS
      <4>1. ASSUME NEW k \in 1..3
            PROVE  window[k] = START_MARKER[k]
        <5>1. window[k] = line[taken - 3 + k]
          BY <1>3, <2>2
        <5>2. line[Base + 1 + k - 1] = START_MARKER[k]
          BY <1>1 DEF AtMarker
        <5>3. Base + 1 + k - 1 = taken - 3 + k
          BY <1>1, <1>4, <2>2
        <5> QED
          BY <5>1, <5>2, <5>3
      <4>2. window = START_MARKER
        BY <1>1, <1>3, <2>2, <4>1, MarkerFacts, SeqEqual
      <4> QED
        BY <1>3, <4>2
    <3> QED
      BY <3>2, <3>3
  <2>3. Len(window) < 3 \/ Len(window) = 3
    <3>1. \A n \in Nat : n <= 3 => n < 3 \/ n = 3
      OBVIOUS
    <3> QED
      BY <1>3, <3>1, Zenon
  <2> QED
    BY <2>1, <2>2, <2>3, Zenon
<1> QED
  BY <1>6

\* A byte read in search of the marker takes no frame away.
LEMMA QueueSlides ==
  ASSUME QueueInv, ReadSync
  PROVE  UNCHANGED Queue!vars
<1>1. Base \in Nat /\ line \in Seq(Nat) /\ arrived \in 0..Len(line)
  BY BaseFacts
<1>2. /\ line' = line /\ arrived' = arrived /\ got' = got
      /\ pc = "sync" /\ pc' \in {"sync", "len"}
  BY DEF ReadSync, lineVars, ghosts
<1>3. FramesBehind(line, arrived)[Base'] = FramesBehind(line, arrived)[Base]
  BY <1>1, SlidesBase, FramesSlide
<1>4. FramesBehind(line, arrived)'[Base'] = FramesBehind(line, arrived)[Base]
  BY <1>2, <1>3, QueueKept
<1> QED
  BY <1>2, <1>4 DEF Queue!vars

\* Both receives return the next frame behind Base.
LEMMA ReturnsNext ==
  ASSUME QueueInv, SearchFinds \/ ReadBody
  PROVE  /\ pc # "idle" /\ cuts' = cuts
         /\ \E p : /\ IsNext(line, arrived, Base, p)
                   /\ Returns(p, LastOfFrame(line, p))
                   /\ taken' = LastOfFrame(line, p)
<1>1. /\ Base \in Nat /\ line \in Seq(Nat) /\ arrived \in 0..Len(line)
      /\ arrived \in Nat /\ taken \in 0..arrived /\ taken \in Nat
      /\ MarkerLength = 3
  BY BaseFacts, MarkerFacts
<1>2. CASE SearchFinds
  <2> DEFINE p == FirstBehind(line, arrived, taken)
  <2>1. pc = "search" /\ Base = taken
    BY <1>2 DEF SearchFinds, Base
  <2>2. FoundBehind(line, arrived, taken)
    BY <1>2 DEF SearchFinds, FrameThere, FoundBehind, Buffer, Items
  <2>3. /\ IsNext(line, arrived, taken, p)
        /\ LastBehind(line, arrived, taken) = LastOfFrame(line, p)
    BY <1>1, <2>2, FoundIsNext
  <2>4. /\ Returns(p, LastBehind(line, arrived, taken))
        /\ taken' = LastBehind(line, arrived, taken)
    <3>1. Start = p
      BY DEF Start, FirstBehind, Buffer, Items
    <3>2. Start + TotalSize(From(Buffer, Find(Buffer))) - 1
            = LastBehind(line, arrived, taken)
      BY DEF Start, LastBehind, Buffer, Items
    <3> HIDE DEF p
    <3> QED
      BY <1>2, <3>1, <3>2, Zenon DEF SearchFinds
  <2> HIDE DEF p
  <2> QED
    BY <1>2, <2>1, <2>3, <2>4 DEF SearchFinds
<1>3. CASE ReadBody
  <2>1. /\ pc = "body" /\ arrived - taken >= need /\ taken' = taken + need
        /\ Returns(taken - MarkerLength, taken + need)
    BY <1>3 DEF ReadBody, Available
  <2>2. /\ Base = taken - 4 /\ taken >= 4 /\ need \in Nat
        /\ AtMarker(line, Base + 1)
        /\ LastOfFrame(line, Base + 1) = taken + need
    BY <2>1, BodyFacts
  <2>3. Base + 1 = taken - MarkerLength
    BY <1>1, <2>2
  <2>4. IsNext(line, arrived, Base, Base + 1)
    BY <1>1, <2>1, <2>2 DEF IsNext
  <2> QED
    BY <1>3, <2>1, <2>2, <2>3, <2>4 DEF ReadBody
<1> QED
  BY <1>2, <1>3

\* Every step of a receive is one of the queue, or leaves it alone.
LEMMA QueueNext ==
  ASSUME QueueInv, QueueInv', [Next]_vars
  PROVE  [Queue!Next]_(Queue!vars)
<1>1. /\ Base \in Nat /\ line \in Seq(Nat) /\ arrived \in 0..Len(line)
      /\ arrived \in Nat /\ taken \in 0..arrived /\ MarkerLength = 3
      /\ taken \in Nat
  BY BaseFacts, MarkerFacts
<1>2. CASE Arrive
  BY <1>2, QueueArrives
<1>3. ASSUME NEW limit \in {DefaultTimeout, OverrideTimeout}, Call(limit)
      PROVE  Queue!Ask
  <2>1. /\ line' = line /\ arrived' = arrived /\ got' = got /\ taken' = taken
        /\ window' = <<>> /\ pc = "idle" /\ pc' \in {"search", "sync"}
    BY <1>3 DEF Call, lineVars, ghosts
  <2>2. Base = taken /\ Base' = taken
    BY <1>1, <2>1 DEF Base
  <2>3. FramesBehind(line, arrived)'[Base'] = FramesBehind(line, arrived)[Base]
    BY <2>1, <2>2, QueueKept
  <2> QED
    BY <2>1, <2>3 DEF Queue!Ask
<1>4. ASSUME SearchLate \/ WaitTimesOut
      PROVE  Queue!GiveUp
  <2>1. TimesOut /\ pc \in {"search", "wait"} /\ taken' = taken
    BY <1>4 DEF SearchLate, WaitTimesOut
  <2>2. Base = taken'
    BY <2>1 DEF Base
  <2> QED
    BY <2>1, <2>2, QueueGivesUp
<1>5. ASSUME SearchFinds \/ ReadBody
      PROVE  Queue!Take
  BY <1>5, ReturnsNext, QueueTakes
<1>6. ASSUME SearchWaits
      PROVE  UNCHANGED Queue!vars
  <2>1. /\ line' = line /\ arrived' = arrived /\ got' = got
        /\ pc = "search" /\ pc' = "wait" /\ ~FrameThere
    BY <1>6 DEF SearchWaits, lineVars, ghosts
  <2>2. Base = taken /\ Base' = taken'
    BY <2>1 DEF Base
  <2>3. FramesBehind(line, arrived)[taken] = <<>>
    <3>1. ~FoundBehind(line, arrived, taken)
      BY <2>1 DEF FrameThere, FoundBehind, Buffer, Items
    <3> QED
      BY <1>1, <3>1, FramesRecursion
  <2>4. FramesBehind(line, arrived)[taken'] = <<>>
    <3>1. ~FrameThere' /\ taken' \in Nat
      <4>1. taken' \in 0..arrived' /\ arrived' \in Nat
        BY <1>1, <2>1 DEF QueueInv, Inv, TypeOK
      <4> QED
        BY <1>6, <4>1, SearchLeavesNone DEF QueueInv, Inv
    <3>2. ~FoundBehind(line, arrived, taken')
      BY <2>1, <3>1 DEF FrameThere, FoundBehind, Buffer, Items
    <3> QED
      BY <1>1, <3>1, <3>2, FramesRecursion
  <2>5. FramesBehind(line, arrived)'[Base'] = FramesBehind(line, arrived)[Base]
    BY <2>1, <2>2, <2>3, <2>4, QueueKept
  <2> QED
    BY <2>1, <2>5 DEF Queue!vars
<1>7. ASSUME Wake \/ Tick
      PROVE  UNCHANGED Queue!vars
  <2>1. /\ line' = line /\ arrived' = arrived /\ got' = got /\ taken' = taken
        /\ window' = window
        /\ (pc' = pc \/ (pc = "wait" /\ pc' = "search"))
    BY <1>7 DEF Wake, Tick, lineVars, ghosts
  <2>2. Base' = Base
    BY <2>1 DEF Base
  <2>3. FramesBehind(line, arrived)'[Base'] = FramesBehind(line, arrived)[Base]
    BY <2>1, <2>2, QueueKept
  <2> QED
    BY <2>1, <2>3 DEF Queue!vars
<1>8. CASE ReadSync
  BY <1>8, QueueSlides
<1>9. ASSUME ReadLen
      PROVE  UNCHANGED Queue!vars
  <2>1. /\ line' = line /\ arrived' = arrived /\ got' = got
        /\ pc = "len" /\ pc' = "body" /\ taken' = taken + 1
    BY <1>9 DEF ReadLen, lineVars, ghosts
  <2>2. Base' = Base
    BY <1>1, <2>1 DEF Base, MarkerLength
  <2>3. FramesBehind(line, arrived)'[Base'] = FramesBehind(line, arrived)[Base]
    BY <2>1, <2>2, QueueKept
  <2> QED
    BY <2>1, <2>3 DEF Queue!vars
<1>10. ASSUME ReadTimesOut
       PROVE  Queue!GiveUp
  <2>1. /\ TimesOut /\ pc \in {"sync", "len", "body"} /\ Available < Wanted
        /\ taken' = arrived
    BY <1>10 DEF ReadTimesOut
  <2>2. /\ FramesBehind(line, arrived)[Base] = <<>>
        /\ FramesBehind(line, arrived)[arrived] = <<>>
    BY <1>1, <2>1, NothingCut, NothingBehindEnd
  <2> QED
    BY <2>1, <2>2, QueueGivesUp
<1>11. CASE ReadNoise \/ NotifyNoise \/ UNCHANGED vars
  <2>1. /\ line' = line /\ arrived' = arrived /\ got' = got /\ taken' = taken
        /\ window' = window /\ pc' = pc
    BY <1>11 DEF ReadNoise, NotifyNoise, vars, lineVars, ghosts
  <2>2. Base' = Base
    BY <2>1 DEF Base
  <2>3. FramesBehind(line, arrived)'[Base'] = FramesBehind(line, arrived)[Base]
    BY <2>1, <2>2, QueueKept
  <2> QED
    BY <2>1, <2>3 DEF Queue!vars
<1> QED
  BY <1>2, <1>3, <1>4, <1>5, <1>6, <1>7, <1>8, <1>9, <1>10, <1>11
  DEF Next, Bluetooth, Serial, Queue!Next

\* The queue is empty at first.
LEMMA QueueInit == Init => QueueInv /\ Queue!Init
<1> SUFFICES ASSUME Init PROVE QueueInv /\ Queue!Init
  OBVIOUS
<1>1. QueueInv
  BY InvInit DEF Init, QueueInv, WindowShort
<1>2. line \in Seq(Nat) /\ arrived = 0 /\ arrived \in 0..Len(line)
  BY <1>1, BaseFacts DEF Init
<1>3. Base = arrived
  BY DEF Init, Base
<1>4. FramesBehind(line, arrived)[Base] = <<>>
  BY <1>2, <1>3, NothingBehindEnd
<1> QED
  BY <1>1, <1>4 DEF Init, Queue!Init

\* Both receives implement the queue of frames, on every line: each step of
\* theirs is one of FrameQueue's, or leaves its variables alone.
THEOREM ReceiveIsFrameQueue == Spec => ImplementsFrameQueue
<1>1. QueueInv /\ [Next]_vars => QueueInv'
  BY InvNext, WindowShortNext DEF QueueInv
<1>2. QueueInv /\ QueueInv' /\ [Next]_vars => [Queue!Next]_(Queue!vars)
  BY QueueNext
<1> QED
  BY <1>1, <1>2, QueueInit, PTL DEF Spec, ImplementsFrameQueue, Queue!Spec
-----------------------------------------------------------------------------
\* No frame is lost without a cause.

\* Where a genuine frame lies: at its marker, as far as its length says.
LEMMA GenuineFacts ==
  ASSUME NEW l \in Seq(Nat), NEW m \in 1..Len(l), NEW n \in 1..Len(l),
         IsGenuine(SubSeq(l, m, n))
  PROVE  /\ AtMarker(l, m) /\ n = LastOfFrame(l, m) /\ m + 5 <= n
<1> DEFINE data == SubSeq(l, m, n)
<1>1. PICK b \in Nat : m = b + 1
  <2>1. m - 1 \in Nat /\ m = (m - 1) + 1
    OBVIOUS
  <2> QED
    BY <2>1
<1>2. /\ data \in Seq(Nat) /\ Len(data) = IF b < n THEN n - b ELSE 0
      /\ \A i \in 1..(n - b) : data[i] = l[b + i]
      /\ \A i \in 1..Len(data) :
           MarkerAt(data, i) <=> b + i + 2 <= n /\ AtMarker(l, b + i)
  <2>1. n \in 0..Len(l) /\ data = SubSeq(l, b + 1, n)
    BY <1>1
  <2> QED
    BY <2>1, RestFacts
<1> HIDE DEF data
<1>3. /\ MarkerAt(data, 1) /\ Len(data) > 3 /\ data[4] >= 2
      /\ 4 + data[4] = Len(data)
  BY MarkerFacts DEF IsGenuine, HasHeader, TotalSize, LEN_OVERHEAD, data
<1>4. Len(data) = n - b /\ b + 4 <= n
  BY <1>2, <1>3
<1>5. n \in Nat
  OBVIOUS
<1>6. PICK size \in Nat : size = data[4] /\ size = l[b + 4]
  <2>1. 4 \in 1..(n - b) /\ 4 \in 1..Len(data)
    BY <1>4, <1>5
  <2>2. data[4] = l[b + 4]
    BY <1>2, <2>1
  <2>3. data \in Seq(Nat)
    BY <1>2
  <2>4. data[4] \in Nat
    BY <2>1, <2>3
  <2> QED
    BY <2>2, <2>4
<1>7. AtMarker(l, m)
  <2>1. 1 \in 1..Len(data)
    BY <1>2, <1>3
  <2> QED
    BY <1>1, <1>2, <1>3, <2>1
<1>8. LastOfFrame(l, m) = b + 4 + size
  <2>1. m + 3 = b + 4
    BY <1>1
  <2> QED
    BY <1>6, <2>1, MarkerFacts DEF LastOfFrame
<1>9. size >= 2 /\ 4 + size = n - b
  BY <1>3, <1>4, <1>6
<1>10. n = b + 4 + size /\ m + 5 <= n
  BY <1>1, <1>5, <1>9
<1> QED
  BY <1>7, <1>8, <1>10

\* The genuine frames of the line, as GenuineAssumption has them.
LineInv ==
  \A f \in sent :
    /\ f[1] \in 1..Len(line) /\ f[2] \in 1..Len(line)
    /\ IsGenuine(SubSeq(line, f[1], f[2]))
    /\ \A g \in sent \ {f} : f[2] < g[1] \/ g[2] < f[1]

\* The line is what it is.
LEMMA LineKept == [Next]_vars => UNCHANGED <<line, sent>>
BY DEF Next, Bluetooth, Serial, Arrive, Call, SearchLate, SearchFinds,
    SearchWaits, Wake, WaitTimesOut, ReadSync, ReadLen, ReadBody,
    ReadTimesOut, ReadNoise, NotifyNoise, Tick, TimesOut, Returns, Ends, vars,
    lineVars

\* The genuine frames of the line at hand are as the assumption says.
LEMMA LineInit == Init => LineInv
<1> SUFFICES ASSUME Init PROVE LineInv
  OBVIOUS
<1>1. PICK l \in Lines : line = l.items /\ sent = l.genuine
  BY DEF Init
<1>2. DOMAIN line = 1..Len(line)
  BY <1>1, ReceiveAssumption DEF Line
<1> QED
  BY <1>1, <1>2, GenuineAssumption DEF LineInv

\* A marker that begins no genuine frame claims what its length says.
LEMMA FalseClaim ==
  ASSUME TypeOK, NEW p \in 1..Len(line), p + 3 <= Len(line),
         AtMarker(line, p), \A f \in sent : f[1] # p
  PROVE  <<p, LastOfFrame(line, p)>> \in FalseClaims
<1>1. line \in Seq(Nat) /\ p \in Nat \ {0} /\ MarkerLength = 3
  BY MarkerFacts DEF TypeOK
<1>2. MarkerAt(line, p)
  BY <1>1 DEF MarkerAt, AtMarker
<1>3. /\ Len(From(line, p)) = Len(line) - p + 1
      /\ From(line, p)[4] = line[p + 3]
  <2>1. Len(line) \in 0..Len(line)
    BY <1>1
  <2>2. /\ Len(From(line, p)) = IF p <= Len(line) THEN Len(line) - p + 1 ELSE 0
        /\ \A i \in 1..(Len(line) - p + 1) : From(line, p)[i] = line[p + i - 1]
    BY <1>1, <2>1, PartFacts DEF From
  <2>3. 4 \in 1..(Len(line) - p + 1) /\ p + 4 - 1 = p + 3
    BY <1>1
  <2> QED
    BY <1>1, <2>2, <2>3
<1>4. HasHeader(From(line, p))
  BY <1>1, <1>3 DEF HasHeader
<1>5. PICK size \in Nat : size = line[p + 3]
  <2>1. p + 3 \in 1..Len(line)
    BY <1>1
  <2> QED
    BY <1>1, <2>1
<1>6. p + TotalSize(From(line, p)) - 1 = LastOfFrame(line, p)
  <2>1. TotalSize(From(line, p)) = 4 + size
    BY <1>1, <1>3, <1>5 DEF TotalSize
  <2>2. LastOfFrame(line, p) = p + 3 + size
    BY <1>1, <1>5 DEF LastOfFrame
  <2> QED
    BY <1>1, <2>1, <2>2
<1>7. p \in DOMAIN line
  BY <1>1
<1> QED
  BY <1>2, <1>4, <1>6, <1>7 DEF FalseClaims, FalseClaimsOf

\* A false header claims the beginning of a frame.
Claimed(f) ==
  \E claim \in FalseClaims : claim[1] < f[1] /\ f[1] <= claim[2]

\* Where a genuine frame lies: at a marker, to the end that its LEN claims.
LEMMA SentFacts ==
  ASSUME TypeOK, LineInv, NEW f \in sent
  PROVE  /\ f[1] \in Nat /\ f[2] \in Nat /\ f = <<f[1], f[2]>>
         /\ AtMarker(line, f[1]) /\ f[2] = LastOfFrame(line, f[1])
         /\ f[1] + 5 <= f[2]
<1>1. line \in Seq(Nat) /\ f \in Nat \X Nat
  BY DEF TypeOK
<1>2. /\ f[1] \in 1..Len(line) /\ f[2] \in 1..Len(line)
      /\ IsGenuine(SubSeq(line, f[1], f[2]))
  BY DEF LineInv
<1> QED
  BY <1>1, <1>2, GenuineFacts

\* A genuine frame that begins inside what another header says is claimed: the
\* genuine frames are disjoint, so no frame belongs to that header.
LEMMA InsideClaimed ==
  ASSUME TypeOK, LineInv, NEW f \in sent,
         NEW p \in 1..Len(line), p + 3 <= Len(line), AtMarker(line, p),
         p < f[1], f[1] <= LastOfFrame(line, p)
  PROVE  Claimed(f)
<1>1. p \in Nat /\ f[1] \in Nat /\ f[2] \in Nat /\ f[1] + 5 <= f[2]
  BY SentFacts
<1>2. ASSUME NEW g \in sent, g[1] = p
      PROVE  FALSE
  <2>1. g \in sent \ {f} /\ g[2] = LastOfFrame(line, p) /\ g[2] \in Nat
    BY <1>1, <1>2, SentFacts
  <2>2. g[2] < f[1] \/ f[2] < g[1]
    BY <2>1 DEF LineInv
  <2>3. ~(g[2] < f[1])
    BY <1>1, <2>1
  <2>4. ~(f[2] < g[1])
    BY <1>1, <1>2
  <2> QED
    BY <2>2, <2>3, <2>4
<1>3. <<p, LastOfFrame(line, p)>> \in FalseClaims
  BY <1>2, FalseClaim
<1> QED
  BY <1>3 DEF Claimed

\* A genuine frame that begins in what a search has found is what it has found,
\* or the search has found a false claim.
LEMMA FoundOrClaimed ==
  ASSUME TypeOK, LineInv, NEW f \in sent,
         NEW a \in 0..Len(line), NEW b \in Nat, NEW p, IsNext(line, a, b, p),
         f[1] \in (b + 1)..LastOfFrame(line, p)
  PROVE  f = <<p, LastOfFrame(line, p)>> \/ Claimed(f)
<1>1. /\ line \in Seq(Nat) /\ p \in (b + 1)..a /\ p + 3 <= a
      /\ LastOfFrame(line, p) \in (p + 3)..a
      /\ AtMarker(line, p) /\ \A j \in (b + 1)..(p - 1) : ~AtMarker(line, j)
  BY NextFacts, MarkerFacts DEF IsNext, TypeOK
<1>2. /\ f[1] \in Nat /\ p \in Nat /\ a \in Nat
      /\ b + 1 <= f[1] /\ f[1] <= LastOfFrame(line, p)
  BY <1>1, SentFacts
<1>3. CASE f[1] < p
  <2>1. f[1] \in (b + 1)..(p - 1)
    BY <1>2, <1>3
  <2> QED
    BY <1>1, <2>1, SentFacts
<1>4. CASE f[1] = p
  BY <1>4, SentFacts
<1>5. CASE p < f[1]
  <2>1. p \in 1..Len(line) /\ p + 3 <= Len(line)
    BY <1>1, <1>2
  <2> QED
    BY <1>1, <1>2, <1>5, <2>1, InsideClaimed
<1> QED
  BY <1>2, <1>3, <1>4, <1>5

\* What has left the buffer, and what the call has moved past, is accounted
\* for: the frame was returned, claimed, or cut by a timeout. The buffer here
\* begins at Base: what the serial receive holds of a frame is not yet lost.
Received(f) == \E i \in DOMAIN got : got[i] = f

LossInv ==
  \A f \in sent :
    f[1] <= Base => Received(f) \/ Claimed(f) \/ f \in cuts

\* So a step has to account for the frames that Base moves past.
LEMMA LossStep ==
  ASSUME TypeOK, LineInv, LossInv, Base \in Nat, Base' \in Nat,
         UNCHANGED <<line, sent>>, cuts \subseteq cuts',
         got' = got \/ \E x \in Nat \X Nat : got' = Append(got, x),
         \A f \in sent :
           f[1] \in (Base + 1)..Base' =>
             Received(f)' \/ Claimed(f) \/ f \in cuts'
  PROVE  LossInv'
<1>1. ASSUME NEW f \in sent
      PROVE  Claimed(f)' <=> Claimed(f)
  BY DEF Claimed, FalseClaims, FalseClaimsOf
<1>2. ASSUME NEW f \in sent, Received(f)
      PROVE  Received(f)'
  <2>1. got \in Seq(Nat \X Nat)
    BY DEF TypeOK
  <2>2. PICK i \in DOMAIN got : got[i] = f
    BY <1>2 DEF Received
  <2>3. i \in DOMAIN got' /\ got'[i] = got[i]
    <3>1. CASE got' = got
      BY <3>1
    <3>2. ASSUME NEW x \in Nat \X Nat, got' = Append(got, x)
          PROVE  i \in DOMAIN got' /\ got'[i] = got[i]
      BY <2>1, <3>2
    <3> QED
      BY <3>1, <3>2
  <2> QED
    BY <2>2, <2>3 DEF Received
<1>3. ASSUME NEW f \in sent, f[1] <= Base'
      PROVE  Received(f)' \/ Claimed(f) \/ f \in cuts'
  <2>1. f[1] \in Nat
    BY SentFacts
  <2>2. CASE f[1] <= Base
    BY <1>2, <2>2 DEF LossInv
  <2>3. CASE f[1] \in (Base + 1)..Base'
    BY <2>3
  <2> QED
    BY <1>3, <2>1, <2>2, <2>3
<1> QED
  BY <1>1, <1>3 DEF LossInv

\* Base moves past no marker in a step that returns and gives up nothing.
LEMMA NoMarkerPassed ==
  ASSUME QueueInv,
         \/ Arrive \/ \E limit \in {DefaultTimeout, OverrideTimeout} :
                        Call(limit)
         \/ SearchLate \/ SearchWaits \/ Wake \/ WaitTimesOut
         \/ ReadSync \/ ReadLen \/ ReadNoise \/ NotifyNoise
         \/ Tick \/ UNCHANGED vars
  PROVE  /\ UNCHANGED <<line, sent, got, cuts>>
         /\ Base' \in Nat
         /\ \A j \in (Base + 1)..Base' : ~AtMarker(line, j)
<1>1. /\ Base \in Nat /\ line \in Seq(Nat) /\ arrived \in 0..Len(line)
      /\ arrived \in Nat /\ taken \in Nat /\ MarkerLength = 3
  BY BaseFacts, MarkerFacts
<1>2. ASSUME Base' = Base
      PROVE  \A j \in (Base + 1)..Base' : ~AtMarker(line, j)
  BY <1>1, <1>2
<1>3. CASE Arrive \/ Wake \/ ReadNoise \/ NotifyNoise \/ Tick \/ UNCHANGED vars
  <2>1. /\ UNCHANGED <<line, sent, got, cuts, taken, window>>
        /\ pc' = pc \/ (pc = "wait" /\ pc' = "search")
    BY <1>3 DEF Arrive, Wake, ReadNoise, NotifyNoise, Tick, vars, lineVars,
        ghosts
  <2>2. Base' = Base
    BY <2>1 DEF Base
  <2> QED
    BY <1>1, <1>2, <2>1, <2>2
<1>4. ASSUME NEW limit \in {DefaultTimeout, OverrideTimeout}, Call(limit)
      PROVE  /\ UNCHANGED <<line, sent, got, cuts>>
             /\ Base' \in Nat
             /\ \A j \in (Base + 1)..Base' : ~AtMarker(line, j)
  <2>1. /\ UNCHANGED <<line, sent, got, cuts, taken>>
        /\ window' = <<>> /\ pc = "idle" /\ pc' \in {"search", "sync"}
    BY <1>4 DEF Call, lineVars, ghosts
  <2>2. Base = taken /\ Base' = taken
    BY <1>1, <2>1 DEF Base
  <2> QED
    BY <1>1, <1>2, <2>1, <2>2
<1>5. CASE SearchLate \/ WaitTimesOut
  <2>1. /\ UNCHANGED <<line, sent, got, cuts, taken>>
        /\ pc \in {"search", "wait"} /\ pc' = "idle"
    BY <1>5 DEF SearchLate, WaitTimesOut, TimesOut, Ends, lineVars
  <2>2. Base = taken /\ Base' = taken
    BY <2>1 DEF Base
  <2> QED
    BY <1>1, <1>2, <2>1, <2>2
<1>6. CASE SearchWaits
  <2>1. /\ UNCHANGED <<line, sent, got, cuts>>
        /\ pc = "search" /\ pc' = "wait" /\ taken' = DropBeforeMarker
    BY <1>6 DEF SearchWaits, lineVars, ghosts
  <2>2. Base = taken /\ Base' = DropBeforeMarker
    BY <2>1 DEF Base
  <2>3. PICK data : data = Buffer
    OBVIOUS
  <2>4. /\ data \in Seq(Nat)
        /\ Len(data) = IF taken < arrived THEN arrived - taken ELSE 0
        /\ \A i \in 1..Len(data) :
             MarkerAt(data, i)
               <=> taken + i + 2 <= arrived /\ AtMarker(line, taken + i)
    BY <1>1, <2>3, RestFacts DEF Buffer, Items
  <2>5. CASE Find(data) = 0
    <3>1. Base' = Base
      BY <2>2, <2>3, <2>5 DEF DropBeforeMarker
    <3> QED
      BY <1>1, <1>2, <2>1, <3>1
  <2>6. CASE Find(data) # 0
    <3>1. PICK n \in Nat \ {0} : n = Find(data)
      BY <2>4, <2>6, FindFacts
    <3>2. /\ n <= Len(data) /\ MarkerAt(data, n)
          /\ \A j \in 1..(n - 1) : ~MarkerAt(data, j)
      BY <2>4, <3>1, FindFacts
    <3>3. Base' = taken + n - 1 /\ Base' \in Nat
      BY <1>1, <2>2, <2>3, <3>1 DEF DropBeforeMarker, Start
    <3>4. taken + n + 2 <= arrived
      BY <1>1, <2>4, <3>1, <3>2
    <3>5. ASSUME NEW j \in (Base + 1)..Base'
          PROVE  ~AtMarker(line, j)
      <4>1. PICK i \in 1..(n - 1) : j = taken + i
        <5>1. j - taken \in 1..(n - 1) /\ j = taken + (j - taken)
          BY <1>1, <2>2, <3>1, <3>3
        <5> QED
          BY <5>1
      <4>2. i \in 1..Len(data) /\ taken + i + 2 <= arrived
        BY <1>1, <2>4, <3>1, <3>2, <3>4, <4>1
      <4> QED
        BY <2>4, <3>2, <4>1, <4>2
    <3> QED
      BY <2>1, <3>3, <3>5
  <2> QED
    BY <2>5, <2>6
<1>7. CASE ReadSync
  <2>1. UNCHANGED <<line, sent, got, cuts>>
    BY <1>7 DEF ReadSync, lineVars, ghosts
  <2> QED
    BY <1>1, <1>2, <1>7, <2>1, SlidesBase
<1>8. CASE ReadLen
  <2>1. /\ UNCHANGED <<line, sent, got, cuts>>
        /\ pc = "len" /\ pc' = "body" /\ taken' = taken + 1
    BY <1>8 DEF ReadLen, lineVars, ghosts
  <2>2. Base' = Base
    BY <1>1, <2>1 DEF Base, MarkerLength
  <2> QED
    BY <1>1, <1>2, <2>1, <2>2
<1> QED
  BY <1>3, <1>4, <1>5, <1>6, <1>7, <1>8

\* A read that gives up cuts the genuine frame it is in, if it is in one.
LEMMA CutOrClaimed ==
  ASSUME QueueInv, LineInv, ReadTimesOut, NEW f \in sent,
         f[1] \in (Base + 1)..arrived
  PROVE  f \in cuts' \/ Claimed(f)
<1>1. /\ Base \in Nat /\ line \in Seq(Nat) /\ arrived \in 0..Len(line)
      /\ arrived \in Nat /\ taken \in 0..arrived /\ taken \in Nat
      /\ MarkerLength = 3 /\ TypeOK
  BY BaseFacts, MarkerFacts DEF QueueInv, Inv
<1>2. /\ pc \in {"sync", "len", "body"} /\ Available < Wanted
      /\ cuts' = cuts \cup {g \in sent : g[1] <= arrived /\ arrived < g[2]}
  BY DEF ReadTimesOut
<1>3. /\ f[1] \in Nat /\ f[2] \in Nat /\ f[1] + 5 <= f[2]
      /\ f[2] = LastOfFrame(line, f[1]) /\ Base + 1 <= f[1] /\ f[1] <= arrived
  BY <1>1, SentFacts
<1>4. CASE pc \in {"sync", "len"}
  <2>1. window \in Seq(Nat) /\ (pc = "sync" => Len(window) <= 3)
    BY <1>1 DEF TypeOK, QueueInv, WindowShort
  <2>2. taken = arrived
    BY <1>1, <1>2, <1>4 DEF Available, Wanted
  <2>3. Base = IF pc = "sync" THEN taken - Len(window) ELSE taken - 3
    BY <1>1, <1>4 DEF Base
  <2>4. arrived <= Base + 3
    BY <1>1, <1>4, <2>1, <2>2, <2>3
  <2>5. arrived < f[2]
    BY <1>1, <1>3, <2>4
  <2> QED
    BY <1>2, <1>3, <2>5
<1>5. CASE pc = "body"
  <2>1. /\ Base = taken - 4 /\ taken >= 4 /\ need \in Nat
        /\ AtMarker(line, Base + 1)
        /\ LastOfFrame(line, Base + 1) = taken + need
    BY <1>5, BodyFacts
  <2>2. arrived < taken + need
    BY <1>1, <1>2, <1>5, <2>1 DEF Available, Wanted
  <2>3. CASE f[1] = Base + 1
    BY <1>2, <1>3, <2>1, <2>2, <2>3
  <2>4. CASE Base + 1 < f[1]
    <3>1. /\ Base + 1 \in 1..Len(line) /\ Base + 1 + 3 <= Len(line)
          /\ f[1] <= LastOfFrame(line, Base + 1)
      BY <1>1, <1>3, <2>1, <2>2
    <3> QED
      BY <1>1, <2>1, <2>4, <3>1, InsideClaimed
  <2> QED
    BY <1>1, <1>3, <2>3, <2>4
<1> QED
  BY <1>2, <1>4, <1>5

\* Every step keeps what explains a loss.
LEMMA LossNext ==
  ASSUME QueueInv, LineInv, LossInv, [Next]_vars
  PROVE  LossInv'
<1>1. /\ Base \in Nat /\ line \in Seq(Nat) /\ arrived \in 0..Len(line)
      /\ arrived \in Nat /\ TypeOK /\ got \in Seq(Nat \X Nat)
  BY BaseFacts DEF QueueInv, Inv, TypeOK
<1>2. ASSUME \/ Arrive \/ \E limit \in {DefaultTimeout, OverrideTimeout} :
                            Call(limit)
             \/ SearchLate \/ SearchWaits \/ Wake \/ WaitTimesOut
             \/ ReadSync \/ ReadLen \/ ReadNoise \/ NotifyNoise
             \/ Tick \/ UNCHANGED vars
      PROVE  LossInv'
  <2>1. /\ UNCHANGED <<line, sent, got, cuts>> /\ Base' \in Nat
        /\ \A j \in (Base + 1)..Base' : ~AtMarker(line, j)
    BY <1>2, NoMarkerPassed
  <2>2. \A f \in sent : f[1] \notin (Base + 1)..Base'
    BY <1>1, <2>1, SentFacts
  <2> QED
    BY <1>1, <2>1, <2>2, LossStep
<1>3. ASSUME SearchFinds \/ ReadBody
      PROVE  LossInv'
  <2>1. PICK p : /\ IsNext(line, arrived, Base, p)
                 /\ Returns(p, LastOfFrame(line, p))
                 /\ taken' = LastOfFrame(line, p)
    BY <1>3, ReturnsNext
  <2>2. cuts' = cuts
    BY <1>3, ReturnsNext
  <2>3. /\ UNCHANGED <<line, sent>> /\ pc' = "idle"
        /\ got' = Append(got, <<p, LastOfFrame(line, p)>>)
    BY <2>1 DEF Returns, Ends, lineVars
  <2>4. Base' = LastOfFrame(line, p) /\ Base' \in Nat /\ p \in Nat
    <3>1. LastOfFrame(line, p) \in Nat /\ p \in Nat
      BY <1>1, <2>1, NextFacts
    <3> QED
      BY <2>1, <2>3, <3>1 DEF Base
  <2>5. ASSUME NEW f \in sent, f[1] \in (Base + 1)..Base'
        PROVE  Received(f)' \/ Claimed(f)
    <3>1. f = <<p, LastOfFrame(line, p)>> \/ Claimed(f)
      BY <1>1, <2>1, <2>4, <2>5, FoundOrClaimed
    <3>2. got'[Len(got) + 1] = <<p, LastOfFrame(line, p)>>
          /\ Len(got) + 1 \in DOMAIN got'
      BY <1>1, <2>3
    <3> QED
      BY <3>1, <3>2 DEF Received
  <2> QED
    BY <1>1, <2>2, <2>3, <2>4, <2>5, LossStep
<1>4. ASSUME ReadTimesOut
      PROVE  LossInv'
  <2>1. /\ UNCHANGED <<line, sent, got>> /\ cuts \subseteq cuts'
        /\ pc' = "idle" /\ taken' = arrived
    BY <1>4 DEF ReadTimesOut, TimesOut, Ends, lineVars
  <2>2. Base' = arrived
    BY <2>1 DEF Base
  <2>3. \A f \in sent :
          f[1] \in (Base + 1)..Base' => f \in cuts' \/ Claimed(f)
    BY <1>4, <2>2, CutOrClaimed
  <2> QED
    BY <1>1, <2>1, <2>2, <2>3, LossStep
<1> QED
  BY <1>2, <1>3, <1>4 DEF Next, Bluetooth, Serial

\* The invariant gives the property.
LEMMA LossExplains ==
  ASSUME QueueInv, LineInv, LossInv
  PROVE  LossExplained
<1> SUFFICES ASSUME NEW f \in sent, taken >= f[2],
                    \A i \in DOMAIN got : got[i] # f
             PROVE  Claimed(f) \/ f \in cuts
  BY DEF LossExplained, Claimed
<1>1. /\ Base \in Nat /\ taken \in Nat /\ arrived \in 0..Len(line)
      /\ arrived \in Nat /\ taken \in 0..arrived /\ TypeOK /\ MarkerLength = 3
  BY BaseFacts, MarkerFacts DEF QueueInv, Inv
<1>2. /\ f[1] \in Nat /\ f[2] \in Nat /\ f[1] + 5 <= f[2]
  BY <1>1, SentFacts
<1>3. taken <= Base + 4
  <2>1. window \in Seq(Nat) /\ (pc = "sync" => Len(window) <= 3)
    BY <1>1 DEF TypeOK, QueueInv, WindowShort
  <2>2. pc \in {"idle", "search", "wait", "sync", "len", "body"}
    BY <1>1 DEF TypeOK
  <2> QED
    BY <1>1, <2>1, <2>2 DEF Base
<1>4. f[1] <= Base
  BY <1>1, <1>2, <1>3
<1> QED
  BY <1>4 DEF LossInv, Received

\* Whatever noise and damage lie on the line, and whenever a call gives up, a
\* genuine frame that left the buffer was returned, or a false header on the
\* line had claimed its beginning, or a read of the port had timed out in the
\* middle of it (bluetooth.py:300-332, serial.py:105-140).
THEOREM LossHasCause == Spec => []LossExplained
<1>1. LineInv /\ [Next]_vars => LineInv'
  BY LineKept DEF LineInv
<1>2. Init => LossInv
  <2> SUFFICES ASSUME Init PROVE LossInv
    OBVIOUS
  <2>1. Base = 0 /\ LineInv /\ TypeOK
    BY LineInit, InvInit DEF Init, Base, Inv
  <2> QED
    BY <2>1 DEF LossInv, LineInv
<1>3. QueueInv /\ [Next]_vars => QueueInv'
  BY InvNext, WindowShortNext DEF QueueInv
<1>4. QueueInv /\ LineInv /\ LossInv /\ [Next]_vars => LossInv'
  BY LossNext
<1>5. QueueInv /\ LineInv /\ LossInv => LossExplained
  BY LossExplains
<1> QED
  BY <1>1, <1>2, <1>3, <1>4, <1>5, LineInit, QueueInit, PTL
  DEF Spec
-----------------------------------------------------------------------------
\* find_frame_in_stream agrees with the search.

\* The first frame of a part of the line is the next one behind its beginning.
LEMMA FirstIsNext ==
  ASSUME NEW l \in Seq(Nat), NEW a \in 0..Len(l), NEW b \in Nat
  PROVE  /\ \A p : IsNext(l, a, b, p) =>
              FirstFrame(SubSeq(l, b + 1, a)) = SubSeq(l, p, LastOfFrame(l, p))
         /\ (\A p : ~IsNext(l, a, b, p)) =>
              FirstFrame(SubSeq(l, b + 1, a)) = <<>>
<1>1. PICK data : data = SubSeq(l, b + 1, a)
  OBVIOUS
<1>2. PICK rest : rest = From(data, Find(data))
  OBVIOUS
<1>3. FirstFrame(data) = IF FoundBehind(l, a, b)
                         THEN SubSeq(rest, 1, TotalSize(rest)) ELSE <<>>
  BY <1>1, <1>2, Zenon DEF FirstFrame, FoundBehind
<1>4. ASSUME NEW p, IsNext(l, a, b, p)
      PROVE  SubSeq(rest, 1, TotalSize(rest)) = SubSeq(l, p, LastOfFrame(l, p))
  <2>1. /\ FoundBehind(l, a, b) /\ p \in (b + 1)..a
        /\ FirstBehind(l, a, b) = p /\ LastBehind(l, a, b) = LastOfFrame(l, p)
        /\ LastOfFrame(l, p) \in (p + 3)..a
    BY <1>4, NextFacts
  <2>2. PICK q : q = LastOfFrame(l, p)
    OBVIOUS
  <2>3. p \in Nat \ {0} /\ q \in Nat /\ a \in Nat /\ p + 3 <= q /\ q <= a
        /\ b + 1 <= p /\ a <= Len(l)
    BY <2>1, <2>2
  <2>4. PICK n : n = Find(data)
    OBVIOUS
  <2>5. /\ data \in Seq(Nat) /\ Len(data) = a - b
        /\ \A i \in 1..(a - b) : data[i] = l[b + i]
    <3>1. b < a
      BY <2>3
    <3>2. /\ data \in Seq(Nat)
          /\ Len(data) = IF b < a THEN a - b ELSE 0
          /\ \A i \in 1..(a - b) : data[i] = l[b + i]
      BY <1>1, RestFacts
    <3> QED
      BY <3>1, <3>2
  <2>6. n = p - b
    <3>1. b + n = p
      BY <1>1, <2>1, <2>4 DEF FirstBehind
    <3>2. n \in Nat
      BY <2>4, <2>5, FindFacts
    <3> QED
      BY <2>3, <3>1, <3>2
  <2>7. /\ rest \in Seq(Nat) /\ Len(rest) = a - p + 1
        /\ \A i \in 1..(a - p + 1) : rest[i] = l[p + i - 1]
    <3>1. n \in Nat \ {0} /\ n <= Len(data) /\ Len(data) \in 0..Len(data)
          /\ Len(data) - n + 1 = a - p + 1
      BY <2>3, <2>5, <2>6
    <3>2. /\ rest \in Seq(Nat)
          /\ Len(rest) = Len(data) - n + 1
          /\ \A i \in 1..(Len(data) - n + 1) : rest[i] = data[n + i - 1]
      BY <1>2, <2>4, <2>5, <3>1, PartFacts, Zenon DEF From
    <3>3. ASSUME NEW i \in 1..(a - p + 1)
          PROVE  rest[i] = l[p + i - 1]
      <4>1. rest[i] = data[n + i - 1] /\ n + i - 1 \in 1..(a - b)
        BY <2>3, <2>6, <3>1, <3>2
      <4>2. data[n + i - 1] = l[b + (n + i - 1)] /\ b + (n + i - 1) = p + i - 1
        BY <2>3, <2>5, <2>6, <4>1
      <4> QED
        BY <4>1, <4>2
    <3> QED
      BY <3>1, <3>2, <3>3
  <2>8. TotalSize(rest) = q - p + 1
    <3>1. b + n + TotalSize(rest) - 1 = q
      BY <1>1, <1>2, <2>1, <2>2, <2>4 DEF LastBehind
    <3>2. TotalSize(rest) \in Nat
      <4>1. 4 \in 1..(a - p + 1)
        BY <2>3
      <4>2. rest[4] \in Nat
        BY <2>7, <4>1
      <4> QED
        BY <4>2, MarkerFacts DEF TotalSize
    <3> QED
      BY <2>3, <2>6, <3>1, <3>2
  <2>9. PICK left : left = SubSeq(rest, 1, q - p + 1)
    OBVIOUS
  <2>10. PICK right : right = SubSeq(l, p, q)
    OBVIOUS
  <2>11. /\ left \in Seq(Nat) /\ Len(left) = q - p + 1
         /\ \A i \in 1..(q - p + 1) : left[i] = rest[i]
    <3>1. q - p + 1 \in 0..Len(rest) /\ 1 <= q - p + 1
          /\ (q - p + 1) - 1 + 1 = q - p + 1
          /\ \A i \in 1..(q - p + 1) : 1 + i - 1 = i
      BY <2>3, <2>7
    <3> QED
      BY <2>7, <2>9, <3>1, PartFacts
  <2>12. /\ right \in Seq(Nat) /\ Len(right) = q - p + 1
         /\ \A i \in 1..(q - p + 1) : right[i] = l[p + i - 1]
    <3>1. q \in 0..Len(l) /\ p <= q
      BY <2>3
    <3> QED
      BY <2>3, <2>10, <3>1, PartFacts
  <2>13. \A i \in 1..Len(left) : left[i] = right[i]
    <3>1. \A i \in 1..(q - p + 1) : i \in 1..(a - p + 1)
      BY <2>3
    <3> QED
      BY <2>7, <2>11, <2>12, <3>1
  <2>14. left = right
    BY <2>11, <2>12, <2>13, SeqEqual
  <2> QED
    BY <2>2, <2>8, <2>9, <2>10, <2>14
<1>5. ASSUME NEW p, IsNext(l, a, b, p)
      PROVE  FirstFrame(data) = SubSeq(l, p, LastOfFrame(l, p))
  <2>1. FoundBehind(l, a, b)
    BY <1>5, NextFacts
  <2>2. FirstFrame(data) = SubSeq(rest, 1, TotalSize(rest))
    BY <1>3, <2>1
  <2> QED
    BY <1>4, <1>5, <2>2
<1>6. ASSUME \A p : ~IsNext(l, a, b, p)
      PROVE  FirstFrame(data) = <<>>
  BY <1>3, <1>6, FoundIsNext
<1> QED
  BY <1>1, <1>5, <1>6

\* What holds no beginning of a marker can go without a frame being lost.
LEMMA DropKeepsFirst ==
  ASSUME NEW l \in Seq(Nat), NEW a \in 0..Len(l), NEW b \in Nat,
         NEW c \in Nat, b <= c, \A j \in (b + 1)..c : ~AtMarker(l, j)
  PROVE  FirstFrame(SubSeq(l, c + 1, a)) = FirstFrame(SubSeq(l, b + 1, a))
<1>1. ASSUME NEW p PROVE IsNext(l, a, b, p) <=> IsNext(l, a, c, p)
  <2>1. a \in Nat
    OBVIOUS
  <2>2. ASSUME IsNext(l, a, b, p)
        PROVE  IsNext(l, a, c, p)
    <3>1. p \in (b + 1)..a /\ AtMarker(l, p)
      BY <2>2 DEF IsNext
    <3>2. p \notin (b + 1)..c
      BY <3>1
    <3>3. p \in (c + 1)..a
      BY <2>1, <3>1, <3>2
    <3>4. (c + 1)..(p - 1) \subseteq (b + 1)..(p - 1)
      BY <2>1, <3>1
    <3> QED
      BY <2>2, <3>3, <3>4 DEF IsNext
  <2>3. ASSUME IsNext(l, a, c, p)
        PROVE  IsNext(l, a, b, p)
    <3>1. p \in (c + 1)..a
      BY <2>3 DEF IsNext
    <3>2. p \in (b + 1)..a
      BY <2>1, <3>1
    <3>3. ASSUME NEW j \in (b + 1)..(p - 1)
          PROVE  j \in (b + 1)..c \/ j \in (c + 1)..(p - 1)
      BY <2>1, <3>1
    <3> QED
      BY <2>3, <3>2, <3>3 DEF IsNext
  <2> QED
    BY <2>2, <2>3
<1>2. ASSUME NEW p, IsNext(l, a, b, p)
      PROVE  FirstFrame(SubSeq(l, c + 1, a)) = FirstFrame(SubSeq(l, b + 1, a))
  <2>1. FirstFrame(SubSeq(l, b + 1, a)) = SubSeq(l, p, LastOfFrame(l, p))
    BY <1>2, FirstIsNext
  <2>2. FirstFrame(SubSeq(l, c + 1, a)) = SubSeq(l, p, LastOfFrame(l, p))
    <3>1. IsNext(l, a, c, p)
      BY <1>1, <1>2
    <3> QED
      BY <3>1, FirstIsNext
  <2> QED
    BY <2>1, <2>2
<1>3. CASE \A p : ~IsNext(l, a, b, p)
  BY <1>1, <1>3, FirstIsNext
<1> QED
  BY <1>2, <1>3

\* A frame is there: find_frame_in_stream parses what receive() returns.
LEMMA AgreesOnFrame ==
  ASSUME TypeOK, FrameThere
  PROVE  FindAgrees
<1>1. PICK data : data = Buffer
  OBVIOUS
<1>2. PICK n : n = Find(data)
  OBVIOUS
<1>3. PICK rest : rest = From(data, n)
  OBVIOUS
<1>4. PICK total : total = TotalSize(rest)
  OBVIOUS
<1>5. PICK result : result = find_frame_in_stream(data)
  OBVIOUS
<1>6. data \in Seq(Nat) /\ n > 0 /\ IsComplete(rest)
  BY <1>1, <1>2, <1>3, BufferFacts DEF FrameThere
<1>7. /\ n \in 1..Len(data) /\ data[n + MarkerLength] \in Nat
      /\ total = MarkerLength + 1 + data[n + MarkerLength]
      /\ n + total - 1 <= Len(data)
  BY <1>2, <1>3, <1>4, <1>6, HeadFacts
<1>8. n \in Nat \ {0} /\ total \in Nat \ {0} /\ n + total - 1 <= Len(data)
      /\ Len(data) \in Nat
  <2>1. Len(data) \in Nat /\ n \in Nat /\ n > 0
    BY <1>6, <1>7
  <2>2. total \in Nat \ {0}
    <3>1. PICK size \in Nat : size = data[n + MarkerLength]
      BY <1>7
    <3>2. total = 4 + size
      BY <1>7, <3>1, MarkerFacts
    <3> QED
      BY <3>2
  <2> QED
    BY <1>7, <2>1, <2>2
<1>9. Len(SubSeq(rest, 1, total)) = total
  <2>1. Len(data) \in 0..Len(data) /\ n <= Len(data)
    BY <1>7, <1>8
  <2>2. rest \in Seq(Nat) /\ Len(rest) = Len(data) - n + 1
    BY <1>3, <1>6, <1>8, <2>1, PartFacts DEF From
  <2>3. total \in 0..Len(rest)
    BY <1>8, <2>2
  <2> QED
    BY <1>8, <2>2, <2>3, PartFacts
<1>10. FirstFrame(data) = SubSeq(rest, 1, total)
  BY <1>2, <1>3, <1>4, <1>6 DEF FirstFrame
<1>11. /\ result.frame = parse_frame(FirstFrame(data))
       /\ result.frame = "ok" => result.consumed = n - 1 + total
  <2>1. ~(n = 0)
    BY <1>6
  <2>2. result = [frame |-> parse_frame(SubSeq(rest, 1, total)),
                  consumed |-> IF parse_frame(SubSeq(rest, 1, total)) = "ok"
                               THEN n - 1 + total ELSE 0]
    BY <1>2, <1>3, <1>4, <1>5, <1>6, <2>1 DEF find_frame_in_stream
  <2> QED
    BY <1>10, <2>2
<1>12. Start - taken - 1 + total = n - 1 + total
  <2>1. Start = taken + n /\ taken \in Nat
    BY <1>1, <1>2 DEF Start, TypeOK
  <2> QED
    BY <1>8, <2>1
<1> QED
  BY <1>1, <1>5, <1>9, <1>10, <1>11, <1>12 DEF FindAgrees

\* No frame is there: what it lets its caller drop holds no beginning of one.
LEMMA AgreesOnNone ==
  ASSUME TypeOK, ~FrameThere
  PROVE  FindAgrees
<1>1. PICK data : data = Buffer
  OBVIOUS
<1>2. PICK n : n = Find(data)
  OBVIOUS
<1>3. PICK result : result = find_frame_in_stream(data)
  OBVIOUS
<1>4. PICK c : c = result.consumed
  OBVIOUS
<1>5. /\ line \in Seq(Nat) /\ arrived \in 0..Len(line) /\ taken \in Nat
      /\ taken <= arrived /\ Len(line) \in 0..Len(line) /\ MarkerLength = 3
  BY MarkerFacts DEF TypeOK
<1>6. /\ data \in Seq(Nat)
      /\ Len(data) = arrived - taken
      /\ \A i \in 1..Len(data) :
           MarkerAt(data, i)
             <=> taken + i + 2 <= arrived /\ AtMarker(line, taken + i)
  BY <1>1, <1>5, RestFacts, BufferFacts DEF Buffer, Items
<1>7. /\ n \in 0..Len(data)
      /\ n = 0 => \A i \in 1..Len(data) : ~MarkerAt(data, i)
      /\ n > 0 => /\ MarkerAt(data, n)
                  /\ \A j \in 1..(n - 1) : ~MarkerAt(data, j)
  BY <1>2, <1>6, FindFacts
<1>8. /\ result.frame = "none" /\ c \in Nat
      /\ \A i \in 1..c : /\ i \in 1..Len(data) /\ ~MarkerAt(data, i)
                         /\ taken + i + 2 <= arrived
  <2>1. CASE n = 0
    <3>1. result = [frame |-> "none", consumed |-> SafeDiscard(data)]
      BY <1>2, <1>3, <2>1 DEF find_frame_in_stream
    <3>2. c = IF Len(data) >= 3 THEN Len(data) - 3 + 1 ELSE 0
      BY <1>4, <1>5, <3>1 DEF SafeDiscard
    <3>3. c \in Nat /\ \A i \in 1..c : i \in 1..Len(data)
                                       /\ taken + i + 2 <= arrived
      BY <1>5, <1>6, <3>2
    <3> QED
      BY <1>7, <2>1, <3>1, <3>3
  <2>2. CASE n > 0
    <3>1. ~IsComplete(From(data, n)) /\ ~(n = 0)
      BY <1>1, <1>2, <2>2 DEF FrameThere
    <3>2. result = [frame |-> "none", consumed |-> n - 1]
      BY <1>2, <1>3, <2>2, <3>1 DEF find_frame_in_stream
    <3>3. n \in 1..Len(data) /\ taken + n + 2 <= arrived
      BY <1>6, <1>7, <2>2
    <3>4. /\ c = n - 1 /\ c \in Nat
          /\ \A i \in 1..c : i \in 1..Len(data) /\ taken + i + 2 <= arrived
      BY <1>4, <1>5, <1>6, <3>2, <3>3
    <3> QED
      BY <1>7, <2>2, <3>2, <3>4
  <2> QED
    BY <1>7, <2>1, <2>2
<1>9. \A j \in (taken + 1)..(taken + c) : ~AtMarker(line, j)
  <2> SUFFICES ASSUME NEW j \in (taken + 1)..(taken + c)
               PROVE  ~AtMarker(line, j)
    OBVIOUS
  <2>1. PICK i \in 1..c : j = taken + i
    <3>1. j - taken \in 1..c /\ j = taken + (j - taken)
      BY <1>5, <1>8
    <3> QED
      BY <3>1
  <2> QED
    BY <1>6, <1>8, <2>1
<1>10. FirstFrame(Items(taken + 1 + c, Len(line)))
         = FirstFrame(Items(taken + 1, Len(line)))
  <2>1. taken + c \in Nat /\ taken <= taken + c
        /\ (taken + c) + 1 = taken + 1 + c
    BY <1>5, <1>8
  <2> QED
    BY <1>5, <1>9, <2>1, DropKeepsFirst DEF Items
<1> QED
  BY <1>1, <1>3, <1>4, <1>8, <1>10 DEF FindAgrees

\* On every line, find_frame_in_stream sees a frame exactly when the search of
\* receive() does, and the count it returns never lets its caller drop the
\* beginning of one (frame.py:153-216, bluetooth.py:300-321).
THEOREM FindAgreesAlways == Spec => []FindAgrees
<1>1. Inv => FindAgrees
  BY AgreesOnFrame, AgreesOnNone DEF Inv
<1> QED
  BY <1>1, InvInit, InvNext, PTL DEF Spec

-----------------------------------------------------------------------------
\* What the client accepts.

\* Where a marker begins a stretch that is as long as its LEN says, parse_frame
\* accepts exactly what a device makes.
LEMMA ParsesGenuine ==
  ASSUME NEW data \in Seq(Nat), MarkerAt(data, 1), HasHeader(data),
         TotalSize(data) = Len(data)
  PROVE  parse_frame(data) = "ok" <=> IsGenuine(data)
<1>1. Len(data) \in Nat /\ Len(data) > 3 /\ MarkerLength = 3
  BY MarkerFacts DEF HasHeader
<1>2. Find(data) = 1
  <2>1. 1 \in DOMAIN data /\ Find(data) \in Nat
    BY <1>1, FindFacts
  <2>2. Find(data) # 0
    BY <2>1, FindFacts
  <2>3. ~(Find(data) > 1)
    <3> SUFFICES ASSUME Find(data) > 1 PROVE FALSE
      OBVIOUS
    <3>1. 1 \in 1..(Find(data) - 1)
      BY <2>1
    <3> QED
      BY <3>1, FindFacts
  <2> QED
    BY <2>1, <2>2, <2>3
<1>3. From(data, 1) = data
  BY <1>1, SubSeqFull DEF From
<1>4. parse_frame(data) = ParseAtMarker(data)
  BY <1>2, <1>3 DEF parse_frame
<1>5. IsComplete(data)
  BY <1>1 DEF IsComplete
<1>6. PICK size \in Nat : size = data[4]
  <2>1. 4 \in 1..Len(data)
    BY <1>1
  <2> QED
    BY <2>1
<1>7. /\ TotalSize(data) = 4 + size
      /\ TotalSize(data) - MarkerLength - 1 = size
      /\ Len(data) = MarkerLength + 1 <=> size = 0
      /\ Len(data) > MarkerLength + 1 <=> size > 0
  <2>1. PICK n \in Nat : n = Len(data)
    BY <1>1
  <2>2. TotalSize(data) = 4 + size
    <3>1. MarkerLength + 1 = 4
      BY <1>1
    <3> QED
      BY <1>6, <3>1 DEF TotalSize
  <2>3. n = 4 + size
    BY <2>1, <2>2
  <2> QED
    BY <1>1, <2>1, <2>2, <2>3
<1>8. ParseAtMarker(data) = "ok" <=>
        /\ size >= LEN_OVERHEAD
        /\ FrameCrc(Id(data), Payload(data)) = Crc(data)
        /\ Id(data) \in DOMAIN ExpectedSize =>
             Len(Payload(data)) = ExpectedSize[Id(data)]
  <2>1. CASE size = 0
    BY <1>5, <1>7, <2>1 DEF ParseAtMarker, LEN_OVERHEAD
  <2>2. CASE size = 1
    BY <1>5, <1>7, <2>2 DEF ParseAtMarker, LEN_OVERHEAD
  <2>3. CASE size >= 2
    <3>1. size > 0 /\ size # 0 /\ ~(size < LEN_OVERHEAD)
      BY <2>3 DEF LEN_OVERHEAD
    <3>2. ParseAtMarker(data) =
            IF FrameCrc(Id(data), Payload(data)) # Crc(data) THEN "crc"
            ELSE IF /\ Id(data) \in DOMAIN ExpectedSize
                    /\ Len(Payload(data)) # ExpectedSize[Id(data)]
            THEN "size" ELSE "ok"
      BY <1>5, <1>7, <3>1 DEF ParseAtMarker
    <3> QED
      BY <2>3, <3>2 DEF LEN_OVERHEAD
  <2> QED
    BY <2>1, <2>2, <2>3
<1>9. IsGenuine(data) <=>
        /\ size >= LEN_OVERHEAD
        /\ FrameCrc(Id(data), Payload(data)) = Crc(data)
        /\ Id(data) \in DOMAIN ExpectedSize =>
             Len(Payload(data)) = ExpectedSize[Id(data)]
  BY <1>1, <1>6 DEF IsGenuine
<1> QED
  BY <1>4, <1>8, <1>9

\* A damaged byte that the CRC does not see vanished where zero is avoided.
LEMMA DamageAtZero ==
  ASSUME NEW data, OneByteOff(data),
         FrameCrc(Id(data), Payload(data)) = Crc(data)
  PROVE  AtZero(data)
<1>1. PICK s : s = Covered(data)
  OBVIOUS
<1>2. s \in Seq(Bytes)
  BY <1>1 DEF OneByteOff, Bytes
<1>3. PICK k \in DOMAIN s, b \in Bytes :
        b # s[k] /\ crc16([s EXCEPT ![k] = b]) = Crc(data)
  BY <1>1 DEF OneByteOff, Bytes
<1>4. PICK t : t = [s EXCEPT ![k] = b]
  OBVIOUS
<1>5. /\ t \in Seq(Bytes) /\ Len(t) = Len(s) /\ k \in 1..Len(s)
      /\ s[k] # t[k] /\ \A i \in 1..Len(s) : i # k => s[i] = t[i]
  BY <1>2, <1>3, <1>4
<1>6. crc16(s) = crc16(t)
  BY <1>1, <1>3, <1>4 DEF Covered, FrameCrc
<1>7. \E i \in 1..Len(s) : Xor16(Accumulators(s)[i - 1], s[i]) \in {0, 1}
  BY <1>2, <1>5, <1>6, OneByteFound
<1>8. DOMAIN s = 1..Len(s)
  BY <1>2
<1> QED
  BY <1>1, <1>7, <1>8 DEF AtZero

\* What receive() returns begins on the line and holds its header.
HeaderReturned ==
  \A i \in DOMAIN got : got[i][1] >= 1 /\ got[i][1] + 3 <= got[i][2]

\* What has been returned has a header.
LEMMA HeaderNext == Inv /\ HeaderReturned /\ [Next]_vars => HeaderReturned'
<1> SUFFICES ASSUME Inv, HeaderReturned, [Next]_vars PROVE HeaderReturned'
  OBVIOUS
<1>1. /\ TypeOK /\ SerialState /\ got \in Seq(Nat \X Nat) /\ taken \in Nat
      /\ need \in Nat
  BY DEF Inv, TypeOK
<1>2. ASSUME NEW first, NEW last, first >= 1, first + 3 <= last,
             got' = Append(got, <<first, last>>)
      PROVE  HeaderReturned'
  <2>1. /\ DOMAIN got' = 1..(Len(got) + 1)
        /\ got'[Len(got) + 1] = <<first, last>>
        /\ \A i \in 1..Len(got) : got'[i] = got[i]
    BY <1>1, <1>2
  <2>2. \A i \in 1..(Len(got) + 1) : i = Len(got) + 1 \/ i \in 1..Len(got)
    BY <1>1
  <2>3. DOMAIN got = 1..Len(got)
    BY <1>1
  <2> QED
    BY <1>2, <2>1, <2>2, <2>3 DEF HeaderReturned
<1>3. CASE SearchFinds
  <2>1. PICK last : last = Start + TotalSize(From(Buffer, Find(Buffer))) - 1
    OBVIOUS
  <2>2. FrameThere /\ got' = Append(got, <<Start, last>>)
    BY <1>3, <2>1 DEF SearchFinds, Returns
  <2>3. Start \in (taken + 1)..arrived /\ Start + MarkerLength <= last
    BY <1>1, <2>1, <2>2, FrameFacts
  <2>4. Start >= 1 /\ Start + 3 <= last
    BY <1>1, <2>3, MarkerFacts
  <2> QED
    BY <1>2, <2>2, <2>4
<1>4. CASE ReadBody
  <2>1. got' = Append(got, <<taken - MarkerLength, taken + need>>)
    BY <1>4 DEF ReadBody, Returns
  <2>2. taken - MarkerLength >= 1 /\ taken - MarkerLength + 3 <= taken + need
    BY <1>1, <1>4, MarkerFacts DEF ReadBody, SerialState
  <2> QED
    BY <1>2, <2>1, <2>2
<1>5. CASE ~SearchFinds /\ ~ReadBody
  <2>1. got' = got
    BY <1>5 DEF Next, Bluetooth, Serial, Arrive, Call, SearchLate, SearchWaits,
        Wake, WaitTimesOut, ReadSync, ReadLen, ReadTimesOut, ReadNoise,
        NotifyNoise, Tick, TimesOut, vars, ghosts
  <2> QED
    BY <2>1 DEF HeaderReturned
<1> QED
  BY <1>3, <1>4, <1>5

\* A stretch of a line, from a marker to where its LEN says.
LEMMA StretchFacts ==
  ASSUME NEW l \in Seq(Nat), NEW p \in 1..Len(l), NEW q \in 1..Len(l),
         p + 3 <= q, AtMarker(l, p), q = LastOfFrame(l, p),
         NEW data, data = SubSeq(l, p, q)
  PROVE  /\ data \in Seq(Nat) /\ MarkerAt(data, 1) /\ HasHeader(data)
         /\ TotalSize(data) = Len(data)
<1>1. p \in Nat /\ q \in Nat /\ p >= 1 /\ Len(l) \in Nat /\ q <= Len(l)
  OBVIOUS
<1>2. p + 3 \in 1..Len(l)
  BY <1>1
<1>3. PICK size \in Nat : size = l[p + 3]
  BY <1>2
<1>4. q = p + 3 + size
  BY <1>3, MarkerFacts DEF LastOfFrame
<1>5. PICK b \in Nat : p = b + 1
  <2>1. p - 1 \in Nat /\ p = (p - 1) + 1
    BY <1>1
  <2> QED
    BY <2>1
<1>6. /\ data \in Seq(Nat) /\ Len(data) = IF b < q THEN q - b ELSE 0
      /\ \A k \in 1..(q - b) : data[k] = l[b + k]
      /\ \A k \in 1..Len(data) :
           MarkerAt(data, k) <=> b + k + 2 <= q /\ AtMarker(l, b + k)
  <2>1. q \in 0..Len(l) /\ data = SubSeq(l, b + 1, q)
    BY <1>1, <1>5
  <2> QED
    BY <2>1, RestFacts
<1>7. Len(data) = 4 + size /\ q - b = 4 + size
  BY <1>4, <1>5, <1>6
<1>8. data[4] = size
  <2>1. 4 \in 1..(q - b) /\ b + 4 = p + 3
    BY <1>5, <1>7
  <2> QED
    BY <1>3, <1>6, <2>1
<1>9. MarkerAt(data, 1)
  <2>1. 1 \in 1..Len(data) /\ b + 1 + 2 <= q
    BY <1>4, <1>5, <1>7
  <2> QED
    BY <1>5, <1>6, <2>1
<1>10. HasHeader(data) /\ TotalSize(data) = Len(data)
  <2>1. MarkerLength = 3 /\ MarkerLength + 1 = 4
    BY MarkerFacts
  <2>2. TotalSize(data) = 4 + size
    BY <1>8, <2>1 DEF TotalSize
  <2> QED
    BY <1>7, <2>1, <2>2 DEF HasHeader
<1> QED
  BY <1>6, <1>9, <1>10

\* A returned stretch is as long as its header says.
LEMMA ReturnedFacts ==
  ASSUME TypeOK, WholeFrames, HeaderReturned, NEW i \in DOMAIN got,
         NEW data, data = Items(got[i][1], got[i][2])
  PROVE  /\ data \in Seq(Nat) /\ MarkerAt(data, 1) /\ HasHeader(data)
         /\ TotalSize(data) = Len(data)
         /\ got[i][1] \in 1..Len(line) /\ got[i][1] + 3 <= Len(line)
         /\ AtMarker(line, got[i][1]) /\ got[i][2] <= Len(line)
         /\ got[i] = <<got[i][1], LastOfFrame(line, got[i][1])>>
<1>1. /\ got[i] \in Nat \X Nat /\ line \in Seq(Nat) /\ Len(line) \in Nat
      /\ taken \in Nat /\ taken <= Len(line)
  BY DEF TypeOK
<1>2. PICK p \in Nat, q \in Nat : got[i] = <<p, q>>
  BY <1>1
<1>3. p >= 1 /\ p + 3 <= q /\ got[i][1] = p /\ got[i][2] = q
  BY <1>2 DEF HeaderReturned
<1>4. AtMarker(line, p) /\ q = LastOfFrame(line, p) /\ q <= Len(line)
  <2>1. /\ \A k \in 1..MarkerLength : line[p + k - 1] = START_MARKER[k]
        /\ q = p + MarkerLength + line[p + MarkerLength] /\ q <= taken
    BY <1>3 DEF WholeFrames
  <2> QED
    BY <1>1, <2>1 DEF AtMarker, LastOfFrame
<1>5. p \in 1..Len(line) /\ p + 3 <= Len(line) /\ p + 3 \in 1..Len(line)
  BY <1>1, <1>3, <1>4
<1>6. q \in 1..Len(line) /\ data = SubSeq(line, p, q)
  BY <1>1, <1>3, <1>4 DEF Items
<1>7. /\ data \in Seq(Nat) /\ MarkerAt(data, 1) /\ HasHeader(data)
      /\ TotalSize(data) = Len(data)
  BY <1>1, <1>3, <1>4, <1>5, <1>6, StretchFacts
<1> QED
  BY <1>2, <1>3, <1>4, <1>5, <1>7

\* OnlyBytesDamaged, of the line at hand.
DamageInv ==
  \A claim \in FalseClaims :
    claim[2] <= Len(line) =>
      LET data == Items(claim[1], claim[2])
      IN  /\ data[MarkerLength + 1] >= LEN_OVERHEAD
          /\ FrameCrc(Id(data), Payload(data)) = Crc(data)
          => OneByteOff(data)

\* The assumption about all lines holds of the one at hand.
LEMMA DamageInit == OnlyBytesDamaged /\ Init => DamageInv
<1> SUFFICES ASSUME OnlyBytesDamaged, Init PROVE DamageInv
  OBVIOUS
<1>1. PICK l \in Lines : line = l.items /\ sent = l.genuine
  BY DEF Init
<1> QED
  BY <1>1 DEF OnlyBytesDamaged, DamageInv, FalseClaims, Items

\* What is genuine is accepted, and what is accepted and not genuine is a false
\* claim that carries its CRC.
LEMMA AcceptedFacts ==
  ASSUME TypeOK, LineInv, WholeFrames, HeaderReturned, DamageInv
  PROVE  AcceptedIsGenuine
<1> SUFFICES ASSUME NEW i \in DOMAIN got
             PROVE  IF got[i] \in sent THEN Accepted(i)
                    ELSE Accepted(i) => AtZero(Items(got[i][1], got[i][2]))
  BY DEF AcceptedIsGenuine
<1>1. PICK data : data = Items(got[i][1], got[i][2])
  OBVIOUS
<1>2. PICK p : p = got[i][1]
  OBVIOUS
<1>3. /\ data \in Seq(Nat) /\ MarkerAt(data, 1) /\ HasHeader(data)
      /\ TotalSize(data) = Len(data)
      /\ p \in 1..Len(line) /\ p + 3 <= Len(line)
      /\ AtMarker(line, p) /\ got[i][2] <= Len(line)
      /\ got[i] = <<p, LastOfFrame(line, p)>>
  BY <1>1, <1>2, ReturnedFacts
<1>4. Accepted(i) <=> IsGenuine(data)
  BY <1>1, <1>3, ParsesGenuine DEF Accepted
<1>5. CASE got[i] \in sent
  <2>1. IsGenuine(data)
    BY <1>1, <1>5 DEF LineInv, Items
  <2> QED
    BY <1>4, <1>5, <2>1
<1>6. ASSUME got[i] \notin sent, Accepted(i)
      PROVE  AtZero(data)
  <2>1. \A f \in sent : f[1] # p
    <3> SUFFICES ASSUME NEW f \in sent, f[1] = p PROVE FALSE
      OBVIOUS
    <3>1. f = <<f[1], f[2]>> /\ f[2] = LastOfFrame(line, f[1])
      BY SentFacts
    <3>2. f = got[i]
      BY <1>3, <3>1
    <3> QED
      BY <1>6, <3>2
  <2>2. got[i] \in FalseClaims
    BY <1>3, <2>1, FalseClaim
  <2>3. /\ data[MarkerLength + 1] >= LEN_OVERHEAD
        /\ FrameCrc(Id(data), Payload(data)) = Crc(data)
    BY <1>4, <1>6 DEF IsGenuine
  <2>4. OneByteOff(data)
    BY <1>1, <1>3, <2>2, <2>3 DEF DamageInv
  <2> QED
    BY <2>3, <2>4, DamageAtZero
<1> QED
  BY <1>1, <1>5, <1>6

\* parse_frame accepts every genuine frame that receive() returns. It accepts
\* nothing else, if noise carries its own CRC only by one damaged byte: unless
\* that byte vanishes in the zero-avoidance step, the CRC tells
\* (frame.py:57-150, crc.py:28-43).
THEOREM AcceptsOnlyGenuine ==
  ASSUME OnlyBytesDamaged
  PROVE  Spec => []AcceptedIsGenuine
<1>1. Init => /\ QueueInv /\ LineInv /\ DamageInv
              /\ WholeFrames /\ NothingTwice /\ HeaderReturned
  <2>1. Init => WholeFrames /\ NothingTwice /\ HeaderReturned
    BY DEF Init, WholeFrames, NothingTwice, HeaderReturned
  <2> QED
    BY <2>1, QueueInit, LineInit, DamageInit
<1>2. LineInv /\ DamageInv /\ [Next]_vars => LineInv' /\ DamageInv'
  BY LineKept DEF LineInv, DamageInv, FalseClaims, Items
<1>3. QueueInv /\ [Next]_vars => QueueInv'
  BY InvNext, WindowShortNext DEF QueueInv
<1>4. QueueInv /\ WholeFrames /\ NothingTwice /\ HeaderReturned /\ [Next]_vars
        => WholeFrames' /\ NothingTwice' /\ HeaderReturned'
  BY WholeNext, TwiceNext, HeaderNext DEF QueueInv
<1>5. QueueInv /\ LineInv /\ DamageInv /\ WholeFrames /\ HeaderReturned
        => AcceptedIsGenuine
  BY AcceptedFacts DEF QueueInv, Inv
<1> QED
  BY <1>1, <1>2, <1>3, <1>4, <1>5, PTL DEF Spec
=============================================================================
