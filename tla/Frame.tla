------------------------------- MODULE Frame -------------------------------
(***************************************************************************)
(* The response frame and the functions that recognise it: parse_frame,    *)
(* find_frame_in_stream and crc16.                                         *)
(*                                                                         *)
(* A line is a sequence of items: a byte, or one of the 16-bit fields LEN, *)
(* ID and CRC, each an item of its own. The start marker "#!AccuRad!#"     *)
(* keeps three of its eleven bytes, "#!#": like the whole one it ends with *)
(* the byte it begins with. The payloads of the two known frames have 2    *)
(* and 1 bytes here instead of 65 and 47. The CRC is the real one, on real *)
(* bytes.                                                                  *)
(***************************************************************************)
EXTENDS Naturals, Sequences

START_MARKER == <<35, 33, 35>>
MarkerLength == Len(START_MARKER)
ID_FIELD_SIZE == 1
LEN_OVERHEAD == 2

\* The payload sizes of the frames the library asks for, by frame ID.
ExpectedSize == [id \in {0, 1} |-> IF id = 0 THEN 2 ELSE 1]

-----------------------------------------------------------------------------
POLYNOM16 == 44126
CRC_INITIAL == 65535

Bit(n, i) == (n \div 2^i) % 2

\* Exclusive or, by the four nibbles of the words.
XorNibble ==
  [a \in 0..15 |-> [b \in 0..15 |->
     LET bit(i) == 2^i * ((Bit(a, i) + Bit(b, i)) % 2)
     IN  bit(0) + bit(1) + bit(2) + bit(3)]]

Xor16(a, b) ==
  LET nibble(i) == 16^i * XorNibble[(a \div 16^i) % 16][(b \div 16^i) % 16]
  IN  nibble(0) + nibble(1) + nibble(2) + nibble(3)

ShiftOnce(crc) ==
  IF crc % 2 = 1 THEN Xor16(crc \div 2, POLYNOM16) ELSE crc \div 2

\* "if crc == 0: crc = 1"
AvoidZero(crc) == IF crc = 0 THEN 1 ELSE crc

\* One round of crc16's loop.
AbsorbByte(crc, byte) ==
  LET shifted[i \in 0..8] ==
        IF i = 0 THEN AvoidZero(Xor16(crc, byte))
        ELSE ShiftOnce(shifted[i - 1])
  IN  shifted[8]

\* The accumulator after the first k bytes of data, for each k.
Accumulators(data) ==
  LET acc[k \in 0..Len(data)] ==
        IF k = 0 THEN CRC_INITIAL ELSE AbsorbByte(acc[k - 1], data[k])
  IN  acc

crc16(data) == Accumulators(data)[Len(data)]

\* The CRC of a frame covers its ID, low byte first, and its payload.
FrameCrc(id, payload) == crc16(<<id % 256, id \div 256>> \o payload)

-----------------------------------------------------------------------------
MarkerAt(data, i) ==
  /\ i + MarkerLength - 1 <= Len(data)
  /\ \A k \in 1..MarkerLength : data[i + k - 1] = START_MARKER[k]

\* data.find(START_MARKER), counted from 1, with 0 for "not found".
Find(data) ==
  IF \E i \in DOMAIN data : MarkerAt(data, i)
  THEN CHOOSE i \in DOMAIN data :
         MarkerAt(data, i) /\ \A j \in 1..(i - 1) : ~MarkerAt(data, j)
  ELSE 0

From(data, i) == SubSeq(data, i, Len(data))

\* A frame that begins data: is its header there, how long is it, is all of it?
HasHeader(data) == Len(data) > MarkerLength

TotalSize(data) == MarkerLength + 1 + data[MarkerLength + 1]
IsComplete(data) == HasHeader(data) /\ Len(data) >= TotalSize(data)

\* ID, payload and CRC of the frame that begins data.
Id(data) == data[MarkerLength + 2]
Payload(data) ==
  SubSeq(data, MarkerLength + ID_FIELD_SIZE + 2, TotalSize(data) - 1)
Crc(data) == data[TotalSize(data)]

\* Mutated: the CRC is read and not compared.
ParseUnchecked(data) ==
  CASE ~IsComplete(data) -> "incomplete"
    [] IsComplete(data) /\ TotalSize(data) < MarkerLength + 1 + LEN_OVERHEAD ->
         "invalid"
    [] OTHER ->
         IF /\ Id(data) \in DOMAIN ExpectedSize
            /\ Len(Payload(data)) # ExpectedSize[Id(data)]
         THEN "size" ELSE "ok"

\* What parse_frame makes of a frame that begins data: "ok" or the exception
\* it raises. A LEN below the size of the ID at the end of the data lets
\* unpack_from fail, which is no AccuRadError.
ParseAtMarker(data) ==
  LET size == TotalSize(data) - MarkerLength - 1
      known == Id(data) \in DOMAIN ExpectedSize
  IN  CASE ~IsComplete(data) -> "incomplete"
        [] IsComplete(data) /\ Len(data) = MarkerLength + 1 -> "struct.error"
        [] Len(data) > MarkerLength + 1 /\ size < LEN_OVERHEAD -> "invalid"
        [] OTHER ->
             IF FrameCrc(Id(data), Payload(data)) # Crc(data) THEN "crc"
             ELSE IF known /\ Len(Payload(data)) # ExpectedSize[Id(data)]
             THEN "size" ELSE "ok"

parse_frame(data) ==
  IF Find(data) = 0 THEN "invalid" ELSE ParseAtMarker(From(data, Find(data)))

\* Mutated: a marker that has only begun is dropped.
SafeDiscardAll(buffer) == Len(buffer)

\* What may go when there is no marker: all but a possible beginning of one.
SafeDiscard(buffer) ==
  IF Len(buffer) >= MarkerLength THEN Len(buffer) - MarkerLength + 1 ELSE 0

\* find_frame_in_stream: its frame (or the exception), and how much of the
\* buffer its caller may drop. An exception tells the caller no count.
find_frame_in_stream(buffer) ==
  LET found == Find(buffer)
      rest == From(buffer, found)
  IN  CASE found = 0 ->
             [frame |-> "none", consumed |-> SafeDiscard(buffer)]
        [] found > 0 /\ ~IsComplete(rest) ->
             [frame |-> "none", consumed |-> found - 1]
        [] OTHER ->
             LET verdict == parse_frame(SubSeq(rest, 1, TotalSize(rest)))
             IN  [frame |-> verdict,
                  consumed |-> IF verdict = "ok"
                               THEN found - 1 + TotalSize(rest) ELSE 0]
=============================================================================
