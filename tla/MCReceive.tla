----------------------------- MODULE MCReceive -----------------------------
\* The lines of the instance: what the device sends and what may happen to it.
EXTENDS ReceiveQueue

Framed(id, payload) ==
  START_MARKER \o <<Len(payload) + LEN_OVERHEAD, id>> \o payload
    \o <<FrameCrc(id, payload)>>

Genuine(id, payload) == [items |-> Framed(id, payload), genuine |-> TRUE]
Junk(items) == [items |-> items, genuine |-> FALSE]

\* The CRC of Info passes the zero-avoidance step at its last byte.
Info == Genuine(0, <<52, 206>>)
Data == Genuine(1, <<9>>)
\* A frame of an ID the library does not know, with a marker in its payload.
Nested == Genuine(2, START_MARKER)

Noise == Junk(<<7>>)
HalfMarker == Junk(<<35>>)
AlmostMarker == Junk(<<35, 33>>)
\* Noise that fills marker_buf, and may go on for ever.
Hum == Junk(<<7, 7, 7>>)
Cut == Junk(SubSeq(Framed(1, <<9>>), 1, 5))
NoLength == Junk(START_MARKER \o <<0>>)
LongLength == Junk([Framed(1, <<9>>) EXCEPT ![4] = @ + 4])
BadCrc == Junk([Framed(1, <<9>>) EXCEPT ![6] = 8])
\* Info with one bit flipped that its CRC does not see.
Twin == Junk([Framed(0, <<52, 206>>) EXCEPT ![7] = 207])

Before == {Noise, HalfMarker, AlmostMarker, Cut, NoLength, LongLength, BadCrc,
           Twin, Info, Data, Nested}

Scripts ==
  {<<a, Data>> : a \in Before} \cup {<<Info, a, Data>> : a \in Before}
    \cup {<<a, b, Info>> : a \in {Noise, HalfMarker, Cut}, b \in Before}
    \cup {<<a, Hum>> : a \in {Data, Cut, HalfMarker}}

\* The items of the first k pieces of a script.
Joined(script, k) ==
  LET joined[i \in 0..k] ==
        IF i = 0 THEN <<>> ELSE joined[i - 1] \o script[i].items
  IN  joined[k]

LineOf(script) ==
  [items |-> Joined(script, Len(script)),
   genuine |-> {<<Len(Joined(script, i - 1)) + 1, Len(Joined(script, i))>> :
                  i \in {j \in DOMAIN script : script[j].genuine}}]

MCLines == {LineOf(script) : script \in Scripts}

\* Of the noise of these lines only Twin carries its CRC: Info with one byte
\* damaged.
ASSUME MCDamage == OnlyBytesDamaged
=============================================================================
