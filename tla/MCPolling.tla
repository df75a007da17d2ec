----------------------------- MODULE MCPolling -----------------------------
\* The answers of the device in the instance.
EXTENDS Polling

Zeros(n) == [i \in 1..n |-> 0]

NoDate == [Date EXCEPT !.year = 2023]

InfoPayload(time, date, zone) ==
  Zeros(56) \o PackedTime(time) \o PackedDate(date) \o <<zone>>

DataPayload(time, date, state) ==
  Zeros(21) \o PackedTime(time) \o PackedDate(date) \o Zeros(8) \o <<0, 80>>
    \o state \o Zeros(4)

MCInfoPayloads == {InfoPayload(Time, Date, 15), InfoPayload(Time, Date, 99),
                   InfoPayload(Time, NoDate, 15), Zeros(64)}

\* Ready; booting; ready but for the BLE module; an alarm; the clock not set;
\* cut short.
MCDataPayloads == {DataPayload(Time, Date, <<0, 0, 0, 64>>),
                   DataPayload(Time, Date, <<0, 0, 0, 0>>),
                   DataPayload(Time, Date, <<0, 0, 64, 64>>),
                   Zeros(47), Zeros(46)}
=============================================================================
