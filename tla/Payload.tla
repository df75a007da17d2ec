------------------------------ MODULE Payload ------------------------------
(***************************************************************************)
(* What the payload parsers make of the bytes of an answer: the clock, the *)
(* state words and the timezone, and which payloads they refuse. A payload *)
(* is its bytes. The floats and the text fields are left out: reading them *)
(* cannot fail and nothing depends on them.                                *)
(***************************************************************************)
EXTENDS Integers, Sequences

DEVICE_INFO_PAYLOAD_SIZE == 65
DEVICE_DATA_PAYLOAD_SIZE == 47

-----------------------------------------------------------------------------
\* Bit n of the little-endian word at an offset (which counts from 0).
Bit(data, offset, n) == (data[offset + n \div 8 + 1] \div 2^(n % 8)) % 2

Flag(data, offset, n) == Bit(data, offset, n) = 1

\* The field of the given width that begins at bit low of that word.
Field(data, offset, low, width) ==
  LET upTo[i \in 0..width] ==
        IF i = 0 THEN 0
        ELSE upTo[i - 1] + Bit(data, offset, low + i - 1) * 2^(i - 1)
  IN  upTo[width]

\* Mutated: the milliseconds are read as a field of ten bits.
decode_time_narrow(data, offset) ==
  [hours        |-> Field(data, offset, 0, 5),
   minutes      |-> Field(data, offset, 5, 6),
   seconds      |-> Field(data, offset, 11, 6),
   milliseconds |-> Field(data, offset, 17, 10),
   daylight     |-> Field(data, offset, 30, 2)]

decode_time(data, offset) ==
  [hours        |-> Field(data, offset, 0, 5),
   minutes      |-> Field(data, offset, 5, 6),
   seconds      |-> Field(data, offset, 11, 6),
   milliseconds |-> Field(data, offset, 17, 13),
   daylight     |-> Field(data, offset, 30, 2)]

decode_date(data, offset) ==
  [day_of_week |-> Field(data, offset, 0, 3),
   day         |-> Field(data, offset, 3, 5),
   month       |-> Field(data, offset, 8, 4),
   year        |-> Field(data, offset, 12, 20)]

\* What the enumeration DaylightSaving has a member for.
DaylightSaving == 0..2

-----------------------------------------------------------------------------
\* datetime() of the standard library, as far as it refuses its arguments.
IsLeap(year) == year % 4 = 0 /\ (year % 100 # 0 \/ year % 400 = 0)

DaysIn(month, year) ==
  CASE month = 2 -> IF IsLeap(year) THEN 29 ELSE 28
    [] month \in {4, 6, 9, 11} -> 30
    [] OTHER -> 31

DatetimeAccepts(time, date) ==
  /\ date.year \in 1..9999 /\ date.month \in 1..12
  /\ date.day \in 1..DaysIn(date.month, date.year)
  /\ time.hours <= 23 /\ time.minutes <= 59 /\ time.seconds <= 59
  /\ time.milliseconds * 1000 <= 999999

\* The datetime itself, without its timezone. The daylight saving and the day
\* of the week have been decoded and go no further.
Datetime(time, date) ==
  [year |-> date.year, month |-> date.month, day |-> date.day,
   hour |-> time.hours, minute |-> time.minutes, second |-> time.seconds,
   microsecond |-> time.milliseconds * 1000]

\* decode_datetime: a ValueError comes from the enumeration or from datetime.
decode_datetime(data, offset) ==
  LET time == decode_time(data, offset)
      date == decode_date(data, offset + 4)
  IN  IF time.daylight \in DaylightSaving /\ DatetimeAccepts(time, date)
      THEN [verdict |-> "ok", clock |-> Datetime(time, date)]
      ELSE [verdict |-> "ValueError"]

-----------------------------------------------------------------------------
\* TIMEZONE_TABLE: the label of each index, as <<sign, hours, minutes>>.
TIMEZONE_TABLE ==
  LET labels ==
        <<<<-1, 12, 0>>, <<-1, 11, 0>>, <<-1, 10, 0>>, <<-1, 9, 30>>,
          <<-1, 9, 0>>, <<-1, 8, 0>>, <<-1, 7, 0>>, <<-1, 6, 0>>,
          <<-1, 5, 0>>, <<-1, 4, 0>>, <<-1, 3, 30>>, <<-1, 3, 0>>,
          <<-1, 2, 0>>, <<-1, 1, 0>>, <<1, 0, 0>>, <<1, 1, 0>>, <<1, 2, 0>>,
          <<1, 3, 0>>, <<1, 3, 30>>, <<1, 4, 0>>, <<1, 4, 30>>, <<1, 5, 0>>,
          <<1, 5, 30>>, <<1, 5, 45>>, <<1, 6, 0>>, <<1, 6, 30>>, <<1, 7, 0>>,
          <<1, 8, 0>>, <<1, 8, 45>>, <<1, 9, 0>>, <<1, 9, 30>>, <<1, 10, 0>>,
          <<1, 10, 30>>, <<1, 11, 0>>, <<1, 12, 0>>, <<1, 12, 45>>,
          <<1, 13, 0>>, <<1, 14, 0>>>>
  IN  [index \in 0..37 |-> labels[index + 1]]

\* _TIMEZONE_OFFSETS, in hundredths of an hour.
TIMEZONE_OFFSETS ==
  LET hundredths ==
        <<-1200, -1100, -1000, -950, -900, -800, -700, -600, -500, -400,
          -350, -300, -200, -100, 0, 100, 200, 300, 350, 400, 450, 500, 550,
          575, 600, 650, 700, 800, 875, 900, 950, 1000, 1050, 1100, 1200,
          1275, 1300, 1400>>
  IN  [index \in 0..37 |-> hundredths[index + 1]]

\* _timezone_from_index: an index without an entry is UTC.
TimezoneFromIndex(index) ==
  IF index \in DOMAIN TIMEZONE_OFFSETS THEN TIMEZONE_OFFSETS[index] ELSE 0

-----------------------------------------------------------------------------
\* Mutated: the fault of the BLE module is not among the faults.
FaultsWithoutBle == {0, 1, 2, 17, 18, 19, 20, 21}

FAULT_BITS == {0, 1, 2} \cup 17..22
INITIALIZED == 30

\* SystemState, as the set of its flags that are true. (Bits 14 and 25 to 29
\* have no flag.)
decode_system_state(data, offset) ==
  {n \in (0..13) \cup (15..24) \cup {30, 31} : Flag(data, offset, n)}

get_active_faults(state) == state \cap FAULT_BITS
has_faults(state) == get_active_faults(state) # {}
is_ready(state) == INITIALIZED \in state /\ ~has_faults(state)

-----------------------------------------------------------------------------
\* parse_device_info, parse_device_data: the parsed answer, or the exception
\* in its verdict.
parse_device_info(payload) ==
  IF Len(payload) # DEVICE_INFO_PAYLOAD_SIZE
  THEN [verdict |-> "ProtocolError"]
  ELSE LET clock == decode_datetime(payload, 56)
           index == payload[65]
       IN  IF clock.verdict # "ok" THEN clock
           ELSE [verdict |-> "ok", device_datetime |-> clock.clock,
                 timezone_index |-> index, offset |-> TimezoneFromIndex(index),
                 label_known |-> index \in DOMAIN TIMEZONE_TABLE]

parse_device_data(payload) ==
  IF Len(payload) # DEVICE_DATA_PAYLOAD_SIZE
  THEN [verdict |-> "ProtocolError"]
  ELSE LET clock == decode_datetime(payload, 21)
           usb == Flag(payload, 37, 2)
       IN  IF clock.verdict # "ok" THEN clock
           ELSE [verdict |-> "ok", dose_datetime |-> clock.clock,
                 origin |-> Field(payload, 0, 0, 2),
                 level_percent |-> IF usb THEN {} ELSE {payload[39]},
                 system_state |-> decode_system_state(payload, 39)]

-----------------------------------------------------------------------------
\* The device's side: the bytes of the two words in which its C bit fields
\* put a time and a date.
PackedTime(t) ==
  <<t.hours + 32 * (t.minutes % 8),
    t.minutes \div 8 + 8 * (t.seconds % 32),
    t.seconds \div 32 + 2 * (t.milliseconds % 128),
    t.milliseconds \div 128 + 64 * t.daylight>>

PackedDate(d) ==
  <<d.day_of_week + 8 * d.day, d.month + 16 * (d.year % 16),
    (d.year \div 16) % 256, d.year \div 4096>>

\* Months of 31 days are the odd ones up to July and the even ones after it.
MonthLength(m, y) ==
  IF m = 2
  THEN IF y % 400 = 0 \/ (y % 4 = 0 /\ y % 100 > 0) THEN 29 ELSE 28
  ELSE IF (m <= 7) = (m % 2 = 1) THEN 31 ELSE 30

IsClock(t, d) ==
  /\ t.hours < 24 /\ t.minutes < 60 /\ t.seconds < 60
  /\ t.milliseconds < 1000 /\ t.daylight # 3
  /\ d.year > 0 /\ d.year < 10000 /\ d.month > 0 /\ d.month < 13
  /\ d.day > 0 /\ d.day <= MonthLength(d.month, d.year)

\* The eight bytes from which a datetime can come: they carry a daylight saving
\* and a day of the week besides.
PackedClock(c, daylight, day_of_week) ==
  PackedTime([hours |-> c.hour, minutes |-> c.minute, seconds |-> c.second,
              milliseconds |-> c.microsecond \div 1000,
              daylight |-> daylight])
  \o PackedDate([day_of_week |-> day_of_week, day |-> c.day,
                 month |-> c.month, year |-> c.year])

\* A time and a date come through the decoder as the datetime they stand for,
\* whatever their daylight saving and day of the week, or they are refused.
Decoded(t, d) ==
  decode_datetime(PackedTime(t) \o PackedDate(d), 0)
    = IF IsClock(t, d)
      THEN [verdict |-> "ok",
            clock |-> [year |-> d.year, month |-> d.month, day |-> d.day,
                       hour |-> t.hours, minute |-> t.minutes,
                       second |-> t.seconds,
                       microsecond |-> 1000 * t.milliseconds]]
      ELSE [verdict |-> "ValueError"]

\* Each field at its edges, and at the largest value it can hold.
Times ==
  [hours : {0, 23, 24, 31}, minutes : {0, 59, 60, 63},
   seconds : {0, 59, 60, 63}, milliseconds : {0, 999, 1000, 1024, 8191},
   daylight : 0..3]
Dates ==
  [day_of_week : {0, 6}, day : {0, 1, 28, 29, 30, 31}, month : 0..15,
   year : {0, 1, 1900, 2000, 2023, 2024, 9999, 10000, 1048575}]

Time == [hours |-> 23, minutes |-> 59, seconds |-> 58, milliseconds |-> 999,
         daylight |-> 1]
Date == [day_of_week |-> 4, day |-> 29, month |-> 2, year |-> 2024]

\* What is decoded wrongly.
WrongTimes == {t \in Times : ~Decoded(t, Date)}
WrongDates == {d \in Dates : ~Decoded(Time, d)}
WrongZones ==
  {i \in DOMAIN TIMEZONE_TABLE :
     LET label == TIMEZONE_TABLE[i]
     IN  TimezoneFromIndex(i) * 60
           # label[1] * (label[2] * 6000 + label[3] * 100)}
=============================================================================
