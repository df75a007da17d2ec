---------------------------- MODULE FrameProofs ----------------------------
(***************************************************************************)
(* The functions of Frame, on every sequence of items.                     *)
(***************************************************************************)
EXTENDS Frame, Steps, SequenceTheorems

\* The start marker of the model.
LEMMA MarkerFacts ==
  /\ MarkerLength = 3
  /\ START_MARKER \in Seq(Nat)
  /\ Len(START_MARKER) = MarkerLength
BY DEF MarkerLength, START_MARKER

\* A part of a line is a line, and its items are the line's.
LEMMA PartFacts ==
  ASSUME NEW data \in Seq(Nat), NEW m \in Nat \ {0}, NEW n \in 0..Len(data)
  PROVE  /\ SubSeq(data, m, n) \in Seq(Nat)
         /\ Len(SubSeq(data, m, n)) = IF m <= n THEN n - m + 1 ELSE 0
         /\ \A i \in 1..(n - m + 1) : SubSeq(data, m, n)[i] = data[m + i - 1]
<1>1. \A i \in m..n : data[i] \in Nat
  OBVIOUS
<1> QED
  BY <1>1, SubSeqProperties

\* The least position of a marker, if there is one.
LEMMA FindFacts ==
  ASSUME NEW data \in Seq(Nat)
  PROVE  /\ Find(data) \in 0..Len(data)
         /\ Find(data) = 0 => \A i \in DOMAIN data : ~MarkerAt(data, i)
         /\ Find(data) > 0 =>
              /\ MarkerAt(data, Find(data))
              /\ \A j \in 1..(Find(data) - 1) : ~MarkerAt(data, j)
<1> DEFINE Places == {i \in DOMAIN data : MarkerAt(data, i)}
           First(i) == /\ MarkerAt(data, i)
                       /\ \A j \in 1..(i - 1) : ~MarkerAt(data, j)
<1>1. DOMAIN data = 1..Len(data)
  OBVIOUS
<1>2. CASE Places = {}
  BY <1>1, <1>2 DEF Find
<1>3. CASE Places # {}
  <2>1. Places \subseteq Nat
    BY <1>1
  <2>2. PICK i \in Places : \A j \in Places : <<j, i>> \notin OpToRel(<, Nat)
    BY <1>3, <2>1, WFMin, NatLessThanWellFounded, Zenon
  <2>3. \A j \in Places : ~(j < i)
    BY <2>1, <2>2 DEF OpToRel
  <2>4. First(i)
    BY <1>1, <2>3
  <2>5. Find(data) = CHOOSE k \in DOMAIN data : First(k)
    BY <1>3, Zenon DEF Find
  <2>6. Find(data) \in DOMAIN data /\ First(Find(data))
    <3> HIDE DEF First
    <3> QED
      BY <2>2, <2>4, <2>5, Zenon
  <2> QED
    BY <1>1, <2>6
<1> QED
  BY <1>2, <1>3

\* A complete frame found in data: its place, its size and its marker.
LEMMA HeadFacts ==
  ASSUME NEW data \in Seq(Nat), NEW f, f = Find(data),
         f > 0, IsComplete(From(data, f))
  PROVE  /\ f \in 1..Len(data)
         /\ data[f + MarkerLength] \in Nat
         /\ TotalSize(From(data, f))
              = MarkerLength + 1 + data[f + MarkerLength]
         /\ f + TotalSize(From(data, f)) - 1 <= Len(data)
         /\ \A k \in 1..MarkerLength : data[f + k - 1] = START_MARKER[k]
<1> DEFINE rest == From(data, f)
<1>1. f \in 1..Len(data) /\ MarkerAt(data, f)
  BY FindFacts
<1>2. /\ rest \in Seq(Nat) /\ Len(rest) = Len(data) - f + 1
      /\ \A k \in 1..Len(rest) : rest[k] = data[f + k - 1]
  <2>1. f \in Nat \ {0} /\ Len(data) \in 0..Len(data) /\ f <= Len(data)
    BY <1>1
  <2>2. /\ rest \in Seq(Nat)
        /\ Len(rest) = IF f <= Len(data) THEN Len(data) - f + 1 ELSE 0
        /\ \A k \in 1..(Len(data) - f + 1) : rest[k] = data[f + k - 1]
    BY <2>1, PartFacts, Zenon DEF From
  <2> QED
    BY <2>1, <2>2
<1>3. MarkerLength < Len(rest) /\ Len(rest) >= TotalSize(rest)
  BY DEF IsComplete, HasHeader
<1> HIDE DEF rest
<1>4. MarkerLength + 1 \in 1..Len(rest)
  BY <1>2, <1>3, MarkerFacts
<1>5. rest[MarkerLength + 1] = data[f + MarkerLength]
  <2>1. rest[MarkerLength + 1] = data[f + (MarkerLength + 1) - 1]
    BY <1>2, <1>4
  <2> QED
    BY <1>1, <2>1, MarkerFacts
<1>6. rest[MarkerLength + 1] \in Nat
  BY <1>2, <1>4
<1>7. TotalSize(rest) = MarkerLength + 1 + data[f + MarkerLength]
  BY <1>5 DEF TotalSize
<1>8. \A k \in 1..MarkerLength : data[f + k - 1] = START_MARKER[k]
  BY <1>1 DEF MarkerAt
<1>9. f + TotalSize(rest) - 1 <= Len(data)
  <2>1. /\ Len(data) \in Nat /\ MarkerLength = 3
        /\ TotalSize(rest) = 4 + rest[MarkerLength + 1]
        /\ TotalSize(rest) <= Len(data) - f + 1
    BY <1>2, <1>3, <1>5, <1>7, MarkerFacts
  <2> QED
    BY <1>1, <1>6, <2>1
<1> QED
  BY <1>1, <1>5, <1>6, <1>7, <1>8, <1>9 DEF rest

\* A marker found is found again once what precedes it is gone.
LEMMA FoundAtHead ==
  ASSUME NEW data \in Seq(Nat), Find(data) > 0
  PROVE  LET rest == From(data, Find(data))
         IN  Find(rest) = 1 /\ From(rest, 1) = rest
<1>1. PICK f : f = Find(data)
  OBVIOUS
<1>2. PICK rest : rest = From(data, f)
  OBVIOUS
<1>3. f \in 1..Len(data) /\ MarkerAt(data, f)
  BY <1>1, FindFacts
<1>4. /\ rest \in Seq(Nat) /\ Len(rest) = Len(data) - f + 1
      /\ \A k \in 1..Len(rest) : rest[k] = data[f + k - 1]
  <2>1. f \in Nat \ {0} /\ Len(data) \in 0..Len(data) /\ f <= Len(data)
    BY <1>3
  <2>2. /\ rest \in Seq(Nat)
        /\ Len(rest) = IF f <= Len(data) THEN Len(data) - f + 1 ELSE 0
        /\ \A k \in 1..(Len(data) - f + 1) : rest[k] = data[f + k - 1]
    BY <1>2, <2>1, PartFacts, Zenon DEF From
  <2> QED
    BY <2>1, <2>2
<1>5. MarkerAt(rest, 1)
  <2>1. /\ f + MarkerLength - 1 <= Len(data) /\ MarkerLength = 3
        /\ \A k \in 1..MarkerLength : data[f + k - 1] = START_MARKER[k]
    BY <1>3, MarkerFacts DEF MarkerAt
  <2>2. MarkerLength <= Len(rest)
    BY <1>3, <1>4, <2>1
  <2>3. \A k \in 1..MarkerLength : rest[1 + k - 1] = START_MARKER[k]
    BY <1>4, <2>1, <2>2
  <2> QED
    BY <2>1, <2>2, <2>3 DEF MarkerAt
<1>6. Find(rest) = 1
  <2>1. 1 \in DOMAIN rest
    BY <1>3, <1>4
  <2> QED
    BY <1>4, <1>5, <2>1, FindFacts
<1>7. From(rest, 1) = rest
  BY <1>4, SubSeqFull DEF From
<1> QED
  BY <1>1, <1>2, <1>6, <1>7

\* A marker lies at item p of a line, and the frame that it begins.
AtMarker(l, p) == \A k \in 1..MarkerLength : l[p + k - 1] = START_MARKER[k]
LastOfFrame(l, p) == p + MarkerLength + l[p + MarkerLength]

\* What the search looks at, in terms of the line.
LEMMA RestFacts ==
  ASSUME NEW l \in Seq(Nat), NEW a \in 0..Len(l), NEW b \in Nat,
         NEW rest, rest = SubSeq(l, b + 1, a)
  PROVE  /\ rest \in Seq(Nat)
         /\ Len(rest) = IF b < a THEN a - b ELSE 0
         /\ \A i \in 1..(a - b) : rest[i] = l[b + i]
         /\ \A i \in 1..Len(rest) :
              MarkerAt(rest, i) <=> b + i + 2 <= a /\ AtMarker(l, b + i)
<1>1. /\ rest \in Seq(Nat)
      /\ Len(rest) = IF b < a THEN a - b ELSE 0
      /\ \A i \in 1..(a - b) : rest[i] = l[b + i]
  <2>1. /\ rest \in Seq(Nat)
        /\ Len(rest) = IF b + 1 <= a THEN a - (b + 1) + 1 ELSE 0
        /\ \A i \in 1..(a - (b + 1) + 1) : rest[i] = l[b + 1 + i - 1]
    BY PartFacts
  <2>2. a \in Nat
    OBVIOUS
  <2>3. Len(rest) = IF b < a THEN a - b ELSE 0
    BY <2>1, <2>2
  <2>4. ASSUME NEW i \in 1..(a - b)
        PROVE  rest[i] = l[b + i]
    <3>1. i \in 1..(a - (b + 1) + 1) /\ b + 1 + i - 1 = b + i
      BY <2>2
    <3>2. rest[i] = l[b + 1 + i - 1]
      BY <2>1, <3>1
    <3> QED
      BY <3>1, <3>2
  <2> QED
    BY <2>1, <2>3, <2>4
<1>2. ASSUME NEW i \in 1..Len(rest)
      PROVE  MarkerAt(rest, i) <=> b + i + 2 <= a /\ AtMarker(l, b + i)
  <2>1. i + MarkerLength - 1 <= Len(rest) <=> b + i + 2 <= a
    <3>1. PICK n \in Nat : n = Len(rest)
      BY <1>1
    <3>2. /\ a \in Nat /\ i \in Nat /\ i >= 1 /\ i <= n
          /\ n = IF b < a THEN a - b ELSE 0
      BY <1>1, <3>1
    <3>3. i + MarkerLength - 1 = i + 2
      BY <3>2, MarkerFacts
    <3>4. i + 2 <= n <=> b + i + 2 <= a
      BY <3>2
    <3> QED
      BY <3>1, <3>3, <3>4
  <2>2. ASSUME b + i + 2 <= a, NEW k \in 1..MarkerLength
        PROVE  rest[i + k - 1] = l[b + i + k - 1]
    <3>1. i + k - 1 \in 1..(a - b)
      BY <1>1, <2>2, MarkerFacts
    <3>2. rest[i + k - 1] = l[b + (i + k - 1)]
      BY <1>1, <3>1
    <3>3. b + (i + k - 1) = b + i + k - 1
      BY <1>1, MarkerFacts
    <3> QED
      BY <3>2, <3>3
  <2> QED
    BY <2>1, <2>2 DEF MarkerAt, AtMarker
<1> QED
  BY <1>1, <1>2
-----------------------------------------------------------------------------
\* The words of the CRC register.
Words == {n \in Nat : n < 65536}

\* The powers of two and of sixteen that the bits and nibbles of a word need.
LEMMA Powers ==
  /\ 2^0 = 1 /\ 2^1 = 2 /\ 2^2 = 4 /\ 2^3 = 8
  /\ 16^0 = 1 /\ 16^1 = 16 /\ 16^2 = 256 /\ 16^3 = 4096
OBVIOUS

\* A nibble is its four bits.
LEMMA BitsOf ==
  ASSUME NEW a \in 0..15
  PROVE  /\ \A i \in 0..3 : Bit(a, i) \in 0..1
         /\ a = Bit(a, 0) + 2 * Bit(a, 1) + 4 * Bit(a, 2) + 8 * Bit(a, 3)
         /\ a >= 8 <=> Bit(a, 3) = 1
<1>1. /\ Bit(a, 0) = a % 2 /\ Bit(a, 1) = (a \div 2) % 2
      /\ Bit(a, 2) = (a \div 4) % 2 /\ Bit(a, 3) = (a \div 8) % 2
  BY Powers DEF Bit
<1> QED
  BY <1>1

\* A bit of an exclusive or.
Differ(x, y) == IF x = y THEN 0 ELSE 1

\* The exclusive or of two nibbles, bit by bit.
LEMMA NibbleBits ==
  ASSUME NEW a \in 0..15, NEW b \in 0..15
  PROVE  /\ XorNibble[a][b] \in 0..15
         /\ \A i \in 0..3 :
              Bit(XorNibble[a][b], i) = Differ(Bit(a, i), Bit(b, i))
<1>1. \A i \in 0..3 :
        (Bit(a, i) + Bit(b, i)) % 2 = Differ(Bit(a, i), Bit(b, i))
  BY BitsOf DEF Differ
<1>2. XorNibble[a][b]
        = 2^0 * ((Bit(a, 0) + Bit(b, 0)) % 2)
          + 2^1 * ((Bit(a, 1) + Bit(b, 1)) % 2)
          + 2^2 * ((Bit(a, 2) + Bit(b, 2)) % 2)
          + 2^3 * ((Bit(a, 3) + Bit(b, 3)) % 2)
  BY DEF XorNibble
<1>3. \A x, y : Differ(x, y) \in 0..1
  BY DEF Differ
<1>4. PICK p \in 0..1 : p = Differ(Bit(a, 0), Bit(b, 0))
  BY <1>3
<1>5. PICK q \in 0..1 : q = Differ(Bit(a, 1), Bit(b, 1))
  BY <1>3
<1>6. PICK r \in 0..1 : r = Differ(Bit(a, 2), Bit(b, 2))
  BY <1>3
<1>7. PICK s \in 0..1 : s = Differ(Bit(a, 3), Bit(b, 3))
  BY <1>3
<1>8. PICK n \in 0..15 : n = p + 2 * q + 4 * r + 8 * s
  OBVIOUS
<1>9. XorNibble[a][b] = n
  BY <1>1, <1>2, <1>4, <1>5, <1>6, <1>7, <1>8, Powers
<1>10. n % 2 = p /\ (n \div 2) % 2 = q /\ (n \div 4) % 2 = r
       /\ (n \div 8) % 2 = s
  BY <1>8
<1>11. /\ Bit(n, 0) = p /\ Bit(n, 1) = q /\ Bit(n, 2) = r /\ Bit(n, 3) = s
  BY <1>10, Powers DEF Bit
<1>12. \A i \in 0..3 : i = 0 \/ i = 1 \/ i = 2 \/ i = 3
  OBVIOUS
<1> QED
  BY <1>4, <1>5, <1>6, <1>7, <1>9, <1>11, <1>12

\* The exclusive or of nibbles commutes, carries the top bit of one of them,
\* and can be undone.
LEMMA NibbleFacts ==
  ASSUME NEW a \in 0..15, NEW b \in 0..15
  PROVE  /\ XorNibble[a][b] \in 0..15
         /\ XorNibble[a][b] = XorNibble[b][a]
         /\ a <= 7 /\ b >= 8 => XorNibble[a][b] >= 8
         /\ \A c \in 0..15 : XorNibble[a][b] = XorNibble[a][c] => b = c
<1>1. PICK n \in 0..15 : n = XorNibble[a][b]
  BY NibbleBits
<1>2. \A i \in 0..3 : Bit(n, i) = Differ(Bit(a, i), Bit(b, i))
  BY <1>1, NibbleBits
<1>3. /\ \A i \in 0..3 : Bit(a, i) \in 0..1 /\ Bit(b, i) \in 0..1
      /\ 0 \in 0..3 /\ 1 \in 0..3 /\ 2 \in 0..3 /\ 3 \in 0..3
  BY BitsOf
<1>4. \A x \in 0..15, y \in 0..15 :
        (\A i \in 0..3 : Bit(x, i) = Bit(y, i)) => x = y
  <2> SUFFICES ASSUME NEW x \in 0..15, NEW y \in 0..15,
                      \A i \in 0..3 : Bit(x, i) = Bit(y, i)
               PROVE  x = y
    OBVIOUS
  <2>1. /\ Bit(x, 0) = Bit(y, 0) /\ Bit(x, 1) = Bit(y, 1)
        /\ Bit(x, 2) = Bit(y, 2) /\ Bit(x, 3) = Bit(y, 3)
    BY <1>3
  <2>2. x = Bit(x, 0) + 2 * Bit(x, 1) + 4 * Bit(x, 2) + 8 * Bit(x, 3)
    BY BitsOf
  <2>3. y = Bit(y, 0) + 2 * Bit(y, 1) + 4 * Bit(y, 2) + 8 * Bit(y, 3)
    BY BitsOf
  <2> QED
    BY <2>1, <2>2, <2>3, Zenon
<1>5. n = XorNibble[b][a]
  <2>1. PICK m \in 0..15 : m = XorNibble[b][a]
    BY NibbleBits
  <2>2. \A i \in 0..3 : Bit(m, i) = Differ(Bit(b, i), Bit(a, i))
    BY <2>1, NibbleBits
  <2>3. \A x, y : Differ(x, y) = Differ(y, x)
    BY DEF Differ
  <2>4. \A i \in 0..3 : Bit(n, i) = Bit(m, i)
    BY <1>2, <2>2, <2>3, Zenon
  <2> QED
    BY <1>4, <2>1, <2>4
<1>6. ASSUME a <= 7, b >= 8 PROVE n >= 8
  <2>1. Bit(a, 3) # 1 /\ Bit(b, 3) = 1
    BY <1>6, BitsOf
  <2>2. Bit(n, 3) = 1
    BY <1>2, <1>3, <2>1 DEF Differ
  <2> QED
    BY <2>2, BitsOf
<1>7. ASSUME NEW c \in 0..15, n = XorNibble[a][c]
      PROVE  b = c
  <2>1. /\ \A i \in 0..3 : Bit(n, i) = Differ(Bit(a, i), Bit(c, i))
        /\ \A i \in 0..3 : Bit(c, i) \in 0..1
    BY <1>7, NibbleBits, BitsOf
  <2>2. \A x \in 0..1, y \in 0..1, z \in 0..1 :
          Differ(x, y) = Differ(x, z) => y = z
    BY DEF Differ
  <2>3. \A i \in 0..3 : Bit(b, i) = Bit(c, i)
    <3> SUFFICES ASSUME NEW i \in 0..3 PROVE Bit(b, i) = Bit(c, i)
      OBVIOUS
    <3>1. Differ(Bit(a, i), Bit(b, i)) = Differ(Bit(a, i), Bit(c, i))
      BY <1>2, <2>1, Zenon
    <3>2. Bit(a, i) \in 0..1 /\ Bit(b, i) \in 0..1 /\ Bit(c, i) \in 0..1
      BY <1>3, <2>1
    <3> QED
      BY <2>2, <3>1, <3>2, Zenon
  <2> QED
    BY <1>4, <2>3
<1> QED
  BY <1>1, <1>5, <1>6, <1>7

\* A word is its four nibbles.
Nibble(a, i) == (a \div 16^i) % 16

\* A word is its four nibbles; the last one has its top bit.
LEMMA NibblesOf ==
  ASSUME NEW a \in Words
  PROVE  /\ Nibble(a, 0) \in 0..15 /\ Nibble(a, 1) \in 0..15
         /\ Nibble(a, 2) \in 0..15 /\ Nibble(a, 3) \in 0..15
         /\ a = Nibble(a, 0) + 16 * Nibble(a, 1) + 256 * Nibble(a, 2)
                  + 4096 * Nibble(a, 3)
         /\ a < 32768 <=> Nibble(a, 3) <= 7
<1>1. /\ Nibble(a, 0) = a % 16 /\ Nibble(a, 1) = (a \div 16) % 16
      /\ Nibble(a, 2) = (a \div 256) % 16 /\ Nibble(a, 3) = (a \div 4096) % 16
  BY Powers DEF Nibble, Words
<1>2. a \in Nat /\ a < 65536
  BY DEF Words
<1>3. a = (a % 16) + 16 * ((a \div 16) % 16) + 256 * ((a \div 256) % 16)
            + 4096 * ((a \div 4096) % 16)
  BY <1>2
<1>4. a < 32768 <=> (a \div 4096) % 16 <= 7
  BY <1>2
<1>5. /\ a % 16 \in 0..15 /\ (a \div 16) % 16 \in 0..15
      /\ (a \div 256) % 16 \in 0..15 /\ (a \div 4096) % 16 \in 0..15
  BY <1>2
<1> QED
  BY <1>1, <1>3, <1>4, <1>5

\* The exclusive or of two words, nibble by nibble.
LEMMA XorNibbles ==
  ASSUME NEW a \in Words, NEW b \in Words
  PROVE  LET x == Xor16(a, b)
         IN  /\ x \in Words
             /\ Nibble(x, 0) = XorNibble[Nibble(a, 0)][Nibble(b, 0)]
             /\ Nibble(x, 1) = XorNibble[Nibble(a, 1)][Nibble(b, 1)]
             /\ Nibble(x, 2) = XorNibble[Nibble(a, 2)][Nibble(b, 2)]
             /\ Nibble(x, 3) = XorNibble[Nibble(a, 3)][Nibble(b, 3)]
<1>1. Xor16(a, b) = 16^0 * XorNibble[Nibble(a, 0)][Nibble(b, 0)]
              + 16^1 * XorNibble[Nibble(a, 1)][Nibble(b, 1)]
              + 16^2 * XorNibble[Nibble(a, 2)][Nibble(b, 2)]
              + 16^3 * XorNibble[Nibble(a, 3)][Nibble(b, 3)]
  BY DEF Xor16, Nibble
<1>2. \A x \in 0..15, y \in 0..15 : XorNibble[x][y] \in 0..15
  BY NibbleFacts
<1>3. PICK p \in 0..15 : p = XorNibble[Nibble(a, 0)][Nibble(b, 0)]
  BY <1>2, NibblesOf
<1>4. PICK q \in 0..15 : q = XorNibble[Nibble(a, 1)][Nibble(b, 1)]
  BY <1>2, NibblesOf
<1>5. PICK r \in 0..15 : r = XorNibble[Nibble(a, 2)][Nibble(b, 2)]
  BY <1>2, NibblesOf
<1>6. PICK s \in 0..15 : s = XorNibble[Nibble(a, 3)][Nibble(b, 3)]
  BY <1>2, NibblesOf
<1>7. PICK n \in Nat : n = p + 16 * q + 256 * r + 4096 * s
  OBVIOUS
<1>8. Xor16(a, b) = n
  BY <1>1, <1>3, <1>4, <1>5, <1>6, <1>7, Powers
<1>9. n < 65536
  BY <1>7
<1>10. n % 16 = p /\ (n \div 16) % 16 = q /\ (n \div 256) % 16 = r
       /\ (n \div 4096) % 16 = s
  BY <1>7
<1>11. Nibble(n, 0) = p /\ Nibble(n, 1) = q /\ Nibble(n, 2) = r
       /\ Nibble(n, 3) = s
  BY <1>10, Powers DEF Nibble
<1> QED
  BY <1>3, <1>4, <1>5, <1>6, <1>8, <1>9, <1>11 DEF Words

\* Exclusive or with a word loses nothing of the other one.
LEMMA XorFacts ==
  ASSUME NEW a \in Words, NEW b \in Words
  PROVE  /\ Xor16(a, b) \in Words
         /\ Xor16(a, b) = Xor16(b, a)
         /\ \A c \in Words : Xor16(a, b) = Xor16(a, c) => b = c
         /\ a < 32768 /\ b >= 32768 => Xor16(a, b) >= 32768
<1>1. ASSUME NEW x \in Words, NEW y \in Words,
             Nibble(x, 0) = Nibble(y, 0), Nibble(x, 1) = Nibble(y, 1),
             Nibble(x, 2) = Nibble(y, 2), Nibble(x, 3) = Nibble(y, 3)
      PROVE  x = y
  <2>1. PICK n : n = Nibble(x, 0) + 16 * Nibble(x, 1) + 256 * Nibble(x, 2)
                       + 4096 * Nibble(x, 3)
    OBVIOUS
  <2>2. n = Nibble(y, 0) + 16 * Nibble(y, 1) + 256 * Nibble(y, 2)
              + 4096 * Nibble(y, 3)
    BY <1>1, <2>1
  <2>3. x = n
    BY <2>1, NibblesOf
  <2>4. y = n
    BY <2>2, NibblesOf
  <2> QED
    BY <2>3, <2>4
<1>2. Xor16(a, b) \in Words /\ Xor16(b, a) \in Words
  BY XorNibbles
<1>3. Xor16(a, b) = Xor16(b, a)
  <2>1. \A x \in 0..15, y \in 0..15 : XorNibble[x][y] = XorNibble[y][x]
    BY NibbleFacts
  <2>2. /\ Nibble(a, 0) \in 0..15 /\ Nibble(b, 0) \in 0..15
        /\ Nibble(a, 1) \in 0..15 /\ Nibble(b, 1) \in 0..15
        /\ Nibble(a, 2) \in 0..15 /\ Nibble(b, 2) \in 0..15
        /\ Nibble(a, 3) \in 0..15 /\ Nibble(b, 3) \in 0..15
    BY NibblesOf
  <2>3. /\ Nibble(Xor16(a, b), 0) = XorNibble[Nibble(a, 0)][Nibble(b, 0)]
        /\ Nibble(Xor16(a, b), 1) = XorNibble[Nibble(a, 1)][Nibble(b, 1)]
        /\ Nibble(Xor16(a, b), 2) = XorNibble[Nibble(a, 2)][Nibble(b, 2)]
        /\ Nibble(Xor16(a, b), 3) = XorNibble[Nibble(a, 3)][Nibble(b, 3)]
    BY XorNibbles
  <2>4. /\ Nibble(Xor16(b, a), 0) = XorNibble[Nibble(b, 0)][Nibble(a, 0)]
        /\ Nibble(Xor16(b, a), 1) = XorNibble[Nibble(b, 1)][Nibble(a, 1)]
        /\ Nibble(Xor16(b, a), 2) = XorNibble[Nibble(b, 2)][Nibble(a, 2)]
        /\ Nibble(Xor16(b, a), 3) = XorNibble[Nibble(b, 3)][Nibble(a, 3)]
    BY XorNibbles
  <2>5. /\ Nibble(Xor16(a, b), 0) = Nibble(Xor16(b, a), 0)
        /\ Nibble(Xor16(a, b), 1) = Nibble(Xor16(b, a), 1)
        /\ Nibble(Xor16(a, b), 2) = Nibble(Xor16(b, a), 2)
        /\ Nibble(Xor16(a, b), 3) = Nibble(Xor16(b, a), 3)
    BY <2>1, <2>2, <2>3, <2>4, Zenon
  <2> QED
    BY <1>1, <1>2, <2>5
<1>4. ASSUME NEW c \in Words, Xor16(a, b) = Xor16(a, c)
      PROVE  b = c
  <2>1. \A x \in 0..15, y \in 0..15, z \in 0..15 :
          XorNibble[x][y] = XorNibble[x][z] => y = z
    BY NibbleFacts
  <2>2. /\ Nibble(a, 0) \in 0..15 /\ Nibble(b, 0) \in 0..15
        /\ Nibble(a, 1) \in 0..15 /\ Nibble(b, 1) \in 0..15
        /\ Nibble(a, 2) \in 0..15 /\ Nibble(b, 2) \in 0..15
        /\ Nibble(a, 3) \in 0..15 /\ Nibble(b, 3) \in 0..15
    BY NibblesOf
  <2>3. /\ Nibble(c, 0) \in 0..15 /\ Nibble(c, 1) \in 0..15
        /\ Nibble(c, 2) \in 0..15 /\ Nibble(c, 3) \in 0..15
    BY NibblesOf
  <2>4. /\ XorNibble[Nibble(a, 0)][Nibble(b, 0)]
             = XorNibble[Nibble(a, 0)][Nibble(c, 0)]
        /\ XorNibble[Nibble(a, 1)][Nibble(b, 1)]
             = XorNibble[Nibble(a, 1)][Nibble(c, 1)]
        /\ XorNibble[Nibble(a, 2)][Nibble(b, 2)]
             = XorNibble[Nibble(a, 2)][Nibble(c, 2)]
        /\ XorNibble[Nibble(a, 3)][Nibble(b, 3)]
             = XorNibble[Nibble(a, 3)][Nibble(c, 3)]
    BY <1>4, XorNibbles
  <2>5. /\ Nibble(b, 0) = Nibble(c, 0) /\ Nibble(b, 1) = Nibble(c, 1)
        /\ Nibble(b, 2) = Nibble(c, 2) /\ Nibble(b, 3) = Nibble(c, 3)
    BY <2>1, <2>2, <2>3, <2>4, Zenon
  <2> QED
    BY <1>1, <2>5
<1>5. ASSUME a < 32768, b >= 32768
      PROVE  Xor16(a, b) >= 32768
  <2>1. b \in Nat /\ ~(b < 32768)
    BY <1>5 DEF Words
  <2>2. /\ Nibble(a, 3) \in 0..15 /\ Nibble(a, 3) <= 7
        /\ Nibble(b, 3) \in 0..15 /\ ~(Nibble(b, 3) <= 7)
    BY <1>5, <2>1, NibblesOf
  <2>3. XorNibble[Nibble(a, 3)][Nibble(b, 3)] >= 8
    <3>1. \A x \in 0..15, y \in 0..15 :
            x <= 7 /\ y >= 8 => XorNibble[x][y] >= 8
      BY NibbleFacts
    <3>2. Nibble(b, 3) >= 8
      BY <2>2
    <3> QED
      BY <2>2, <3>1, <3>2
  <2>4. ~(Nibble(Xor16(a, b), 3) <= 7)
    BY <1>2, <2>3, XorNibbles, NibblesOf
  <2>5. ~(Xor16(a, b) < 32768)
    BY <1>2, <2>4, NibblesOf
  <2> QED
    BY <1>2, <2>5 DEF Words
<1> QED
  BY <1>2, <1>3, <1>4, <1>5

\* A shift of the register can be undone: the polynomial has the top bit, a
\* shifted word has not.
LEMMA ShiftFacts ==
  ASSUME NEW a \in Words
  PROVE  /\ ShiftOnce(a) \in Words
         /\ \A b \in Words : ShiftOnce(a) = ShiftOnce(b) => a = b
<1>1. POLYNOM16 \in Words /\ POLYNOM16 >= 32768
  BY DEF POLYNOM16, Words
<1>2. ASSUME NEW c \in Words
      PROVE  /\ c \div 2 \in Words /\ c \div 2 < 32768
             /\ c = 2 * (c \div 2) + (c % 2) /\ c % 2 \in 0..1
  <2>1. c \in Nat /\ c < 65536
    BY DEF Words
  <2>2. c \div 2 \in Nat /\ c \div 2 < 32768 /\ c % 2 \in 0..1
    BY <2>1
  <2>3. c = 2 * (c \div 2) + (c % 2)
    BY <2>1
  <2> QED
    BY <2>2, <2>3 DEF Words
<1>3. ASSUME NEW c \in Words, c % 2 = 1
      PROVE  /\ ShiftOnce(c) = Xor16(POLYNOM16, c \div 2)
             /\ ShiftOnce(c) \in Words /\ ShiftOnce(c) >= 32768
  BY <1>1, <1>2, <1>3, XorFacts DEF ShiftOnce
<1>4. ASSUME NEW c \in Words, c % 2 # 1
      PROVE  /\ ShiftOnce(c) = c \div 2
             /\ ShiftOnce(c) \in Words /\ ~(ShiftOnce(c) >= 32768)
  <2>1. ShiftOnce(c) = c \div 2
    BY <1>4 DEF ShiftOnce
  <2>2. c \div 2 \in Nat /\ c \div 2 < 32768 /\ c \div 2 \in Words
    BY <1>2 DEF Words
  <2>3. ~(c \div 2 >= 32768)
    BY <2>2
  <2> QED
    BY <2>1, <2>2, <2>3
<1>5. ASSUME NEW b \in Words, ShiftOnce(a) = ShiftOnce(b)
      PROVE  a = b
  <2>1. (a % 2 = 1) <=> (b % 2 = 1)
    BY <1>3, <1>4, <1>5
  <2>2. a \div 2 = b \div 2
    <3>1. CASE a % 2 = 1
      BY <1>1, <1>2, <1>3, <1>5, <2>1, <3>1, XorFacts
    <3>2. CASE a % 2 # 1
      BY <1>4, <1>5, <2>1, <3>2
    <3> QED
      BY <3>1, <3>2
  <2>3. a % 2 = b % 2
    BY <1>2, <2>1
  <2>4. a = 2 * (a \div 2) + (a % 2) /\ b = 2 * (b \div 2) + (b % 2)
    BY <1>2
  <2> QED
    BY <2>2, <2>3, <2>4, Zenon
<1>6. ShiftOnce(a) \in Words
  BY <1>3, <1>4
<1> QED
  BY <1>5, <1>6

\* A byte that is absorbed goes through eight shifts.
EightShifts(w) ==
  ShiftOnce(ShiftOnce(ShiftOnce(ShiftOnce(
    ShiftOnce(ShiftOnce(ShiftOnce(ShiftOnce(w))))))))

\* The step that avoids zero makes one word of two only at 0 and 1.
LEMMA AvoidZeroFacts ==
  ASSUME NEW a \in Words
  PROVE  /\ AvoidZero(a) \in Words
         /\ \A b \in Words : AvoidZero(a) = AvoidZero(b) =>
              a = b \/ a \in {0, 1}
BY DEF AvoidZero, Words

\* What crc16 does with a byte, as one step and eight shifts.
LEMMA AbsorbShifts ==
  ASSUME NEW crc \in Words, NEW byte \in Words
  PROVE  AbsorbByte(crc, byte) = EightShifts(AvoidZero(Xor16(crc, byte)))
<1> DEFINE first == AvoidZero(Xor16(crc, byte))
           IsShifted(f) == f = [i \in 0..8 |-> IF i = 0 THEN first
                                               ELSE ShiftOnce(f[i - 1])]
<1>1. first \in Words
  BY XorFacts, AvoidZeroFacts
<1>2. \E f : IsShifted(f)
  <2> DEFINE step == [i \in 1..8 |-> [w \in Words |-> ShiftOnce(w)]]
  <2>1. step \in [1..8 -> [Words -> Words]]
    BY ShiftFacts
  <2>2. \A i \in 1..8 : \A w \in Words : step[i][w] = ShiftOnce(w)
    OBVIOUS
  <2> HIDE DEF first, step
  <2>3. PICK f : TakesSteps(f, 8, Words, first, step)
    <3>1. 8 \in Nat
      OBVIOUS
    <3> QED
      BY <1>1, <2>1, <3>1, Stepwise, Zenon
  <2>6. /\ f \in [0..8 -> Words] /\ f[0] = first
        /\ \A i \in 1..8 : f[i] = step[i][f[i - 1]]
    BY <2>3 DEF TakesSteps
  <2>4. \A i \in 1..8 : f[i] = ShiftOnce(f[i - 1])
    BY <2>2, <2>6
  <2>5. f = [i \in 0..8 |-> IF i = 0 THEN first ELSE ShiftOnce(f[i - 1])]
    <3>1. \A i \in 0..8 : i = 0 \/ i \in 1..8
      OBVIOUS
    <3>2. f = [i \in 0..8 |-> f[i]]
      BY <2>6
    <3> QED
      BY <2>6, <2>4, <3>1, <3>2
  <2> QED
    BY <2>5
<1>3. PICK f : f = CHOOSE g : IsShifted(g)
  OBVIOUS
<1>4. AbsorbByte(crc, byte) = f[8]
  BY <1>3, Zenon DEF AbsorbByte
<1>5. IsShifted(f)
  <2> HIDE DEF IsShifted
  <2> QED
    BY <1>2, <1>3, Zenon
<1>6. f[0] = first /\ \A i \in 1..8 : f[i] = ShiftOnce(f[i - 1])
  <2> HIDE DEF first
  <2> QED
    BY <1>5
<1>7. /\ f[1] = ShiftOnce(f[0]) /\ f[2] = ShiftOnce(f[1])
      /\ f[3] = ShiftOnce(f[2]) /\ f[4] = ShiftOnce(f[3])
      /\ f[5] = ShiftOnce(f[4]) /\ f[6] = ShiftOnce(f[5])
      /\ f[7] = ShiftOnce(f[6]) /\ f[8] = ShiftOnce(f[7])
  <2>1. \A i \in 1..8 : f[i] = ShiftOnce(f[i - 1])
    BY <1>6
  <2> QED
    BY <2>1
<1> QED
  BY <1>4, <1>6, <1>7, Zenon DEF EightShifts

\* What is absorbed can be told from the register, but for the one step that
\* avoids zero.
LEMMA AbsorbFacts ==
  ASSUME NEW crc \in Words, NEW byte \in Words
  PROVE  /\ AbsorbByte(crc, byte) \in Words
         /\ \A c \in Words, b \in Words :
              AbsorbByte(crc, byte) = AbsorbByte(c, b) =>
                Xor16(crc, byte) = Xor16(c, b)
                  \/ Xor16(crc, byte) \in {0, 1}
<1>1. \A w \in Words : ShiftOnce(w) \in Words
  BY ShiftFacts
<1>2. \A v \in Words, w \in Words : ShiftOnce(v) = ShiftOnce(w) => v = w
  BY ShiftFacts
<1>3. \A w \in Words : EightShifts(w) \in Words
  BY <1>1 DEF EightShifts
<1>4. ASSUME NEW v \in Words, NEW w \in Words, EightShifts(v) = EightShifts(w)
      PROVE  v = w
  BY <1>1, <1>2, <1>4 DEF EightShifts
<1>5. ASSUME NEW c \in Words, NEW b \in Words
      PROVE  Xor16(c, b) \in Words /\ AvoidZero(Xor16(c, b)) \in Words
  BY XorFacts, AvoidZeroFacts
<1>6. AbsorbByte(crc, byte) \in Words
  BY <1>3, <1>5, AbsorbShifts
<1>7. ASSUME NEW c \in Words, NEW b \in Words,
             AbsorbByte(crc, byte) = AbsorbByte(c, b)
      PROVE  Xor16(crc, byte) = Xor16(c, b) \/ Xor16(crc, byte) \in {0, 1}
  <2>1. AvoidZero(Xor16(crc, byte)) = AvoidZero(Xor16(c, b))
    BY <1>4, <1>5, <1>7, AbsorbShifts
  <2> QED
    BY <1>5, <2>1, AvoidZeroFacts
<1> QED
  BY <1>6, <1>7

Bytes == 0..255

\* A byte is a word.
LEMMA BytesAreWords == Bytes \subseteq Words
BY DEF Bytes, Words

\* The register takes up one byte after the other.
LEMMA AccumulatorFacts ==
  ASSUME NEW data \in Seq(Bytes)
  PROVE  /\ \A k \in 0..Len(data) : Accumulators(data)[k] \in Words
         /\ Accumulators(data)[0] = CRC_INITIAL
         /\ \A k \in 1..Len(data) :
              Accumulators(data)[k]
                = AbsorbByte(Accumulators(data)[k - 1], data[k])
<1> DEFINE n == Len(data)
           IsAcc(f) == f = [k \in 0..n |-> IF k = 0 THEN CRC_INITIAL
                                           ELSE AbsorbByte(f[k - 1], data[k])]
<1>1. n \in Nat /\ CRC_INITIAL \in Words
  BY DEF CRC_INITIAL, Words
<1>2. \A k \in 1..n : data[k] \in Words
  <2>1. \A k \in 1..n : data[k] \in Bytes
    OBVIOUS
  <2> QED
    BY <2>1, BytesAreWords
<1>3. ASSUME NEW f \in [0..n -> Words], f[0] = CRC_INITIAL,
             \A k \in 1..n : f[k] = AbsorbByte(f[k - 1], data[k])
      PROVE  IsAcc(f)
  <2>1. \A k \in 0..n : k = 0 \/ k \in 1..n
    BY <1>1
  <2>2. f = [k \in 0..n |-> f[k]]
    BY <1>3
  <2> QED
    BY <1>3, <2>1, <2>2
<1>4. PICK f \in [0..n -> Words] :
        /\ f[0] = CRC_INITIAL
        /\ \A k \in 1..n : f[k] = AbsorbByte(f[k - 1], data[k])
  <2> DEFINE step == [k \in 1..n |-> [w \in Words |-> AbsorbByte(w, data[k])]]
  <2>1. step \in [1..n -> [Words -> Words]]
    BY <1>2, AbsorbFacts
  <2>2. \A k \in 1..n : \A w \in Words : step[k][w] = AbsorbByte(w, data[k])
    OBVIOUS
  <2> HIDE DEF n, step
  <2>3. PICK f : TakesSteps(f, n, Words, CRC_INITIAL, step)
    BY <1>1, <2>1, Stepwise, Zenon
  <2>6. /\ f \in [0..n -> Words] /\ f[0] = CRC_INITIAL
        /\ \A k \in 1..n : f[k] = step[k][f[k - 1]]
    BY <2>3 DEF TakesSteps
  <2>4. \A k \in 1..n : f[k - 1] \in Words
    BY <1>1, <2>6
  <2>5. \A k \in 1..n : f[k] = AbsorbByte(f[k - 1], data[k])
    BY <2>2, <2>6, <2>4, Zenon
  <2> QED
    BY <2>6, <2>5, Zenon
<1>5. Accumulators(data) = CHOOSE g : IsAcc(g)
  BY Zenon DEF Accumulators
<1>6. PICK acc : acc = Accumulators(data)
  OBVIOUS
<1>7. IsAcc(acc)
  <2>1. \E g : IsAcc(g)
    BY <1>3, <1>4
  <2> HIDE DEF IsAcc
  <2> QED
    BY <1>5, <1>6, <2>1, Zenon
<1>8. /\ acc[0] = CRC_INITIAL
      /\ \A k \in 1..n : acc[k] = AbsorbByte(acc[k - 1], data[k])
  <2>1. 0 \in 0..n /\ \A k \in 1..n : k \in 0..n /\ k # 0
    BY <1>1
  <2> HIDE DEF n
  <2> QED
    BY <1>7, <2>1
<1>9. \A k \in 0..n : acc[k] \in Words
  <2> DEFINE S == {k \in Nat : k <= n => acc[k] \in Words}
  <2>1. 0 \in S
    BY <1>1, <1>8
  <2>2. ASSUME NEW k \in Nat, k \in S PROVE k + 1 \in S
    <3> SUFFICES ASSUME k + 1 <= n PROVE acc[k + 1] \in Words
      OBVIOUS
    <3>1. k + 1 \in 1..n /\ (k + 1) - 1 = k /\ k <= n
      BY <1>1
    <3>2. acc[k + 1] = AbsorbByte(acc[k], data[k + 1])
      BY <1>8, <3>1
    <3>3. acc[k] \in Words
      BY <2>2, <3>1
    <3> QED
      BY <1>2, <3>1, <3>2, <3>3, AbsorbFacts
  <2>3. Nat \subseteq S
    <3> HIDE DEF S
    <3> QED
      BY <2>1, <2>2, Inductive
  <2> QED
    BY <1>1, <2>3
<1> QED
  BY <1>6, <1>8, <1>9

\* One damaged byte is always found: if two sequences of bytes differ in one
\* byte and have the same CRC, the register has met the step that avoids zero.
THEOREM OneByteFound ==
  ASSUME NEW s \in Seq(Bytes), NEW t \in Seq(Bytes), Len(s) = Len(t),
         NEW k \in 1..Len(s), s[k] # t[k],
         \A i \in 1..Len(s) : i # k => s[i] = t[i],
         crc16(s) = crc16(t)
  PROVE  \E i \in 1..Len(s) : Xor16(Accumulators(s)[i - 1], s[i]) \in {0, 1}
<1> SUFFICES ASSUME \A i \in 1..Len(s) :
                      Xor16(Accumulators(s)[i - 1], s[i]) \notin {0, 1}
             PROVE  FALSE
  OBVIOUS
<1>1. PICK n \in Nat : n = Len(s)
  OBVIOUS
<1>2. PICK acc : acc = Accumulators(s)
  OBVIOUS
<1>3. PICK bcc : bcc = Accumulators(t)
  OBVIOUS
<1>4. /\ \A i \in 0..n : acc[i] \in Words /\ bcc[i] \in Words
      /\ acc[0] = bcc[0]
      /\ \A i \in 1..n : acc[i] = AbsorbByte(acc[i - 1], s[i])
      /\ \A i \in 1..n : bcc[i] = AbsorbByte(bcc[i - 1], t[i])
  BY <1>1, <1>2, <1>3, AccumulatorFacts
<1>5. \A i \in 1..n : s[i] \in Words /\ t[i] \in Words
  <2>1. \A i \in 1..n : s[i] \in Bytes /\ t[i] \in Bytes
    BY <1>1
  <2> QED
    BY <2>1, BytesAreWords
<1> DEFINE S == {m \in Nat : m <= n => (acc[m] = bcc[m] <=> m < k)}
<1>6. k \in 1..n /\ n \in Nat
  BY <1>1
<1>7. 0 \in S
  BY <1>4, <1>6
<1>8. ASSUME NEW m \in Nat, m \in S
      PROVE  m + 1 \in S
  <2> SUFFICES ASSUME m + 1 <= n
               PROVE  acc[m + 1] = bcc[m + 1] <=> m + 1 < k
    OBVIOUS
  <2>1. /\ m + 1 \in 1..n /\ (m + 1) - 1 = m /\ m <= n /\ m \in 0..n
    BY <1>6
  <2>2. /\ acc[m + 1] = AbsorbByte(acc[m], s[m + 1])
        /\ bcc[m + 1] = AbsorbByte(bcc[m], t[m + 1])
        /\ acc[m] \in Words /\ bcc[m] \in Words
        /\ s[m + 1] \in Words /\ t[m + 1] \in Words
        /\ Xor16(acc[m], s[m + 1]) \notin {0, 1}
    BY <1>1, <1>2, <1>4, <1>5, <2>1
  <2>3. acc[m + 1] = bcc[m + 1] =>
          Xor16(acc[m], s[m + 1]) = Xor16(bcc[m], t[m + 1])
    <3> SUFFICES ASSUME acc[m + 1] = bcc[m + 1]
                 PROVE  Xor16(acc[m], s[m + 1]) = Xor16(bcc[m], t[m + 1])
      OBVIOUS
    <3>1. AbsorbByte(acc[m], s[m + 1]) = AbsorbByte(bcc[m], t[m + 1])
      BY <2>2, Zenon
    <3>2. PICK x \in Words : x = acc[m]
      BY <2>2
    <3>3. PICK y \in Words : y = s[m + 1]
      BY <2>2
    <3>4. PICK u \in Words : u = bcc[m]
      BY <2>2
    <3>5. PICK v \in Words : v = t[m + 1]
      BY <2>2
    <3>6. AbsorbByte(x, y) = AbsorbByte(u, v) /\ Xor16(x, y) \notin {0, 1}
      BY <2>2, <3>1, <3>2, <3>3, <3>4, <3>5, Zenon
    <3>7. Xor16(x, y) = Xor16(u, v)
      BY <3>6, AbsorbFacts
    <3> QED
      BY <3>2, <3>3, <3>4, <3>5, <3>7, Zenon
  <2>4. acc[m] = bcc[m] <=> m < k
    BY <1>8, <2>1
  <2>5. CASE m + 1 < k
    <3>1. m + 1 # k /\ m < k
      BY <1>6, <2>5
    <3>2. s[m + 1] = t[m + 1] /\ acc[m] = bcc[m]
      BY <1>1, <2>1, <2>4, <3>1
    <3> QED
      BY <2>2, <2>5, <3>2
  <2>6. CASE m + 1 = k
    <3>1. acc[m] = bcc[m] /\ s[m + 1] # t[m + 1] /\ ~(m + 1 < k)
      BY <1>6, <2>4, <2>6
    <3> QED
      BY <2>2, <2>3, <3>1, XorFacts
  <2>7. CASE m + 1 > k
    <3>1. m + 1 # k /\ ~(m < k) /\ ~(m + 1 < k)
      BY <1>6, <2>7
    <3>2. s[m + 1] = t[m + 1] /\ acc[m] # bcc[m]
      BY <1>1, <2>1, <2>4, <3>1
    <3>3. Xor16(s[m + 1], acc[m]) = Xor16(acc[m], s[m + 1])
          /\ Xor16(s[m + 1], bcc[m]) = Xor16(bcc[m], s[m + 1])
      BY <2>2, XorFacts
    <3>4. Xor16(s[m + 1], acc[m]) # Xor16(s[m + 1], bcc[m])
      BY <2>2, <3>2, XorFacts
    <3> QED
      BY <2>3, <3>1, <3>2, <3>3, <3>4
  <2> QED
    BY <1>6, <2>5, <2>6, <2>7
<1>9. Nat \subseteq S
  <2> HIDE DEF S
  <2> QED
    BY <1>7, <1>8, Inductive
<1>10. acc[n] # bcc[n]
  BY <1>6, <1>9
<1> QED
  BY <1>1, <1>2, <1>3, <1>10 DEF crc16
=============================================================================
