------------------------------- MODULE Steps --------------------------------
(***************************************************************************)
(* Induction over the numbers, for proofs about functions that go step by  *)
(* step, and the powers of two, for proofs about bits.                     *)
(***************************************************************************)
EXTENDS Integers, FiniteSetTheorems, WellFoundedInduction, TLAPS

\* Induction, over a set of numbers.
LEMMA Inductive ==
  ASSUME NEW S, 0 \in S, \A m \in Nat : m \in S => m + 1 \in S
  PROVE  Nat \subseteq S
<1> DEFINE Open == {m \in Nat : m \notin S}
<1> SUFFICES ASSUME Open # {} PROVE FALSE
  OBVIOUS
<1>1. PICK n \in Open : \A m \in Open : <<m, n>> \notin OpToRel(<, Nat)
  BY WFMin, NatLessThanWellFounded, Zenon
<1>2. n \in Nat /\ n \notin S /\ \A m \in Open : ~(m < n)
  BY <1>1 DEF OpToRel
<1>3. n - 1 \in Nat /\ n - 1 < n /\ (n - 1) + 1 = n
  BY <1>2
<1>4. n - 1 \notin Open
  <2> HIDE DEF Open
  <2> QED
    BY <1>2, <1>3
<1>5. n - 1 \in S
  BY <1>3, <1>4
<1>6. (n - 1) + 1 \in S
  BY <1>3, <1>5
<1> QED
  BY <1>2, <1>3, <1>6

\* f takes up one of n steps after the other.
TakesSteps(f, n, S, first, step) ==
  /\ f \in [0..n -> S] /\ f[0] = first
  /\ \A i \in 1..n : f[i] = step[i][f[i - 1]]

\* A function defined step by step exists.
LEMMA Stepwise ==
  ASSUME NEW n \in Nat, NEW S, NEW first \in S, NEW step \in [1..n -> [S -> S]]
  PROVE  \E f : TakesSteps(f, n, S, first, step)
<1> DEFINE Upto(m, f) ==
             /\ f \in [0..n -> S] /\ f[0] = first
             /\ \A i \in 1..n : i <= m => f[i] = step[i][f[i - 1]]
           Reached == {m \in Nat : m <= n => \E f : Upto(m, f)}
<1>1. 0 \in Reached
  <2>1. Upto(0, [i \in 0..n |-> first])
    OBVIOUS
  <2> QED
    BY <2>1
<1>2. ASSUME NEW m \in Nat, m \in Reached
      PROVE  m + 1 \in Reached
  <2> SUFFICES ASSUME m + 1 <= n
               PROVE  \E f : Upto(m + 1, f)
    OBVIOUS
  <2>1. m <= n /\ m \in 0..n /\ m + 1 \in 1..n /\ m + 1 \in 0..n
    OBVIOUS
  <2>2. PICK f : Upto(m, f)
    BY <1>2, <2>1
  <2> DEFINE g == [f EXCEPT ![m + 1] = step[m + 1][f[m]]]
  <2>3. g \in [0..n -> S]
    <3>1. f[m] \in S
      BY <2>1, <2>2
    <3>2. step[m + 1][f[m]] \in S
      BY <2>1, <3>1
    <3> QED
      BY <2>2, <3>2
  <2>4. \A i \in 0..n : g[i] = IF i = m + 1 THEN step[m + 1][f[m]] ELSE f[i]
    BY <2>2
  <2> HIDE DEF g
  <2>5. g[0] = first
    BY <2>1, <2>2, <2>4
  <2>6. ASSUME NEW i \in 1..n, i <= m + 1
        PROVE  g[i] = step[i][g[i - 1]]
    <3>1. i \in 0..n /\ i - 1 \in 0..n /\ i - 1 # m + 1
      BY <2>6
    <3>2. g[i - 1] = f[i - 1]
      BY <2>4, <3>1
    <3>3. CASE i = m + 1
      <4>1. i - 1 = m
        BY <3>3
      <4> QED
        BY <2>4, <3>1, <3>2, <3>3, <4>1
    <3>4. CASE i # m + 1
      <4>1. i <= m
        BY <2>6, <3>4
      <4> QED
        BY <2>2, <2>4, <3>1, <3>2, <3>4, <4>1
    <3> QED
      BY <3>3, <3>4
  <2>7. Upto(m + 1, g)
    BY <2>3, <2>5, <2>6
  <2> QED
    BY <2>7
<1>3. n \in Reached
  <2> HIDE DEF Reached
  <2> QED
    BY <1>1, <1>2, Inductive
<1>4. PICK f : Upto(n, f)
  BY <1>3
<1>5. TakesSteps(f, n, S, first, step)
  BY <1>4 DEF TakesSteps
<1> QED
  BY <1>5

-----------------------------------------------------------------------------
\* Division, by what it leaves.
LEMMA DivUnique ==
  ASSUME NEW a \in Nat, NEW p \in Nat \ {0}, NEW q \in Nat, NEW r \in Nat,
         a = p * q + r, r < p
  PROVE  a \div p = q /\ a % p = r
OBVIOUS

\* Quotient and remainder.
LEMMA DivFacts ==
  ASSUME NEW a \in Nat, NEW p \in Nat \ {0}
  PROVE  /\ a \div p \in Nat /\ a % p \in Nat /\ a % p < p
         /\ a = p * (a \div p) + (a % p)
OBVIOUS

\* Dividing by twice p is dividing by p and then by two.
LEMMA Halves ==
  ASSUME NEW a \in Nat, NEW p \in Nat \ {0}
  PROVE  a \div (2 * p) = (a \div p) \div 2
<1>1. PICK q \in Nat : q = a \div p
  BY DivFacts
<1>2. PICK r \in Nat : r = a % p /\ r < p /\ a = p * q + r
  BY <1>1, DivFacts
<1>3. PICK h \in Nat, b \in 0..1 : q = 2 * h + b /\ h = q \div 2
  <2>1. q \div 2 \in Nat /\ q - 2 * (q \div 2) \in 0..1
    OBVIOUS
  <2> QED
    BY <2>1
<1>4. p * b + r \in Nat /\ p * b + r < 2 * p
  <2>1. b = 0 \/ b = 1
    OBVIOUS
  <2> QED
    BY <1>2, <2>1
<1>5. a = (2 * p) * h + (p * b + r)
  <2>1. p * (2 * h + b) = (2 * p) * h + p * b
    OBVIOUS
  <2> QED
    BY <1>2, <1>3, <2>1
<1>6. 2 * p \in Nat \ {0}
  OBVIOUS
<1>7. a \div (2 * p) = h
  BY <1>4, <1>5, <1>6, DivUnique
<1> QED
  BY <1>1, <1>3, <1>7

\* A power of two doubles: it counts the subsets of a set, and one more element
\* is in them or is not.
LEMMA PowerDoubles ==
  ASSUME NEW n \in Nat
  PROVE  2^n \in Nat \ {0} /\ 2^(n + 1) = 2 * 2^n
<1> DEFINE S == 1..n
           T == SUBSET S
           U == {X \cup {n + 1} : X \in T}
<1>1. /\ IsFiniteSet(S) /\ Cardinality(S) = n
      /\ IsFiniteSet(1..(n + 1)) /\ Cardinality(1..(n + 1)) = n + 1
  BY FS_Interval
<1>2. /\ IsFiniteSet(T) /\ Cardinality(T) = 2^n
      /\ Cardinality(SUBSET (1..(n + 1))) = 2^(n + 1)
  BY <1>1, FS_SUBSET
<1>3. SUBSET (1..(n + 1)) = T \cup U
  <2>1. ASSUME NEW X \in SUBSET (1..(n + 1)), n + 1 \in X
        PROVE  X \in U
    <3>1. X \ {n + 1} \in T
      OBVIOUS
    <3>2. X = (X \ {n + 1}) \cup {n + 1}
      BY <2>1
    <3> QED
      BY <3>1, <3>2
  <2>2. ASSUME NEW X \in SUBSET (1..(n + 1)), n + 1 \notin X
        PROVE  X \in T
    BY <2>2
  <2>3. T \subseteq SUBSET (1..(n + 1))
    OBVIOUS
  <2>4. U \subseteq SUBSET (1..(n + 1))
    <3> SUFFICES ASSUME NEW X \in T PROVE X \cup {n + 1} \subseteq 1..(n + 1)
      OBVIOUS
    <3>1. X \subseteq 1..n /\ 1..n \subseteq 1..(n + 1) /\ n + 1 \in 1..(n + 1)
      OBVIOUS
    <3> QED
      BY <3>1
  <2> HIDE DEF T, U
  <2> QED
    BY <2>1, <2>2, <2>3, <2>4
<1>4. T \cap U = {}
  <2>1. n + 1 \notin S
    OBVIOUS
  <2> QED
    BY <2>1
<1>5. IsFiniteSet(U) /\ Cardinality(U) = Cardinality(T)
  <2> DEFINE f == [X \in T |-> X \cup {n + 1}]
  <2>1. f \in Bijection(T, U)
    <3>1. \A X \in T : n + 1 \notin X
      OBVIOUS
    <3>2. ASSUME NEW X \in T, NEW Y \in T, f[X] = f[Y]
          PROVE  X = Y
      <4>1. X \cup {n + 1} = Y \cup {n + 1} /\ n + 1 \notin X /\ n + 1 \notin Y
        BY <3>1, <3>2
      <4> QED
        BY <4>1
    <3>3. f \in [T -> U]
      OBVIOUS
    <3>4. \A Z \in U : \E X \in T : f[X] = Z
      OBVIOUS
    <3> HIDE DEF f, T, U
    <3> QED
      BY <3>2, <3>3, <3>4, Zenon
         DEF Bijection, Injection, Surjection, IsInjective
  <2> HIDE DEF f, T, U
  <2> QED
    BY <1>2, <2>1, FS_Bijection DEF ExistsBijection
<1>6. Cardinality(T \cup U) = 2 * 2^n
  <2>1. /\ Cardinality(T \cup U)
             = Cardinality(T) + Cardinality(U) - Cardinality(T \cap U)
        /\ Cardinality(T) \in Nat
    BY <1>2, <1>5, FS_Union, FS_CardinalityType
  <2>2. Cardinality({}) = 0
    BY FS_EmptySet
  <2>3. PICK c \in Nat : c = 2^n /\ c = Cardinality(T)
    BY <1>2, <2>1
  <2> HIDE DEF T, U
  <2>4. Cardinality(T \cup U) = c + c - 0
    BY <1>4, <1>5, <2>1, <2>2, <2>3
  <2> QED
    BY <2>3, <2>4
<1>7. 2^n \in Nat \ {0}
  <2>1. Cardinality(T) \in Nat /\ T # {}
    BY <1>2, FS_CardinalityType
  <2>2. Cardinality(T) # 0
    BY <1>2, <2>1, FS_EmptySet
  <2> QED
    BY <1>2, <2>1, <2>2
<1> QED
  BY <1>2, <1>3, <1>6, <1>7

\* a without its lowest n bits.
Shifted(a, n) == a \div 2^n

\* Shifts to the right add up.
LEMMA ShiftedTwice ==
  ASSUME NEW a \in Nat, NEW m \in Nat, NEW j \in Nat
  PROVE  /\ Shifted(a, m) \in Nat
         /\ Shifted(Shifted(a, m), j) = Shifted(a, m + j)
<1> DEFINE S == {i \in Nat : a \div 2^(m + i) = (a \div 2^m) \div 2^i}
<1>1. \A i \in Nat : 2^i \in Nat \ {0} /\ 2^(i + 1) = 2 * 2^i
  BY PowerDoubles
<1>2. PICK b \in Nat : b = a \div 2^m
  BY <1>1, DivFacts
<1>3. 0 \in S
  <2>1. m + 0 = m /\ 2^0 = 1
    OBVIOUS
  <2>2. b \div 1 = b
    OBVIOUS
  <2> QED
    BY <1>2, <2>1, <2>2
<1>4. ASSUME NEW i \in Nat, i \in S
      PROVE  i + 1 \in S
  <2>1. PICK p \in Nat \ {0} : p = 2^(m + i)
    BY <1>1
  <2>2. PICK q \in Nat \ {0} : q = 2^i
    BY <1>1
  <2>3. 2^(m + (i + 1)) = 2 * p /\ 2^(i + 1) = 2 * q
    <3>1. m + (i + 1) = (m + i) + 1 /\ m + i \in Nat
      OBVIOUS
    <3> QED
      BY <1>1, <2>1, <2>2, <3>1
  <2>4. a \div p = b \div q
    BY <1>2, <1>4, <2>1, <2>2
  <2>5. /\ a \div (2 * p) = (a \div p) \div 2
        /\ b \div (2 * q) = (b \div q) \div 2
    BY Halves
  <2>6. a \div 2^(m + (i + 1)) = (a \div 2^m) \div 2^(i + 1)
    BY <1>2, <2>3, <2>4, <2>5, Zenon
  <2> QED
    BY <2>6
<1>5. j \in S
  <2> HIDE DEF S
  <2> QED
    BY <1>3, <1>4, Inductive
<1> QED
  BY <1>2, <1>5 DEF Shifted
=============================================================================
