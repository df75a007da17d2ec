--------------------------- MODULE PollingProofs ---------------------------
(***************************************************************************)
(* Theorems about Polling for all intervals, timeouts and limits: the      *)
(* inductive invariant has a part for each of them. What the parsers make  *)
(* of a payload plays a role only for what wait_for_ready returns and for  *)
(* the clock of a sample: the state word and the bit fields of the clock   *)
(* are computed for every payload, from the bytes.                         *)
(***************************************************************************)
EXTENDS Polling, Steps, SequenceTheorems

\* The count of a stream's errors is the number of failed polls since the last
\* good one, as far as the ghost remembers.
Streak ==
  program # "wait" =>
    /\ \A i \in 1..errors : recent[i] = "failed"
    /\ errors < History => recent[errors + 1] # "failed"
    /\ pc = "raised" => maxErrors > 0 /\ errors = maxErrors

\* How wait_for_ready stands to its deadline at each of its points.
Deadline ==
  program = "wait" =>
    /\ pc \in {"head", "poll", "sleep", "raised", "returned", "timedout"}
    /\ pc = "head" => left >= 0
    /\ pc = "poll" => since <= PollTicks /\ left + since >= 1
    /\ pc = "sleep" => nap <= left
    /\ left >= -PollTicks
    /\ pc = "timedout" => left <= 0

\* How far since has come at each point of a stream.
Within(ticks) ==
  ticks >= interval /\ (ticks = interval \/ ticks <= PollTicks + ConsumerTicks)

Pace ==
  program # "wait" =>
    /\ pc = "info" => recent[1] = "none"
    /\ pc = "poll" => since <= PollTicks
    /\ pc \in {"failed", "callback", "yielded", "shown"} =>
         since <= PollTicks + ConsumerTicks
    /\ pc = "sleep" => Within(since + nap)
    /\ pc = "head" => recent[1] = "none" \/ Within(since)

Inv == TypeOK /\ Streak /\ Deadline /\ Pace

USE DEF Labels, Ended, Final

-----------------------------------------------------------------------------
\* The ghost memory keeps its type and puts the new outcome in front.
LEMMA Remembers ==
  ASSUME TypeOK, PollingAssumption,
         NEW outcome \in {"ok", "failed"}, Remember(outcome)
  PROVE  /\ recent' \in [1..History -> {"none", "ok", "failed"}]
         /\ History >= 1 /\ recent'[1] = outcome
         /\ \A i \in 1..History : i > 1 => recent'[i] = recent[i - 1]
<1>1. History \in Nat /\ History >= 1
  BY DEF PollingAssumption
<1>2. recent \in [1..History -> {"none", "ok", "failed"}]
  BY DEF TypeOK
<1>3. \A i \in 1..History : i > 1 => i - 1 \in 1..History
  BY <1>1
<1>4. \A i \in 1..History :
        (IF i = 1 THEN outcome ELSE recent[i - 1])
          \in {"none", "ok", "failed"}
  BY <1>1, <1>2, <1>3
<1>5. recent' = [i \in 1..History |->
                   IF i = 1 THEN outcome ELSE recent[i - 1]]
  BY DEF Remember
<1>. QED  BY <1>1, <1>4, <1>5

\* The types at first.
LEMMA TypeInit == ASSUME PollingAssumption, Init PROVE TypeOK
<1>1. recent \in [1..History -> {"none", "ok", "failed"}]
  BY DEF Init
<1>2. maxErrors \in MaxErrors \cup {DEFAULT_MAX_CONSECUTIVE_ERRORS}
  BY DEF Init
<1>3. maxErrors \in 0..History /\ History \in Nat
  BY <1>2 DEF PollingAssumption
<1>4. left \in Int
  BY DEF Init, PollingAssumption
<1>5. stop \in BOOLEAN /\ closed \in BOOLEAN /\ autoReconnect \in BOOLEAN
  BY Zenon DEF Init
<1>. QED  BY <1>1, <1>2, <1>3, <1>4, <1>5 DEF Init, TypeOK

\* The step from a poll that failed: the count and the memory.
LEMMA FailedStep ==
  ASSUME PollingAssumption, TypeOK, pc = "poll", Failed,
         UNCHANGED parameters
  PROVE  /\ pc' \in {"raised", "failed"}
         /\ errors' \in 0..History
         /\ maxErrors' = 0 \/ errors' < maxErrors'
              \/ (errors' = maxErrors' /\ pc' = "failed")
         /\ recent' \in [1..History -> {"none", "ok", "failed"}]
         /\ payload' = payload
<1>1. maxErrors \in 0..History /\ History \in Nat
  BY DEF TypeOK, PollingAssumption
<1>2. maxErrors = 0 \/ errors < maxErrors
  BY DEF TypeOK
<1>3. errors \in 0..History
  BY DEF TypeOK
<1>4. recent' \in [1..History -> {"none", "ok", "failed"}]
  BY Remembers DEF Failed
<1>. QED  BY <1>1, <1>2, <1>3, <1>4 DEF Failed, OneMore, parameters

\* Every step keeps the types.
LEMMA TypeStep ==
  ASSUME PollingAssumption, TypeOK, [Next]_vars PROVE TypeOK'
<1>. USE DEF TypeOK, Keeps, parameters, environment
<1>0. /\ maxErrors \in 0..History /\ interval \in Nat
      /\ History \in Nat /\ History >= 1 /\ PollTicks \in Nat
  BY DEF PollingAssumption
<1>1. CASE LoopHead
  BY <1>1 DEF LoopHead
<1>2. CASE PollFails
  <2>1. pc = "poll" /\ Failed /\ UNCHANGED parameters
    BY <1>2 DEF PollFails
  <2>2. connected' \in BOOLEAN /\ closed' \in BOOLEAN
    BY <1>2, Zenon DEF PollFails
  <2>. QED  BY <1>2, <2>1, <2>2, FailedStep DEF PollFails
<1>3. ASSUME NEW p \in DataPayloads, Answered(p) PROVE TypeOK'
  <2>1. /\ pc = "poll" /\ connected' = TRUE
        /\ UNCHANGED <<parameters, environment, since, left, closed>>
    BY <1>3 DEF Answered
  <2>2. CASE Failed /\ UNCHANGED nap
    BY <2>1, <2>2, FailedStep
  <2>3. CASE Awaits(p)
    <3>1. /\ pc' \in {"returned", "timedout", "sleep"}
          /\ nap' \in Nat /\ payload' = p /\ UNCHANGED errors
      BY <1>0, <2>3 DEF Awaits, Shorter
    <3>2. recent' \in [1..History -> {"none", "ok", "failed"}]
      BY <2>3, Remembers DEF Awaits
    <3>3. maxErrors = 0 \/ errors < maxErrors
      BY <2>1
    <3>. QED  BY <2>1, <3>1, <3>2, <3>3
  <2>4. CASE Sampled(p)
    <3>1. recent' \in [1..History -> {"none", "ok", "failed"}]
      BY <2>4, Remembers DEF Sampled
    <3>. QED  BY <1>0, <2>1, <2>4, <3>1 DEF Sampled
  <2>. QED  BY <1>3, <2>2, <2>3, <2>4 DEF Answered
<1>4. CASE AfterError
  BY <1>0, <1>4 DEF AfterError, Rest
<1>5. CASE Yields \/ ConsumerShows
  BY <1>5 DEF Yields, ConsumerShows
<1>6. CASE ConsumerResumes
  BY <1>0, <1>6 DEF ConsumerResumes, Rest
<1>7. CASE ConsumerLeaves
  BY <1>7 DEF ConsumerLeaves
<1>8. CASE Wakes
  BY <1>8 DEF Wakes
<1>9. CASE Tick
  <2>1. nap' \in Nat /\ left' \in Int
    BY <1>9 DEF Tick
  <2>. QED  BY <1>9, <2>1 DEF Tick
<1>10. ASSUME NEW p \in InfoPayloads, InfoArrives(p) PROVE TypeOK'
  <2>1. pc' \in {"head", "crashed", "returned", "unreachable"}
    BY <1>10 DEF InfoArrives
  <2>. QED  BY <1>10, <2>1 DEF InfoArrives
<1>11. CASE InfoFails
  <2>1. connected' \in BOOLEAN /\ closed' \in BOOLEAN
    BY <1>11, Zenon DEF InfoFails
  <2>. QED  BY <1>11, <2>1 DEF InfoFails
<1>12. CASE Finally
  <2>1. connected' \in BOOLEAN
    BY <1>12, Zenon DEF Finally
  <2>. QED  BY <1>12, <2>1 DEF Finally
<1>13. CASE OtherCloses
  <2>1. connected' \in BOOLEAN /\ closed' \in BOOLEAN
    BY <1>13, Zenon DEF OtherCloses
  <2>. QED  BY <1>13, <2>1 DEF OtherCloses
<1>14. CASE OtherReopens
  BY <1>14 DEF OtherReopens
<1>15. CASE DeviceMoves
  <2>1. reach' \in BOOLEAN
    BY <1>15, Zenon DEF DeviceMoves
  <2>. QED  BY <1>15, <2>1 DEF DeviceMoves
<1>16. CASE Signal
  BY <1>16 DEF Signal
<1>17. CASE UNCHANGED vars
  BY <1>17 DEF vars
<1>. QED
  BY <1>1, <1>2, <1>3, <1>4, <1>5, <1>6, <1>7, <1>8, <1>9, <1>10, <1>11,
     <1>12, <1>13, <1>14, <1>15, <1>16, <1>17 DEF Next, Proceeds

-----------------------------------------------------------------------------
\* Every step keeps the count and the memory of the outcomes together.
LEMMA StreakStep ==
  ASSUME PollingAssumption, TypeOK, Streak, [Next]_vars PROVE Streak'
<1>. USE DEF Streak, Keeps, parameters, environment
<1>0. /\ maxErrors \in 0..History /\ errors \in 0..History
      /\ History \in Nat /\ History >= 1
      /\ maxErrors = 0 \/ errors < maxErrors
           \/ (errors = maxErrors /\ pc \in {"failed", "raised", "exit"})
  BY DEF PollingAssumption, TypeOK
<1>1. ASSUME Failed, pc = "poll", UNCHANGED parameters PROVE Streak'
  <2>1. SUFFICES ASSUME program # "wait" PROVE Streak'
    BY <1>1
  <2>2. /\ recent'[1] = "failed" /\ pc' = "failed"
        /\ \A i \in 1..History : i > 1 => recent'[i] = recent[i - 1]
    BY <1>1, <2>1, Remembers DEF Failed
  <2>3. errors' = OneMore
    BY <1>1, <2>1 DEF Failed
  <2>4. \A i \in 1..errors' : recent'[i] = "failed"
    <3>1. SUFFICES ASSUME NEW i \in 1..errors' PROVE recent'[i] = "failed"
      OBVIOUS
    <3>2. CASE i = 1
      BY <2>2, <3>2
    <3>3. CASE i > 1
      BY <1>0, <2>1, <2>2, <2>3, <3>3 DEF OneMore
    <3>. QED  BY <1>0, <2>3, <3>2, <3>3 DEF OneMore
  <2>5. errors' < History => recent'[errors' + 1] # "failed"
    <3>1. SUFFICES ASSUME errors' < History
                   PROVE  recent'[errors' + 1] # "failed"
      OBVIOUS
    <3>2. errors' = errors + 1
      BY <1>0, <2>3, <3>1 DEF OneMore
    <3>3. /\ errors' + 1 \in 1..History /\ errors' + 1 > 1
          /\ (errors' + 1) - 1 = errors + 1
      BY <1>0, <3>1, <3>2
    <3>. QED  BY <1>0, <2>1, <2>2, <3>1, <3>2, <3>3
  <2>. QED  BY <2>2, <2>4, <2>5, <1>1
<1>2. CASE PollFails
  BY <1>1, <1>2 DEF PollFails
<1>3. ASSUME NEW p \in DataPayloads, Answered(p) PROVE Streak'
  <2>1. CASE Failed
    BY <1>1, <1>3, <2>1 DEF Answered
  <2>2. CASE program = "wait"
    BY <1>3, <2>2 DEF Answered
  <2>3. CASE Sampled(p)
    <3>1. recent'[1] = "ok"
      BY <2>3, Remembers DEF Sampled
    <3>. QED  BY <1>0, <2>3, <3>1 DEF Sampled
  <2>. QED  BY <1>3, <2>1, <2>2, <2>3 DEF Answered
<1>4. CASE AfterError
  BY <1>0, <1>4 DEF AfterError, Rest
<1>5. CASE LoopHead
  BY <1>5 DEF LoopHead
<1>6. CASE \/ Yields \/ ConsumerShows \/ ConsumerResumes \/ ConsumerLeaves
           \/ Wakes
  BY <1>6 DEF Yields, ConsumerShows, ConsumerResumes, ConsumerLeaves, Wakes,
      Rest
<1>7. CASE Tick
  BY <1>7 DEF Tick
<1>8. ASSUME NEW p \in InfoPayloads, InfoArrives(p) PROVE Streak'
  <2>1. pc' # "raised"
    BY <1>8 DEF InfoArrives
  <2>. QED  BY <1>8, <2>1 DEF InfoArrives
<1>9. CASE InfoFails \/ Finally
  BY <1>9 DEF InfoFails, Finally
<1>10. CASE OtherCloses \/ OtherReopens \/ DeviceMoves \/ Signal
  BY <1>10 DEF OtherCloses, OtherReopens, DeviceMoves, Signal
<1>11. CASE UNCHANGED vars
  BY <1>11 DEF vars
<1>. QED
  BY <1>2, <1>3, <1>4, <1>5, <1>6, <1>7, <1>8, <1>9, <1>10, <1>11
  DEF Next, Proceeds

\* Every step keeps what is known of the deadline.
LEMMA DeadlineStep ==
  ASSUME PollingAssumption, TypeOK, Deadline, [Next]_vars PROVE Deadline'
<1>. USE DEF Deadline, Keeps, parameters, environment
<1>0. /\ PollTicks \in Nat /\ left \in Int /\ since \in Nat /\ nap \in Nat
      /\ interval \in Nat
  BY DEF PollingAssumption, TypeOK
<1>1. program' = program
  BY DEF Next, Proceeds, vars, LoopHead, PollFails, AfterError, Yields,
         ConsumerShows, ConsumerResumes, ConsumerLeaves, Wakes, Tick,
         InfoFails, Finally, Answered, InfoArrives, OtherCloses, OtherReopens,
         DeviceMoves, Signal
<1>2. SUFFICES ASSUME program = "wait" PROVE Deadline'
  BY <1>1
<1>3. CASE LoopHead
  BY <1>0, <1>2, <1>3 DEF LoopHead
<1>4. CASE PollFails
  BY <1>0, <1>2, <1>4 DEF PollFails, Failed
<1>5. ASSUME NEW p \in DataPayloads, Answered(p) PROVE Deadline'
  <2>1. CASE Failed
    BY <1>0, <1>2, <1>5, <2>1 DEF Answered, Failed
  <2>2. CASE Awaits(p)
    <3>1. /\ pc' \in {"returned", "timedout", "sleep"}
          /\ pc' = "sleep" => nap' <= left
          /\ pc' = "timedout" => left <= 0
      BY <1>0, <2>2 DEF Awaits, Shorter
    <3>2. left' = left /\ left >= -PollTicks
      BY <1>2, <1>5 DEF Answered
    <3>. QED  BY <3>1, <3>2
  <2>. QED  BY <1>2, <1>5, <2>1, <2>2 DEF Answered
<1>6. CASE Tick
  BY <1>0, <1>2, <1>6 DEF Tick
<1>7. CASE Wakes
  BY <1>0, <1>2, <1>7 DEF Wakes
<1>8. CASE \/ AfterError \/ Yields
           \/ ConsumerShows \/ ConsumerResumes \/ ConsumerLeaves
  BY <1>2, <1>8 DEF AfterError, Yields, ConsumerShows, ConsumerResumes,
      ConsumerLeaves
<1>9. ASSUME NEW p \in InfoPayloads, InfoArrives(p) PROVE Deadline'
  BY <1>2, <1>9 DEF InfoArrives
<1>10. CASE InfoFails \/ Finally
  BY <1>2, <1>10 DEF InfoFails, Finally
<1>11. CASE OtherCloses \/ OtherReopens \/ DeviceMoves \/ Signal
  BY <1>2, <1>11 DEF OtherCloses, OtherReopens, DeviceMoves, Signal
<1>12. CASE UNCHANGED vars
  BY <1>2, <1>12 DEF vars
<1>. QED
  BY <1>3, <1>4, <1>5, <1>6, <1>7, <1>8, <1>9, <1>10, <1>11, <1>12
  DEF Next, Proceeds

\* Every step keeps what is known of the clock of a round.
LEMMA PaceStep ==
  ASSUME PollingAssumption, TypeOK, Pace, [Next]_vars PROVE Pace'
<1>. USE DEF Pace, Within, Keeps, parameters, environment
<1>0. /\ PollTicks \in Nat /\ ConsumerTicks \in Nat /\ since \in Nat
      /\ nap \in Nat /\ interval \in Nat
  BY DEF PollingAssumption, TypeOK
<1>1. program' = program /\ interval' = interval
  BY DEF Next, Proceeds, vars, LoopHead, PollFails, AfterError, Yields,
         ConsumerShows, ConsumerResumes, ConsumerLeaves, Wakes, Tick,
         InfoFails, Finally, Answered, InfoArrives, OtherCloses, OtherReopens,
         DeviceMoves, Signal
<1>2. SUFFICES ASSUME program # "wait" PROVE Pace'
  BY <1>1
<1>3. CASE LoopHead
  BY <1>0, <1>2, <1>3 DEF LoopHead
<1>4. CASE PollFails
  BY <1>0, <1>2, <1>4 DEF PollFails, Failed
<1>5. ASSUME NEW p \in DataPayloads, Answered(p) PROVE Pace'
  BY <1>0, <1>2, <1>5 DEF Answered, Failed, Sampled
<1>6. CASE Tick
  BY <1>0, <1>1, <1>2, <1>6 DEF Tick
<1>7. CASE Wakes
  BY <1>0, <1>1, <1>2, <1>7 DEF Wakes
<1>8. CASE AfterError
  BY <1>0, <1>1, <1>2, <1>8 DEF AfterError, Rest
<1>9. CASE ConsumerResumes
  BY <1>0, <1>1, <1>2, <1>9 DEF ConsumerResumes, Rest
<1>10. CASE Yields \/ ConsumerShows \/ ConsumerLeaves
  BY <1>0, <1>2, <1>10 DEF Yields, ConsumerShows, ConsumerLeaves
<1>11. ASSUME NEW p \in InfoPayloads, InfoArrives(p) PROVE Pace'
  <2>1. pc' \in {"head", "crashed", "returned", "unreachable"}
    BY <1>11 DEF InfoArrives
  <2>. QED  BY <1>2, <1>11, <2>1 DEF InfoArrives
<1>12. CASE InfoFails \/ Finally
  BY <1>2, <1>12 DEF InfoFails, Finally
<1>13. CASE OtherCloses \/ OtherReopens \/ DeviceMoves \/ Signal
  BY <1>1, <1>2, <1>13 DEF OtherCloses, OtherReopens, DeviceMoves, Signal
<1>14. CASE UNCHANGED vars
  BY <1>1, <1>2, <1>14 DEF vars
<1>. QED
  BY <1>3, <1>4, <1>5, <1>6, <1>7, <1>8, <1>9, <1>10, <1>11, <1>12, <1>13,
     <1>14 DEF Next, Proceeds

\* The invariant holds at first.
LEMMA InvInit == ASSUME PollingAssumption, Init PROVE Inv
<1>1. TypeOK
  BY TypeInit
<1>2. /\ History \in Nat /\ History >= 1
      /\ PollTicks \in Nat /\ Timeouts \subseteq Nat
  BY DEF PollingAssumption
<1>3. Streak
  BY <1>2 DEF Init, Streak
<1>4. Deadline
  BY <1>2 DEF Init, Deadline
<1>5. Pace
  BY <1>2 DEF Init, Pace
<1>. QED  BY <1>1, <1>3, <1>4, <1>5 DEF Inv

\* The invariant holds always.
LEMMA Invariance == Spec => []Inv
<1>1. Init => Inv
  BY InvInit, PollingAssumption
<1>2. Inv /\ [Next]_vars => Inv'
  BY TypeStep, StreakStep, DeadlineStep, PaceStep,
     PollingAssumption DEF Inv
<1>. QED  BY <1>1, <1>2, PTL DEF Spec

-----------------------------------------------------------------------------
\* Every variable keeps its type, and the errors their limit.
THEOREM TypeCorrect == Spec => []TypeOK
BY Invariance, PTL DEF Inv

\* A stream raises exactly on max_errors failed polls in a row.
THEOREM RaisesExactlyOnStreak == Spec => []RaisesOnStreak
<1>1. Inv => RaisesOnStreak
  <2>1. SUFFICES ASSUME Inv, program \in {"stream", "dashboard"}
                 PROVE  RaisesOnStreak
    BY DEF RaisesOnStreak
  <2>2. /\ maxErrors \in 0..History /\ errors \in 0..History
        /\ History \in Nat
    BY <2>1, PollingAssumption DEF Inv, TypeOK, PollingAssumption
  <2>3. pc = "raised" =>
          maxErrors > 0 /\ \A i \in 1..maxErrors : recent[i] = "failed"
    BY <2>1, <2>2 DEF Inv, Streak
  <2>4. ASSUME pc \in {"head", "poll", "sleep"}, maxErrors > 0
        PROVE  \E i \in 1..maxErrors : recent[i] # "failed"
    <3>1. errors < maxErrors
      BY <2>1, <2>2, <2>4 DEF Inv, TypeOK
    <3>2. errors + 1 \in 1..maxErrors /\ recent[errors + 1] # "failed"
      BY <2>1, <2>2, <3>1 DEF Inv, Streak
    <3>. QED  BY <3>2
  <2>. QED  BY <2>3, <2>4 DEF RaisesOnStreak
<1>. QED  BY <1>1, Invariance, PTL

\* What the state word says bit by bit is what its bytes say.
LEMMA ReadyBits ==
  ASSUME NEW p \in Seq(0..255), Len(p) = 47
  PROVE  is_ready(decode_system_state(p, 39)) <=> ReportsReady(p)
<1>0. p[40] \in 0..255 /\ p[42] \in 0..255 /\ p[43] \in 0..255
  <2>1. PICK B : B = 0..255
    OBVIOUS
  <2>2. p \in Seq(B)
    BY <2>1
  <2>3. \A S : \A q \in Seq(S) : \A i \in 1..Len(q) : q[i] \in S
    OBVIOUS
  <2>4. p[40] \in B /\ p[42] \in B /\ p[43] \in B
    <3>1. \A i \in 1..Len(p) : p[i] \in B
      BY <2>2, <2>3, Zenon
    <3>2. 40 \in 1..Len(p) /\ 42 \in 1..Len(p) /\ 43 \in 1..Len(p)
      OBVIOUS
    <3> QED
      BY <3>1, <3>2, Zenon
  <2> QED
    BY <2>1, <2>4, Zenon
<1>1. PICK a \in 0..255 : a = p[40]
  BY <1>0
<1>2. PICK b \in 0..255 : b = p[42]
  BY <1>0
<1>3. PICK c \in 0..255 : c = p[43]
  BY <1>0
<1>4. /\ 2^0 = 1 /\ 2^1 = 2 /\ 2^2 = 4 /\ 2^3 = 8 /\ 2^4 = 16 /\ 2^5 = 32
      /\ 2^6 = 64
  OBVIOUS
<1>5. /\ Flag(p, 39, 0) <=> a % 2 = 1
      /\ Flag(p, 39, 1) <=> (a \div 2) % 2 = 1
      /\ Flag(p, 39, 2) <=> (a \div 4) % 2 = 1
  <2>1. /\ 39 + 0 \div 8 + 1 = 40 /\ 0 % 8 = 0
        /\ 39 + 1 \div 8 + 1 = 40 /\ 1 % 8 = 1
        /\ 39 + 2 \div 8 + 1 = 40 /\ 2 % 8 = 2
    OBVIOUS
  <2> QED
    BY <1>1, <1>4, <2>1 DEF Flag, Bit
<1>6. /\ Flag(p, 39, 17) <=> (b \div 2) % 2 = 1
      /\ Flag(p, 39, 18) <=> (b \div 4) % 2 = 1
      /\ Flag(p, 39, 19) <=> (b \div 8) % 2 = 1
      /\ Flag(p, 39, 20) <=> (b \div 16) % 2 = 1
      /\ Flag(p, 39, 21) <=> (b \div 32) % 2 = 1
      /\ Flag(p, 39, 22) <=> (b \div 64) % 2 = 1
  <2>1. /\ 39 + 17 \div 8 + 1 = 42 /\ 17 % 8 = 1
        /\ 39 + 18 \div 8 + 1 = 42 /\ 18 % 8 = 2
        /\ 39 + 19 \div 8 + 1 = 42 /\ 19 % 8 = 3
        /\ 39 + 20 \div 8 + 1 = 42 /\ 20 % 8 = 4
        /\ 39 + 21 \div 8 + 1 = 42 /\ 21 % 8 = 5
        /\ 39 + 22 \div 8 + 1 = 42 /\ 22 % 8 = 6
    OBVIOUS
  <2> QED
    BY <1>2, <1>4, <2>1 DEF Flag, Bit
<1>7. Flag(p, 39, 30) <=> (c \div 64) % 2 = 1
  <2>1. 39 + 30 \div 8 + 1 = 43 /\ 30 % 8 = 6
    OBVIOUS
  <2> QED
    BY <1>3, <1>4, <2>1 DEF Flag, Bit
<1>8. a % 8 = 0 <=>
        a % 2 # 1 /\ (a \div 2) % 2 # 1 /\ (a \div 4) % 2 # 1
  OBVIOUS
<1>9. (b \div 2) % 64 = 0 <=>
        /\ (b \div 2) % 2 # 1 /\ (b \div 4) % 2 # 1 /\ (b \div 8) % 2 # 1
        /\ (b \div 16) % 2 # 1 /\ (b \div 32) % 2 # 1 /\ (b \div 64) % 2 # 1
  OBVIOUS
<1>10. is_ready(decode_system_state(p, 39)) <=>
         /\ Flag(p, 39, 30)
         /\ \A n \in {0, 1, 2} \cup 17..22 : ~Flag(p, 39, n)
  BY DEF is_ready, has_faults, get_active_faults, decode_system_state,
      FAULT_BITS, INITIALIZED
<1>11. (\A n \in {0, 1, 2} \cup 17..22 : ~Flag(p, 39, n)) <=>
         /\ ~Flag(p, 39, 0) /\ ~Flag(p, 39, 1) /\ ~Flag(p, 39, 2)
         /\ ~Flag(p, 39, 17) /\ ~Flag(p, 39, 18) /\ ~Flag(p, 39, 19)
         /\ ~Flag(p, 39, 20) /\ ~Flag(p, 39, 21) /\ ~Flag(p, 39, 22)
  <2>1. \A n \in 17..22 :
          n = 17 \/ n = 18 \/ n = 19 \/ n = 20 \/ n = 21 \/ n = 22
    OBVIOUS
  <2> QED
    BY <2>1
<1>12. ReportsReady(p) <=>
         (c \div 64) % 2 = 1 /\ a % 8 = 0 /\ (b \div 2) % 64 = 0
  BY <1>1, <1>2, <1>3 DEF ReportsReady
<1> QED
  BY <1>5, <1>6, <1>7, <1>8, <1>9, <1>10, <1>11, <1>12

\* A payload that is not refused reports what its parser found.
LEMMA ReadyPayload ==
  ASSUME NEW p \in DataPayloads, MeasurementsOf[p].verdict = "ok"
  PROVE  /\ p # <<>>
         /\ is_ready(MeasurementsOf[p].system_state) <=> ReportsReady(p)
<1>1. MeasurementsOf[p] = parse_device_data(p)
  BY DEF MeasurementsOf
<1>2. Len(p) = 47
  BY <1>1 DEF parse_device_data, DEVICE_DATA_PAYLOAD_SIZE
<1>3. MeasurementsOf[p].system_state = decode_system_state(p, 39)
  <2>1. decode_datetime(p, 21).verdict = "ok"
    BY <1>1, <1>2 DEF parse_device_data, DEVICE_DATA_PAYLOAD_SIZE
  <2> QED
    BY <1>1, <1>2, <2>1 DEF parse_device_data, DEVICE_DATA_PAYLOAD_SIZE
<1>4. p \in Seq(0..255)
  BY PayloadAssumption
<1>5. p # <<>>
  <2>1. Len(<<>>) = 0
    OBVIOUS
  <2>2. p = <<>> => Len(p) = 0
    BY <2>1, Zenon
  <2>3. Len(p) # 0
    BY <1>2
  <2> QED
    BY <2>2, <2>3, Zenon
<1>6. is_ready(decode_system_state(p, 39)) <=> ReportsReady(p)
  BY <1>2, <1>4, ReadyBits, Zenon
<1> QED
  BY <1>3, <1>5, <1>6, Zenon

\* What wait_for_ready knows of its sample at each of its points.
Awaited ==
  program = "wait" =>
    /\ pc \in {"head", "poll"} => payload = <<>>
    /\ pc = "returned" => payload # <<>> /\ ReportsReady(payload)
    /\ pc = "timedout" /\ payload # <<>> => ~ReportsReady(payload)

\* What wait_for_ready returns was ready when it was polled.
LEMMA AwaitedStep ==
  ASSUME Inv, Awaited, [Next]_vars PROVE Awaited'
<1>1. program' = program
  BY DEF Next, Proceeds, vars, LoopHead, PollFails, AfterError, Yields,
         ConsumerShows, ConsumerResumes, ConsumerLeaves, Wakes, Tick,
         InfoFails, Finally, Answered, InfoArrives, OtherCloses, OtherReopens,
         DeviceMoves, Signal,
         Keeps, parameters, environment
<1>. SUFFICES ASSUME program = "wait" PROVE Awaited'
  BY <1>1 DEF Awaited
<1>2. pc \in {"head", "poll", "sleep", "raised", "returned", "timedout"}
  BY DEF Inv, Deadline
<1>. USE DEF Awaited, Keeps, parameters, environment
<1>3. CASE LoopHead
  BY <1>3 DEF LoopHead
<1>4. CASE PollFails
  BY <1>4 DEF PollFails, Failed
<1>5. ASSUME NEW p \in DataPayloads, Answered(p) PROVE Awaited'
  <2>1. CASE Failed
    BY <1>5, <2>1 DEF Answered, Failed
  <2>2. CASE Awaits(p) /\ MeasurementsOf[p].verdict = "ok"
    <3>1. /\ p # <<>>
          /\ is_ready(MeasurementsOf[p].system_state) <=> ReportsReady(p)
      BY <2>2, ReadyPayload
    <3>2. /\ payload' = p
          /\ pc' = IF is_ready(MeasurementsOf[p].system_state) THEN "returned"
                   ELSE IF left <= 0 THEN "timedout" ELSE "sleep"
      BY <2>2 DEF Awaits
    <3>. QED  BY <3>1, <3>2
  <2>. QED  BY <1>5, <2>1, <2>2 DEF Answered
<1>6. CASE Wakes
  BY <1>6 DEF Wakes
<1>7. CASE Tick
  BY <1>7 DEF Tick
<1>8. CASE \/ AfterError \/ Yields
           \/ ConsumerShows \/ ConsumerResumes \/ ConsumerLeaves
  BY <1>2, <1>8 DEF AfterError, Yields, ConsumerShows, ConsumerResumes,
      ConsumerLeaves
<1>9. ASSUME NEW p \in InfoPayloads, InfoArrives(p) PROVE Awaited'
  BY <1>2, <1>9 DEF InfoArrives
<1>10. CASE InfoFails \/ Finally
  BY <1>2, <1>10 DEF InfoFails, Finally
<1>11. CASE OtherCloses \/ OtherReopens \/ DeviceMoves \/ Signal
  BY <1>11 DEF OtherCloses, OtherReopens, DeviceMoves, Signal
<1>12. CASE UNCHANGED vars
  BY <1>12 DEF vars
<1>. QED
  BY <1>3, <1>4, <1>5, <1>6, <1>7, <1>8, <1>9, <1>10, <1>11, <1>12
  DEF Next, Proceeds

\* Whatever the device answers, wait_for_ready returns a sample only if the
\* bytes of its state word say initialised and no fault, and never times out
\* on one that does (client.py:334-361, system_state.py:100-153).
THEOREM WaitsForReady == Spec => []ReadyIsReady
<1>1. Init => Awaited
  BY DEF Init, Awaited
<1>2. Inv /\ Awaited /\ [Next]_vars => Awaited'
  BY AwaitedStep
<1>3. Awaited => ReadyIsReady
  BY DEF Awaited, ReadyIsReady
<1>. QED  BY <1>1, <1>2, <1>3, Invariance, PTL DEF Spec

\* wait_for_ready keeps its deadline up to one poll.
THEOREM DeadlineKept == Spec => []WaitKeepsDeadline
<1>1. Inv => WaitKeepsDeadline
  BY DEF Inv, Deadline, WaitKeepsDeadline
<1>. QED  BY <1>1, Invariance, PTL

\* The polls of a stream keep their distance.
THEOREM PollsPaced == Spec => Paced
<1>1. Inv /\ [Next]_vars =>
        [pc = "head" /\ pc' = "poll" /\ program # "wait" /\ recent[1] # "none"
           => since >= interval
              /\ (since = interval \/ since <= PollTicks + ConsumerTicks)]_vars
  BY DEF Inv, Pace, Within
<1>. QED  BY <1>1, Invariance, PTL DEF Spec, Paced

-----------------------------------------------------------------------------
\* The little-endian word at an offset.
WordAt(data, offset) ==
  data[offset + 1] + 256 * data[offset + 2] + 65536 * data[offset + 3]
    + 16777216 * data[offset + 4]

\* What lies above a byte boundary does not change the bits below it.
LEMMA BitBelow ==
  ASSUME NEW b \in Nat, NEW a \in Nat, \E high \in Nat : a = b + 256 * high,
         NEW j \in 0..7
  PROVE  Shifted(b, j) % 2 = Shifted(a, j) % 2
<1>0. PICK high \in Nat : a = b + 256 * high
  OBVIOUS
<1>1. j \in {0, 1, 2, 3, 4, 5, 6, 7}
  OBVIOUS
<1>2. /\ 2^0 = 1 /\ 2^1 = 2 /\ 2^2 = 4 /\ 2^3 = 8 /\ 2^4 = 16 /\ 2^5 = 32
      /\ 2^6 = 64 /\ 2^7 = 128
  OBVIOUS
<1>3. \A p, q \in Nat \ {0} : p * (2 * q) = 256 =>
        (b \div p) % 2 = (a \div p) % 2
  <2> SUFFICES ASSUME NEW p \in Nat \ {0}, NEW q \in Nat \ {0},
                      p * (2 * q) = 256
               PROVE  (b \div p) % 2 = (a \div p) % 2
    OBVIOUS
  <2>1. PICK d \in Nat, r \in Nat : b = p * d + r /\ r < p /\ d = b \div p
    BY DivFacts
  <2>2. q * high \in Nat
    OBVIOUS
  <2>3. PICK z \in Nat : z = q * high
    BY <2>2
  <2>4. 256 * high = p * (2 * z)
    BY <2>3
  <2>5. a = p * (d + 2 * z) + r
    <3>1. p * (d + 2 * z) = p * d + p * (2 * z)
      OBVIOUS
    <3>2. b + 256 * high = p * d + r + p * (2 * z)
      BY <2>1, <2>4
    <3>3. p * d \in Nat /\ p * (2 * z) \in Nat
      OBVIOUS
    <3>4. p * d + r + p * (2 * z) = p * d + p * (2 * z) + r
      BY <3>3
    <3> QED
      BY <1>0, <3>1, <3>2, <3>4, Zenon
  <2>6. a \div p = d + 2 * z
    <3>1. PICK e \in Nat : e = d + 2 * z
      OBVIOUS
    <3>2. a = p * e + r /\ r < p
      BY <2>1, <2>5, <3>1
    <3>3. a \div p = e
      BY <3>2, DivUnique, Zenon
    <3> QED
      BY <3>1, <3>3, Zenon
  <2>7. (d + 2 * z) % 2 = d % 2
    OBVIOUS
  <2> QED
    BY <2>1, <2>6, <2>7
<1>4. \E q \in Nat \ {0} : 2^j * (2 * q) = 256
  <2>1. PICK p : p = 2^j
    OBVIOUS
  <2>2. \/ p = 1 \/ p = 2 \/ p = 4 \/ p = 8 \/ p = 16 \/ p = 32 \/ p = 64
        \/ p = 128
    <3>1. CASE j = 0
      BY <1>2, <2>1, <3>1
    <3>2. CASE j = 1
      BY <1>2, <2>1, <3>2
    <3>3. CASE j = 2
      BY <1>2, <2>1, <3>3
    <3>4. CASE j = 3
      BY <1>2, <2>1, <3>4
    <3>5. CASE j = 4
      BY <1>2, <2>1, <3>5
    <3>6. CASE j = 5
      BY <1>2, <2>1, <3>6
    <3>7. CASE j = 6
      BY <1>2, <2>1, <3>7
    <3>8. CASE j = 7
      BY <1>2, <2>1, <3>8
    <3> QED
      BY <1>1, <3>1, <3>2, <3>3, <3>4, <3>5, <3>6, <3>7, <3>8
  <2>3. PICK q \in Nat \ {0} :
          <<p, q>> \in {<<1, 128>>, <<2, 64>>, <<4, 32>>, <<8, 16>>,
                       <<16, 8>>, <<32, 4>>, <<64, 2>>, <<128, 1>>}
    BY <2>2
  <2>4. p * (2 * q) = 256
    BY <2>3
  <2> QED
    BY <2>1, <2>4
<1>5. 2^j \in Nat \ {0}
  BY PowerDoubles
<1> QED
  BY <1>3, <1>4, <1>5 DEF Shifted

\* The bits of the decoder are the bits of the word.
LEMMA BitOfWord ==
  ASSUME NEW data, NEW offset \in Nat, NEW n \in 0..31,
         \A i \in 1..4 : data[offset + i] \in Nat /\ data[offset + i] < 256
  PROVE  Bit(data, offset, n) = Shifted(WordAt(data, offset), n) % 2
<1>1. PICK k \in 0..3, j \in 0..7 : n = 8 * k + j /\ n \div 8 = k /\ n % 8 = j
  <2>1. n \div 8 \in 0..3 /\ n % 8 \in 0..7 /\ n = 8 * (n \div 8) + (n % 8)
    OBVIOUS
  <2> QED
    BY <2>1
<1>2. PICK b0 \in Nat, b1 \in Nat, b2 \in Nat, b3 \in Nat :
        /\ b0 = data[offset + 1] /\ b1 = data[offset + 2]
        /\ b2 = data[offset + 3] /\ b3 = data[offset + 4]
        /\ b0 < 256 /\ b1 < 256 /\ b2 < 256 /\ b3 < 256
  <2>1. 1 \in 1..4 /\ 2 \in 1..4 /\ 3 \in 1..4 /\ 4 \in 1..4
    OBVIOUS
  <2> QED
    BY <2>1, Zenon
<1>3. WordAt(data, offset) = b0 + 256 * b1 + 65536 * b2 + 16777216 * b3
  BY <1>2, SMT DEF WordAt
<1>8. PICK w \in Nat : w = WordAt(data, offset)
  BY <1>3, SMT
<1>9. w = b0 + 256 * b1 + 65536 * b2 + 16777216 * b3
  BY <1>3, <1>8, SMT
<1>4. PICK b \in Nat, high \in Nat :
        /\ Shifted(w, 8 * k) = b + 256 * high
        /\ b = data[offset + k + 1]
  <2>1. CASE k = 0
    <3>1. 2^(8 * k) = 1 /\ w \div 1 = w
      BY <2>1
    <3>2. PICK high \in Nat : w = b0 + 256 * high
      <4>1. b1 + 256 * b2 + 65536 * b3 \in Nat
        BY SMT
      <4> QED
        BY <1>9, <4>1, SMT
    <3>3. offset + k + 1 = offset + 1
      BY <2>1
    <3> QED
      BY <1>2, <3>1, <3>2, <3>3 DEF Shifted
  <2>2. CASE k = 1
    <3>1. k = 1 => 2^(8 * k) = 256
      BY SMT
    <3>2. PICK high \in Nat : high = b2 + 256 * b3
      OBVIOUS
    <3>3. b1 + 256 * high \in Nat /\ w = 256 * (b1 + 256 * high) + b0
      BY <1>9, <3>2, SMT
    <3>4. w \div 256 = b1 + 256 * high
      BY <1>2, <3>3, DivUnique, SMT
    <3>5. offset + k + 1 = offset + 2
      BY <2>2
    <3> QED
      BY <1>2, <2>2, <3>1, <3>4, <3>5 DEF Shifted
  <2>3. CASE k = 2
    <3>1. k = 2 => 2^(8 * k) = 65536
      BY SMT
    <3>2. PICK r \in Nat : r = b1 * 256 + b0 /\ r < 65536
      BY <1>2, SMT
    <3>3. b2 + 256 * b3 \in Nat /\ w = 65536 * (b2 + 256 * b3) + r
      BY <1>9, <3>2, SMT
    <3>4. w \div 65536 = b2 + 256 * b3
      BY <3>2, <3>3, DivUnique, SMT
    <3>5. offset + k + 1 = offset + 3
      BY <2>3
    <3>6. Shifted(w, 8 * k) = b2 + 256 * b3
      BY <2>3, <3>1, <3>4, SMT DEF Shifted
    <3> QED
      BY <1>2, <3>5, <3>6
  <2>4. CASE k = 3
    <3>1. k = 3 => 2^(8 * k) = 16777216
      BY SMT
    <3>2. PICK r \in Nat :
            r = b2 * 65536 + b1 * 256 + b0 /\ r < 16777216
      BY <1>2, SMT
    <3>3. w = 16777216 * b3 + r
      BY <1>9, <3>2, SMT
    <3>4. w \div 16777216 = b3 + 256 * 0
      BY <3>2, <3>3, DivUnique, SMT
    <3>5. offset + k + 1 = offset + 4
      BY <2>4
    <3> QED
      BY <1>2, <2>4, <3>1, <3>4, <3>5, SMT DEF Shifted
  <2> QED
    BY <2>1, <2>2, <2>3, <2>4
<1>5. Bit(data, offset, n) = Shifted(b, j) % 2
  <2>1. offset + n \div 8 + 1 = offset + k + 1
    BY <1>1
  <2> QED
    BY <1>1, <1>4, <2>1, Zenon DEF Bit, Shifted
<1>6. Shifted(w, n) = Shifted(Shifted(w, 8 * k), j)
  <2>1. PICK m \in Nat, i \in Nat : m = 8 * k /\ i = j
    OBVIOUS
  <2>2. Shifted(Shifted(w, m), i) = Shifted(w, m + i)
    BY ShiftedTwice
  <2> QED
    BY <1>1, <2>1, <2>2, Zenon
<1>7. Shifted(b, j) % 2 = Shifted(Shifted(w, 8 * k), j) % 2
  BY <1>4, BitBelow
<1> QED
  BY <1>8, <1>4, <1>5, <1>6, <1>7, Zenon

\* The decoder's loop over the bits of a field: the part of the word.
LEMMA FieldOfWord ==
  ASSUME NEW data, NEW offset \in Nat, NEW w \in Nat, NEW low \in Nat,
         NEW width \in Nat,
         \A n \in low..(low + width - 1) :
            Bit(data, offset, n) = Shifted(w, n) % 2
  PROVE  Field(data, offset, low, width) = Shifted(w, low) % 2^width
<1> DEFINE bit(i) == Bit(data, offset, low + i - 1) * 2^(i - 1)
           IsUpTo(f) == f = [i \in 0..width |-> IF i = 0 THEN 0
                                               ELSE f[i - 1] + bit(i)]
<1>1. \A i \in 1..width : bit(i) \in Nat
                          /\ bit(i) = (Shifted(w, low + i - 1) % 2) * 2^(i - 1)
  <2> SUFFICES ASSUME NEW i \in 1..width
               PROVE  /\ bit(i) \in Nat
                      /\ bit(i) = (Shifted(w, low + i - 1) % 2) * 2^(i - 1)
    OBVIOUS
  <2>1. /\ low + i - 1 \in low..(low + width - 1)
        /\ low + i - 1 \in Nat /\ i - 1 \in Nat
    OBVIOUS
  <2>2. PICK p \in Nat : p = 2^(i - 1)
    BY <2>1, PowerDoubles
  <2>3. PICK q \in Nat : q = Shifted(w, low + i - 1)
    BY <2>1, ShiftedTwice
  <2>4. q % 2 \in Nat /\ (q % 2) * p \in Nat
    OBVIOUS
  <2> QED
    BY <2>1, <2>2, <2>3, <2>4
<1>2. \E f : IsUpTo(f)
  <2> DEFINE step == [i \in 1..width |-> [x \in Nat |-> x + bit(i)]]
  <2>0. \A i \in 1..width : \A x \in Nat : x + bit(i) \in Nat
    <3> HIDE DEF bit
    <3> QED
      BY <1>1
  <2>1. step \in [1..width -> [Nat -> Nat]]
    <3> HIDE DEF bit
    <3> QED
      BY <2>0
  <2>2. \A i \in 1..width : \A x \in Nat : step[i][x] = x + bit(i)
    OBVIOUS
  <2> HIDE DEF bit, step
  <2>3. PICK f : TakesSteps(f, width, Nat, 0, step)
    <3>1. 0 \in Nat
      OBVIOUS
    <3> QED
      BY <2>1, <3>1, Stepwise, Zenon
  <2>4. /\ f \in [0..width -> Nat] /\ f[0] = 0
        /\ \A i \in 1..width : f[i] = step[i][f[i - 1]]
    BY <2>3 DEF TakesSteps
  <2>5. \A i \in 1..width : f[i] = f[i - 1] + bit(i)
    <3> SUFFICES ASSUME NEW i \in 1..width PROVE f[i] = f[i - 1] + bit(i)
      OBVIOUS
    <3>1. i - 1 \in 0..width
      OBVIOUS
    <3>2. f[i - 1] \in Nat
      BY <2>4, <3>1
    <3> QED
      BY <2>2, <2>4, <3>2
  <2>6. f = [i \in 0..width |-> IF i = 0 THEN 0 ELSE f[i - 1] + bit(i)]
    <3>1. \A i \in 0..width : i = 0 \/ i \in 1..width
      OBVIOUS
    <3>2. f = [i \in 0..width |-> f[i]]
      BY <2>4
    <3> QED
      BY <2>4, <2>5, <3>1, <3>2
  <2> QED
    BY <2>6
<1>3. PICK f : f = CHOOSE g : IsUpTo(g)
  OBVIOUS
<1>4. Field(data, offset, low, width) = f[width]
  BY <1>3, Zenon DEF Field
<1>5. IsUpTo(f)
  <2> HIDE DEF IsUpTo
  <2> QED
    BY <1>2, <1>3, Zenon
<1>6. f[0] = 0 /\ \A i \in 1..width : f[i] = f[i - 1] + bit(i)
  <2> HIDE DEF bit
  <2> QED
    BY <1>5
<1>7. PICK a \in Nat : a = Shifted(w, low)
  BY ShiftedTwice
<1> DEFINE S == {i \in Nat : i <= width =>
                   /\ f[i] \in Nat /\ f[i] < 2^i
                   /\ a = 2^i * Shifted(a, i) + f[i]}
<1>8. 0 \in S
  <2>1. 2^0 = 1 /\ a \div 1 = a
    OBVIOUS
  <2> QED
    BY <1>6, <2>1 DEF Shifted
<1>9. ASSUME NEW i \in Nat, i \in S
      PROVE  i + 1 \in S
  <2> SUFFICES ASSUME i + 1 <= width
               PROVE  /\ f[i + 1] \in Nat /\ f[i + 1] < 2^(i + 1)
                      /\ a = 2^(i + 1) * Shifted(a, i + 1) + f[i + 1]
    OBVIOUS
  <2>1. i + 1 \in 1..width /\ (i + 1) - 1 = i /\ i <= width
        /\ low + (i + 1) - 1 = low + i
    OBVIOUS
  <2>2. PICK p \in Nat \ {0} : p = 2^i /\ 2^(i + 1) = 2 * p
    BY PowerDoubles
  <2>3. PICK q \in Nat : q = Shifted(a, i) /\ q = Shifted(w, low + i)
    <3>1. Shifted(Shifted(w, low), i) = Shifted(w, low + i)
      BY ShiftedTwice
    <3>2. Shifted(a, i) \in Nat
      BY ShiftedTwice
    <3> QED
      BY <1>7, <3>1, <3>2, Zenon
  <2>4. PICK x \in Nat : x = f[i] /\ x < p /\ a = p * q + x
    BY <1>9, <2>1, <2>2, <2>3
  <2>5. PICK h \in Nat, b \in 0..1 : q = 2 * h + b /\ h = q \div 2 /\ b = q % 2
    <3>1. q \div 2 \in Nat /\ q % 2 \in 0..1 /\ q = 2 * (q \div 2) + (q % 2)
      OBVIOUS
    <3> QED
      BY <3>1
  <2>6. bit(i + 1) = b * p
    <3> HIDE DEF bit
    <3> QED
      BY <1>1, <2>1, <2>2, <2>3, <2>5
  <2>7. f[i + 1] = x + b * p
    <3> HIDE DEF bit
    <3> QED
      BY <1>6, <2>1, <2>4, <2>6
  <2>8. PICK y \in Nat : y = x + b * p /\ y < 2 * p
    <3>1. b = 0 \/ b = 1
      OBVIOUS
    <3> QED
      BY <2>4, <3>1
  <2>9. a = (2 * p) * h + y
    <3>1. p * (2 * h + b) = (2 * p) * h + b * p
      OBVIOUS
    <3> QED
      BY <2>4, <2>5, <2>8, <3>1
  <2>10. 2 * p \in Nat \ {0}
    OBVIOUS
  <2>11. a \div (2 * p) = h
    BY <2>8, <2>9, <2>10, DivUnique
  <2> QED
    BY <2>2, <2>7, <2>8, <2>9, <2>11, Zenon DEF Shifted
<1>10. width \in S
  <2> HIDE DEF S
  <2> QED
    BY <1>8, <1>9, Inductive
<1>11. f[width] \in Nat /\ f[width] < 2^width
       /\ a = 2^width * Shifted(a, width) + f[width]
  BY <1>10
<1>12. a % 2^width = f[width]
  <2>1. PICK p \in Nat \ {0} : p = 2^width
    BY PowerDoubles
  <2>2. PICK x \in Nat : x = f[width] /\ x < p
    BY <1>11, <2>1
  <2>3. PICK q \in Nat : q = Shifted(a, width)
    BY ShiftedTwice
  <2>4. a = p * q + x
    BY <1>11, <2>1, <2>2, <2>3
  <2> QED
    BY <2>1, <2>2, <2>4, DivUnique
<1> QED
  BY <1>4, <1>7, <1>12, Zenon

Power(n) == 2^n

\* The powers of two at which the fields of a clock begin and end.
LEMMA Powers ==
  /\ Power(0) = 1 /\ Power(3) = 8 /\ Power(4) = 16 /\ Power(5) = 32
  /\ Power(6) = 64 /\ Power(8) = 256 /\ Power(11) = 2048 /\ Power(12) = 4096
  /\ Power(13) = 8192 /\ Power(17) = 131072 /\ Power(2) = 4
  /\ Power(20) = 1048576 /\ Power(30) = 1073741824
BY SMT DEF Power

\* b is the part of w that begins at bit low and has the given width; a is what
\* lies below it, c what lies above. The powers are named for the provers.
Holds(w, low, width, a, b, c, p, q) ==
  /\ low \in Nat /\ width \in Nat /\ low + width <= 32
  /\ p = Power(low) /\ q = Power(width)
  /\ w = a + p * (b + q * c)
  /\ a \in Nat /\ b \in Nat /\ c \in Nat /\ a < p /\ b < q

AreBytes(data, offset) ==
  \A i \in 1..4 : data[offset + i] \in Nat /\ data[offset + i] < 256

\* A field that the word holds is what the decoder reads.
LEMMA WordFacts ==
  ASSUME NEW data, NEW offset \in Nat, AreBytes(data, offset)
  PROVE  /\ WordAt(data, offset) \in Nat
         /\ \A low, width, a, b, c, p, q :
              Holds(WordAt(data, offset), low, width, a, b, c, p, q) =>
                Field(data, offset, low, width) = b
<1>1. PICK b0 \in Nat, b1 \in Nat, b2 \in Nat, b3 \in Nat :
        /\ b0 = data[offset + 1] /\ b1 = data[offset + 2]
        /\ b2 = data[offset + 3] /\ b3 = data[offset + 4]
  <2>1. 1 \in 1..4 /\ 2 \in 1..4 /\ 3 \in 1..4 /\ 4 \in 1..4
    OBVIOUS
  <2> QED
    BY <2>1, Zenon DEF AreBytes
<1>2. PICK w \in Nat : w = WordAt(data, offset)
  BY <1>1, SMT DEF WordAt
<1>3. ASSUME NEW low, NEW width, NEW a, NEW b, NEW c, NEW p, NEW q,
             Holds(w, low, width, a, b, c, p, q)
      PROVE  Field(data, offset, low, width) = b
  <2>1. low \in Nat /\ width \in Nat /\ low + width <= 32 /\ b \in Nat
    BY <1>3, Zenon DEF Holds
  <2>2. \A n \in low..(low + width - 1) :
          Bit(data, offset, n) = Shifted(w, n) % 2
    <3>1. \A n \in low..(low + width - 1) : n \in 0..31
      BY <2>1
    <3> QED
      BY <1>2, <3>1, BitOfWord, Zenon DEF AreBytes
  <2>3. Field(data, offset, low, width) = Shifted(w, low) % 2^width
    BY <2>1, <2>2, FieldOfWord
  <2>4. /\ p = 2^low /\ q = 2^width /\ a \in Nat /\ c \in Nat
        /\ w = a + p * (b + q * c) /\ a < p /\ b < q
    BY <1>3, Zenon DEF Holds, Power
  <2>5. p \in Nat \ {0} /\ q \in Nat \ {0}
    BY <2>1, <2>4, PowerDoubles
  <2>7. PICK x \in Nat : x = b + q * c
    <3>1. q * c \in Nat
      BY <2>4, <2>5
    <3> QED
      BY <2>1, <3>1
  <2>8. p * x + a = w
    <3>1. p * x \in Nat /\ w = a + p * x
      BY <2>4, <2>5, <2>7
    <3> QED
      BY <2>4, <3>1
  <2>9. w \div p = x
    BY <2>4, <2>5, <2>8, DivUnique, Zenon
  <2>10. q * c + b = x
    <3>1. q * c \in Nat
      BY <2>4, <2>5
    <3> QED
      BY <2>1, <2>7, <3>1
  <2>11. x % q = b
    BY <2>1, <2>4, <2>5, <2>10, DivUnique, Zenon
  <2> QED
    BY <2>3, <2>4, <2>9, <2>11, Zenon DEF Shifted
<1> QED
  BY <1>2, <1>3, Zenon

Below(n) == {i \in Nat : i < n}

\* All that the bit fields can hold.
AllTimes == [hours : Below(32), minutes : Below(64), seconds : Below(64),
             milliseconds : Below(8192), daylight : Below(4)]
AllDates == [day_of_week : Below(8), day : Below(32), month : Below(16),
             year : Below(1048576)]

\* The sum of the fields at their places.
TimeWord(t) ==
  t.hours + 32 * t.minutes + 2048 * t.seconds + 131072 * t.milliseconds
    + 1073741824 * t.daylight
DateWord(d) == d.day_of_week + 8 * d.day + 256 * d.month + 4096 * d.year

\* The time in a word.
LEMMA TimeInWord ==
  ASSUME NEW data, NEW offset \in Nat, AreBytes(data, offset),
         NEW t \in AllTimes, WordAt(data, offset) = TimeWord(t)
  PROVE  decode_time(data, offset) = t
<1>0. PICK h \in Nat, m \in Nat, s \in Nat, ms \in Nat, dl \in Nat :
        t = [hours |-> h, minutes |-> m, seconds |-> s,
             milliseconds |-> ms, daylight |-> dl]
  BY DEF AllTimes, Below
<1>8. h < 32 /\ m < 64 /\ s < 64 /\ ms < 8192 /\ dl < 4
  BY <1>0, SMT DEF AllTimes, Below
<1>1. PICK w \in Nat : w = WordAt(data, offset)
  BY WordFacts
<1>2. w = h + 32 * m + 2048 * s + 131072 * ms + 1073741824 * dl
  BY <1>0, <1>1, SMT DEF TimeWord
<1>3. Field(data, offset, 0, 5) = h
  <2>1. PICK a \in Nat, c \in Nat :
          /\ a = 0
          /\ c = m + 64 * s + 4096 * ms + 33554432 * dl
    BY SMT
  <2>2. Holds(w, 0, 5, a, h, c, 1, 32)
    BY <1>8, <1>2, <2>1, Powers, SMT DEF Holds
  <2> QED
    BY <1>1, <2>2, WordFacts, SMT
<1>4. Field(data, offset, 5, 6) = m
  <2>1. PICK a \in Nat, c \in Nat :
          /\ a = h
          /\ c = s + 64 * ms + 524288 * dl
    BY SMT
  <2>2. Holds(w, 5, 6, a, m, c, 32, 64)
    BY <1>8, <1>2, <2>1, Powers, SMT DEF Holds
  <2> QED
    BY <1>1, <2>2, WordFacts, SMT
<1>5. Field(data, offset, 11, 6) = s
  <2>1. PICK a \in Nat, c \in Nat :
          /\ a = h + 32 * m
          /\ c = ms + 8192 * dl
    BY SMT
  <2>2. Holds(w, 11, 6, a, s, c, 2048, 64)
    BY <1>8, <1>2, <2>1, Powers, SMT DEF Holds
  <2> QED
    BY <1>1, <2>2, WordFacts, SMT
<1>6. Field(data, offset, 17, 13) = ms
  <2>1. PICK a \in Nat, c \in Nat :
          /\ a = h + 32 * m + 2048 * s
          /\ c = dl
    BY SMT
  <2>2. Holds(w, 17, 13, a, ms, c, 131072, 8192)
    BY <1>8, <1>2, <2>1, Powers, SMT DEF Holds
  <2> QED
    BY <1>1, <2>2, WordFacts, SMT
<1>7. Field(data, offset, 30, 2) = dl
  <2>1. PICK a \in Nat, c \in Nat :
          /\ a = h + 32 * m + 2048 * s + 131072 * ms
          /\ c = 0
    BY SMT
  <2>2. Holds(w, 30, 2, a, dl, c, 1073741824, 4)
    BY <1>8, <1>2, <2>1, Powers, SMT DEF Holds
  <2> QED
    BY <1>1, <2>2, WordFacts, SMT
<1> QED
  BY <1>0, <1>3, <1>4, <1>5, <1>6, <1>7, Zenon DEF decode_time

\* A date in a word is decoded to that date.
LEMMA DateInWord ==
  ASSUME NEW data, NEW offset \in Nat, AreBytes(data, offset),
         NEW d \in AllDates, WordAt(data, offset) = DateWord(d)
  PROVE  decode_date(data, offset) = d
<1>0. PICK dow \in Nat, day \in Nat, month \in Nat, year \in Nat :
        d = [day_of_week |-> dow, day |-> day, month |-> month, year |-> year]
  BY DEF AllDates, Below
<1>8. dow < 8 /\ day < 32 /\ month < 16 /\ year < 1048576
  BY <1>0, SMT DEF AllDates, Below
<1>1. PICK w \in Nat : w = WordAt(data, offset)
  BY WordFacts
<1>2. w = dow + 8 * day + 256 * month + 4096 * year
  BY <1>0, <1>1, SMT DEF DateWord
<1>3. Field(data, offset, 0, 3) = dow
  <2>1. PICK a \in Nat, c \in Nat :
          /\ a = 0
          /\ c = day + 32 * month + 512 * year
    BY SMT
  <2>2. Holds(w, 0, 3, a, dow, c, 1, 8)
    BY <1>8, <1>2, <2>1, Powers, SMT DEF Holds
  <2> QED
    BY <1>1, <2>2, WordFacts, SMT
<1>4. Field(data, offset, 3, 5) = day
  <2>1. PICK a \in Nat, c \in Nat :
          /\ a = dow
          /\ c = month + 16 * year
    BY SMT
  <2>2. Holds(w, 3, 5, a, day, c, 8, 32)
    BY <1>8, <1>2, <2>1, Powers, SMT DEF Holds
  <2> QED
    BY <1>1, <2>2, WordFacts, SMT
<1>5. Field(data, offset, 8, 4) = month
  <2>1. PICK a \in Nat, c \in Nat :
          /\ a = dow + 8 * day
          /\ c = year
    BY SMT
  <2>2. Holds(w, 8, 4, a, month, c, 256, 16)
    BY <1>8, <1>2, <2>1, Powers, SMT DEF Holds
  <2> QED
    BY <1>1, <2>2, WordFacts, SMT
<1>6. Field(data, offset, 12, 20) = year
  <2>1. PICK a \in Nat, c \in Nat :
          /\ a = dow + 8 * day + 256 * month
          /\ c = 0
    BY SMT
  <2>2. Holds(w, 12, 20, a, year, c, 4096, 1048576)
    BY <1>8, <1>2, <2>1, Powers, SMT DEF Holds
  <2> QED
    BY <1>1, <2>2, WordFacts, SMT
<1> QED
  BY <1>0, <1>3, <1>4, <1>5, <1>6, Zenon DEF decode_date

\* Four bytes, and their word.
AreFour(b0, b1, b2, b3) ==
  /\ b0 \in Nat /\ b1 \in Nat /\ b2 \in Nat /\ b3 \in Nat
  /\ b0 < 256 /\ b1 < 256 /\ b2 < 256 /\ b3 < 256
WordOf(b0, b1, b2, b3) == b0 + 256 * b1 + 65536 * b2 + 16777216 * b3

\* The bytes at an offset are those of a tuple.
Carries(data, offset, bytes) == \A i \in 1..4 : data[offset + i] = bytes[i]

\* Four bytes in the payload are the word at their offset.
LEMMA FourBytes ==
  ASSUME NEW data, NEW offset \in Nat, NEW b0, NEW b1, NEW b2, NEW b3,
         AreFour(b0, b1, b2, b3), Carries(data, offset, <<b0, b1, b2, b3>>)
  PROVE  /\ AreBytes(data, offset)
         /\ WordAt(data, offset) = WordOf(b0, b1, b2, b3)
<1>1. /\ data[offset + 1] = b0 /\ data[offset + 2] = b1
      /\ data[offset + 3] = b2 /\ data[offset + 4] = b3
  <2>1. 1 \in 1..4 /\ 2 \in 1..4 /\ 3 \in 1..4 /\ 4 \in 1..4
    OBVIOUS
  <2> QED
    BY <2>1 DEF Carries
<1>2. AreBytes(data, offset)
  <2>1. \A i \in 1..4 : i = 1 \/ i = 2 \/ i = 3 \/ i = 4
    OBVIOUS
  <2> QED
    BY <1>1, <2>1 DEF AreBytes, AreFour
<1> QED
  BY <1>1, <1>2, SMT DEF WordAt, WordOf

\* The bytes of a packed time are those of its word.
LEMMA TimePacks ==
  ASSUME NEW t \in AllTimes
  PROVE  \E b0, b1, b2, b3 :
           /\ AreFour(b0, b1, b2, b3)
           /\ PackedTime(t) = <<b0, b1, b2, b3>>
           /\ TimeWord(t) = WordOf(b0, b1, b2, b3)
<1>1. PICK h \in Nat, m \in Nat, s \in Nat, ms \in Nat, dl \in Nat :
        /\ h = t.hours /\ m = t.minutes /\ s = t.seconds
        /\ ms = t.milliseconds /\ dl = t.daylight
  BY DEF AllTimes, Below
<1>2. h < 32 /\ m < 64 /\ s < 64 /\ ms < 8192 /\ dl < 4
  BY <1>1, SMT DEF AllTimes, Below
<1>3. PICK m1 \in Nat, m0 \in Nat, s1 \in Nat, s0 \in Nat,
           n1 \in Nat, n0 \in Nat :
        /\ m1 = m \div 8 /\ m0 = m % 8 /\ s1 = s \div 32 /\ s0 = s % 32
        /\ n1 = ms \div 128 /\ n0 = ms % 128
  OBVIOUS
<1>4. /\ m = 8 * m1 + m0 /\ m0 < 8 /\ m1 < 8
      /\ s = 32 * s1 + s0 /\ s0 < 32 /\ s1 < 2
      /\ ms = 128 * n1 + n0 /\ n0 < 128 /\ n1 < 64
  <2>1. m = 8 * m1 + m0 /\ m0 < 8 /\ m1 < 8
    BY <1>2, <1>3
  <2>2. s = 32 * s1 + s0 /\ s0 < 32 /\ s1 < 2
    BY <1>2, <1>3
  <2>3. ms = 128 * n1 + n0 /\ n0 < 128 /\ n1 < 64
    BY <1>2, <1>3, SMT
  <2> QED
    BY <2>1, <2>2, <2>3
<1>5. PICK b0 \in Nat, b1 \in Nat, b2 \in Nat, b3 \in Nat :
        /\ b0 = h + 32 * m0 /\ b1 = m1 + 8 * s0 /\ b2 = s1 + 2 * n0
        /\ b3 = n1 + 64 * dl
  OBVIOUS
<1>6. AreFour(b0, b1, b2, b3)
  BY <1>2, <1>4, <1>5, SMT DEF AreFour
<1>7. PackedTime(t) = <<b0, b1, b2, b3>>
  BY <1>1, <1>3, <1>5, Zenon DEF PackedTime
<1>8. TimeWord(t) = WordOf(b0, b1, b2, b3)
  <2>1. TimeWord(t)
          = h + 32 * m + 2048 * s + 131072 * ms + 1073741824 * dl
    BY <1>1, SMT DEF TimeWord
  <2> QED
    BY <1>4, <1>5, <2>1, SMT DEF WordOf
<1> QED
  BY <1>6, <1>7, <1>8, Zenon

\* The bytes of a packed date are those of its word.
LEMMA DatePacks ==
  ASSUME NEW d \in AllDates
  PROVE  \E b0, b1, b2, b3 :
           /\ AreFour(b0, b1, b2, b3)
           /\ PackedDate(d) = <<b0, b1, b2, b3>>
           /\ DateWord(d) = WordOf(b0, b1, b2, b3)
<1>1. PICK w \in Nat, day \in Nat, m \in Nat, y \in Nat :
        w = d.day_of_week /\ day = d.day /\ m = d.month /\ y = d.year
  BY DEF AllDates, Below
<1>2. w < 8 /\ day < 32 /\ m < 16 /\ y < 1048576
  BY <1>1, SMT DEF AllDates, Below
<1>3. PICK y1 \in Nat, y0 \in Nat, z1 \in Nat, z0 \in Nat :
        /\ y1 = y \div 16 /\ y0 = y % 16 /\ z1 = y \div 4096 /\ z0 = y1 % 256
  <2>1. PICK y1 \in Nat : y1 = y \div 16
    OBVIOUS
  <2> QED
    BY <2>1
<1>4. /\ y = 16 * y1 + y0 /\ y0 < 16
      /\ y1 = 256 * z1 + z0 /\ z0 < 256 /\ z1 < 256
  <2>1. y = 16 * y1 + y0 /\ y0 < 16
    BY <1>3
  <2>2. y1 \div 256 \in Nat /\ y1 = 256 * (y1 \div 256) + z0 /\ z0 < 256
    BY <1>3
  <2>3. y = 4096 * (y1 \div 256) + (16 * z0 + y0) /\ 16 * z0 + y0 < 4096
    BY <2>1, <2>2
  <2>4. y \div 4096 = y1 \div 256
    BY <2>2, <2>3
  <2>5. z1 < 256
    BY <1>2, <1>3, SMT
  <2> QED
    BY <1>3, <2>1, <2>2, <2>4, <2>5
<1>5. PICK b0 \in Nat, b1 \in Nat, b2 \in Nat, b3 \in Nat :
        /\ b0 = w + 8 * day /\ b1 = m + 16 * y0 /\ b2 = z0 /\ b3 = z1
  OBVIOUS
<1>6. AreFour(b0, b1, b2, b3)
  BY <1>2, <1>4, <1>5, SMT DEF AreFour
<1>7. PackedDate(d) = <<b0, b1, b2, b3>>
  BY <1>1, <1>3, <1>5, SMT DEF PackedDate
<1>8. DateWord(d) = WordOf(b0, b1, b2, b3)
  <2>1. DateWord(d) = w + 8 * day + 256 * m + 4096 * y
    BY <1>1, SMT DEF DateWord
  <2> QED
    BY <1>4, <1>5, <2>1, SMT DEF WordOf
<1> QED
  BY <1>6, <1>7, <1>8, Zenon

\* Unpacking undoes packing.
LEMMA TimeUnpacks ==
  ASSUME NEW data, NEW offset \in Nat, NEW t \in AllTimes,
         Carries(data, offset, PackedTime(t))
  PROVE  decode_time(data, offset) = t
<1>1. PICK b0, b1, b2, b3 :
        /\ AreFour(b0, b1, b2, b3) /\ PackedTime(t) = <<b0, b1, b2, b3>>
        /\ TimeWord(t) = WordOf(b0, b1, b2, b3)
  BY TimePacks, Zenon
<1>2. Carries(data, offset, <<b0, b1, b2, b3>>)
  BY <1>1, Zenon
<1>3. AreBytes(data, offset) /\ WordAt(data, offset) = TimeWord(t)
  BY <1>1, <1>2, FourBytes
<1> QED
  BY <1>3, TimeInWord, Zenon

\* A packed date is decoded to itself.
LEMMA DateUnpacks ==
  ASSUME NEW data, NEW offset \in Nat, NEW d \in AllDates,
         Carries(data, offset, PackedDate(d))
  PROVE  decode_date(data, offset) = d
<1>1. PICK b0, b1, b2, b3 :
        /\ AreFour(b0, b1, b2, b3) /\ PackedDate(d) = <<b0, b1, b2, b3>>
        /\ DateWord(d) = WordOf(b0, b1, b2, b3)
  BY DatePacks, Zenon
<1>2. Carries(data, offset, <<b0, b1, b2, b3>>)
  BY <1>1, Zenon
<1>3. AreBytes(data, offset) /\ WordAt(data, offset) = DateWord(d)
  BY <1>1, <1>2, FourBytes
<1> QED
  BY <1>3, DateInWord, Zenon

\* Bytes are the digits of their word.
LEMMA SameBytes ==
  ASSUME NEW a0, NEW a1, NEW a2, NEW a3, NEW b0, NEW b1, NEW b2, NEW b3,
         AreFour(a0, a1, a2, a3), AreFour(b0, b1, b2, b3),
         WordOf(a0, a1, a2, a3) = WordOf(b0, b1, b2, b3)
  PROVE  a0 = b0 /\ a1 = b1 /\ a2 = b2 /\ a3 = b3
<1>1. a0 = b0 /\ a1 + 256 * a2 + 65536 * a3 = b1 + 256 * b2 + 65536 * b3
  BY SMT DEF AreFour, WordOf
<1>2. a1 = b1 /\ a2 + 256 * a3 = b2 + 256 * b3
  BY <1>1, SMT DEF AreFour
<1>3. a2 = b2 /\ a3 = b3
  BY <1>2, SMT DEF AreFour
<1> QED
  BY <1>1, <1>2, <1>3

\* The four bytes at an offset.
LEMMA BytesAt ==
  ASSUME NEW data, NEW offset \in Nat, AreBytes(data, offset)
  PROVE  \E b0, b1, b2, b3 :
           /\ AreFour(b0, b1, b2, b3)
           /\ Carries(data, offset, <<b0, b1, b2, b3>>)
           /\ WordAt(data, offset) = WordOf(b0, b1, b2, b3)
<1>1. 1 \in 1..4 /\ 2 \in 1..4 /\ 3 \in 1..4 /\ 4 \in 1..4
  OBVIOUS
<1>2. PICK b0, b1, b2, b3 :
        /\ b0 = data[offset + 1] /\ b1 = data[offset + 2]
        /\ b2 = data[offset + 3] /\ b3 = data[offset + 4]
  OBVIOUS
<1>3. AreFour(b0, b1, b2, b3)
  BY <1>1, <1>2 DEF AreBytes, AreFour
<1>4. Carries(data, offset, <<b0, b1, b2, b3>>)
  <2>1. \A i \in 1..4 : i = 1 \/ i = 2 \/ i = 3 \/ i = 4
    OBVIOUS
  <2> QED
    BY <1>2, <2>1 DEF Carries
<1>5. WordAt(data, offset) = WordOf(b0, b1, b2, b3)
  BY <1>2, SMT DEF WordAt, WordOf
<1> QED
  BY <1>3, <1>4, <1>5, Zenon

\* Every word is made of the fields of a time, and of those of a date.
LEMMA TimeOfWord ==
  ASSUME NEW a0, NEW a1, NEW a2, NEW a3, AreFour(a0, a1, a2, a3)
  PROVE  \E t \in AllTimes : TimeWord(t) = WordOf(a0, a1, a2, a3)
<1>1. PICK h \in Nat, m0 \in Nat : h < 32 /\ m0 < 8 /\ a0 = h + 32 * m0
  <2>1. /\ a0 % 32 \in Nat /\ a0 % 32 < 32 /\ a0 \div 32 \in Nat
        /\ a0 \div 32 < 8 /\ a0 = (a0 % 32) + 32 * (a0 \div 32)
    BY DEF AreFour
  <2> QED
    BY <2>1
<1>2. PICK m1 \in Nat, s0 \in Nat : m1 < 8 /\ s0 < 32 /\ a1 = m1 + 8 * s0
  <2>1. /\ a1 % 8 \in Nat /\ a1 % 8 < 8 /\ a1 \div 8 \in Nat
        /\ a1 \div 8 < 32 /\ a1 = (a1 % 8) + 8 * (a1 \div 8)
    BY DEF AreFour
  <2> QED
    BY <2>1
<1>3. PICK s1 \in Nat, n0 \in Nat : s1 < 2 /\ n0 < 128 /\ a2 = s1 + 2 * n0
  <2>1. /\ a2 % 2 \in Nat /\ a2 % 2 < 2 /\ a2 \div 2 \in Nat
        /\ a2 \div 2 < 128 /\ a2 = (a2 % 2) + 2 * (a2 \div 2)
    BY DEF AreFour
  <2> QED
    BY <2>1
<1>4. PICK n1 \in Nat, dl \in Nat : n1 < 64 /\ dl < 4 /\ a3 = n1 + 64 * dl
  <2>1. /\ a3 % 64 \in Nat /\ a3 % 64 < 64 /\ a3 \div 64 \in Nat
        /\ a3 \div 64 < 4 /\ a3 = (a3 % 64) + 64 * (a3 \div 64)
    BY DEF AreFour
  <2> QED
    BY <2>1
<1>5. PICK m \in Nat, s \in Nat, ms \in Nat :
        /\ m = m0 + 8 * m1 /\ s = s0 + 32 * s1 /\ ms = n0 + 128 * n1
  OBVIOUS
<1>6. m < 64 /\ s < 64 /\ ms < 8192
  BY <1>1, <1>2, <1>3, <1>4, <1>5, SMT
<1>7. PICK t : t = [hours |-> h, minutes |-> m, seconds |-> s,
                    milliseconds |-> ms, daylight |-> dl]
  OBVIOUS
<1>8. t \in AllTimes
  BY <1>1, <1>4, <1>6, <1>7, SMT DEF AllTimes, Below
<1>9. TimeWord(t) = h + 32 * m + 2048 * s + 131072 * ms + 1073741824 * dl
  BY <1>7, SMT DEF TimeWord
<1>10. TimeWord(t) = WordOf(a0, a1, a2, a3)
  BY <1>1, <1>2, <1>3, <1>4, <1>5, <1>9, SMT DEF WordOf
<1> QED
  BY <1>8, <1>10, Zenon

\* Every word is the word of a date.
LEMMA DateOfWord ==
  ASSUME NEW a0, NEW a1, NEW a2, NEW a3, AreFour(a0, a1, a2, a3)
  PROVE  \E d \in AllDates : DateWord(d) = WordOf(a0, a1, a2, a3)
<1>1. PICK w \in Nat, day \in Nat : w < 8 /\ day < 32 /\ a0 = w + 8 * day
  <2>1. /\ a0 % 8 \in Nat /\ a0 % 8 < 8 /\ a0 \div 8 \in Nat
        /\ a0 \div 8 < 32 /\ a0 = (a0 % 8) + 8 * (a0 \div 8)
    BY DEF AreFour
  <2> QED
    BY <2>1
<1>2. PICK m \in Nat, y0 \in Nat : m < 16 /\ y0 < 16 /\ a1 = m + 16 * y0
  <2>1. /\ a1 % 16 \in Nat /\ a1 % 16 < 16 /\ a1 \div 16 \in Nat
        /\ a1 \div 16 < 16 /\ a1 = (a1 % 16) + 16 * (a1 \div 16)
    BY DEF AreFour
  <2> QED
    BY <2>1
<1>3. a2 \in Nat /\ a3 \in Nat /\ a2 < 256 /\ a3 < 256
  BY DEF AreFour
<1>4. PICK y \in Nat : y = y0 + 16 * a2 + 4096 * a3
  BY <1>3
<1>5. y < 1048576
  BY <1>2, <1>3, <1>4, SMT
<1>6. PICK d : d = [day_of_week |-> w, day |-> day, month |-> m, year |-> y]
  OBVIOUS
<1>7. d \in AllDates
  BY <1>1, <1>2, <1>5, <1>6, SMT DEF AllDates, Below
<1>8. DateWord(d) = w + 8 * day + 256 * m + 4096 * y
  BY <1>6, SMT DEF DateWord
<1>9. DateWord(d) = WordOf(a0, a1, a2, a3)
  BY <1>1, <1>2, <1>3, <1>4, <1>8, SMT DEF WordOf
<1> QED
  BY <1>7, <1>9, Zenon

\* Packing undoes unpacking.
LEMMA TimeRepacks ==
  ASSUME NEW data, NEW offset \in Nat, AreBytes(data, offset)
  PROVE  /\ decode_time(data, offset) \in AllTimes
         /\ Carries(data, offset, PackedTime(decode_time(data, offset)))
<1>1. PICK a0, a1, a2, a3 :
        /\ AreFour(a0, a1, a2, a3)
        /\ Carries(data, offset, <<a0, a1, a2, a3>>)
        /\ WordAt(data, offset) = WordOf(a0, a1, a2, a3)
  BY BytesAt, Zenon
<1>2. PICK t \in AllTimes : TimeWord(t) = WordOf(a0, a1, a2, a3)
  BY <1>1, TimeOfWord, Zenon
<1>3. decode_time(data, offset) = t
  BY <1>1, <1>2, TimeInWord, Zenon
<1>4. PICK b0, b1, b2, b3 :
        /\ AreFour(b0, b1, b2, b3) /\ PackedTime(t) = <<b0, b1, b2, b3>>
        /\ TimeWord(t) = WordOf(b0, b1, b2, b3)
  BY TimePacks, Zenon
<1>5. a0 = b0 /\ a1 = b1 /\ a2 = b2 /\ a3 = b3
  BY <1>1, <1>2, <1>4, SameBytes, Zenon
<1> QED
  BY <1>1, <1>3, <1>4, <1>5, Zenon

\* Packing what is decoded gives the bytes back.
LEMMA DateRepacks ==
  ASSUME NEW data, NEW offset \in Nat, AreBytes(data, offset)
  PROVE  /\ decode_date(data, offset) \in AllDates
         /\ Carries(data, offset, PackedDate(decode_date(data, offset)))
<1>1. PICK a0, a1, a2, a3 :
        /\ AreFour(a0, a1, a2, a3)
        /\ Carries(data, offset, <<a0, a1, a2, a3>>)
        /\ WordAt(data, offset) = WordOf(a0, a1, a2, a3)
  BY BytesAt, Zenon
<1>2. PICK d \in AllDates : DateWord(d) = WordOf(a0, a1, a2, a3)
  BY <1>1, DateOfWord, Zenon
<1>3. decode_date(data, offset) = d
  BY <1>1, <1>2, DateInWord, Zenon
<1>4. PICK b0, b1, b2, b3 :
        /\ AreFour(b0, b1, b2, b3) /\ PackedDate(d) = <<b0, b1, b2, b3>>
        /\ DateWord(d) = WordOf(b0, b1, b2, b3)
  BY DatePacks, Zenon
<1>5. a0 = b0 /\ a1 = b1 /\ a2 = b2 /\ a3 = b3
  BY <1>1, <1>2, <1>4, SameBytes, Zenon
<1> QED
  BY <1>1, <1>3, <1>4, <1>5, Zenon

\* datetime() refuses what is no date or time.
LEMMA AcceptsClocks ==
  ASSUME NEW t \in AllTimes, NEW d \in AllDates
  PROVE  (t.daylight \in DaylightSaving /\ DatetimeAccepts(t, d))
           <=> IsClock(t, d)
<1>1. PICK h \in Nat, mi \in Nat, s \in Nat, ms \in Nat, dl \in Nat :
        /\ h = t.hours /\ mi = t.minutes /\ s = t.seconds
        /\ ms = t.milliseconds /\ dl = t.daylight
  BY DEF AllTimes, Below
<1>2. dl < 4
  BY <1>1 DEF AllTimes, Below
<1>3. PICK day \in Nat, m \in Nat, y \in Nat :
        day = d.day /\ m = d.month /\ y = d.year
  BY DEF AllDates, Below
<1>4. IsLeap(y) <=> y % 400 = 0 \/ (y % 4 = 0 /\ y % 100 > 0)
  <2>1. y % 100 \in Nat /\ (y % 400 = 0 => y % 4 = 0)
    OBVIOUS
  <2> QED
    BY <2>1 DEF IsLeap
<1>5. m \in 1..12 => DaysIn(m, y) = MonthLength(m, y)
  <2> SUFFICES ASSUME m \in 1..12 PROVE DaysIn(m, y) = MonthLength(m, y)
    OBVIOUS
  <2>1. \/ m = 1 \/ m = 2 \/ m = 3 \/ m = 4 \/ m = 5 \/ m = 6
        \/ m = 7 \/ m = 8 \/ m = 9 \/ m = 10 \/ m = 11 \/ m = 12
    OBVIOUS
  <2> QED
    BY <1>4, <2>1 DEF DaysIn, MonthLength
<1>6. MonthLength(m, y) \in Nat
  BY DEF MonthLength
<1>7. IsClock(t, d) <=>
        /\ h < 24 /\ mi < 60 /\ s < 60 /\ ms < 1000 /\ dl # 3
        /\ y > 0 /\ y < 10000 /\ m > 0 /\ m < 13
        /\ day > 0 /\ day <= MonthLength(m, y)
  BY <1>1, <1>3 DEF IsClock
<1>8. (t.daylight \in DaylightSaving /\ DatetimeAccepts(t, d)) <=>
        /\ dl \in 0..2 /\ y \in 1..9999 /\ m \in 1..12
        /\ day \in 1..DaysIn(m, y)
        /\ h <= 23 /\ mi <= 59 /\ s <= 59 /\ ms * 1000 <= 999999
  BY <1>1, <1>3, SMT DEF DatetimeAccepts, DaylightSaving
<1>9. ms * 1000 <= 999999 <=> ms < 1000
  BY SMT
<1>10. /\ dl \in 0..2 <=> dl # 3
       /\ y \in 1..9999 <=> y > 0 /\ y < 10000
       /\ m \in 1..12 <=> m > 0 /\ m < 13
       /\ h <= 23 <=> h < 24
       /\ mi <= 59 <=> mi < 60
       /\ s <= 59 <=> s < 60
  BY <1>2, SMT
<1>11. m \in 1..12 =>
         (day \in 1..DaysIn(m, y) <=> day > 0 /\ day <= MonthLength(m, y))
  BY <1>5, <1>6
<1> QED
  BY <1>7, <1>8, <1>9, <1>10, <1>11

\* A packed time and a packed date are four numbers.
LEMMA PackedFour ==
  /\ \A t \in AllTimes : PackedTime(t) \in Seq(Nat) /\ Len(PackedTime(t)) = 4
  /\ \A d \in AllDates : PackedDate(d) \in Seq(Nat) /\ Len(PackedDate(d)) = 4
<1>1. \A b0, b1, b2, b3 : AreFour(b0, b1, b2, b3) =>
        <<b0, b1, b2, b3>> \in Seq(Nat) /\ Len(<<b0, b1, b2, b3>>) = 4
  BY DEF AreFour
<1> QED
  BY <1>1, TimePacks, DatePacks, Zenon

\* Whatever time and date the device packs, the decoder brings them back, and
\* refuses them when and only when there is no such date or time
\* (datetime.py:50-147); the daylight saving and the day of the week change
\* nothing in what comes back.
THEOREM DecodesClock ==
  ASSUME NEW t \in AllTimes, NEW d \in AllDates
  PROVE  Decoded(t, d)
<1>1. /\ PackedTime(t) \in Seq(Nat) /\ Len(PackedTime(t)) = 4
      /\ PackedDate(d) \in Seq(Nat) /\ Len(PackedDate(d)) = 4
  BY PackedFour
<1>3. PICK data : data = PackedTime(t) \o PackedDate(d)
  OBVIOUS
<1>4. ASSUME NEW s \in Seq(Nat), NEW u \in Seq(Nat), Len(s) = 4, Len(u) = 4,
             NEW i \in 1..4
      PROVE  (s \o u)[0 + i] = s[i] /\ (s \o u)[4 + i] = u[i]
  <2>1. 0 + i \in 1..(Len(s) + Len(u)) /\ 0 + i <= Len(s) /\ 0 + i = i
    BY <1>4
  <2>2. 4 + i \in 1..(Len(s) + Len(u)) /\ ~(4 + i <= Len(s))
        /\ (4 + i) - Len(s) = i
    BY <1>4
  <2> QED
    BY <2>1, <2>2
<1>5. Carries(data, 0, PackedTime(t)) /\ Carries(data, 4, PackedDate(d))
  BY <1>1, <1>3, <1>4, Zenon DEF Carries
<1>6. decode_time(data, 0) = t /\ decode_date(data, 0 + 4) = d
  <2>1. 0 \in Nat /\ 4 \in Nat /\ 0 + 4 = 4
    OBVIOUS
  <2> QED
    BY <1>5, <2>1, TimeUnpacks, DateUnpacks
<1> QED
  <2>1. Datetime(t, d) =
          [year |-> d.year, month |-> d.month, day |-> d.day,
           hour |-> t.hours, minute |-> t.minutes, second |-> t.seconds,
           microsecond |-> 1000 * t.milliseconds]
    <3>1. PICK n \in Nat : n = t.milliseconds
      BY DEF AllTimes, Below
    <3>2. n * 1000 = 1000 * n
      OBVIOUS
    <3>3. t.milliseconds * 1000 = 1000 * t.milliseconds
      BY <3>1, <3>2, Zenon
    <3> QED
      BY <3>3, SMT DEF Datetime
  <2>2. PICK c : c = Datetime(t, d)
    OBVIOUS
  <2>3. decode_datetime(data, 0) =
          IF IsClock(t, d) THEN [verdict |-> "ok", clock |-> c]
          ELSE [verdict |-> "ValueError"]
    BY <1>6, <2>2, AcceptsClocks, Zenon DEF decode_datetime
  <2> QED
    BY <1>3, <2>1, <2>2, <2>3, SMT DEF Decoded

\* No time and no date of the instance is decoded wrongly.
LEMMA NoneWrong == WrongTimes = {} /\ WrongDates = {}
<1>1. Times \subseteq AllTimes /\ Dates \subseteq AllDates
  BY SMT DEF Times, Dates, AllTimes, AllDates, Below
<1>2. Time \in AllTimes /\ Date \in AllDates
  BY SMT DEF Time, Date, AllTimes, AllDates, Below
<1> QED
  BY <1>1, <1>2, DecodesClock, Zenon DEF WrongTimes, WrongDates

\* The labels of the timezones agree with their offsets.
LEMMA ZonesRight == WrongZones = {}
<1>1. DOMAIN TIMEZONE_TABLE = 0..37
  BY DEF TIMEZONE_TABLE
<1>2. ASSUME NEW i \in 0..37
      PROVE  TimezoneFromIndex(i) * 60
               = TIMEZONE_TABLE[i][1]
                   * (TIMEZONE_TABLE[i][2] * 6000 + TIMEZONE_TABLE[i][3] * 100)
  BY SMTT(60) DEF TimezoneFromIndex, TIMEZONE_TABLE, TIMEZONE_OFFSETS
<1> QED
  BY <1>1, <1>2 DEF WrongZones

\* The elements of a part of a sequence, and of two sequences in a row.
LEMMA PartElements ==
  ASSUME NEW p, NEW m \in Nat \ {0}, NEW n \in Nat,
         \A i \in m..n : p[i] \in Nat
  PROVE  /\ SubSeq(p, m, n) \in Seq(Nat)
         /\ Len(SubSeq(p, m, n)) = IF m <= n THEN n - m + 1 ELSE 0
         /\ \A i \in 1..(n - m + 1) : SubSeq(p, m, n)[i] = p[m + i - 1]
BY SubSeqProperties

\* The items of two sequences in a row.
LEMMA RowElements ==
  ASSUME NEW s \in Seq(Nat), NEW u \in Seq(Nat)
  PROVE  /\ s \o u \in Seq(Nat) /\ Len(s \o u) = Len(s) + Len(u)
         /\ \A i \in 1..(Len(s) + Len(u)) :
              (s \o u)[i] = IF i <= Len(s) THEN s[i] ELSE u[i - Len(s)]
OBVIOUS

\* Eight elements in a row are two sequences of four.
LEMMA FourAndFour ==
  ASSUME NEW p, NEW s \in Seq(Nat), NEW u \in Seq(Nat),
         Len(s) = 4, Len(u) = 4,
         \A i \in 1..4 : p[21 + i] = s[i] /\ p[25 + i] = u[i]
  PROVE  SubSeq(p, 22, 29) = s \o u
<1>1. /\ SubSeq(p, 22, 29) \in Seq(Nat) /\ Len(SubSeq(p, 22, 29)) = 8
      /\ \A i \in 1..8 : SubSeq(p, 22, 29)[i] = p[21 + i]
  <2>1. PICK m \in Nat \ {0}, n \in Nat : m = 22 /\ n = 29
    OBVIOUS
  <2>2. /\ SubSeq(p, m, n) \in Seq(Nat)
        /\ Len(SubSeq(p, m, n)) = IF m <= n THEN n - m + 1 ELSE 0
        /\ \A i \in 1..(n - m + 1) : SubSeq(p, m, n)[i] = p[m + i - 1]
    <3>1. \A i \in 1..4 : s[i] \in Nat /\ u[i] \in Nat
      <4>1. \A q \in Seq(Nat) : \A i \in 1..Len(q) : q[i] \in Nat
        OBVIOUS
      <4> QED
        BY <4>1, Zenon
    <3>2. \A i \in m..n : p[i] \in Nat
      <4> SUFFICES ASSUME NEW i \in m..n PROVE p[i] \in Nat
        OBVIOUS
      <4>1. \E j \in 1..4 : i = 21 + j \/ i = 25 + j
        <5>1. i - 21 \in 1..4 \/ i - 25 \in 1..4
          BY <2>1
        <5>2. i = 21 + (i - 21) /\ i = 25 + (i - 25)
          BY <2>1
        <5> QED
          BY <5>1, <5>2, Zenon
      <4> QED
        BY <3>1, <4>1, Zenon
    <3> QED
      BY <3>2, PartElements
  <2>3. n - m + 1 = 8 /\ m <= n /\ \A i \in 1..8 : m + i - 1 = 21 + i
    BY <2>1
  <2>4. Len(SubSeq(p, m, n)) = 8
    BY <2>2, <2>3
  <2>5. \A i \in 1..8 : SubSeq(p, m, n)[i] = p[21 + i]
    <3> SUFFICES ASSUME NEW i \in 1..8 PROVE SubSeq(p, m, n)[i] = p[21 + i]
      OBVIOUS
    <3>1. i \in 1..(n - m + 1) /\ m + i - 1 = 21 + i
      BY <2>3
    <3>2. SubSeq(p, m, n)[i] = p[m + i - 1]
      BY <2>2, <3>1
    <3> QED
      BY <3>1, <3>2, Zenon
  <2> QED
    BY <2>1, <2>2, <2>4, <2>5, Zenon
<1>2. /\ s \o u \in Seq(Nat) /\ Len(s \o u) = 8
      /\ \A i \in 1..8 : (s \o u)[i] = IF i <= 4 THEN s[i] ELSE u[i - 4]
  <2>1. /\ s \o u \in Seq(Nat) /\ Len(s \o u) = Len(s) + Len(u)
        /\ \A i \in 1..(Len(s) + Len(u)) :
             (s \o u)[i] = IF i <= Len(s) THEN s[i] ELSE u[i - Len(s)]
    BY RowElements
  <2>2. Len(s) + Len(u) = 8
    OBVIOUS
  <2> QED
    BY <2>1, <2>2
<1>3. \A i \in 1..8 : SubSeq(p, 22, 29)[i] = (s \o u)[i]
  <2> SUFFICES ASSUME NEW i \in 1..8
               PROVE  p[21 + i] = IF i <= 4 THEN s[i] ELSE u[i - 4]
    BY <1>1, <1>2, Zenon
  <2>1. CASE i <= 4
    <3>1. i \in 1..4
      BY <2>1
    <3> QED
      BY <2>1, <3>1, Zenon
  <2>2. CASE ~(i <= 4)
    <3>1. i - 4 \in 1..4 /\ 25 + (i - 4) = 21 + i
      BY <2>2
    <3>2. p[25 + (i - 4)] = u[i - 4]
      BY <3>1, Zenon
    <3> QED
      BY <2>2, <3>1, <3>2, Zenon
  <2> QED
    BY <2>1, <2>2
<1>4. PICK q, r : q = SubSeq(p, 22, 29) /\ r = s \o u
  OBVIOUS
<1>5. q \in Seq(Nat) /\ r \in Seq(Nat) /\ Len(q) = Len(r)
      /\ \A i \in 1..Len(q) : q[i] = r[i]
  BY <1>1, <1>2, <1>3, <1>4, Zenon
<1>6. q = r
  BY <1>5, SeqEqual, Zenon
<1> QED
  BY <1>4, <1>6, Zenon

\* The bytes of a time and a date are bytes of their datetime.
LEMMA DatetimePacks ==
  ASSUME NEW t \in AllTimes, NEW d \in AllDates
  PROVE  PackedTime(t) \o PackedDate(d)
           = PackedClock(Datetime(t, d), t.daylight, d.day_of_week)
<1>1. PICK n \in Nat : n = t.milliseconds
  BY DEF AllTimes, Below
<1>2. (n * 1000) \div 1000 = n
  OBVIOUS
<1>3. PICK c : c = Datetime(t, d)
  OBVIOUS
<1>4. /\ c.hour = t.hours /\ c.minute = t.minutes /\ c.second = t.seconds
      /\ c.microsecond = n * 1000
      /\ c.day = d.day /\ c.month = d.month /\ c.year = d.year
  BY <1>1, <1>3 DEF Datetime
<1>5. t = [hours |-> c.hour, minutes |-> c.minute, seconds |-> c.second,
           milliseconds |-> c.microsecond \div 1000,
           daylight |-> t.daylight]
  <2>1. t = [hours |-> t.hours, minutes |-> t.minutes, seconds |-> t.seconds,
             milliseconds |-> t.milliseconds, daylight |-> t.daylight]
    BY DEF AllTimes
  <2> QED
    BY <1>1, <1>2, <1>4, <2>1, SMT
<1>6. d = [day_of_week |-> d.day_of_week, day |-> c.day, month |-> c.month,
           year |-> c.year]
  <2>1. d = [day_of_week |-> d.day_of_week, day |-> d.day,
             month |-> d.month, year |-> d.year]
    BY DEF AllDates
  <2> QED
    BY <1>4, <2>1, Zenon
<1>7. PICK s, u : s = t.daylight /\ u = d.day_of_week
  OBVIOUS
<1>8. PackedClock(c, s, u) = PackedTime(t) \o PackedDate(d)
  BY <1>5, <1>6, <1>7, Zenon DEF PackedClock
<1> QED
  BY <1>3, <1>7, <1>8, Zenon

\* What a sample's clock says is what its bytes say.
LEMMA ClockOfPayload ==
  ASSUME NEW p \in DataPayloads, MeasurementsOf[p].verdict = "ok"
  PROVE  \E daylight \in DaylightSaving, day_of_week \in 0..7 :
           SubSeq(p, 22, 29)
             = PackedClock(MeasurementsOf[p].dose_datetime, daylight,
                           day_of_week)
<1>1. MeasurementsOf[p] = parse_device_data(p)
  BY DEF MeasurementsOf
<1>2. Len(p) = 47 /\ p \in Seq(0..255)
  BY <1>1, PayloadAssumption DEF parse_device_data, DEVICE_DATA_PAYLOAD_SIZE
<1>3. decode_datetime(p, 21).verdict = "ok"
      /\ MeasurementsOf[p].dose_datetime = decode_datetime(p, 21).clock
  <2>1. decode_datetime(p, 21).verdict = "ok"
    BY <1>1, <1>2 DEF parse_device_data, DEVICE_DATA_PAYLOAD_SIZE
  <2> QED
    BY <1>1, <1>2, <2>1 DEF parse_device_data, DEVICE_DATA_PAYLOAD_SIZE
<1>4. PICK t, d : t = decode_time(p, 21) /\ d = decode_date(p, 25)
  OBVIOUS
<1>5. /\ decode_datetime(p, 21).clock = Datetime(t, d)
      /\ t.daylight \in DaylightSaving
  <2>1. 21 + 4 = 25
    OBVIOUS
  <2>2. /\ decode_datetime(p, 21) =
             [verdict |-> "ok", clock |-> Datetime(t, d)]
        /\ t.daylight \in DaylightSaving
    BY <1>3, <1>4, <2>1 DEF decode_datetime
  <2> QED
    BY <2>2
<1>6. AreBytes(p, 21) /\ AreBytes(p, 25)
  <2>1. PICK B : B = 0..255
    OBVIOUS
  <2>2. \A S : \A q \in Seq(S) : \A i \in 1..Len(q) : q[i] \in S
    OBVIOUS
  <2>3. \A i \in 1..47 : p[i] \in B
    BY <1>2, <2>1, <2>2, Zenon
  <2>4. \A i \in 1..4 : 21 + i \in 1..47 /\ 25 + i \in 1..47
    OBVIOUS
  <2>5. \A b \in B : b \in Nat /\ b < 256
    BY <2>1
  <2> QED
    BY <2>3, <2>4, <2>5, Zenon DEF AreBytes
<1>7. /\ t \in AllTimes /\ Carries(p, 21, PackedTime(t))
      /\ d \in AllDates /\ Carries(p, 25, PackedDate(d))
  <2>1. 21 \in Nat /\ 25 \in Nat
    OBVIOUS
  <2> QED
    BY <1>4, <1>6, <2>1, TimeRepacks, DateRepacks
<1>8. PICK s, u : s = PackedTime(t) /\ u = PackedDate(d)
  OBVIOUS
<1>9. s \in Seq(Nat) /\ Len(s) = 4 /\ u \in Seq(Nat) /\ Len(u) = 4
  BY <1>7, <1>8, PackedFour
<1>10. SubSeq(p, 22, 29) = s \o u
  <2>1. \A i \in 1..4 : p[21 + i] = s[i] /\ p[25 + i] = u[i]
    BY <1>7, <1>8, Zenon DEF Carries
  <2> QED
    BY <1>9, <2>1, FourAndFour
<1>11. d.day_of_week \in 0..7
  BY <1>7 DEF AllDates, Below
<1>12. SubSeq(p, 22, 29)
         = PackedClock(Datetime(t, d), t.daylight, d.day_of_week)
  BY <1>7, <1>8, <1>10, DatetimePacks, Zenon
<1> QED
  BY <1>3, <1>5, <1>11, <1>12, Zenon

\* Only what the parser has accepted is handed out.
Parsed ==
  payload # <<>> =>
    payload \in DataPayloads /\ MeasurementsOf[payload].verdict = "ok"

\* The payload of the last good poll is one of the device's, and parses.
LEMMA ParsedStep ==
  ASSUME Parsed, [Next]_vars PROVE Parsed'
<1>. USE DEF Parsed, Keeps, parameters, environment
<1>1. ASSUME NEW p \in DataPayloads, Answered(p) PROVE Parsed'
  <2>1. CASE Failed
    BY <2>1 DEF Failed
  <2>2. CASE payload' = p /\ MeasurementsOf[p].verdict = "ok"
    BY <2>2
  <2>. QED  BY <1>1, <2>1, <2>2 DEF Answered, Awaits, Sampled
<1>2. CASE PollFails
  BY <1>2 DEF PollFails, Failed
<1>3. CASE LoopHead \/ AfterError \/ Yields \/ Tick
  BY <1>3 DEF LoopHead, AfterError, Yields, Tick
<1>4. CASE ConsumerShows \/ ConsumerResumes \/ ConsumerLeaves \/ Wakes
  BY <1>4 DEF ConsumerShows, ConsumerResumes, ConsumerLeaves, Wakes
<1>5. ASSUME NEW p \in InfoPayloads, InfoArrives(p) PROVE Parsed'
  BY <1>5 DEF InfoArrives
<1>6. CASE InfoFails \/ Finally
  BY <1>6 DEF InfoFails, Finally
<1>7. CASE OtherCloses \/ OtherReopens \/ DeviceMoves \/ Signal
  BY <1>7 DEF OtherCloses, OtherReopens, DeviceMoves, Signal
<1>8. CASE UNCHANGED vars
  BY <1>8 DEF vars
<1>. QED
  BY <1>1, <1>2, <1>3, <1>4, <1>5, <1>6, <1>7, <1>8 DEF Next, Proceeds

\* The decoder brings back the date and the time of day of every packed clock,
\* and every sample that is handed out, whatever payloads the device sends,
\* carries the date and the time of day that are in its bytes, to the
\* millisecond (datetime.py:50-147, device_data.py).
THEOREM ClocksDecoded == Spec => []ClockDecoded
<1>1. Init => Parsed
  BY DEF Init, Parsed
<1>2. Parsed /\ [Next]_vars => Parsed'
  BY ParsedStep
<1>3. Parsed => ClockDecoded
  BY ClockOfPayload, NoneWrong, ZonesRight, Zenon DEF Parsed, ClockDecoded
<1>. QED  BY <1>1, <1>2, <1>3, PTL DEF Spec
=============================================================================
