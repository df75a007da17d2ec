------------------------------- MODULE Service -------------------------------
(***************************************************************************)
(* What AccuRad promises the threads that share it: their exchanges with   *)
(* the detector take place one after another, each for the one call that   *)
(* asked, and a call is over when its own answer or an error has come.     *)
(* There is no link here, no transport, no retry and no reconnect. Safety  *)
(* only: that an exchange ends is the subject of HolderReturns in Client.  *)
(***************************************************************************)
EXTENDS Naturals

CONSTANTS
  Threads,   \* the caller threads
  NoThread,  \* not a thread: no exchange is under way
  FrameIDs   \* the kinds of request

VARIABLES
  issued,  \* the number of calls made
  holder,  \* whose exchange is under way
  stage,   \* where each thread's call is
  asked,   \* the call of each thread: its number and its kind
  answer,  \* the call whose answer it was given
  result   \* "none" as long as the call is undecided

vars == <<issued, holder, stage, asked, answer, result>>

NoCall == [number |-> 0, id |-> 0]

Init ==
  /\ issued = 0 /\ holder = NoThread
  /\ stage = [t \in Threads |-> "outside"]
  /\ asked = [t \in Threads |-> NoCall]
  /\ answer = [t \in Threads |-> NoCall]
  /\ result = [t \in Threads |-> "none"]

Goto(t, s) == stage' = [stage EXCEPT ![t] = s]

Ask(t, id) ==
  /\ stage[t] = "outside"
  /\ issued' = issued + 1
  /\ asked' = [asked EXCEPT ![t] = [number |-> issued', id |-> id]]
  /\ answer' = [answer EXCEPT ![t] = NoCall]
  /\ result' = [result EXCEPT ![t] = "none"]
  /\ Goto(t, "queued")
  /\ UNCHANGED holder

Enter(t) ==
  /\ stage[t] = "queued" /\ holder = NoThread
  /\ holder' = t
  /\ Goto(t, "inside")
  /\ UNCHANGED <<issued, asked, answer, result>>

\* The exchange ends with the answer to the very call that is inside.
Serve(t) ==
  /\ stage[t] = "inside" /\ holder = t
  /\ holder' = NoThread
  /\ answer' = [answer EXCEPT ![t] = asked[t]]
  /\ Goto(t, "leaving")
  /\ UNCHANGED <<issued, asked, result>>

\* The exchange ends without an answer.
Fail(t) ==
  /\ stage[t] = "inside" /\ holder = t
  /\ holder' = NoThread
  /\ result' = [result EXCEPT ![t] = "error"]
  /\ \E s \in {"outside", "leaving"} : Goto(t, s)
  /\ UNCHANGED <<issued, asked, answer>>

\* The call returns what it was given, or finds it damaged.
Decide(t) ==
  /\ stage[t] = "leaving" /\ result[t] = "none"
  /\ \E r \in {"ok", "error"} : result' = [result EXCEPT ![t] = r]
  /\ Goto(t, "outside")
  /\ UNCHANGED <<issued, holder, asked, answer>>

\* The call raises what has gone wrong inside.
Raise(t) ==
  /\ stage[t] = "leaving" /\ result[t] = "error"
  /\ Goto(t, "outside")
  /\ UNCHANGED <<issued, holder, asked, answer, result>>

Next ==
  \E t \in Threads :
    \/ \E id \in FrameIDs : Ask(t, id)
    \/ Enter(t) \/ Serve(t) \/ Fail(t) \/ Decide(t) \/ Raise(t)

Spec == Init /\ [][Next]_vars
=============================================================================
