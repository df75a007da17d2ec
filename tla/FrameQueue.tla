----------------------------- MODULE FrameQueue -----------------------------
(***************************************************************************)
(* What a transport's receive() promises the client, and what Client takes *)
(* it for: a queue of frames. Frames join it one at a time, in the order   *)
(* of the line; a receive that returns takes the oldest; one that times    *)
(* out takes none. There are no bytes here, no markers and no time. Which  *)
(* frames join is not promised: a damaged line may swallow some.           *)
(***************************************************************************)
EXTENDS Naturals, Sequences

VARIABLES
  rx,        \* the frames that have come and have not been returned
  waiting,   \* is a receive() under way?
  returned   \* the frames returned so far

vars == <<rx, waiting, returned>>

Init == rx = <<>> /\ waiting = FALSE /\ returned = <<>>

\* A frame is complete: it joins the queue, and nothing before it changes.
Join ==
  /\ Len(rx') = Len(rx) + 1
  /\ SubSeq(rx', 1, Len(rx)) = rx
  /\ UNCHANGED <<waiting, returned>>

Ask ==
  /\ ~waiting
  /\ waiting' = TRUE
  /\ UNCHANGED <<rx, returned>>

\* receive() returns the oldest frame.
Take ==
  /\ waiting /\ rx # <<>>
  /\ waiting' = FALSE
  /\ returned' = Append(returned, Head(rx))
  /\ rx' = Tail(rx)

\* receive() raises ReadTimeoutError.
GiveUp ==
  /\ waiting
  /\ waiting' = FALSE
  /\ UNCHANGED <<rx, returned>>

Next == Join \/ Ask \/ Take \/ GiveUp

Spec == Init /\ [][Next]_vars
=============================================================================
