---------------------------- MODULE ReceiveQueue ----------------------------
(***************************************************************************)
(* Receive implements FrameQueue: what is in the buffer of bytes, with     *)
(* what the serial receive has already read of a frame, is a queue of      *)
(* frames, however noise and damage lie between them.                      *)
(***************************************************************************)
EXTENDS Receive

\* A line of which a items have arrived, and a receive that has dropped the
\* first b of them: does it find a frame, and from where to where?
FoundBehind(l, a, b) ==
  LET rest == SubSeq(l, b + 1, a)
  IN  Find(rest) > 0 /\ IsComplete(From(rest, Find(rest)))

FirstBehind(l, a, b) == b + Find(SubSeq(l, b + 1, a))

LastBehind(l, a, b) ==
  LET rest == SubSeq(l, b + 1, a)
  IN  b + Find(rest) + TotalSize(From(rest, Find(rest))) - 1

\* The frames that one receive after the other finds.
FramesBehind(l, a) ==
  LET frames[b \in Nat] ==
        IF FoundBehind(l, a, b)
        THEN <<<<FirstBehind(l, a, b), LastBehind(l, a, b)>>>>
               \o frames[LastBehind(l, a, b)]
        ELSE <<>>
  IN  frames

\* Where the buffer begins, with what the call has read and not dropped.
Base ==
  CASE pc = "sync" -> taken - Len(window)
    [] pc = "len"  -> taken - MarkerLength
    [] pc = "body" -> taken - MarkerLength - 1
    [] OTHER -> taken

Queue ==
  INSTANCE FrameQueue WITH
    rx       <- FramesBehind(line, arrived)[Base],
    waiting  <- pc # "idle",
    returned <- got

\* The bytes behave as the queue of frames that the client takes them for: an
\* item that arrives completes at most one frame and changes none before it, a
\* receive removes exactly the one it returns, a timeout removes none.
ImplementsFrameQueue == Queue!Spec
=============================================================================
