---------------------------- MODULE ClientService ----------------------------
(***************************************************************************)
(* Client implements Service: behind retries, reconnects, callbacks, the   *)
(* user's disconnect() and all the faults of a quiet link (QuietLink), the *)
(* threads see exclusive exchanges that end only with their own answer or  *)
(* an error.                                                               *)
(***************************************************************************)
EXTENDS Client

\* The program points of a call, as the caller sees them.
StageOf(label) ==
  CASE label = "idle" -> "outside"
    [] label = "lock" -> "queued"
    [] label \in Locked -> "inside"
    [] label \in {"exhausted", "parse"} -> "leaving"

\* An exception is an error, whichever it is.
ResultOf(o) == IF o \in Errors THEN "error" ELSE o

Abstract ==
  INSTANCE Service WITH
    issued <- calls,
    holder <- lock,
    stage  <- [t \in Threads |-> StageOf(pc[t])],
    asked  <- [t \in Threads |-> [number |-> call[t], id |-> want[t]]],
    answer <- [t \in Threads |-> [number |-> raw[t].call, id |-> raw[t].id]],
    result <- [t \in Threads |-> ResultOf(outcome[t])]

\* AccuRad is the exclusive service that its threads are promised: every step
\* of the request path is a step of Service or none at all.
ImplementsService == Abstract!Spec
=============================================================================
