------------------------ MODULE ShardLoopRefinement ------------------------
(* The world loop keeps the promises of ShardAuthority. *)
EXTENDS ShardLoop

Failed(k) == answer[k] = "error" \/ (workerPc = "answering" /\ current = k /\ outcome = "rejected")

GivenUp(k) == answer[k] = "stopped" \/ returned[k] \in {"stopped", "notStarted", "offerTimeout"}

statusOf(k) ==
    IF Logged(k) THEN "applied"
    ELSE IF Failed(k) THEN "failed"
    ELSE IF GivenUp(k) THEN "void"
    ELSE IF k[2] > calls[k[1]] THEN "unused" ELSE "open"

replyOf(k) ==
    CASE returned[k] \in {"stopped", "notStarted", "offerTimeout"} -> "refused"
      [] returned[k] = "awaitTimeout"                              -> "unknown"
      [] OTHER                                                     -> returned[k]

history == [i \in 1 .. Len(replayLog) |-> replayLog[i].command]
status == [k \in Commands |-> statusOf(k)]
reply == [k \in Commands |-> replyOf(k)]
closed == workerPc = "exited"

Authority == INSTANCE ShardAuthority WITH state <- world

\* Every behaviour of the loop is a behaviour of the abstract authority: the
\* effect of a command is one step between call and reply (ApplyFinish), the
\* queue, the worker's steps and the two-lock Submit are invisible.
ImplementsAuthority == Authority!Spec

\* What the refinement needs to know beside IInv: a caller has one call open at
\* most, and a command that failed stood before all that are still in line.
OneCallAtATime ==
    \A k \in Commands :
        returned[k] = "none" /\ k[2] <= calls[k[1]] => k = Mine(k[1]) /\ callerPc[k[1]] # "idle"
FailedInLine ==
    \A k \in Commands : answer[k] = "error" =>
        /\ \A j \in 1 .. Len(queue) : Before(k, queue[j])
        /\ current # NoCommand => Before(k, current)
RInv == IInv /\ OneCallAtATime /\ FailedInLine
=============================================================================
