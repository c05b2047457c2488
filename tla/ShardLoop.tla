----------------------------- MODULE ShardLoop -----------------------------
(***************************************************************************)
(* The single-writer world loop of a shard (worlds/loop/shard_loop.go).    *)
(*                                                                         *)
(* Any number of goroutines call Submit; one worker goroutine (run) takes  *)
(* requests from a bounded channel and applies them to the shard state;    *)
(* Stop closes a channel the worker selects on beside the queue.  l.mu     *)
(* guards the counters, never the queue: each lock section and each        *)
(* channel operation of the code is one step here, and everything a        *)
(* goroutine does in between is its own.                                   *)
(*                                                                         *)
(* Data is abstracted to what the properties tell apart: a command is its  *)
(* caller and the number of the call; the shard state is the sequence of   *)
(* the commands whose effects built it, so that two snapshots differ       *)
(* exactly when an effect lies between them; l.tick moves with l.sequence  *)
(* in every step and is not kept beside it.                                *)
(***************************************************************************)
EXTENDS Integers, Sequences, FiniteSets

CONSTANTS
    Clients,        \* goroutines that call Submit
    Stoppers,       \* goroutines that call Stop, once each
    QueueLimit,     \* config.QueueLimit
    DeltaRetention, \* config.DeltaRetention
    MaxSubmits,     \* bound: Submit calls of one client
    NoCommand       \* the worker holds no request

ASSUME ShardLoopAssumption ==
    /\ QueueLimit \in Nat \ {0}
    /\ DeltaRetention \in Nat \ {0}
    /\ MaxSubmits \in Nat
    /\ NoCommand \notin Clients \X (1 .. MaxSubmits)

Commands == Clients \X (1 .. MaxSubmits)

VARIABLES
    started, stopped,  \* l.started; l.stopped and the closed channel l.stop
    queue,             \* l.queue
    workerPc,          \* where run() is; "exited" is the closed channel l.done
    current, outcome,  \* the request in the worker's hands, what Apply did
    sequence,          \* l.sequence (and l.tick)
    world,             \* l.state
    stateVersion, latestSnapshot, replicationFrames, replayLog, \* as in the code
    metrics,           \* l.metrics, the counters of commands
    callerPc,          \* where each client is in Submit
    calls,             \* Submit calls each client has made
    answer,            \* request.done, a channel of capacity one per request
    returned,          \* what Submit returned for each command
    stopperPc          \* where each stopper is in Stop

lifecycle  == <<started, stopped>>
worker     == <<workerPc, current, outcome>>
authority  == <<sequence, world, stateVersion, latestSnapshot, replicationFrames, replayLog>>
callers    == <<callerPc, calls, returned>>
vars == <<lifecycle, queue, worker, authority, metrics, callers, answer, stopperPc>>

\* What a command's Apply can do: write the state, leave it as it was, or
\* return an error; the commands return their errors before they write.
Outcomes == {"changed", "unchanged", "rejected"}

Answers == {"ok", "error", "stopped"}
Returns == Answers \cup {"notStarted", "offerTimeout", "awaitTimeout"}

Mine(c) == <<c, calls[c]>>

-----------------------------------------------------------------------------
(* NewShardLoop *)
(* A definition named Wrong... is a slip the code could have had; nothing  *)
(* here uses it.  PROJECT.json names the definition it would replace and   *)
(* the property that then fails.                                           *)

Init ==
    /\ started = FALSE /\ stopped = FALSE
    /\ queue = <<>>
    /\ workerPc = "unborn" /\ current = NoCommand /\ outcome = "unchanged"
    /\ sequence = 0 /\ world = <<>>
    /\ stateVersion = 0 /\ latestSnapshot = <<>>
    /\ replicationFrames = <<>> /\ replayLog = <<>>
    /\ metrics = [accepted |-> 0, applied |-> 0, rejected |-> 0, timeouts |-> 0]
    /\ callerPc = [c \in Clients |-> "idle"]
    /\ calls = [c \in Clients |-> 0]
    /\ answer = [k \in Commands |-> "none"]
    /\ returned = [k \in Commands |-> "none"]
    /\ stopperPc = [s \in Stoppers |-> "idle"]

-----------------------------------------------------------------------------
(* Start and Stop *)

\* A second Start changes nothing; l.stopped implies l.started, so the branch
\* that returns ErrLoopStopped is never taken.
Start ==
    /\ ~started
    /\ started' = TRUE
    /\ workerPc' = "select"
    /\ UNCHANGED <<stopped, queue, current, outcome, authority, metrics, callers, answer, stopperPc>>

\* Stop before Start returns nil and leaves the loop startable.
StopUnstarted(s) ==
    /\ stopperPc[s] = "idle"
    /\ ~started
    /\ stopperPc' = [stopperPc EXCEPT ![s] = "unneeded"]
    /\ UNCHANGED <<lifecycle, queue, worker, authority, metrics, callers, answer>>

\* The first Stop closes l.stop; a later one only waits.
StopBegin(s) ==
    /\ stopperPc[s] = "idle"
    /\ started
    /\ stopped' = TRUE
    /\ stopperPc' = [stopperPc EXCEPT ![s] = "waiting"]
    /\ UNCHANGED <<started, queue, worker, authority, metrics, callers, answer>>

\* Stop that does not wait for the worker.
WrongStopEnd(s) ==
    /\ stopperPc[s] = "waiting"
    /\ stopperPc' = [stopperPc EXCEPT ![s] = "stopped"]
    /\ UNCHANGED <<lifecycle, queue, worker, authority, metrics, callers, answer>>

StopEnd(s) ==
    /\ stopperPc[s] = "waiting"
    /\ workerPc = "exited"
    /\ stopperPc' = [stopperPc EXCEPT ![s] = "stopped"]
    /\ UNCHANGED <<lifecycle, queue, worker, authority, metrics, callers, answer>>

\* The caller's context may end at any time.
StopAbandoned(s) ==
    /\ stopperPc[s] = "waiting"
    /\ stopperPc' = [stopperPc EXCEPT ![s] = "abandoned"]
    /\ UNCHANGED <<lifecycle, queue, worker, authority, metrics, callers, answer>>

-----------------------------------------------------------------------------
(* Submit *)

Return(c, k, r) ==
    /\ callerPc' = [callerPc EXCEPT ![c] = "idle"]
    /\ returned' = [returned EXCEPT ![k] = r]

\* The first lock section: one look at started and stopped.  The queue is
\* offered the request after the lock is released.
SubmitCheck(c) ==
    /\ callerPc[c] = "idle"
    /\ calls[c] < MaxSubmits
    /\ calls' = [calls EXCEPT ![c] = @ + 1]
    /\ LET k == <<c, calls[c] + 1>> IN
       \/ ~started /\ Return(c, k, "notStarted")
       \/ started /\ stopped /\ Return(c, k, "stopped")
       \/ /\ started /\ ~stopped
          /\ callerPc' = [callerPc EXCEPT ![c] = "offering"]
          /\ UNCHANGED returned
    /\ UNCHANGED <<lifecycle, queue, worker, authority, metrics, answer, stopperPc>>

SubmitEnqueue(c) ==
    /\ callerPc[c] = "offering"
    /\ Len(queue) < QueueLimit
    /\ queue' = Append(queue, Mine(c))
    /\ callerPc' = [callerPc EXCEPT ![c] = "accepted"]
    /\ UNCHANGED <<lifecycle, worker, authority, metrics, calls, returned, answer, stopperPc>>

\* recordAccepted takes the lock again: the worker may already be ahead.
SubmitRecordAccepted(c) ==
    /\ callerPc[c] = "accepted"
    /\ metrics' = [metrics EXCEPT !.accepted = @ + 1]
    /\ callerPc' = [callerPc EXCEPT ![c] = "awaiting"]
    /\ UNCHANGED <<lifecycle, queue, worker, authority, calls, returned, answer, stopperPc>>

\* Only the wait for a place in the queue has a deadline.
WrongSubmitTimeout(c) ==
    /\ callerPc[c] = "offering" /\ Return(c, Mine(c), "offerTimeout")
    /\ metrics' = [metrics EXCEPT !.timeouts = @ + 1]
    /\ UNCHANGED <<lifecycle, queue, worker, authority, calls, answer, stopperPc>>

\* The call always has a deadline, its context's or CommandTimeout; a select
\* that finds the deadline passed may take it although the other case is ready.
SubmitTimeout(c) ==
    /\ \/ callerPc[c] = "offering" /\ Return(c, Mine(c), "offerTimeout")
       \/ callerPc[c] = "awaiting" /\ Return(c, Mine(c), "awaitTimeout")
    /\ metrics' = [metrics EXCEPT !.timeouts = @ + 1]
    /\ UNCHANGED <<lifecycle, queue, worker, authority, calls, answer, stopperPc>>

SubmitReceive(c) ==
    /\ callerPc[c] = "awaiting"
    /\ answer[Mine(c)] # "none"
    /\ Return(c, Mine(c), answer[Mine(c)])
    /\ UNCHANGED <<lifecycle, queue, worker, authority, metrics, calls, answer, stopperPc>>

-----------------------------------------------------------------------------
(* run, apply and rejectPending *)

\* The newest request first.
WrongDequeueNewest ==
    /\ current' = queue[Len(queue)]
    /\ queue' = SubSeq(queue, 1, Len(queue) - 1)

Dequeue ==
    /\ current' = Head(queue)
    /\ queue' = Tail(queue)

RunTake ==
    /\ workerPc = "select"
    /\ queue # <<>>
    /\ Dequeue
    /\ workerPc' = "taken"
    /\ UNCHANGED <<lifecycle, outcome, authority, metrics, callers, answer, stopperPc>>

\* The first lock section of apply numbers the command and takes the snapshot
\* the changes are computed against.
ApplyBegin ==
    /\ workerPc = "taken"
    /\ sequence' = sequence + 1
    /\ workerPc' = "applying"
    /\ UNCHANGED <<lifecycle, queue, current, outcome, world, stateVersion, latestSnapshot,
                   replicationFrames, replayLog, metrics, callers, answer, stopperPc>>

\* The newest DeltaRetention frames.
Retain(frames) ==
    IF Len(frames) > DeltaRetention
    THEN SubSeq(frames, Len(frames) - DeltaRetention + 1, Len(frames))
    ELSE frames

\* A command that changed nothing gets a no-op frame that is not retained.
RecordReplicationFrame(o, snapshot) ==
    /\ latestSnapshot' = snapshot
    /\ IF o = "changed"
       THEN /\ stateVersion' = stateVersion + 1
            /\ replicationFrames' = Retain(Append(replicationFrames,
                   [version |-> stateVersion + 1, sequence |-> sequence]))
       ELSE UNCHANGED <<stateVersion, replicationFrames>>

RecordReplay == replayLog' = Append(replayLog, [command |-> current, sequence |-> sequence])

Count(o) ==
    IF o = "rejected" THEN metrics' = [metrics EXCEPT !.rejected = @ + 1]
                      ELSE metrics' = [metrics EXCEPT !.applied = @ + 1]

\* The command's Apply, on state only the worker touches, and the second lock
\* section: frame, counters and replay record of a success; an error is only
\* counted.
ApplyFinish(o) ==
    /\ workerPc = "applying"
    /\ outcome' = o
    /\ world' = IF o = "changed" THEN Append(world, current) ELSE world
    /\ Count(o)
    /\ IF o = "rejected"
       THEN UNCHANGED <<stateVersion, latestSnapshot, replicationFrames, replayLog>>
       ELSE RecordReplicationFrame(o, world') /\ RecordReplay
    /\ workerPc' = "answering"
    /\ UNCHANGED <<lifecycle, queue, current, sequence, callers, answer, stopperPc>>

\* The error of the command is lost.
WrongAnswerTo(o) == "ok"

AnswerTo(o) == IF o = "rejected" THEN "error" ELSE "ok"

\* request.done has room for one answer: the send never blocks.
ApplyAnswer ==
    /\ workerPc = "answering"
    /\ answer' = [answer EXCEPT ![current] = AnswerTo(outcome)]
    /\ current' = NoCommand
    /\ workerPc' = "select"
    /\ UNCHANGED <<lifecycle, queue, outcome, authority, metrics, callers, stopperPc>>

RunStop ==
    /\ workerPc = "select"
    /\ stopped
    /\ workerPc' = "draining"
    /\ UNCHANGED <<lifecycle, queue, current, outcome, authority, metrics, callers, answer, stopperPc>>

\* request.done without capacity, in the drain.
WrongRejectPending ==
    /\ workerPc = "draining"
    /\ queue # <<>>
    /\ callerPc[Head(queue)[1]] = "awaiting" /\ Mine(Head(queue)[1]) = Head(queue)
    /\ answer' = [answer EXCEPT ![Head(queue)] = "stopped"]
    /\ queue' = Tail(queue)
    /\ UNCHANGED <<lifecycle, worker, authority, metrics, callers, stopperPc>>

RejectPending ==
    /\ workerPc = "draining"
    /\ queue # <<>>
    /\ answer' = [answer EXCEPT ![Head(queue)] = "stopped"]
    /\ queue' = Tail(queue)
    /\ UNCHANGED <<lifecycle, worker, authority, metrics, callers, stopperPc>>

RunExit ==
    /\ workerPc = "draining"
    /\ queue = <<>>
    /\ workerPc' = "exited"
    /\ UNCHANGED <<lifecycle, queue, current, outcome, authority, metrics, callers, answer, stopperPc>>

-----------------------------------------------------------------------------

Caller(c) == SubmitCheck(c) \/ SubmitEnqueue(c) \/ SubmitRecordAccepted(c)
                \/ SubmitTimeout(c) \/ SubmitReceive(c)

Stopper(s) == StopUnstarted(s) \/ StopBegin(s) \/ StopEnd(s) \/ StopAbandoned(s)

Apply == ApplyBegin \/ (\E o \in Outcomes : ApplyFinish(o)) \/ ApplyAnswer

Worker == RunTake \/ Apply \/ RunStop \/ RejectPending \/ RunExit

Next ==
    \/ Start
    \/ Worker
    \/ \E c \in Clients : Caller(c)
    \/ \E s \in Stoppers : Stopper(s)

Spec == Init /\ [][Next]_vars

\* A goroutine that can run does.  A select that finds several cases ready
\* picks one at random, so the worker takes a stop channel that stays closed
\* even if the queue is never empty (strong fairness on RunStop); a deadline
\* passes (SubmitTimeout).  Nobody has to call Start, Submit or Stop, and an
\* offer to a full queue may lose every race.
Fairness ==
    /\ WF_vars(RunTake) /\ WF_vars(Apply) /\ SF_vars(RunStop)
    /\ WF_vars(RejectPending) /\ WF_vars(RunExit)
    /\ \A c \in Clients : /\ WF_vars(SubmitRecordAccepted(c))
                          /\ WF_vars(SubmitTimeout(c))
    /\ \A s \in Stoppers : WF_vars(StopEnd(s))

FairSpec == Spec /\ Fairness

-----------------------------------------------------------------------------
(* Properties *)

Queued(k) == \E i \in 1 .. Len(queue) : queue[i] = k
Logged(k) == \E i \in 1 .. Len(replayLog) : replayLog[i].command = k
Timeouts  == {"offerTimeout", "awaitTimeout"}

\* The variables keep the shapes the code gives them; the queue never exceeds
\* the channel's capacity and the retained frames never exceed the retention.
TypeOK ==
    /\ started \in BOOLEAN /\ stopped \in BOOLEAN
    /\ queue \in Seq(Commands) /\ Len(queue) <= QueueLimit
    /\ workerPc \in {"unborn", "select", "taken", "applying", "answering", "draining", "exited"}
    /\ current \in Commands \cup {NoCommand}
    /\ outcome \in Outcomes
    /\ sequence \in Nat
    /\ world \in Seq(Commands) /\ latestSnapshot \in Seq(Commands)
    /\ stateVersion \in Nat
    /\ replicationFrames \in Seq([version : Nat, sequence : Nat])
    /\ Len(replicationFrames) <= DeltaRetention
    /\ replayLog \in Seq([command : Commands, sequence : Nat])
    /\ metrics \in [accepted : Nat, applied : Nat, rejected : Nat, timeouts : Nat]
    /\ callerPc \in [Clients -> {"idle", "offering", "accepted", "awaiting"}]
    /\ calls \in [Clients -> 0 .. MaxSubmits]
    /\ answer \in [Commands -> Answers \cup {"none"}]
    /\ returned \in [Commands -> Returns \cup {"none"}]
    /\ stopperPc \in [Stoppers -> {"idle", "unneeded", "waiting", "stopped", "abandoned"}]

\* A command takes effect at most once however its caller's timeouts, the
\* worker and Stop interleave: the replay log (apply) names no command twice
\* and its sequence numbers only grow.
AppliedAtMostOnce ==
    \A i, j \in 1 .. Len(replayLog) : i < j =>
        /\ replayLog[i].command # replayLog[j].command
        /\ replayLog[i].sequence < replayLog[j].sequence

\* What Submit returns is the truth about the command: after a result it is in
\* the replay log; after any error but a timeout of an accepted command it is
\* not, and is nowhere it could still be applied from.
ReturnIsTrue ==
    \A k \in Commands :
        /\ returned[k] = "ok" => Logged(k)
        /\ returned[k] \in {"error", "stopped", "notStarted", "offerTimeout"} =>
               ~Logged(k) /\ ~Queued(k) /\ current # k

\* A caller's commands are applied in the order of its calls, even when it
\* gave up on an earlier one that is still queued: a retry never overtakes
\* what it retries (the queue is first-in first-out and has one reader).
RetryNeverOvertakes ==
    \A i, j \in 1 .. Len(replayLog) :
        (i < j /\ replayLog[i].command[1] = replayLog[j].command[1]) =>
            replayLog[i].command[2] < replayLog[j].command[2]

\* When a Stop has returned nil the authority is final: no command touches the
\* state, the counters or the replay log afterwards (StopEnd waits for l.done,
\* which run closes last).
StopIsABarrier ==
    [][(\E s \in Stoppers : stopperPc[s] = "stopped") => UNCHANGED <<authority, answer>>]_vars

\* Every Submit returns, also that of a command that reached the queue after
\* the worker had drained it and left: only the deadline answers that one.
EverySubmitReturns ==
    \A c \in Clients : callerPc[c] # "idle" ~> callerPc[c] = "idle"

\* Once Stop has closed the channel the worker leaves, whatever is queued and
\* whoever still offers.
StopCompletes == stopped ~> workerPc = "exited"

-----------------------------------------------------------------------------
(* The inductive invariant behind the safety properties *)

Holding == {"taken", "applying", "answering"}

\* Where the goroutines are agrees with what they hold.
Control ==
    /\ workerPc = "unborn" <=> ~started
    /\ \A c \in Clients : callerPc[c] # "idle" => calls[c] >= 1
    /\ current # NoCommand <=> workerPc \in Holding
    /\ \A s \in Stoppers : stopperPc[s] = "stopped" => workerPc = "exited"

Before(a, b) == a[1] = b[1] => a[2] < b[2]

\* Log, worker and queue are one line in which every caller's commands stand
\* in the order of its calls.
InOneLine ==
    /\ \A i, j \in 1 .. Len(replayLog) :
          i < j => Before(replayLog[i].command, replayLog[j].command)
    /\ \A i, j \in 1 .. Len(queue) : i < j => Before(queue[i], queue[j])
    /\ \A i \in 1 .. Len(replayLog), j \in 1 .. Len(queue) :
          Before(replayLog[i].command, queue[j])
    /\ current # NoCommand => \A j \in 1 .. Len(queue) : Before(current, queue[j])
    /\ workerPc \in {"taken", "applying"} =>
          \A i \in 1 .. Len(replayLog) : Before(replayLog[i].command, current)

\* The call has put its command into the queue, or is over.
PastOffer(k) ==
    \/ k[2] < calls[k[1]]
    \/ k[2] = calls[k[1]] /\ callerPc[k[1]] # "offering"

Unanswered(k) ==
    /\ PastOffer(k)
    /\ answer[k] = "none"
    /\ returned[k] \in {"none", "awaitTimeout"}

\* What the caller knows and what became of the command agree.
Bookkeeping ==
    /\ \A i \in 1 .. Len(queue) : Unanswered(queue[i])
    /\ current # NoCommand => Unanswered(current)
    /\ \A i \in 1 .. Len(replayLog) :
          LET k == replayLog[i].command IN
          /\ PastOffer(k)
          /\ answer[k] \in {"none", "ok"}
          /\ returned[k] \in {"none", "awaitTimeout", "ok"}
    /\ \A k \in Commands :
          /\ (answer[k] = "ok" \/ returned[k] = "ok") => Logged(k)
          /\ answer[k] # "none" => PastOffer(k)
          /\ k[2] > calls[k[1]] => returned[k] = "none"
    /\ \A c \in Clients : callerPc[c] # "idle" => returned[Mine(c)] = "none"
    /\ workerPc = "answering" => (Logged(current) <=> outcome # "rejected")

\* Sequence numbers of the log grow and stay below that of a running command.
Numbered ==
    /\ \A i, j \in 1 .. Len(replayLog) :
          i < j => replayLog[i].sequence < replayLog[j].sequence
    /\ \A i \in 1 .. Len(replayLog) :
          /\ replayLog[i].sequence <= sequence
          /\ workerPc = "applying" => replayLog[i].sequence < sequence

\* Why a command is applied once, in order, and never after its caller was
\* told otherwise: log, worker and queue form one line, and every command in
\* it is unanswered or answered with the truth.
IInv == TypeOK /\ Control /\ InOneLine /\ Bookkeeping /\ Numbered
=============================================================================
