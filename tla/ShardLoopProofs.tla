-------------------------- MODULE ShardLoopProofs --------------------------
(***************************************************************************)
(* Proofs about ShardLoop for every set of clients and stoppers, every     *)
(* queue limit, delta retention and number of calls; and, in the second    *)
(* half, about the commands it applies (ShardCommands) for every set of    *)
(* sessions, characters and NPCs.                                          *)
(*                                                                         *)
(* The world of the commands is well formed (WorldGood), its dead are out  *)
(* of the fight (Standing), and its goods are what the claims are worth    *)
(* (Tallied).  Fought, Moved, Fared and Kept say what of that a command    *)
(* leaves; Works and Trades say it of a step, with what its record does.   *)
(***************************************************************************)
EXTENDS ShardLoopRefinement, ShardCommands, SequenceTheorems, FiniteSetTheorems,
        WellFoundedInduction, NaturalsInduction, TLAPS

-----------------------------------------------------------------------------
(* Sequences *)

\* Removing the head shifts the rest by one.
LEMMA TailFacts ==
    ASSUME NEW S, NEW q \in Seq(S), q # <<>>
    PROVE  /\ Head(q) = q[1] /\ Head(q) \in S
           /\ Tail(q) \in Seq(S)
           /\ Len(q) >= 1 /\ Len(Tail(q)) = Len(q) - 1
           /\ \A i \in 1 .. Len(Tail(q)) : i + 1 \in 1 .. Len(q) /\ Tail(q)[i] = q[i + 1]
BY HeadTailProperties

\* Appending adds one element at the end.
LEMMA AppendFacts ==
    ASSUME NEW S, NEW q \in Seq(S), NEW e \in S
    PROVE  /\ Append(q, e) \in Seq(S)
           /\ Len(Append(q, e)) = Len(q) + 1
           /\ Append(q, e)[Len(q) + 1] = e
           /\ \A i \in 1 .. Len(q) : Append(q, e)[i] = q[i]
BY AppendProperties

\* What Retain keeps is a sequence of frames no longer than the retention,
\* the suffix of its argument.
LEMMA RetainFacts ==
    ASSUME NEW S, NEW f \in Seq(S)
    PROVE  /\ Retain(f) \in Seq(S)
           /\ Len(Retain(f)) = IF Len(f) > DeltaRetention THEN DeltaRetention ELSE Len(f)
           /\ \A i \in 1 .. Len(Retain(f)) :
                 Retain(f)[i] = f[Len(f) - Len(Retain(f)) + i]
<1> USE ShardLoopAssumption DEF Retain
<1>1. CASE Len(f) > DeltaRetention
  <2> DEFINE m == Len(f) - DeltaRetention + 1
  <2>1. m \in 1 .. Len(f) /\ Len(f) \in Nat
    BY <1>1, LenProperties
  <2>2. \A i \in m .. Len(f) : f[i] \in S
    BY <2>1, ElementOfSeq
  <2>3. /\ SubSeq(f, m, Len(f)) \in Seq(S)
        /\ Len(SubSeq(f, m, Len(f))) = Len(f) - m + 1
        /\ \A i \in 1 .. Len(f) - m + 1 : SubSeq(f, m, Len(f))[i] = f[m + i - 1]
    BY <2>1, <2>2, SubSeqProperties
  <2> QED BY <1>1, <2>1, <2>3
<1>2. CASE ~(Len(f) > DeltaRetention)
  BY <1>2, LenProperties
<1> QED BY <1>1, <1>2

-----------------------------------------------------------------------------
(* Types and control *)

\* The command a client is busy with is one of the instance's commands.
LEMMA MineIsACommand ==
    ASSUME TypeOK, Control, NEW c \in Clients, callerPc[c] # "idle"
    PROVE  Mine(c) \in Commands
BY DEF TypeOK, Control, Mine, Commands

\* Counting one more keeps the counters numbers.
LEMMA CountersTyped ==
    ASSUME NEW m \in [accepted : Nat, applied : Nat, rejected : Nat, timeouts : Nat]
    PROVE  /\ [m EXCEPT !.accepted = @ + 1] \in [accepted : Nat, applied : Nat, rejected : Nat, timeouts : Nat]
           /\ [m EXCEPT !.applied = @ + 1] \in [accepted : Nat, applied : Nat, rejected : Nat, timeouts : Nat]
           /\ [m EXCEPT !.rejected = @ + 1] \in [accepted : Nat, applied : Nat, rejected : Nat, timeouts : Nat]
           /\ [m EXCEPT !.timeouts = @ + 1] \in [accepted : Nat, applied : Nat, rejected : Nat, timeouts : Nat]
OBVIOUS

\* Starting and stopping keep types and control.
LEMMA LifecycleTyped ==
    ASSUME TypeOK, Control, NEW s \in Stoppers, Start \/ Stopper(s)
    PROVE  (TypeOK /\ Control)'
<1> USE DEF TypeOK, Control, Holding, lifecycle, worker, authority, callers
<1>1. CASE Start
  BY <1>1 DEF Start
<1>2. CASE StopUnstarted(s)
  BY <1>2 DEF StopUnstarted
<1>3. CASE StopBegin(s)
  BY <1>3 DEF StopBegin
<1>4. CASE StopEnd(s)
  BY <1>4 DEF StopEnd
<1>5. CASE StopAbandoned(s)
  BY <1>5 DEF StopAbandoned
<1> QED BY <1>1, <1>2, <1>3, <1>4, <1>5 DEF Stopper

\* Every step of Submit keeps types and control.
LEMMA CallerTyped ==
    ASSUME TypeOK, Control, NEW c \in Clients, Caller(c)
    PROVE  (TypeOK /\ Control)'
<1> USE DEF Holding, lifecycle, worker, authority, callers
<1>1. CASE SubmitCheck(c)
  <2>0. calls[c] + 1 \in 0 .. MaxSubmits
    BY <1>1, ShardLoopAssumption DEF SubmitCheck, TypeOK
  <2>1. TypeOK'
    <3>1. calls' \in [Clients -> 0 .. MaxSubmits]
      BY <1>1, <2>0 DEF SubmitCheck, TypeOK
    <3>2. callerPc' \in [Clients -> {"idle", "offering", "accepted", "awaiting"}]
      BY <1>1 DEF SubmitCheck, Return, TypeOK
    <3>3. returned' \in [Commands -> Returns \cup {"none"}]
      BY <1>1 DEF SubmitCheck, Return, TypeOK, Returns, Answers
    <3> QED BY <1>1, <3>1, <3>2, <3>3 DEF SubmitCheck, TypeOK
  <2>2. Control'
    BY <1>1 DEF SubmitCheck, Return, TypeOK, Control
  <2> QED BY <2>1, <2>2
<1>2. CASE SubmitEnqueue(c)
  <2>1. Mine(c) \in Commands
    BY <1>2, MineIsACommand DEF SubmitEnqueue
  <2>2. queue' \in Seq(Commands) /\ Len(queue') = Len(queue) + 1
    BY <1>2, <2>1, AppendFacts DEF SubmitEnqueue, TypeOK
  <2>3. Len(queue) + 1 <= QueueLimit
    BY <1>2, ShardLoopAssumption, LenProperties DEF SubmitEnqueue, TypeOK
  <2>4. TypeOK'
    BY <1>2, <2>2, <2>3 DEF SubmitEnqueue, TypeOK
  <2>5. Control'
    BY <1>2 DEF SubmitEnqueue, TypeOK, Control
  <2> QED BY <2>4, <2>5
<1>3. CASE SubmitRecordAccepted(c)
  <2>1. TypeOK'
    BY <1>3, CountersTyped DEF SubmitRecordAccepted, TypeOK
  <2>2. Control'
    BY <1>3 DEF SubmitRecordAccepted, TypeOK, Control
  <2> QED BY <2>1, <2>2
<1>4. CASE SubmitTimeout(c)
  <2>1. TypeOK'
    <3>1. callerPc' \in [Clients -> {"idle", "offering", "accepted", "awaiting"}]
      BY <1>4 DEF SubmitTimeout, Return, TypeOK
    <3>2. returned' \in [Commands -> Returns \cup {"none"}]
      BY <1>4 DEF SubmitTimeout, Return, TypeOK, Returns
    <3> QED BY <1>4, <3>1, <3>2, CountersTyped DEF SubmitTimeout, TypeOK
  <2>2. Control'
    BY <1>4 DEF SubmitTimeout, Return, TypeOK, Control
  <2> QED BY <2>1, <2>2
<1>5. CASE SubmitReceive(c)
  <2>1. answer[Mine(c)] \in Returns
    BY <1>5, MineIsACommand DEF SubmitReceive, TypeOK, Returns, Answers
  <2>2. TypeOK'
    BY <1>5, <2>1 DEF SubmitReceive, Return, TypeOK
  <2>3. Control'
    BY <1>5 DEF SubmitReceive, Return, TypeOK, Control
  <2> QED BY <2>2, <2>3
<1> QED BY <1>1, <1>2, <1>3, <1>4, <1>5 DEF Caller

\* Every step of the worker keeps types and control.
LEMMA WorkerTyped ==
    ASSUME TypeOK, Control, Worker
    PROVE  (TypeOK /\ Control)'
<1> USE DEF Holding, lifecycle, worker, authority, callers
<1>0. NoCommand \notin Commands
  BY ShardLoopAssumption DEF Commands
<1>1. CASE RunTake
  <2>1. /\ Head(queue) \in Commands
        /\ Tail(queue) \in Seq(Commands)
        /\ Len(Tail(queue)) <= QueueLimit
    BY <1>1, TailFacts, LenProperties, ShardLoopAssumption DEF RunTake, TypeOK
  <2>2. TypeOK'
    BY <1>1, <2>1 DEF RunTake, Dequeue, TypeOK
  <2>3. Control'
    BY <1>0, <1>1, <2>1 DEF RunTake, Dequeue, TypeOK, Control
  <2> QED BY <2>2, <2>3
<1>2. CASE ApplyBegin
  BY <1>2 DEF ApplyBegin, TypeOK, Control
<1>3. ASSUME NEW o \in Outcomes, ApplyFinish(o) PROVE (TypeOK /\ Control)'
  <2>1. current \in Commands
    BY <1>3 DEF ApplyFinish, TypeOK, Control
  <2>2. world' \in Seq(Commands)
    BY <1>3, <2>1, AppendFacts DEF ApplyFinish, TypeOK
  <2>3. /\ latestSnapshot' \in Seq(Commands)
        /\ stateVersion' \in Nat
    <3>1. CASE o = "rejected"
      BY <1>3, <3>1 DEF ApplyFinish, TypeOK
    <3>2. CASE o # "rejected"
      <4>1. RecordReplicationFrame(o, world')
        BY <1>3, <3>2 DEF ApplyFinish
      <4>2. latestSnapshot' = world'
        BY <4>1 DEF RecordReplicationFrame
      <4>3. stateVersion' = stateVersion + 1 \/ stateVersion' = stateVersion
        BY <4>1 DEF RecordReplicationFrame
      <4> QED BY <2>2, <4>2, <4>3 DEF TypeOK
    <3> QED BY <3>1, <3>2
  <2>4. /\ replicationFrames' \in Seq([version : Nat, sequence : Nat])
        /\ Len(replicationFrames') <= DeltaRetention
    <3> DEFINE F == [version : Nat, sequence : Nat]
               f == Append(replicationFrames, [version |-> stateVersion + 1, sequence |-> sequence])
    <3>1. f \in Seq(F)
      BY AppendFacts DEF TypeOK
    <3> HIDE DEF f, F
    <3>a. Len(f) \in Nat
      BY <3>1, LenProperties
    <3>b. Retain(f) \in Seq(F) /\ Len(Retain(f)) = IF Len(f) > DeltaRetention THEN DeltaRetention ELSE Len(f)
      BY <3>1, RetainFacts
    <3>2. Retain(f) \in Seq(F) /\ Len(Retain(f)) <= DeltaRetention
      BY <3>a, <3>b, ShardLoopAssumption
    <3>3. replicationFrames' = Retain(f) \/ replicationFrames' = replicationFrames
      BY <1>3 DEF ApplyFinish, RecordReplicationFrame, f
    <3> QED BY <3>2, <3>3 DEF TypeOK, F
  <2>5. replayLog' \in Seq([command : Commands, sequence : Nat])
    <3> DEFINE R == [command : Commands, sequence : Nat]
    <3>1. [command |-> current, sequence |-> sequence] \in R
      BY <2>1 DEF TypeOK
    <3>2. Append(replayLog, [command |-> current, sequence |-> sequence]) \in Seq(R)
      BY <3>1, AppendFacts DEF TypeOK
    <3> QED BY <1>3, <3>2 DEF ApplyFinish, RecordReplay, TypeOK
  <2>6. metrics' \in [accepted : Nat, applied : Nat, rejected : Nat, timeouts : Nat]
    BY <1>3, CountersTyped DEF ApplyFinish, Count, TypeOK
  <2>7. TypeOK'
    BY <1>3, <2>2, <2>3, <2>4, <2>5, <2>6 DEF ApplyFinish, TypeOK
  <2>8. Control'
    BY <1>3 DEF ApplyFinish, Control
  <2> QED BY <2>7, <2>8
<1>4. CASE ApplyAnswer
  <2>1. TypeOK'
    BY <1>4 DEF ApplyAnswer, AnswerTo, Answers, TypeOK
  <2>2. Control'
    BY <1>4 DEF ApplyAnswer, Control
  <2> QED BY <2>1, <2>2
<1>5. CASE RunStop
  BY <1>5 DEF RunStop, TypeOK, Control
<1>6. CASE RejectPending
  <2>1. Tail(queue) \in Seq(Commands) /\ Len(Tail(queue)) <= QueueLimit
    BY <1>6, TailFacts, LenProperties, ShardLoopAssumption DEF RejectPending, TypeOK
  <2>2. TypeOK'
    BY <1>6, <2>1 DEF RejectPending, Answers, TypeOK
  <2>3. Control'
    BY <1>6 DEF RejectPending, Control
  <2> QED BY <2>2, <2>3
<1>7. CASE RunExit
  BY <1>7 DEF RunExit, TypeOK, Control
<1> QED BY <1>1, <1>2, <1>3, <1>4, <1>5, <1>6, <1>7 DEF Worker, Apply

\* The variables keep their types, a busy caller has made a call, and the
\* worker holds a command exactly between taking and answering it.
THEOREM TypeCorrect == Spec => [](TypeOK /\ Control)
<1>1. Init => TypeOK /\ Control
  <2> SUFFICES ASSUME Init PROVE TypeOK /\ Control
    OBVIOUS
  <2>1. /\ \A S : <<>> \in Seq(S)
        /\ Len(<<>>) = 0
    BY EmptySeq
  <2>2. TypeOK
    <3>1. /\ callerPc \in [Clients -> {"idle", "offering", "accepted", "awaiting"}]
          /\ calls \in [Clients -> 0 .. MaxSubmits]
          /\ answer \in [Commands -> Answers \cup {"none"}]
          /\ returned \in [Commands -> Returns \cup {"none"}]
          /\ stopperPc \in [Stoppers -> {"idle", "unneeded", "waiting", "stopped", "abandoned"}]
      BY ShardLoopAssumption DEF Init
    <3>2. Len(queue) <= QueueLimit /\ Len(replicationFrames) <= DeltaRetention
      BY <2>1, ShardLoopAssumption DEF Init
    <3>3. /\ queue \in Seq(Commands) /\ world \in Seq(Commands) /\ latestSnapshot \in Seq(Commands)
          /\ replicationFrames \in Seq([version : Nat, sequence : Nat])
          /\ replayLog \in Seq([command : Commands, sequence : Nat])
      BY <2>1 DEF Init
    <3>4. /\ started \in BOOLEAN /\ stopped \in BOOLEAN
          /\ workerPc \in {"unborn", "select", "taken", "applying", "answering", "draining", "exited"}
          /\ current \in Commands \cup {NoCommand}
          /\ outcome \in Outcomes
          /\ sequence \in Nat /\ stateVersion \in Nat
      BY DEF Init, Outcomes
    <3>5. metrics \in [accepted : Nat, applied : Nat, rejected : Nat, timeouts : Nat]
      BY DEF Init
    <3> QED BY <3>1, <3>2, <3>3, <3>4, <3>5 DEF TypeOK
  <2>3. Control
    BY ShardLoopAssumption DEF Init, Control, Holding
  <2> QED BY <2>2, <2>3
<1>2. TypeOK /\ Control /\ [Next]_vars => (TypeOK /\ Control)'
  <2> SUFFICES ASSUME TypeOK, Control, [Next]_vars PROVE (TypeOK /\ Control)'
    OBVIOUS
  <2>1. CASE Start
    BY <2>1 DEF Start, TypeOK, Control, Holding, lifecycle, worker, authority, callers
  <2>2. CASE Worker
    BY <2>2, WorkerTyped
  <2>3. ASSUME NEW c \in Clients, Caller(c) PROVE (TypeOK /\ Control)'
    BY <2>3, CallerTyped
  <2>4. ASSUME NEW s \in Stoppers, Stopper(s) PROVE (TypeOK /\ Control)'
    BY <2>4, LifecycleTyped
  <2>5. CASE UNCHANGED vars
    BY <2>5 DEF vars, TypeOK, Control, lifecycle, worker, authority, callers
  <2> QED BY <2>1, <2>2, <2>3, <2>4, <2>5 DEF Next
<1> QED BY <1>1, <1>2, PTL DEF Spec

-----------------------------------------------------------------------------
(* The line of commands *)

InLine == InOneLine /\ Bookkeeping /\ Numbered

\* Commands are pairs, and one that comes before another is another one.
LEMMA CommandFacts ==
    /\ \A k \in Commands : /\ k[1] \in Clients /\ k[2] \in 1 .. MaxSubmits
                           /\ k = <<k[1], k[2]>> /\ k[2] \in Nat
    /\ \A a, b \in Commands : Before(a, b) => a # b
<1>1. \A k \in Commands : /\ k[1] \in Clients /\ k[2] \in 1 .. MaxSubmits
                          /\ k = <<k[1], k[2]>> /\ k[2] \in Nat
  BY ShardLoopAssumption DEF Commands
<1>2. \A a, b \in Commands : Before(a, b) => a # b
  BY <1>1, ShardLoopAssumption DEF Before
<1> QED BY <1>1, <1>2

\* Everything in the line is a command.
LEMMA LineTyped ==
    ASSUME TypeOK
    PROVE  /\ \A i \in 1 .. Len(queue) : queue[i] \in Commands
           /\ \A i \in 1 .. Len(replayLog) : replayLog[i].command \in Commands /\ replayLog[i].sequence \in Nat
           /\ Len(queue) \in Nat /\ Len(replayLog) \in Nat
           /\ \A c \in Clients : calls[c] \in Nat
<1>1. \A i \in 1 .. Len(queue) : queue[i] \in Commands
  BY ElementOfSeq DEF TypeOK
<1>2. \A i \in 1 .. Len(replayLog) : replayLog[i] \in [command : Commands, sequence : Nat]
  BY ElementOfSeq DEF TypeOK
<1>3. Len(queue) \in Nat /\ Len(replayLog) \in Nat
  BY LenProperties DEF TypeOK
<1>4. \A c \in Clients : calls[c] \in Nat
  BY ShardLoopAssumption DEF TypeOK
<1> QED BY <1>1, <1>2, <1>3, <1>4

\* A step that moves no command keeps the line.
LEMMA QuietStep ==
    ASSUME InLine,
           UNCHANGED <<queue, current, outcome, sequence, replayLog, callerPc, calls, answer, returned>>,
           \/ workerPc' = workerPc
           \/ workerPc \notin Holding /\ workerPc' \notin Holding
    PROVE  InLine'
<1>1. InOneLine'
  BY DEF InLine, InOneLine, Holding
<1>2. Bookkeeping'
  BY DEF InLine, Bookkeeping, Unanswered, PastOffer, Logged, Holding, Mine
<1>3. Numbered'
  BY DEF InLine, Numbered, Holding
<1> QED BY <1>1, <1>2, <1>3 DEF InLine

\* A call that begins, and the refusals it may meet at once, concern a command
\* that is nowhere yet.
LEMMA SubmitCheckKeepsLine ==
    ASSUME TypeOK, Control, InLine, NEW c \in Clients, SubmitCheck(c)
    PROVE  InLine'
<1> DEFINE new == <<c, calls[c] + 1>>
<1>1. /\ UNCHANGED <<queue, current, outcome, workerPc, sequence, replayLog, answer>>
      /\ calls' = [calls EXCEPT ![c] = @ + 1]
      /\ callerPc[c] = "idle"
      /\ callerPc' = [callerPc EXCEPT ![c] = "idle"] \/ callerPc' = [callerPc EXCEPT ![c] = "offering"]
      /\ \/ callerPc'[c] = "offering" /\ returned' = returned
         \/ callerPc'[c] = "idle" /\ \E r \in {"notStarted", "stopped"} : returned' = [returned EXCEPT ![new] = r]
  BY DEF SubmitCheck, Return, lifecycle, worker, authority, callers, TypeOK
<1>2. \A k \in Commands : PastOffer(k) => PastOffer(k)' /\ k # new
  <2> SUFFICES ASSUME NEW k \in Commands, PastOffer(k) PROVE PastOffer(k)' /\ k # new
    OBVIOUS
  <2>1. /\ k[1] \in Clients /\ k[2] \in Nat /\ k = <<k[1], k[2]>>
        /\ calls[k[1]] \in Nat /\ calls[c] \in Nat /\ k[2] <= calls[k[1]]
    BY CommandFacts, LineTyped DEF PastOffer
  <2>2. k # new
    BY <2>1
  <2>3. PastOffer(k)'
    BY <1>1, <2>1 DEF PastOffer, TypeOK
  <2> QED BY <2>2, <2>3
<1>3. \A k \in Commands : k # new => returned'[k] = returned[k]
  BY <1>1 DEF TypeOK
<1>4. InOneLine'
  BY <1>1 DEF InLine, InOneLine
<1>5. Bookkeeping'
  <2>1. \A i \in 1 .. Len(queue)' : Unanswered(queue[i])'
    BY <1>1, <1>2, <1>3, LineTyped DEF InLine, Bookkeeping, Unanswered
  <2>2. (current # NoCommand)' => Unanswered(current)'
    BY <1>1, <1>2, <1>3 DEF InLine, Bookkeeping, Unanswered, TypeOK
  <2>3. \A i \in 1 .. Len(replayLog)' :
           /\ PastOffer(replayLog[i].command)'
           /\ answer'[replayLog'[i].command] \in {"none", "ok"}
           /\ returned'[replayLog'[i].command] \in {"none", "awaitTimeout", "ok"}
    BY <1>1, <1>2, <1>3, LineTyped DEF InLine, Bookkeeping
  <2>4. \A k \in Commands :
           /\ (answer'[k] = "ok" \/ returned'[k] = "ok") => Logged(k)'
           /\ answer'[k] # "none" => PastOffer(k)'
           /\ k[2] > calls'[k[1]] => returned'[k] = "none"
    <3> SUFFICES ASSUME NEW k \in Commands
                 PROVE  /\ (answer'[k] = "ok" \/ returned'[k] = "ok") => Logged(k)'
                        /\ answer'[k] # "none" => PastOffer(k)'
                        /\ k[2] > calls'[k[1]] => returned'[k] = "none"
      OBVIOUS
    <3>1. Logged(k)' <=> Logged(k)
      BY <1>1 DEF Logged
    <3>2. returned'[k] = returned[k] \/ (k = new /\ returned'[k] \in {"notStarted", "stopped"})
      BY <1>1, <1>3 DEF TypeOK
    <3>3. k[2] > calls'[k[1]] => k # new /\ k[2] > calls[k[1]]
      <4>1. k[1] \in Clients /\ k[2] \in Nat /\ k = <<k[1], k[2]>>
            /\ calls[k[1]] \in Nat /\ calls[c] \in Nat
        BY CommandFacts, LineTyped
      <4> QED BY <1>1, <4>1 DEF TypeOK
    <3> QED BY <1>1, <1>2, <1>3, <3>1, <3>2, <3>3 DEF InLine, Bookkeeping
  <2>5. \A d \in Clients : callerPc'[d] # "idle" => returned'[Mine(d)'] = "none"
    <3> SUFFICES ASSUME NEW d \in Clients, callerPc'[d] # "idle" PROVE returned'[Mine(d)'] = "none"
      OBVIOUS
    <3>1. CASE d = c
      <4>1. new \in Commands
        BY ShardLoopAssumption DEF SubmitCheck, Commands, TypeOK
      <4>2. callerPc'[c] = "offering" /\ returned' = returned /\ Mine(c)' = new
        BY <1>1, <3>1 DEF Mine, TypeOK
      <4>3. new[2] > calls[new[1]]
        BY DEF TypeOK
      <4> QED BY <3>1, <4>1, <4>2, <4>3 DEF InLine, Bookkeeping
    <3>2. CASE d # c
      <4>1. Mine(d)' = Mine(d) /\ callerPc[d] # "idle"
        BY <1>1, <3>2 DEF Mine, TypeOK
      <4>2. Mine(d) \in Commands
        BY <4>1, MineIsACommand
      <4>3. Mine(d) # new
        BY <3>2 DEF Mine
      <4> QED BY <1>3, <4>1, <4>2, <4>3 DEF InLine, Bookkeeping
    <3> QED BY <3>1, <3>2
  <2>6. (workerPc = "answering")' => (Logged(current)' <=> (outcome # "rejected")')
    BY <1>1 DEF InLine, Bookkeeping, Logged
  <2> QED BY <2>1, <2>2, <2>3, <2>4, <2>5, <2>6 DEF Bookkeeping
<1>6. Numbered'
  BY <1>1 DEF InLine, Numbered
<1> QED BY <1>4, <1>5, <1>6 DEF InLine

\* The command of an offering client goes to the end of the line, behind
\* everything its caller has put there before.
LEMMA SubmitEnqueueKeepsLine ==
    ASSUME TypeOK, Control, InLine, NEW c \in Clients, SubmitEnqueue(c)
    PROVE  InLine'
<1> DEFINE k0 == Mine(c)
<1>1. /\ UNCHANGED <<current, outcome, workerPc, sequence, replayLog, answer, returned, calls>>
      /\ queue' = Append(queue, k0)
      /\ callerPc[c] = "offering" /\ callerPc' = [callerPc EXCEPT ![c] = "accepted"]
  BY DEF SubmitEnqueue, lifecycle, worker, authority, callers
<1>2. k0 \in Commands /\ k0[1] = c /\ k0[2] = calls[c]
  BY <1>1, MineIsACommand DEF Mine
<1>3. /\ Len(queue') = Len(queue) + 1 /\ queue'[Len(queue) + 1] = k0
      /\ \A i \in 1 .. Len(queue) : queue'[i] = queue[i]
  BY <1>1, <1>2, AppendFacts DEF TypeOK
<1>4. /\ Len(queue) \in Nat
      /\ \A i \in 1 .. Len(queue)' : i = Len(queue) + 1 \/ i \in 1 .. Len(queue)
  BY <1>3, LineTyped
<1>5. \A k \in Commands : PastOffer(k) => Before(k, k0) /\ PastOffer(k)'
  BY <1>1, <1>2, CommandFacts, LineTyped DEF PastOffer, Before, TypeOK
<1>6. InOneLine'
  <2>1. \A i, j \in 1 .. Len(queue)' : i < j => Before(queue'[i], queue'[j])
    BY <1>3, <1>4, <1>5, LineTyped DEF InLine, InOneLine, Bookkeeping, Unanswered
  <2>2. \A i \in 1 .. Len(replayLog)', j \in 1 .. Len(queue)' :
           Before(replayLog'[i].command, queue'[j])
    BY <1>1, <1>3, <1>4, <1>5, LineTyped DEF InLine, InOneLine, Bookkeeping
  <2>3. (current # NoCommand)' => \A j \in 1 .. Len(queue)' : Before(current', queue'[j])
    BY <1>1, <1>3, <1>4, <1>5 DEF InLine, InOneLine, Bookkeeping, Unanswered, TypeOK
  <2> QED BY <1>1, <2>1, <2>2, <2>3 DEF InLine, InOneLine
<1>7. Bookkeeping'
  <2>1. ~PastOffer(k0) /\ PastOffer(k0)' /\ answer[k0] = "none" /\ returned[k0] = "none"
    <3>1. ~PastOffer(k0)
      BY <1>1, <1>2, LineTyped DEF PastOffer
    <3>2. PastOffer(k0)'
      BY <1>1, <1>2 DEF PastOffer, TypeOK, Mine
    <3>3. answer[k0] = "none" /\ returned[k0] = "none"
      BY <1>1, <1>2, <3>1 DEF InLine, Bookkeeping
    <3> QED BY <3>1, <3>2, <3>3
  <2>2. \A i \in 1 .. Len(queue)' : Unanswered(queue[i])'
    <3> SUFFICES ASSUME NEW i \in 1 .. Len(queue)' PROVE Unanswered(queue[i])'
      OBVIOUS
    <3>1. CASE i = Len(queue) + 1
      <4>1. queue'[i] = k0 /\ k0' = k0
        BY <1>1, <1>3, <3>1 DEF Mine
      <4> QED BY <1>1, <2>1, <4>1 DEF Unanswered, PastOffer
    <3>2. CASE i \in 1 .. Len(queue)
      <4>1. queue'[i] = queue[i] /\ queue[i] \in Commands /\ Unanswered(queue[i])
        BY <1>3, <3>2, LineTyped DEF InLine, Bookkeeping
      <4> QED BY <1>1, <1>5, <4>1 DEF Unanswered
    <3> QED BY <1>4, <3>1, <3>2
  <2>3. (current # NoCommand)' => Unanswered(current)'
    BY <1>1, <1>5 DEF InLine, Bookkeeping, Unanswered, TypeOK
  <2>4. \A i \in 1 .. Len(replayLog)' : PastOffer(replayLog[i].command)'
    BY <1>1, <1>5, LineTyped DEF InLine, Bookkeeping
  <2>5. \A k \in Commands :
           /\ Logged(k)' <=> Logged(k)
           /\ answer'[k] # "none" => PastOffer(k)'
    BY <1>1, <1>5 DEF InLine, Bookkeeping, Logged
  <2>6. \A d \in Clients : callerPc'[d] # "idle" => returned'[Mine(d)'] = "none"
    BY <1>1 DEF InLine, Bookkeeping, Mine, TypeOK
  <2>7. (workerPc = "answering")' => (Logged(current)' <=> (outcome # "rejected")')
    BY <1>1 DEF InLine, Bookkeeping, Logged
  <2> QED BY <1>1, <2>2, <2>3, <2>4, <2>5, <2>6, <2>7 DEF InLine, Bookkeeping
<1>8. Numbered'
  BY <1>1 DEF InLine, Numbered
<1> QED BY <1>6, <1>7, <1>8 DEF InLine

\* Counting an accepted command moves nothing.
LEMMA SubmitRecordAcceptedKeepsLine ==
    ASSUME TypeOK, Control, InLine, NEW c \in Clients, SubmitRecordAccepted(c)
    PROVE  InLine'
<1>1. /\ UNCHANGED <<queue, current, outcome, workerPc, sequence, replayLog, answer, returned, calls>>
      /\ callerPc[c] = "accepted" /\ callerPc' = [callerPc EXCEPT ![c] = "awaiting"]
  BY DEF SubmitRecordAccepted, lifecycle, worker, authority, callers
<1>2. \A k \in Commands : PastOffer(k)' <=> PastOffer(k)
  BY <1>1, CommandFacts DEF PastOffer, TypeOK
<1>3. InOneLine'
  BY <1>1 DEF InLine, InOneLine
<1>4. Bookkeeping'
  <2>1. \A i \in 1 .. Len(queue)' : Unanswered(queue[i])'
    BY <1>1, <1>2, LineTyped DEF InLine, Bookkeeping, Unanswered
  <2>2. (current # NoCommand)' => Unanswered(current)'
    BY <1>1, <1>2 DEF InLine, Bookkeeping, Unanswered, TypeOK
  <2>3. \A i \in 1 .. Len(replayLog)' : PastOffer(replayLog[i].command)'
    BY <1>1, <1>2, LineTyped DEF InLine, Bookkeeping
  <2>4. \A k \in Commands : Logged(k)' <=> Logged(k)
    BY <1>1 DEF Logged
  <2>5. \A d \in Clients : callerPc'[d] # "idle" => returned'[Mine(d)'] = "none"
    BY <1>1 DEF InLine, Bookkeeping, Mine, TypeOK
  <2>6. (workerPc = "answering")' => (Logged(current)' <=> (outcome # "rejected")')
    BY <1>1 DEF InLine, Bookkeeping, Logged
  <2> QED BY <1>1, <1>2, <2>1, <2>2, <2>3, <2>4, <2>5, <2>6 DEF InLine, Bookkeeping
<1>5. Numbered'
  BY <1>1 DEF InLine, Numbered
<1> QED BY <1>3, <1>4, <1>5 DEF InLine

\* A return settles what the caller knows: the reason it is told never
\* contradicts where the command stands.
LEMMA ReturnKeepsLine ==
    ASSUME TypeOK, Control, InLine, NEW c \in Clients, NEW r \in Returns,
           callerPc[c] # "idle",
           Return(c, Mine(c), r),
           UNCHANGED <<queue, current, outcome, workerPc, sequence, replayLog, answer, calls>>,
           \/ callerPc[c] = "offering" /\ r = "offerTimeout"
           \/ callerPc[c] # "offering" /\ r = "awaitTimeout"
           \/ callerPc[c] # "offering" /\ answer[Mine(c)] # "none" /\ r = answer[Mine(c)]
    PROVE  InLine'
<1> DEFINE k0 == Mine(c)
<1>1. k0 \in Commands /\ k0[1] = c /\ k0[2] = calls[c]
  BY MineIsACommand DEF Mine
<1>2. /\ callerPc' = [callerPc EXCEPT ![c] = "idle"]
      /\ returned' = [returned EXCEPT ![k0] = r]
  BY DEF Return
<1>3. /\ returned'[k0] = r
      /\ \A k \in Commands : k # k0 => returned'[k] = returned[k]
  BY <1>1, <1>2 DEF TypeOK
<1>4. \A k \in Commands : PastOffer(k) => PastOffer(k)'
  BY <1>2, CommandFacts DEF PastOffer, TypeOK
<1>5. callerPc[c] = "offering" => ~PastOffer(k0)
  BY <1>1, LineTyped DEF PastOffer
<1>6. InOneLine'
  BY DEF InLine, InOneLine
<1>7. Bookkeeping'
  <2>1. \A k \in Commands : Unanswered(k) => Unanswered(k)'
    BY <1>3, <1>4, <1>5 DEF Unanswered
  <2>2. \A i \in 1 .. Len(queue)' : Unanswered(queue[i])'
    BY <2>1, LineTyped DEF InLine, Bookkeeping, Unanswered
  <2>3. (current # NoCommand)' => Unanswered(current)'
    BY <2>1 DEF InLine, Bookkeeping, Unanswered, TypeOK
  <2>4. \A i \in 1 .. Len(replayLog)' :
           /\ PastOffer(replayLog[i].command)'
           /\ answer'[replayLog'[i].command] \in {"none", "ok"}
           /\ returned'[replayLog'[i].command] \in {"none", "awaitTimeout", "ok"}
    BY <1>3, <1>4, <1>5, LineTyped DEF InLine, Bookkeeping
  <2>5. \A k \in Commands :
           /\ (answer'[k] = "ok" \/ returned'[k] = "ok") => Logged(k)'
           /\ answer'[k] # "none" => PastOffer(k)'
           /\ k[2] > calls'[k[1]] => returned'[k] = "none"
    <3> SUFFICES ASSUME NEW k \in Commands
                 PROVE  /\ (answer'[k] = "ok" \/ returned'[k] = "ok") => Logged(k)'
                        /\ answer'[k] # "none" => PastOffer(k)'
                        /\ k[2] > calls'[k[1]] => returned'[k] = "none"
      OBVIOUS
    <3>1. Logged(k)' <=> Logged(k)
      BY DEF Logged
    <3>2. returned'[k] = "ok" => returned[k] = "ok" \/ answer[k] = "ok"
      BY <1>3
    <3>3. k[2] > calls[k[1]] => k # k0
      BY <1>1, LineTyped
    <3> QED BY <1>3, <1>4, <3>1, <3>2, <3>3 DEF InLine, Bookkeeping
  <2>6. \A d \in Clients : callerPc'[d] # "idle" => returned'[Mine(d)'] = "none"
    <3> SUFFICES ASSUME NEW d \in Clients, callerPc'[d] # "idle" PROVE returned'[Mine(d)'] = "none"
      OBVIOUS
    <3>1. d # c /\ callerPc[d] # "idle" /\ Mine(d)' = Mine(d)
      BY <1>2 DEF TypeOK, Mine
    <3>2. Mine(d) \in Commands /\ Mine(d) # k0
      BY <3>1, MineIsACommand DEF Mine
    <3> QED BY <1>3, <3>1, <3>2 DEF InLine, Bookkeeping
  <2>7. (workerPc = "answering")' => (Logged(current)' <=> (outcome # "rejected")')
    BY DEF InLine, Bookkeeping, Logged
  <2> QED BY <2>2, <2>3, <2>4, <2>5, <2>6, <2>7 DEF Bookkeeping
<1>8. Numbered'
  BY DEF InLine, Numbered
<1> QED BY <1>6, <1>7, <1>8 DEF InLine

\* Every step of Submit keeps the line.
LEMMA CallerKeepsLine ==
    ASSUME TypeOK, Control, InLine, NEW c \in Clients, Caller(c)
    PROVE  InLine'
<1> USE DEF lifecycle, worker, authority, callers
<1>1. CASE SubmitCheck(c)
  BY <1>1, SubmitCheckKeepsLine
<1>2. CASE SubmitEnqueue(c)
  BY <1>2, SubmitEnqueueKeepsLine
<1>3. CASE SubmitRecordAccepted(c)
  BY <1>3, SubmitRecordAcceptedKeepsLine
<1>4. CASE SubmitTimeout(c)
  <2>1. "offerTimeout" \in Returns /\ "awaitTimeout" \in Returns
    BY DEF Returns
  <2>2. CASE callerPc[c] = "offering" /\ Return(c, Mine(c), "offerTimeout")
    BY <1>4, <2>1, <2>2, ReturnKeepsLine DEF SubmitTimeout
  <2>3. CASE callerPc[c] = "awaiting" /\ Return(c, Mine(c), "awaitTimeout")
    BY <1>4, <2>1, <2>3, ReturnKeepsLine DEF SubmitTimeout
  <2> QED BY <1>4, <2>2, <2>3 DEF SubmitTimeout
<1>5. CASE SubmitReceive(c)
  <2>1. answer[Mine(c)] \in Returns
    BY <1>5, MineIsACommand DEF SubmitReceive, TypeOK, Returns, Answers
  <2> QED BY <1>5, <2>1, ReturnKeepsLine DEF SubmitReceive
<1> QED BY <1>1, <1>2, <1>3, <1>4, <1>5 DEF Caller

\* Taking the head of the queue moves it one place up the line.
LEMMA RunTakeKeepsLine ==
    ASSUME TypeOK, Control, InLine, RunTake
    PROVE  InLine'
<1>1. /\ UNCHANGED <<outcome, sequence, replayLog, answer, returned, calls, callerPc>>
      /\ workerPc = "select" /\ workerPc' = "taken" /\ current' = Head(queue) /\ queue' = Tail(queue)
      /\ queue # <<>> /\ current = NoCommand
  BY DEF RunTake, Dequeue, lifecycle, worker, authority, callers, Control, Holding
<1>2. /\ current' = queue[1] /\ 1 \in 1 .. Len(queue) /\ current' \in Commands
      /\ Len(queue') = Len(queue) - 1
      /\ \A i \in 1 .. Len(queue') : i + 1 \in 1 .. Len(queue) /\ queue'[i] = queue[i + 1]
  <2>1. Len(queue) \in Nat /\ Len(queue) >= 1
    BY <1>1, TailFacts, LenProperties DEF TypeOK
  <2> QED BY <1>1, <2>1, TailFacts DEF TypeOK
<1>3. Len(queue') \in Nat /\ \A i \in 1 .. Len(queue') : i \in Nat /\ 1 < i + 1
  BY <1>2, LineTyped
<1>4. InOneLine'
  <2>1. \A i, j \in 1 .. Len(queue)' : i < j => Before(queue'[i], queue'[j])
    BY <1>2, <1>3 DEF InLine, InOneLine
  <2>2. \A i \in 1 .. Len(replayLog)', j \in 1 .. Len(queue)' :
           Before(replayLog'[i].command, queue'[j])
    BY <1>1, <1>2 DEF InLine, InOneLine
  <2>3. \A j \in 1 .. Len(queue)' : Before(current', queue'[j])
    BY <1>2, <1>3 DEF InLine, InOneLine
  <2>4. \A i \in 1 .. Len(replayLog)' : Before(replayLog'[i].command, current')
    BY <1>1, <1>2 DEF InLine, InOneLine
  <2> QED BY <1>1, <2>1, <2>2, <2>3, <2>4 DEF InLine, InOneLine
<1>5. Bookkeeping'
  <2>1. \A k \in Commands : /\ Unanswered(k)' <=> Unanswered(k)
                            /\ PastOffer(k)' <=> PastOffer(k)
                            /\ Logged(k)' <=> Logged(k)
    BY <1>1 DEF Unanswered, PastOffer, Logged
  <2>2. \A i \in 1 .. Len(queue)' : Unanswered(queue[i])'
    BY <1>2, <2>1, LineTyped DEF InLine, Bookkeeping, Unanswered, PastOffer
  <2>3. Unanswered(current)'
    BY <1>1, <1>2 DEF InLine, Bookkeeping, Unanswered, PastOffer
  <2>4. \A i \in 1 .. Len(replayLog)' : PastOffer(replayLog[i].command)'
    BY <1>1 DEF InLine, Bookkeeping, PastOffer
  <2>5. \A d \in Clients : callerPc'[d] # "idle" => returned'[Mine(d)'] = "none"
    BY <1>1 DEF InLine, Bookkeeping, Mine
  <2> QED BY <1>1, <2>1, <2>2, <2>3, <2>4, <2>5 DEF InLine, Bookkeeping
<1>6. Numbered'
  BY <1>1 DEF InLine, Numbered
<1> QED BY <1>4, <1>5, <1>6 DEF InLine

\* Numbering the command puts its sequence above every record's.
LEMMA ApplyBeginKeepsLine ==
    ASSUME TypeOK, Control, InLine, ApplyBegin
    PROVE  InLine'
<1>1. /\ UNCHANGED <<queue, current, outcome, replayLog, answer, returned, calls, callerPc>>
      /\ workerPc = "taken" /\ workerPc' = "applying" /\ sequence' = sequence + 1
  BY DEF ApplyBegin, lifecycle, callers
<1>2. InOneLine'
  BY <1>1 DEF InLine, InOneLine
<1>3. Bookkeeping'
  BY <1>1 DEF InLine, Bookkeeping, Unanswered, PastOffer, Logged, Mine
<1>4. Numbered'
  <2>1. \A m, n \in Nat : m <= n => m <= n + 1 /\ m < n + 1
    OBVIOUS
  <2>2. sequence \in Nat /\ \A i \in 1 .. Len(replayLog) : replayLog[i].sequence <= sequence
    BY DEF InLine, Numbered, TypeOK
  <2>3. \A i \in 1 .. Len(replayLog) :
           replayLog[i].sequence <= sequence' /\ replayLog[i].sequence < sequence'
    BY <1>1, <2>1, <2>2, LineTyped
  <2> QED BY <1>1, <2>3 DEF InLine, Numbered
<1> QED BY <1>2, <1>3, <1>4 DEF InLine

\* A successful command joins the end of the log, behind everything its caller
\* had applied and with the highest sequence number; a rejected one does not.
LEMMA ApplyFinishKeepsLine ==
    ASSUME TypeOK, Control, InLine, NEW o \in Outcomes, ApplyFinish(o)
    PROVE  InLine'
<1> DEFINE rec == [command |-> current, sequence |-> sequence]
<1>1. /\ UNCHANGED <<queue, current, sequence, answer, returned, calls, callerPc>>
      /\ workerPc = "applying" /\ workerPc' = "answering" /\ outcome' = o
      /\ o = "rejected" => replayLog' = replayLog
      /\ o # "rejected" => replayLog' = Append(replayLog, rec)
  BY DEF ApplyFinish, RecordReplay, callers
<1>2. /\ current \in Commands /\ current # NoCommand /\ sequence \in Nat
      /\ Unanswered(current)
  BY <1>1, ShardLoopAssumption DEF Control, Holding, TypeOK, InLine, Bookkeeping
<1>3. ~Logged(current)
  <2>1. \A i \in 1 .. Len(replayLog) : Before(replayLog[i].command, current)
    BY <1>1 DEF InLine, InOneLine
  <2> QED BY <1>2, <2>1, LineTyped, CommandFacts DEF Logged
<1>4. \A k \in Commands : /\ PastOffer(k)' <=> PastOffer(k)
                          /\ Unanswered(k)' <=> Unanswered(k)
  BY <1>1 DEF PastOffer, Unanswered
<1>5. CASE o = "rejected"
  <2>1. InOneLine'
    BY <1>1, <1>5 DEF InLine, InOneLine
  <2>2. Bookkeeping'
    BY <1>1, <1>3, <1>5 DEF InLine, Bookkeeping, Unanswered, PastOffer, Logged, Mine
  <2>3. Numbered'
    BY <1>1, <1>5 DEF InLine, Numbered
  <2> QED BY <2>1, <2>2, <2>3 DEF InLine
<1>6. CASE o # "rejected"
  <2>1. /\ Len(replayLog') = Len(replayLog) + 1 /\ replayLog'[Len(replayLog) + 1] = rec
        /\ \A i \in 1 .. Len(replayLog) : replayLog'[i] = replayLog[i]
    <3>1. rec \in [command : Commands, sequence : Nat]
      BY <1>2
    <3> QED BY <1>1, <1>6, <3>1, AppendFacts DEF TypeOK
  <2>2. /\ Len(replayLog) \in Nat
        /\ \A i \in 1 .. Len(replayLog)' : i = Len(replayLog) + 1 \/ i \in 1 .. Len(replayLog)
    BY <2>1, LineTyped
  <2>3. rec.command = current /\ rec.sequence = sequence
    OBVIOUS
  <2> HIDE DEF rec
  <2>4. InOneLine'
    <3>1. \A i, j \in 1 .. Len(replayLog)' :
             i < j => Before(replayLog'[i].command, replayLog'[j].command)
      BY <1>1, <2>1, <2>2, <2>3 DEF InLine, InOneLine
    <3>2. \A i \in 1 .. Len(replayLog)', j \in 1 .. Len(queue)' :
             Before(replayLog'[i].command, queue'[j])
      BY <1>1, <1>2, <2>1, <2>2, <2>3 DEF InLine, InOneLine
    <3> QED BY <1>1, <3>1, <3>2 DEF InLine, InOneLine
  <2>5. Bookkeeping'
    <3>1. \A k \in Commands : Logged(k)' <=> Logged(k) \/ k = current
      BY <2>1, <2>2, <2>3 DEF Logged
    <3>2. \A i \in 1 .. Len(replayLog)' :
             LET k == replayLog'[i].command IN
             /\ PastOffer(k)
             /\ answer'[k] \in {"none", "ok"}
             /\ returned'[k] \in {"none", "awaitTimeout", "ok"}
      BY <1>1, <1>2, <2>1, <2>2, <2>3 DEF InLine, Bookkeeping, Unanswered
    <3>3. \A i \in 1 .. Len(replayLog)' : PastOffer(replayLog[i].command)'
      BY <1>1, <3>2 DEF PastOffer
    <3>4. \A i \in 1 .. Len(queue)' : Unanswered(queue[i])'
      BY <1>1 DEF InLine, Bookkeeping, Unanswered, PastOffer
    <3>5. Unanswered(current)'
      BY <1>1, <1>2 DEF Unanswered, PastOffer
    <3>6. \A d \in Clients : callerPc'[d] # "idle" => returned'[Mine(d)'] = "none"
      BY <1>1 DEF InLine, Bookkeeping, Mine
    <3>7. \A k \in Commands :
             /\ (answer'[k] = "ok" \/ returned'[k] = "ok") => Logged(k)'
             /\ answer'[k] # "none" => PastOffer(k)'
             /\ k[2] > calls'[k[1]] => returned'[k] = "none"
      BY <1>1, <1>4, <3>1 DEF InLine, Bookkeeping
    <3>8. Logged(current)' <=> (outcome # "rejected")'
      <4>1. replayLog'[Len(replayLog) + 1].command = current' /\ Len(replayLog) + 1 \in 1 .. Len(replayLog')
        BY <1>1, <2>1, <2>2, <2>3
      <4> QED BY <1>1, <1>6, <4>1 DEF Logged
    <3> QED BY <3>2, <3>3, <3>4, <3>5, <3>6, <3>7, <3>8 DEF Bookkeeping
  <2>6. Numbered'
    <3>1. \A i \in 1 .. Len(replayLog) : replayLog[i].sequence < sequence
      BY <1>1 DEF InLine, Numbered
    <3>2. \A i \in 1 .. Len(replayLog)' : replayLog'[i].sequence <= sequence
      <4>1. \A n \in Nat : n <= n
        OBVIOUS
      <4>2. \A m, n \in Nat : m < n => m <= n
        OBVIOUS
      <4> QED BY <1>2, <2>1, <2>2, <2>3, <3>1, <4>1, <4>2, LineTyped
    <3>3. \A i, j \in 1 .. Len(replayLog)' :
             i < j => replayLog'[i].sequence < replayLog'[j].sequence
      <4> SUFFICES ASSUME NEW i \in 1 .. Len(replayLog)', NEW j \in 1 .. Len(replayLog)', i < j
                   PROVE  replayLog'[i].sequence < replayLog'[j].sequence
        OBVIOUS
      <4>1. i \in 1 .. Len(replayLog)
        BY <2>1, <2>2
      <4>2. CASE j = Len(replayLog) + 1
        BY <2>1, <2>3, <3>1, <4>1, <4>2
      <4>3. CASE j \in 1 .. Len(replayLog)
        BY <2>1, <4>1, <4>3 DEF InLine, Numbered
      <4> QED BY <2>2, <4>2, <4>3
    <3> QED BY <1>1, <3>2, <3>3 DEF Numbered
  <2> QED BY <2>4, <2>5, <2>6 DEF InLine
<1> QED BY <1>5, <1>6

\* The answer agrees with what the log says of the command.
LEMMA ApplyAnswerKeepsLine ==
    ASSUME TypeOK, Control, InLine, ApplyAnswer
    PROVE  InLine'
<1>1. /\ UNCHANGED <<queue, outcome, sequence, replayLog, returned, calls, callerPc>>
      /\ workerPc = "answering" /\ workerPc' = "select" /\ current' = NoCommand
      /\ answer' = [answer EXCEPT ![current] = AnswerTo(outcome)]
  BY DEF ApplyAnswer, authority, callers
<1>2. /\ current \in Commands /\ current # NoCommand /\ Unanswered(current)
      /\ Logged(current) <=> outcome # "rejected"
  BY <1>1, ShardLoopAssumption DEF Control, Holding, TypeOK, InLine, Bookkeeping
<1>3. /\ answer'[current] = AnswerTo(outcome)
      /\ \A k \in Commands : k # current => answer'[k] = answer[k]
  BY <1>1, <1>2 DEF TypeOK
<1>4. \A k \in Commands : PastOffer(k)' <=> PastOffer(k)
  BY <1>1 DEF PastOffer
<1>5. \A i \in 1 .. Len(queue) : queue[i] \in Commands /\ queue[i] # current
  BY <1>2, LineTyped, CommandFacts DEF InLine, InOneLine
<1>6. InOneLine'
  BY <1>1 DEF InLine, InOneLine
<1>7. Bookkeeping'
  <2>1. \A i \in 1 .. Len(queue)' : Unanswered(queue[i])'
    BY <1>1, <1>3, <1>5 DEF InLine, Bookkeeping, Unanswered, PastOffer
  <2>2. \A i \in 1 .. Len(replayLog)' :
           /\ PastOffer(replayLog[i].command)'
           /\ answer'[replayLog'[i].command] \in {"none", "ok"}
           /\ returned'[replayLog'[i].command] \in {"none", "awaitTimeout", "ok"}
    <3> SUFFICES ASSUME NEW i \in 1 .. Len(replayLog)
                 PROVE  /\ PastOffer(replayLog[i].command)'
                        /\ answer'[replayLog[i].command] \in {"none", "ok"}
                        /\ returned[replayLog[i].command] \in {"none", "awaitTimeout", "ok"}
      BY <1>1
    <3>1. replayLog[i].command = current => answer'[current] = "ok"
      BY <1>2, <1>3 DEF Logged, AnswerTo
    <3>2. /\ replayLog[i].command \in Commands
          /\ PastOffer(replayLog[i].command)
          /\ answer[replayLog[i].command] \in {"none", "ok"}
          /\ returned[replayLog[i].command] \in {"none", "awaitTimeout", "ok"}
      BY LineTyped DEF InLine, Bookkeeping
    <3>3. answer'[replayLog[i].command] \in {"none", "ok"}
      BY <1>3, <3>1, <3>2
    <3>4. PastOffer(replayLog[i].command)'
      BY <1>1, <3>2 DEF PastOffer
    <3> QED BY <3>2, <3>3, <3>4
  <2>3. \A k \in Commands :
           /\ (answer'[k] = "ok" \/ returned'[k] = "ok") => Logged(k)'
           /\ answer'[k] # "none" => PastOffer(k)'
           /\ k[2] > calls'[k[1]] => returned'[k] = "none"
    <3>1. \A k \in Commands : Logged(k)' <=> Logged(k)
      BY <1>1 DEF Logged
    <3>2. answer'[current] = "ok" => Logged(current)
      BY <1>2, <1>3 DEF AnswerTo
    <3>3. PastOffer(current)
      BY <1>2 DEF Unanswered
    <3> QED BY <1>1, <1>3, <1>4, <3>1, <3>2, <3>3 DEF InLine, Bookkeeping
  <2>4. \A d \in Clients : callerPc'[d] # "idle" => returned'[Mine(d)'] = "none"
    BY <1>1 DEF InLine, Bookkeeping, Mine
  <2> QED BY <1>1, <2>1, <2>2, <2>3, <2>4 DEF Bookkeeping
<1>8. Numbered'
  BY <1>1 DEF InLine, Numbered
<1> QED BY <1>6, <1>7, <1>8 DEF InLine

\* A command the drain answers leaves the line unlogged.
LEMMA RejectPendingKeepsLine ==
    ASSUME TypeOK, Control, InLine, RejectPending
    PROVE  InLine'
<1> DEFINE k0 == queue[1]
<1>1. /\ UNCHANGED <<current, workerPc, outcome, sequence, replayLog, returned, calls, callerPc>>
      /\ workerPc = "draining" /\ queue # <<>> /\ queue' = Tail(queue) /\ current = NoCommand
  BY DEF RejectPending, worker, authority, callers, Control, Holding
<1>2. /\ Head(queue) = k0 /\ 1 \in 1 .. Len(queue) /\ k0 \in Commands
      /\ Len(queue') = Len(queue) - 1 /\ Len(queue') \in Nat
      /\ \A i \in 1 .. Len(queue') : i + 1 \in 1 .. Len(queue) /\ 1 < i + 1 /\ queue'[i] = queue[i + 1]
  <2>1. Len(queue) \in Nat /\ Len(queue) >= 1
    BY <1>1, TailFacts, LenProperties DEF TypeOK
  <2> QED BY <1>1, <2>1, TailFacts DEF TypeOK
<1>3. /\ answer'[k0] = "stopped"
      /\ \A k \in Commands : k # k0 => answer'[k] = answer[k]
  <2>1. answer' = [answer EXCEPT ![k0] = "stopped"]
    BY <1>2 DEF RejectPending
  <2> QED BY <1>2, <2>1 DEF TypeOK
<1>4. \A k \in Commands : /\ PastOffer(k)' <=> PastOffer(k)
                          /\ Logged(k)' <=> Logged(k)
  BY <1>1 DEF PastOffer, Logged
<1>5. Unanswered(k0)
  BY <1>2 DEF InLine, Bookkeeping
<1>6. \A i \in 1 .. Len(replayLog) : replayLog[i].command # k0
  BY <1>2, LineTyped, CommandFacts DEF InLine, InOneLine
<1>7. \A i \in 1 .. Len(queue') : queue'[i] \in Commands /\ queue'[i] # k0
  <2> SUFFICES ASSUME NEW i \in 1 .. Len(queue') PROVE queue'[i] \in Commands /\ queue'[i] # k0
    OBVIOUS
  <2>1. Before(k0, queue[i + 1])
    BY <1>2 DEF InLine, InOneLine
  <2> QED BY <1>2, <2>1, LineTyped, CommandFacts
<1> HIDE DEF k0
<1>8. InOneLine'
  <2>1. \A i, j \in 1 .. Len(queue)' : i < j => Before(queue'[i], queue'[j])
    BY <1>2 DEF InLine, InOneLine
  <2>2. \A i \in 1 .. Len(replayLog)', j \in 1 .. Len(queue)' :
           Before(replayLog'[i].command, queue'[j])
    BY <1>1, <1>2 DEF InLine, InOneLine
  <2> QED BY <1>1, <2>1, <2>2 DEF InLine, InOneLine
<1>9. Bookkeeping'
  <2>1. \A i \in 1 .. Len(queue)' : Unanswered(queue[i])'
    <3> SUFFICES ASSUME NEW i \in 1 .. Len(queue') PROVE Unanswered(queue[i])'
      OBVIOUS
    <3>1. Unanswered(queue[i + 1]) /\ queue'[i] = queue[i + 1]
      BY <1>2 DEF InLine, Bookkeeping
    <3> QED BY <1>1, <1>3, <1>7, <3>1 DEF Unanswered, PastOffer
  <2>2. \A i \in 1 .. Len(replayLog)' :
           /\ PastOffer(replayLog[i].command)'
           /\ answer'[replayLog'[i].command] \in {"none", "ok"}
           /\ returned'[replayLog'[i].command] \in {"none", "awaitTimeout", "ok"}
    BY <1>1, <1>3, <1>4, <1>6, LineTyped DEF InLine, Bookkeeping
  <2>3. \A k \in Commands :
           /\ (answer'[k] = "ok" \/ returned'[k] = "ok") => Logged(k)'
           /\ answer'[k] # "none" => PastOffer(k)'
           /\ k[2] > calls'[k[1]] => returned'[k] = "none"
    <3>1. PastOffer(k0)
      BY <1>5 DEF Unanswered
    <3> QED BY <1>1, <1>3, <1>4, <3>1 DEF InLine, Bookkeeping
  <2>4. \A d \in Clients : callerPc'[d] # "idle" => returned'[Mine(d)'] = "none"
    BY <1>1 DEF InLine, Bookkeeping, Mine
  <2> QED BY <1>1, <2>1, <2>2, <2>3, <2>4 DEF Bookkeeping
<1>10. Numbered'
  BY <1>1 DEF InLine, Numbered
<1> QED BY <1>8, <1>9, <1>10 DEF InLine

\* Every step of the worker keeps the line.
LEMMA WorkerKeepsLine ==
    ASSUME TypeOK, Control, InLine, Worker
    PROVE  InLine'
<1> USE DEF lifecycle, authority, callers, Holding
<1>1. CASE RunTake
  BY <1>1, RunTakeKeepsLine
<1>2. CASE ApplyBegin
  BY <1>2, ApplyBeginKeepsLine
<1>3. ASSUME NEW o \in Outcomes, ApplyFinish(o) PROVE InLine'
  BY <1>3, ApplyFinishKeepsLine
<1>4. CASE ApplyAnswer
  BY <1>4, ApplyAnswerKeepsLine
<1>5. CASE RunStop
  BY <1>5, QuietStep DEF RunStop
<1>6. CASE RejectPending
  BY <1>6, RejectPendingKeepsLine
<1>7. CASE RunExit
  BY <1>7, QuietStep DEF RunExit
<1> QED BY <1>1, <1>2, <1>3, <1>4, <1>5, <1>6, <1>7 DEF Worker, Apply

\* The inductive invariant of the loop: log, worker and queue stay one line of
\* commands, each unanswered or answered with the truth.
THEOREM LineInvariant == Spec => []IInv
<1>1. Init => InLine
  <2> SUFFICES ASSUME Init PROVE InLine
    OBVIOUS
  <2>1. Len(queue) = 0 /\ Len(replayLog) = 0 /\ current = NoCommand /\ workerPc = "unborn"
    BY EmptySeq DEF Init
  <2>2. \A i \in 1 .. 0 : FALSE
    OBVIOUS
  <2>3. InOneLine /\ Numbered
    BY <2>1, <2>2 DEF InOneLine, Numbered
  <2>4. /\ \A k \in Commands : answer[k] = "none" /\ returned[k] = "none"
        /\ \A c \in Clients : callerPc[c] = "idle"
    BY DEF Init
  <2>5. Bookkeeping
    BY <2>1, <2>2, <2>4 DEF Bookkeeping
  <2> QED BY <2>3, <2>5 DEF InLine
<1>2. TypeOK /\ Control /\ InLine /\ [Next]_vars => InLine'
  <2> SUFFICES ASSUME TypeOK, Control, InLine, [Next]_vars PROVE InLine'
    OBVIOUS
  <2> USE DEF lifecycle, worker, authority, callers
  <2>1. CASE Start
    <3>1. workerPc \notin Holding
      BY <2>1 DEF Start, Control, Holding
    <3> QED BY <2>1, <3>1, QuietStep DEF Start, Holding
  <2>2. CASE Worker
    BY <2>2, WorkerKeepsLine
  <2>3. ASSUME NEW c \in Clients, Caller(c) PROVE InLine'
    BY <2>3, CallerKeepsLine
  <2>4. ASSUME NEW s \in Stoppers, Stopper(s) PROVE InLine'
    BY <2>4, QuietStep DEF Stopper, StopUnstarted, StopBegin, StopEnd, StopAbandoned
  <2>5. CASE UNCHANGED vars
    BY <2>5, QuietStep DEF vars
  <2> QED BY <2>1, <2>2, <2>3, <2>4, <2>5 DEF Next
<1>3. IInv <=> TypeOK /\ Control /\ InLine
  BY DEF IInv, InLine
<1> QED BY <1>1, <1>2, <1>3, TypeCorrect, PTL DEF Spec

-----------------------------------------------------------------------------
(* What the invariant is for *)

\* A command takes effect at most once (Submit, run and apply; see
\* AppliedAtMostOnce).
THEOREM AtMostOnce == Spec => []AppliedAtMostOnce
<1>1. IInv => AppliedAtMostOnce
  BY LineTyped, CommandFacts DEF IInv, InOneLine, Numbered, AppliedAtMostOnce
<1> QED BY <1>1, LineInvariant, PTL

\* What Submit returned is the truth about the command (see ReturnIsTrue).
THEOREM Truthful == Spec => []ReturnIsTrue
<1>1. IInv => ReturnIsTrue
  <2> SUFFICES ASSUME IInv, NEW k \in Commands
               PROVE  /\ returned[k] = "ok" => Logged(k)
                      /\ returned[k] \in {"error", "stopped", "notStarted", "offerTimeout"} =>
                             ~Logged(k) /\ ~Queued(k) /\ current # k
    BY DEF ReturnIsTrue
  <2>1. returned[k] = "ok" => Logged(k)
    BY DEF IInv, Bookkeeping
  <2>2. Logged(k) => returned[k] \in {"none", "awaitTimeout", "ok"}
    BY DEF IInv, Bookkeeping, Logged
  <2>3. Queued(k) => returned[k] \in {"none", "awaitTimeout"}
    BY DEF IInv, Bookkeeping, Queued, Unanswered
  <2>4. current = k => returned[k] \in {"none", "awaitTimeout"}
    BY ShardLoopAssumption DEF IInv, Bookkeeping, Unanswered, Commands
  <2> QED BY <2>1, <2>2, <2>3, <2>4
<1> QED BY <1>1, LineInvariant, PTL

\* A caller's commands are applied in the order of its calls (see
\* RetryNeverOvertakes).
THEOREM InOrderOfCalls == Spec => []RetryNeverOvertakes
<1>1. IInv => RetryNeverOvertakes
  BY DEF IInv, InOneLine, Before, RetryNeverOvertakes
<1> QED BY <1>1, LineInvariant, PTL

\* After a Stop that returned nil nothing writes the authority any more (see
\* StopIsABarrier).
THEOREM Barrier == Spec => StopIsABarrier
<1>1. TypeOK /\ Control /\ [Next]_vars =>
         [(\E s \in Stoppers : stopperPc[s] = "stopped") => UNCHANGED <<authority, answer>>]_vars
  <2> SUFFICES ASSUME TypeOK, Control, Next, \E s \in Stoppers : stopperPc[s] = "stopped"
               PROVE  UNCHANGED <<authority, answer>>
    OBVIOUS
  <2>1. workerPc = "exited" /\ started
    BY DEF Control
  <2>2. CASE Start
    BY <2>1, <2>2 DEF Start
  <2>3. CASE Worker
    BY <2>1, <2>3 DEF Worker, Apply, RunTake, ApplyBegin, ApplyFinish, ApplyAnswer, RunStop,
                      RejectPending, RunExit
  <2>4. ASSUME NEW c \in Clients, Caller(c) PROVE UNCHANGED <<authority, answer>>
    BY <2>4 DEF Caller, SubmitCheck, SubmitEnqueue, SubmitRecordAccepted, SubmitTimeout, SubmitReceive
  <2>5. ASSUME NEW s \in Stoppers, Stopper(s) PROVE UNCHANGED <<authority, answer>>
    BY <2>5 DEF Stopper, StopUnstarted, StopBegin, StopEnd, StopAbandoned
  <2> QED BY <2>2, <2>3, <2>4, <2>5 DEF Next
<1> QED BY <1>1, TypeCorrect, PTL DEF Spec, StopIsABarrier

-----------------------------------------------------------------------------
(* The loop implements the authority *)

\* The command of a client's open call is the one the client is busy with, and a
\* caller that gives up or gets its answer has none.
LEMMA OneCallStays ==
    ASSUME TypeOK, Control, OneCallAtATime, [Next]_vars
    PROVE  OneCallAtATime'
<1> USE DEF lifecycle, worker, authority, callers
<1>1. CASE UNCHANGED callers
  BY <1>1 DEF OneCallAtATime, Mine
<1>2. ASSUME NEW c \in Clients, NEW k \in Commands,
             callerPc'[c] = "idle", calls'[c] \in {calls[c], calls[c] + 1},
             \A d \in Clients \ {c} : callerPc'[d] = callerPc[d] /\ calls'[d] = calls[d],
             \A l \in Commands \ {k} : returned'[l] = returned[l],
             k = <<c, calls'[c]>>, returned'[k] # "none", calls'[c] = calls[c] \/ callerPc[c] = "idle"
      PROVE  OneCallAtATime'
  <2> SUFFICES ASSUME NEW l \in Commands, returned'[l] = "none", l[2] <= calls'[l[1]]
               PROVE  l = <<l[1], calls'[l[1]]>> /\ callerPc'[l[1]] # "idle"
    BY DEF OneCallAtATime, Mine
  <2>1. l # k /\ returned[l] = "none" /\ l[1] \in Clients /\ l[2] \in Nat /\ l = <<l[1], l[2]>>
    BY <1>2, CommandFacts
  <2>2. l[1] = c => l[2] # calls'[c] /\ calls[c] \in Nat
    BY <1>2, <2>1, LineTyped
  <2>3. l[1] = c => l[2] <= calls[c] /\ l = <<c, calls[c]>> /\ callerPc[c] # "idle" /\ calls'[c] # calls[c]
    BY <1>2, <2>1, <2>2 DEF OneCallAtATime, Mine
  <2>4. l[1] # c
    BY <1>2, <2>3
  <2> QED BY <1>2, <2>1, <2>4 DEF OneCallAtATime, Mine
<1>3. ASSUME NEW c \in Clients, SubmitCheck(c) PROVE OneCallAtATime'
  <2> DEFINE k == <<c, calls[c] + 1>>
  <2>1. /\ calls[c] \in Nat /\ k \in Commands /\ callerPc[c] = "idle" /\ calls'[c] = calls[c] + 1
        /\ \A d \in Clients \ {c} : callerPc'[d] = callerPc[d] /\ calls'[d] = calls[d]
    BY <1>3, ShardLoopAssumption DEF SubmitCheck, Return, TypeOK, Commands
  <2>2. CASE callerPc' = [callerPc EXCEPT ![c] = "offering"] /\ UNCHANGED returned
    <3> SUFFICES ASSUME NEW l \in Commands, returned'[l] = "none", l[2] <= calls'[l[1]]
                 PROVE  l = <<l[1], calls'[l[1]]>> /\ callerPc'[l[1]] # "idle"
      BY DEF OneCallAtATime, Mine
    <3>1. l[1] \in Clients /\ l[2] \in Nat /\ l = <<l[1], l[2]>>
      BY CommandFacts
    <3>2. l[1] = c => l[2] = calls[c] + 1
      BY <2>1, <2>2, <3>1 DEF OneCallAtATime, Mine
    <3>3. callerPc'[c] = "offering"
      BY <2>2 DEF TypeOK
    <3>4. l[1] # c => l = <<l[1], calls[l[1]]>> /\ callerPc[l[1]] # "idle"
      BY <2>1, <2>2, <3>1 DEF OneCallAtATime, Mine
    <3> QED BY <2>1, <3>1, <3>2, <3>3, <3>4
  <2>3. ASSUME NEW r \in {"notStarted", "stopped"}, Return(c, k, r) PROVE OneCallAtATime'
    <3>1. callerPc'[c] = "idle" /\ returned'[k] = r /\ \A l \in Commands \ {k} : returned'[l] = returned[l]
      BY <2>1, <2>3 DEF Return, TypeOK
    <3> QED BY <1>2, <2>1, <2>3, <3>1
  <2> QED BY <1>3, <2>2, <2>3 DEF SubmitCheck
<1>4. ASSUME NEW c \in Clients, SubmitEnqueue(c) \/ SubmitRecordAccepted(c) PROVE OneCallAtATime'
  <2>1. UNCHANGED <<calls, returned>> /\ \A d \in Clients : callerPc'[d] = "idle" => callerPc[d] = "idle"
    BY <1>4 DEF SubmitEnqueue, SubmitRecordAccepted, TypeOK
  <2>2. \A k \in Commands : k[1] \in Clients
    BY CommandFacts
  <2> QED BY <2>1, <2>2 DEF OneCallAtATime, Mine
<1>5. ASSUME NEW c \in Clients, NEW r \in Returns, callerPc[c] # "idle", Return(c, Mine(c), r), UNCHANGED calls
      PROVE  OneCallAtATime'
  <2>1. Mine(c) \in Commands /\ Mine(c) = <<c, calls'[c]>> /\ r # "none"
    BY <1>5, MineIsACommand DEF Mine, Returns, Answers
  <2>2. /\ callerPc'[c] = "idle" /\ returned'[Mine(c)] = r
        /\ \A l \in Commands \ {Mine(c)} : returned'[l] = returned[l]
        /\ \A d \in Clients \ {c} : callerPc'[d] = callerPc[d] /\ calls'[d] = calls[d]
    BY <1>5, <2>1 DEF Return, TypeOK
  <2> QED BY <1>2, <1>5, <2>1, <2>2
<1>6. ASSUME NEW c \in Clients, SubmitTimeout(c) PROVE OneCallAtATime'
  BY <1>5, <1>6 DEF SubmitTimeout, Returns
<1>7. ASSUME NEW c \in Clients, SubmitReceive(c) PROVE OneCallAtATime'
  <2>1. answer[Mine(c)] \in Returns
    BY <1>7, MineIsACommand DEF SubmitReceive, TypeOK, Returns, Answers
  <2> QED BY <1>5, <1>7, <2>1 DEF SubmitReceive
<1>8. CASE Start \/ Worker \/ \E s \in Stoppers : Stopper(s)
  BY <1>1, <1>8 DEF Start, Worker, Apply, RunTake, ApplyBegin, ApplyFinish, ApplyAnswer, RunStop, RejectPending,
     RunExit, Stopper, StopUnstarted, StopBegin, StopEnd, StopAbandoned
<1>9. CASE UNCHANGED vars
  BY <1>1, <1>9 DEF vars
<1> QED BY <1>3, <1>4, <1>6, <1>7, <1>8, <1>9 DEF Next, Caller

\* A failed command stays in front of the line: it came from its head, and calls
\* join at its end.
LEMMA FailedStay ==
    ASSUME IInv, FailedInLine, [Next]_vars
    PROVE  FailedInLine'
<1> USE DEF lifecycle, worker, authority, callers
<1>1. TypeOK /\ Control /\ InOneLine /\ Bookkeeping
  BY DEF IInv
<1>2. CASE UNCHANGED <<queue, current, answer>>
  BY <1>2 DEF FailedInLine
<1>3. ASSUME NEW c \in Clients, SubmitEnqueue(c) PROVE FailedInLine'
  <2>1. Mine(c) \in Commands /\ callerPc[c] = "offering" /\ UNCHANGED <<answer, current>>
    BY <1>1, <1>3, MineIsACommand DEF SubmitEnqueue
  <2>2. /\ Len(queue') = Len(queue) + 1 /\ queue'[Len(queue) + 1] = Mine(c)
        /\ \A i \in 1 .. Len(queue) : queue'[i] = queue[i]
    BY <1>1, <1>3, <2>1, AppendFacts DEF SubmitEnqueue, TypeOK
  <2>3. \A j \in 1 .. Len(queue') : j = Len(queue) + 1 \/ j \in 1 .. Len(queue)
    BY <1>1, <2>2, LineTyped
  <2>4. ASSUME NEW k \in Commands, answer[k] = "error" PROVE Before(k, Mine(c))
    BY <1>1, <2>1, <2>4 DEF Bookkeeping, PastOffer, Mine, Before
  <2> QED BY <2>1, <2>2, <2>3, <2>4 DEF FailedInLine
<1>4. CASE RunTake
  <2>1. current' = queue[1] /\ 1 \in 1 .. Len(queue) /\ queue' = Tail(queue) /\ UNCHANGED answer
    <3>1. Len(queue) \in Nat /\ Len(queue) >= 1 /\ Head(queue) = queue[1]
      BY <1>1, <1>4, TailFacts, LenProperties DEF TypeOK, RunTake
    <3> QED BY <1>4, <3>1 DEF RunTake, Dequeue
  <2>2. \A i \in 1 .. Len(queue') : i + 1 \in 1 .. Len(queue) /\ queue'[i] = queue[i + 1]
    BY <1>1, <1>4, <2>1, TailFacts DEF TypeOK, RunTake
  <2> QED BY <2>1, <2>2 DEF FailedInLine
<1>5. CASE ApplyAnswer
  <2>1. UNCHANGED queue /\ current' = NoCommand /\ answer' = [answer EXCEPT ![current] = AnswerTo(outcome)]
    BY <1>5 DEF ApplyAnswer
  <2>2. \A j \in 1 .. Len(queue) : Before(current, queue[j])
    BY <1>1, <1>5 DEF ApplyAnswer, Control, Holding, InOneLine
  <2>3. \A k \in Commands : k # current => answer'[k] = answer[k]
    BY <1>1, <2>1 DEF TypeOK
  <2> QED BY <2>1, <2>2, <2>3 DEF FailedInLine
<1>6. CASE RejectPending
  <2>1. queue' = Tail(queue) /\ UNCHANGED current
    BY <1>6 DEF RejectPending
  <2>2. \A i \in 1 .. Len(queue') : i + 1 \in 1 .. Len(queue) /\ queue'[i] = queue[i + 1]
    BY <1>1, <1>6, <2>1, TailFacts DEF TypeOK, RejectPending
  <2>3. \A k \in Commands : answer'[k] = "error" => answer[k] = "error"
    BY <1>1, <1>6 DEF RejectPending, TypeOK
  <2> QED BY <2>1, <2>2, <2>3 DEF FailedInLine
<1>7. CASE Start \/ ApplyBegin \/ (\E o \in Outcomes : ApplyFinish(o)) \/ RunStop \/ RunExit \/ UNCHANGED vars
  BY <1>2, <1>7 DEF Start, ApplyBegin, ApplyFinish, RunStop, RunExit, vars
<1>8. ASSUME NEW c \in Clients, SubmitCheck(c) \/ SubmitRecordAccepted(c) \/ SubmitTimeout(c) \/ SubmitReceive(c)
      PROVE  FailedInLine'
  BY <1>2, <1>8 DEF SubmitCheck, SubmitRecordAccepted, SubmitTimeout, SubmitReceive
<1>9. ASSUME NEW s \in Stoppers, Stopper(s) PROVE FailedInLine'
  BY <1>2, <1>9 DEF Stopper, StopUnstarted, StopBegin, StopEnd, StopAbandoned
<1> QED BY <1>3, <1>4, <1>5, <1>6, <1>7, <1>8, <1>9 DEF Next, Worker, Apply, Caller

\* The invariant of the refinement.
THEOREM AuthorityInvariant == Spec => []RInv
<1>1. Init => OneCallAtATime /\ FailedInLine
  <2> SUFFICES ASSUME Init PROVE OneCallAtATime /\ FailedInLine
    OBVIOUS
  <2>1. \A k \in Commands : ~(k[2] <= calls[k[1]]) /\ answer[k] = "none"
    BY CommandFacts DEF Init
  <2> QED BY <2>1 DEF OneCallAtATime, FailedInLine
<1>2. IInv => TypeOK /\ Control
  BY DEF IInv
<1>3. IInv /\ OneCallAtATime /\ FailedInLine /\ [Next]_vars => (OneCallAtATime /\ FailedInLine)'
  BY <1>2, OneCallStays, FailedStay
<1> QED BY <1>1, <1>3, LineInvariant, PTL DEF Spec, RInv

\* The abstract state moves with what it is made of.
LEMMA StatusStays ==
    ASSUME NEW k, Logged(k)' <=> Logged(k), Failed(k)' <=> Failed(k), GivenUp(k)' <=> GivenUp(k),
           (k[2] > calls'[k[1]]) <=> (k[2] > calls[k[1]])
    PROVE  statusOf(k)' = statusOf(k)
BY DEF statusOf

LEMMA StatusMoves ==
    ASSUME NEW k \in Commands, NEW x, statusOf(k)' = x,
           \A l \in Commands \ {k} : statusOf(l)' = statusOf(l)
    PROVE  status' = [status EXCEPT ![k] = x]
BY DEF status

LEMMA ReplyMoves ==
    ASSUME TypeOK, NEW k \in Commands, NEW r, returned' = [returned EXCEPT ![k] = r]
    PROVE  /\ replyOf(k)' = (CASE r \in {"stopped", "notStarted", "offerTimeout"} -> "refused"
                               [] r = "awaitTimeout" -> "unknown" [] OTHER -> r)
           /\ reply' = [reply EXCEPT ![k] = replyOf(k)']
<1>1. returned'[k] = r /\ \A l \in Commands \ {k} : returned'[l] = returned[l]
  BY DEF TypeOK
<1>2. \A l \in Commands \ {k} : replyOf(l)' = replyOf(l)
  BY <1>1 DEF replyOf
<1> QED BY <1>1, <1>2 DEF reply, replyOf

LEMMA AuthorityStays ==
    ASSUME UNCHANGED <<replayLog, world, returned>>, closed' = closed,
           \A k \in Commands : statusOf(k)' = statusOf(k)
    PROVE  UNCHANGED Authority!vars
<1>1. history' = history /\ reply' = reply
  BY DEF history, reply, replyOf
<1>2. status' = status
  BY DEF status
<1> QED BY <1>1, <1>2 DEF Authority!vars

\* A command in line that the worker has not finished is open.
LEMMA OpenInLine ==
    ASSUME TypeOK, NEW k \in Commands, Unanswered(k), ~Logged(k), workerPc # "answering"
    PROVE  statusOf(k) = "open"
<1>1. ~Failed(k) /\ ~GivenUp(k)
  BY DEF Unanswered, Failed, GivenUp
<1>2. ~(k[2] > calls[k[1]])
  BY CommandFacts, LineTyped DEF Unanswered, PastOffer
<1> QED BY <1>1, <1>2 DEF statusOf

\* A command whose call has not begun or has not reached the queue is in no record.
LEMMA BeforeTheOffer ==
    ASSUME TypeOK, Control, Bookkeeping, NEW k \in Commands, ~PastOffer(k), returned[k] = "none"
    PROVE  /\ ~Logged(k) /\ ~Failed(k) /\ ~GivenUp(k) /\ answer[k] = "none"
           /\ statusOf(k) = IF k[2] > calls[k[1]] THEN "unused" ELSE "open"
<1>1. ~Logged(k) /\ answer[k] = "none"
  BY DEF Bookkeeping, Logged
<1>2. workerPc = "answering" => current # k
  BY DEF Control, Holding, Bookkeeping, Unanswered
<1>3. ~Failed(k) /\ ~GivenUp(k)
  BY <1>1, <1>2 DEF Failed, GivenUp
<1> QED BY <1>1, <1>3 DEF statusOf

\* The steps of the loop that callers cannot tell from nothing.
LEMMA InvisibleSteps ==
    ASSUME RInv,
           \/ Start \/ RunTake \/ ApplyBegin \/ ApplyAnswer \/ RunStop
           \/ \E c \in Clients : SubmitEnqueue(c) \/ SubmitRecordAccepted(c)
           \/ \E s \in Stoppers : Stopper(s)
    PROVE  UNCHANGED Authority!vars
<1> USE DEF lifecycle, worker, authority, callers
<1>1. TypeOK /\ Control /\ Bookkeeping
  BY DEF RInv, IInv
<1>2. UNCHANGED <<replayLog, world, returned, calls>>
  BY DEF Start, RunTake, ApplyBegin, ApplyAnswer, RunStop, SubmitEnqueue, SubmitRecordAccepted, Stopper,
     StopUnstarted, StopBegin, StopEnd, StopAbandoned
<1>3. closed' = closed
  BY <1>1 DEF Start, RunTake, ApplyBegin, ApplyAnswer, RunStop, SubmitEnqueue, SubmitRecordAccepted, Stopper,
     StopUnstarted, StopBegin, StopEnd, StopAbandoned, closed, Control
<1>4. CASE ApplyAnswer
  <2>1. /\ current \in Commands /\ workerPc = "answering" /\ workerPc' = "select"
        /\ answer'[current] = AnswerTo(outcome) /\ \A k \in Commands \ {current} : answer'[k] = answer[k]
    BY <1>1, <1>4 DEF ApplyAnswer, Control, Holding, TypeOK
  <2>2. answer[current] = "none" /\ (Logged(current) <=> outcome # "rejected")
    BY <1>1, <2>1 DEF Control, Holding, Bookkeeping, Unanswered
  <2>3. ASSUME NEW k \in Commands PROVE statusOf(k)' = statusOf(k)
    <3>1. Logged(k)' <=> Logged(k)
      BY <1>2 DEF Logged
    <3>2. Failed(k)' <=> Failed(k)
      BY <2>1, <2>2 DEF Failed, AnswerTo
    <3>3. GivenUp(k)' <=> GivenUp(k)
      BY <1>2, <2>1, <2>2 DEF GivenUp, AnswerTo
    <3> QED BY <1>2, <3>1, <3>2, <3>3, StatusStays
  <2> QED BY <1>2, <1>3, <2>3, AuthorityStays
<1>5. CASE ~ApplyAnswer
  <2>1. UNCHANGED answer /\ (workerPc = "answering" <=> workerPc' = "answering")
    BY <1>1, <1>5 DEF Start, RunTake, ApplyBegin, RunStop, SubmitEnqueue, SubmitRecordAccepted, Stopper,
       StopUnstarted, StopBegin, StopEnd, StopAbandoned, Control
  <2>2. workerPc = "answering" => UNCHANGED current
    BY <1>5 DEF Start, RunTake, ApplyBegin, RunStop, SubmitEnqueue, SubmitRecordAccepted, Stopper,
       StopUnstarted, StopBegin, StopEnd, StopAbandoned
  <2>3. ASSUME NEW k \in Commands PROVE statusOf(k)' = statusOf(k)
    <3>1. Logged(k)' <=> Logged(k)
      BY <1>2 DEF Logged
    <3>2. Failed(k)' <=> Failed(k)
      <4>1. CASE workerPc = "answering"
        <5>1. UNCHANGED outcome
          BY <1>5, <4>1 DEF Start, RunTake, ApplyBegin, RunStop, SubmitEnqueue, SubmitRecordAccepted, Stopper,
             StopUnstarted, StopBegin, StopEnd, StopAbandoned
        <5> QED BY <2>1, <2>2, <4>1, <5>1 DEF Failed
      <4> QED BY <2>1, <4>1 DEF Failed
    <3>3. GivenUp(k)' <=> GivenUp(k)
      BY <1>2, <2>1 DEF GivenUp
    <3> QED BY <1>2, <3>1, <3>2, <3>3, StatusStays
  <2> QED BY <1>2, <1>3, <2>3, AuthorityStays
<1> QED BY <1>4, <1>5

\* A call that begins is the next of its caller, whose earlier ones have returned.
LEMMA CheckRefines ==
    ASSUME RInv, NEW c \in Clients, SubmitCheck(c)
    PROVE  Authority!Next
<1> USE DEF lifecycle, worker, authority, callers
<1> PICK n, k : n = calls[c] + 1 /\ k = <<c, n>>
  OBVIOUS
<1>1. TypeOK /\ Control /\ Bookkeeping /\ OneCallAtATime
  BY DEF RInv, IInv
<1>2. /\ calls[c] \in Nat /\ n \in 1 .. MaxSubmits /\ k \in Commands /\ callerPc[c] = "idle"
      /\ calls' = [calls EXCEPT ![c] = n]
      /\ UNCHANGED <<replayLog, world, answer, workerPc, current, outcome>>
  BY <1>1, ShardLoopAssumption DEF SubmitCheck, TypeOK, Commands
<1>3. k[1] = c /\ k[2] = n /\ ~PastOffer(k) /\ returned[k] = "none"
  BY <1>1, <1>2 DEF PastOffer, Bookkeeping
<1>4. statusOf(k) = "unused" /\ ~Logged(k) /\ ~Failed(k) /\ ~GivenUp(k) /\ answer[k] = "none"
  BY <1>1, <1>2, <1>3, BeforeTheOffer
<1>5. \A m \in 1 .. n - 1 : replyOf(<<c, m>>) # "none" /\ <<c, m>> \in Commands
  <2> SUFFICES ASSUME NEW m \in 1 .. n - 1 PROVE replyOf(<<c, m>>) # "none" /\ <<c, m>> \in Commands
    OBVIOUS
  <2>1. <<c, m>> \in Commands /\ m <= calls[c]
    BY <1>2, ShardLoopAssumption DEF Commands
  <2>2. returned[<<c, m>>] # "none"
    BY <1>1, <1>2, <2>1 DEF OneCallAtATime, Mine
  <2> QED BY <2>1, <2>2 DEF replyOf
<1>6. calls'[c] = n /\ \A d \in Clients \ {c} : calls'[d] = calls[d]
  BY <1>1, <1>2 DEF TypeOK
<1>7. \A l \in Commands \ {k} : (l[2] > calls'[l[1]]) <=> (l[2] > calls[l[1]])
  <2> SUFFICES ASSUME NEW l \in Commands \ {k} PROVE (l[2] > calls'[l[1]]) <=> (l[2] > calls[l[1]])
    OBVIOUS
  <2>1. l[1] \in Clients /\ l[2] \in Nat /\ l = <<l[1], l[2]>>
    BY CommandFacts
  <2>2. l[1] = c => l[2] # n
    BY <2>1
  <2> QED BY <1>2, <1>6, <2>1, <2>2
<1>8. \A l \in Commands : Logged(l)' <=> Logged(l)
  BY <1>2 DEF Logged
<1>9. \A l \in Commands : Failed(l)' <=> Failed(l)
  BY <1>2 DEF Failed
<1>10. ~(k[2] > calls'[k[1]])
  BY <1>2, <1>3, <1>6
<1>11. ASSUME \A l \in Commands \ {k} : GivenUp(l)' <=> GivenUp(l)
       PROVE  \A l \in Commands \ {k} : statusOf(l)' = statusOf(l)
  BY <1>7, <1>8, <1>9, <1>11, StatusStays
<1>12. closed' = closed /\ history' = history /\ world' = world
  BY <1>2 DEF closed, history
<1>13. status[k] = "unused" /\ reply[k] = "none" /\ \A m \in 1 .. k[2] - 1 : reply[<<k[1], m>>] # "none"
  <2>1. replyOf(k) = "none"
    BY <1>3 DEF replyOf
  <2> QED BY <1>2, <1>3, <1>4, <1>5, <2>1 DEF status, reply
<1>14. CASE UNCHANGED returned
  <2>1. \A l \in Commands : GivenUp(l)' <=> GivenUp(l)
    BY <1>2, <1>14 DEF GivenUp
  <2>2. statusOf(k)' = "open"
    BY <1>2, <1>4, <1>8, <1>9, <1>10, <2>1 DEF statusOf
  <2>3. status' = [status EXCEPT ![k] = "open"]
    BY <1>2, <1>11, <2>1, <2>2, StatusMoves
  <2>4. reply' = reply
    BY <1>14 DEF reply, replyOf
  <2>5. Authority!Call(k)
    BY <1>12, <1>13, <2>3, <2>4 DEF Authority!Call
  <2> QED BY <1>2, <2>5 DEF Authority!Next, Authority!Commands, Commands
<1>15. ASSUME NEW r \in {"notStarted", "stopped"}, returned' = [returned EXCEPT ![k] = r]
       PROVE  Authority!Next
  <2>1. returned'[k] = r /\ \A l \in Commands \ {k} : returned'[l] = returned[l]
    BY <1>1, <1>2, <1>15 DEF TypeOK
  <2>2. GivenUp(k)' /\ \A l \in Commands \ {k} : GivenUp(l)' <=> GivenUp(l)
    BY <1>2, <2>1 DEF GivenUp
  <2>3. statusOf(k)' = "void"
    BY <1>2, <1>4, <1>8, <1>9, <2>2 DEF statusOf
  <2>4. status' = [status EXCEPT ![k] = "void"]
    BY <1>2, <1>11, <2>2, <2>3, StatusMoves
  <2>5. reply' = [reply EXCEPT ![k] = "refused"]
    BY <1>1, <1>2, <1>15, <2>1, ReplyMoves DEF replyOf
  <2>6. Authority!Refuse(k)
    BY <1>12, <1>13, <2>4, <2>5 DEF Authority!Refuse
  <2> QED BY <1>2, <2>6 DEF Authority!Next, Authority!Commands, Commands
<1>16. \/ UNCHANGED returned
       \/ \E r \in {"notStarted", "stopped"} : returned' = [returned EXCEPT ![k] = r]
  BY DEF SubmitCheck, Return
<1> QED BY <1>14, <1>15, <1>16

\* A call that returns tells what became of its command.
LEMMA ReturnRefines ==
    ASSUME RInv, NEW c \in Clients, SubmitTimeout(c) \/ SubmitReceive(c)
    PROVE  Authority!Next
<1> USE DEF lifecycle, worker, authority, callers
<1>1. TypeOK /\ Control /\ Bookkeeping
  BY DEF RInv, IInv
<1>2. PICK k \in Commands : k = Mine(c) /\ k[1] = c /\ k[2] = calls[c]
  <2>1. callerPc[c] # "idle"
    BY DEF SubmitTimeout, SubmitReceive
  <2> QED BY <1>1, <2>1, MineIsACommand DEF Mine
<1>3. UNCHANGED <<replayLog, world, answer, workerPc, current, outcome, calls>> /\ returned[k] = "none"
  BY <1>1, <1>2 DEF SubmitTimeout, SubmitReceive, Bookkeeping
<1>4. PICK r \in Returns : returned' = [returned EXCEPT ![k] = r]
  <2>1. answer[k] \in Answers \cup {"none"}
    BY <1>1 DEF TypeOK
  <2> QED BY <1>2, <2>1 DEF SubmitTimeout, SubmitReceive, Return, Returns
<1>5. returned'[k] = r /\ \A l \in Commands \ {k} : returned'[l] = returned[l]
  BY <1>1, <1>4 DEF TypeOK
<1>6. closed' = closed /\ history' = history /\ world' = world
  BY <1>3 DEF closed, history
<1>7. \A l \in Commands : (Logged(l)' <=> Logged(l)) /\ (Failed(l)' <=> Failed(l))
  BY <1>3 DEF Logged, Failed
<1>8. reply[k] = "none" /\ reply' = [reply EXCEPT ![k] = replyOf(k)']
  <2>1. replyOf(k) = "none"
    BY <1>3 DEF replyOf
  <2> QED BY <1>1, <1>4, <2>1, ReplyMoves DEF reply
<1>9. ~(k[2] > calls[k[1]])
  BY <1>1, <1>2, LineTyped
<1>10. ASSUME GivenUp(k)' <=> GivenUp(k), replyOf(k)' \in Authority!Truths(k) PROVE Authority!Next
  <2>1. \A l \in Commands : GivenUp(l)' <=> GivenUp(l)
    BY <1>3, <1>5, <1>10 DEF GivenUp
  <2>2. \A l \in Commands : statusOf(l)' = statusOf(l)
    BY <1>3, <1>7, <2>1, StatusStays
  <2>3. status' = status
    BY <2>2 DEF status
  <2>4. Authority!Reply(k)
    BY <1>6, <1>8, <1>10, <2>3 DEF Authority!Reply
  <2> QED BY <2>4 DEF Authority!Next, Authority!Commands, Commands
<1>11. CASE callerPc[c] = "offering" /\ r = "offerTimeout"
  <2>1. ~PastOffer(k)
    BY <1>1, <1>2, <1>11, LineTyped DEF PastOffer
  <2>2. statusOf(k) = "open" /\ ~Logged(k) /\ ~Failed(k)
    BY <1>1, <1>3, <1>9, <2>1, BeforeTheOffer
  <2>3. GivenUp(k)' /\ \A l \in Commands \ {k} : GivenUp(l)' <=> GivenUp(l)
    BY <1>3, <1>5, <1>11 DEF GivenUp
  <2>4. statusOf(k)' = "void"
    BY <1>7, <2>2, <2>3 DEF statusOf
  <2>5. \A l \in Commands \ {k} : statusOf(l)' = statusOf(l)
    BY <1>3, <1>7, <2>3, StatusStays
  <2>6. status' = [status EXCEPT ![k] = "void"] /\ status[k] = "open"
    BY <2>2, <2>4, <2>5, StatusMoves DEF status
  <2>7. replyOf(k)' = "refused"
    BY <1>5, <1>11 DEF replyOf
  <2>8. Authority!Refuse(k)
    BY <1>6, <1>8, <2>6, <2>7 DEF Authority!Refuse
  <2> QED BY <2>8 DEF Authority!Next, Authority!Commands, Commands
<1>12. CASE r = "awaitTimeout"
  <2>1. GivenUp(k)' <=> GivenUp(k)
    BY <1>3, <1>5, <1>12 DEF GivenUp
  <2>2. replyOf(k)' = "unknown"
    BY <1>5, <1>12 DEF replyOf
  <2>3. statusOf(k) \in {"applied", "failed", "void", "open"}
    BY <1>9 DEF statusOf
  <2>4. "unknown" \in Authority!Truths(k)
    BY <2>3 DEF Authority!Truths, status
  <2> QED BY <1>10, <2>1, <2>2, <2>4
<1>13. CASE answer[k] # "none" /\ r = answer[k]
  <2>1. r \in Answers /\ ~(workerPc = "answering" /\ current = k)
    BY <1>1, <1>13 DEF TypeOK, Bookkeeping, Unanswered, Control, Holding
  <2>2. GivenUp(k)' <=> GivenUp(k)
    BY <1>3, <1>5, <1>13, <2>1 DEF GivenUp, Answers
  <2>3. CASE r = "ok"
    <3>1. statusOf(k) = "applied" /\ replyOf(k)' = "ok"
      BY <1>1, <1>5, <1>13, <2>3 DEF Bookkeeping, statusOf, replyOf
    <3> QED BY <1>10, <2>2, <3>1 DEF Authority!Truths, status
  <2>4. CASE r \in {"error", "stopped"}
    <3>1. ~Logged(k)
      BY <1>1, <1>13, <2>4 DEF Bookkeeping, Logged
    <3>2. CASE r = "error"
      <4>1. statusOf(k) = "failed" /\ replyOf(k)' = "error"
        BY <1>5, <1>13, <3>1, <3>2 DEF statusOf, replyOf, Failed
      <4> QED BY <1>10, <2>2, <4>1 DEF Authority!Truths, status
    <3>3. CASE r = "stopped"
      <4>1. statusOf(k) = "void" /\ replyOf(k)' = "refused"
        BY <1>5, <1>13, <2>1, <3>1, <3>3 DEF statusOf, replyOf, Failed, GivenUp
      <4> QED BY <1>10, <2>2, <4>1 DEF Authority!Truths, status
    <3> QED BY <2>4, <3>2, <3>3
  <2> QED BY <2>1, <2>3, <2>4 DEF Answers
<1>14. \/ callerPc[c] = "offering" /\ r = "offerTimeout"
       \/ r = "awaitTimeout"
       \/ answer[k] # "none" /\ r = answer[k]
  <2>1. ASSUME NEW q, returned' = [returned EXCEPT ![k] = q] PROVE q = r
    BY <1>1, <1>5, <2>1 DEF TypeOK
  <2> QED BY <1>2, <2>1 DEF SubmitTimeout, SubmitReceive, Return
<1> QED BY <1>11, <1>12, <1>13, <1>14

\* Applying is the moment of the effect, or of the error: no later command of the
\* caller has had its own yet.
LEMMA FinishRefines ==
    ASSUME RInv, NEW o \in Outcomes, ApplyFinish(o)
    PROVE  Authority!Next
<1> USE DEF lifecycle, worker, authority, callers
<1>1. TypeOK /\ Control /\ InOneLine /\ Bookkeeping /\ FailedInLine
  BY DEF RInv, IInv
<1>2. PICK k \in Commands : k = current /\ k # NoCommand
  BY <1>1, ShardLoopAssumption DEF ApplyFinish, Control, Holding, TypeOK
<1>3. /\ UNCHANGED <<calls, returned, answer, current>> /\ workerPc = "applying" /\ workerPc' = "answering"
      /\ outcome' = o /\ sequence \in Nat
  BY <1>1 DEF ApplyFinish, TypeOK
<1>4. \A i \in 1 .. Len(replayLog) : Before(replayLog[i].command, k)
  BY <1>1, <1>2, <1>3 DEF InOneLine
<1>5. ~Logged(k)
  BY <1>4, <1>1, LineTyped, CommandFacts DEF Logged
<1>6. Unanswered(k) /\ statusOf(k) = "open"
  BY <1>1, <1>2, <1>3, <1>5, OpenInLine DEF Bookkeeping
<1>7. Authority!InCallOrder(k)
  <2> SUFFICES ASSUME NEW n \in k[2] + 1 .. MaxSubmits
               PROVE  <<k[1], n>> \in Commands /\ statusOf(<<k[1], n>>) \notin {"applied", "failed"}
    BY DEF Authority!InCallOrder, status
  <2>1. PICK l \in Commands : l = <<k[1], n>> /\ l[1] = k[1] /\ l[2] = n /\ ~(n < k[2])
    <3>1. k[1] \in Clients /\ k[2] \in Nat
      BY CommandFacts
    <3>2. n \in 1 .. MaxSubmits /\ ~(n < k[2])
      BY <3>1, ShardLoopAssumption
    <3>3. <<k[1], n>> \in Commands
      BY <3>1, <3>2 DEF Commands
    <3> QED BY <3>2, <3>3
  <2>2. ~Before(l, k)
    BY <2>1 DEF Before
  <2>3. ~Logged(l)
    BY <1>4, <2>2 DEF Logged
  <2>4. ~Failed(l)
    BY <1>1, <1>2, <1>3, <2>2 DEF Failed, FailedInLine
  <2> QED BY <2>1, <2>3, <2>4 DEF statusOf
<1>8. closed = FALSE /\ closed' = FALSE /\ reply' = reply /\ status[k] = "open"
  BY <1>3, <1>6 DEF closed, reply, replyOf, status
<1>9. \A l \in Commands : GivenUp(l)' <=> GivenUp(l)
  BY <1>3 DEF GivenUp
<1>10. CASE o = "rejected"
  <2>1. UNCHANGED <<replayLog, world>>
    BY <1>10 DEF ApplyFinish
  <2>2. \A l \in Commands : Logged(l)' <=> Logged(l)
    BY <2>1 DEF Logged
  <2>3. Failed(k)' /\ \A l \in Commands \ {k} : Failed(l)' <=> Failed(l)
    BY <1>2, <1>3, <1>10 DEF Failed
  <2>4. statusOf(k)' = "failed"
    BY <1>5, <2>2, <2>3 DEF statusOf
  <2>5. \A l \in Commands \ {k} : statusOf(l)' = statusOf(l)
    BY <1>3, <1>9, <2>2, <2>3, StatusStays
  <2>6. status' = [status EXCEPT ![k] = "failed"] /\ history' = history
    BY <2>1, <2>4, <2>5, StatusMoves DEF history
  <2>7. Authority!Fail(k)
    BY <1>7, <1>8, <2>1, <2>6 DEF Authority!Fail
  <2> QED BY <2>7 DEF Authority!Next, Authority!Commands, Commands
<1>11. CASE o # "rejected"
  <2> DEFINE rec == [command |-> k, sequence |-> sequence]
  <2>1. replayLog' = Append(replayLog, rec) /\ world' = IF o = "changed" THEN Append(world, k) ELSE world
    BY <1>2, <1>11 DEF ApplyFinish, RecordReplay
  <2>2. /\ Len(replayLog') = Len(replayLog) + 1 /\ replayLog'[Len(replayLog) + 1] = rec
        /\ \A i \in 1 .. Len(replayLog) : replayLog'[i] = replayLog[i]
    <3>1. rec \in [command : Commands, sequence : Nat]
      BY <1>3
    <3> QED BY <1>1, <2>1, <3>1, AppendFacts DEF TypeOK
  <2>3. /\ Len(replayLog) \in Nat
        /\ \A i \in 1 .. Len(replayLog') : i = Len(replayLog) + 1 \/ i \in 1 .. Len(replayLog)
        /\ \A i \in 1 .. Len(replayLog) : i # Len(replayLog) + 1
    BY <1>1, <2>2, LineTyped
  <2>4. rec.command = k
    OBVIOUS
  <2> HIDE DEF rec
  <2>5. \A l \in Commands : Logged(l)' <=> Logged(l) \/ l = k
    BY <2>2, <2>3, <2>4 DEF Logged
  <2>6. \A l \in Commands \ {k} : Failed(l)' <=> Failed(l)
    BY <1>2, <1>3 DEF Failed
  <2>7. statusOf(k)' = "applied"
    BY <2>5 DEF statusOf
  <2>8. \A l \in Commands \ {k} : statusOf(l)' = statusOf(l)
    BY <1>3, <1>9, <2>5, <2>6, StatusStays
  <2>9. status' = [status EXCEPT ![k] = "applied"]
    BY <2>7, <2>8, StatusMoves
  <2>10. history' = Append(history, k)
    <3> DEFINE old == [i \in 1 .. Len(replayLog) |-> replayLog[i].command]
               new == [i \in 1 .. Len(replayLog) + 1 |-> IF i = Len(replayLog) + 1 THEN k ELSE replayLog[i].command]
    <3>1. history = old /\ old \in Seq(Commands) /\ Len(old) = Len(replayLog)
      BY <1>1, <2>3, LineTyped DEF history
    <3>2. history' = new
      BY <2>2, <2>3, <2>4 DEF history
    <3>3. Append(old, k) \in Seq(Commands) /\ new \in Seq(Commands) /\ Len(new) = Len(replayLog) + 1
      BY <1>1, <2>3, <3>1, AppendFacts, LineTyped
    <3>4. Len(Append(old, k)) = Len(new) /\ \A i \in 1 .. Len(new) : Append(old, k)[i] = new[i]
      BY <2>3, <3>1, <3>3, AppendFacts
    <3> HIDE DEF old, new
    <3>5. Append(old, k) = new
      BY <3>3, <3>4, SeqEqual
    <3> QED BY <3>1, <3>2, <3>5
  <2>11. Authority!Succeed(k, o = "changed")
    BY <1>7, <1>8, <2>1, <2>9, <2>10 DEF Authority!Succeed
  <2> QED BY <2>11 DEF Authority!Next, Authority!Commands, Commands
<1> QED BY <1>10, <1>11

\* What the drain answers never had its effect.
LEMMA DrainRefines ==
    ASSUME RInv, RejectPending
    PROVE  Authority!Next
<1> USE DEF lifecycle, worker, authority, callers
<1>1. TypeOK /\ Control /\ InOneLine /\ Bookkeeping
  BY DEF RInv, IInv
<1>2. Len(queue) \in Nat /\ Len(queue) >= 1 /\ Head(queue) = queue[1]
  BY <1>1, TailFacts, LenProperties DEF TypeOK, RejectPending
<1>3. PICK k \in Commands : k = Head(queue) /\ \E i \in 1 .. Len(queue) : queue[i] = k
  BY <1>1, <1>2, LineTyped
<1>4. /\ UNCHANGED <<replayLog, world, returned, calls, workerPc, current, outcome>>
      /\ workerPc = "draining" /\ answer' = [answer EXCEPT ![k] = "stopped"]
  BY <1>3 DEF RejectPending
<1>5. ~Logged(k)
  BY <1>1, <1>3, LineTyped, CommandFacts DEF InOneLine, Logged
<1>6. statusOf(k) = "open" /\ Unanswered(k)
  BY <1>1, <1>3, <1>4, <1>5, OpenInLine DEF Bookkeeping
<1>7. answer'[k] = "stopped" /\ \A l \in Commands \ {k} : answer'[l] = answer[l]
  BY <1>1, <1>4 DEF TypeOK
<1>8. /\ \A l \in Commands : Logged(l)' <=> Logged(l)
      /\ ~Failed(k)' /\ \A l \in Commands \ {k} : Failed(l)' <=> Failed(l)
      /\ GivenUp(k)' /\ \A l \in Commands \ {k} : GivenUp(l)' <=> GivenUp(l)
  BY <1>4, <1>7 DEF Logged, Failed, GivenUp
<1>9. statusOf(k)' = "void" /\ \A l \in Commands \ {k} : statusOf(l)' = statusOf(l)
  <2>1. statusOf(k)' = "void"
    BY <1>5, <1>8 DEF statusOf
  <2>2. \A l \in Commands \ {k} : statusOf(l)' = statusOf(l)
    BY <1>4, <1>8, StatusStays
  <2> QED BY <2>1, <2>2
<1>10. status' = [status EXCEPT ![k] = "void"] /\ status[k] = "open"
  BY <1>6, <1>9, StatusMoves DEF status
<1>11. Authority!Drop(k)
  BY <1>4, <1>10 DEF Authority!Drop, history, reply, replyOf, closed
<1> QED BY <1>11 DEF Authority!Next, Authority!Commands, Commands

\* Every behaviour of the loop is one of the authority: a command has one effect at
\* most, between its call and its reply, in its caller's order, and what its caller
\* is told is true (see ShardAuthority and ImplementsAuthority).
THEOREM Refinement == Spec => ImplementsAuthority
<1>1. Init => Authority!Init
  <2> SUFFICES ASSUME Init PROVE Authority!Init
    OBVIOUS
  <2>1. Len(replayLog) = 0 /\ replayLog = <<>> /\ world = <<>> /\ workerPc = "unborn"
    BY EmptySeq DEF Init
  <2>2. \A k \in Commands : statusOf(k) = "unused" /\ replyOf(k) = "none"
    <3> SUFFICES ASSUME NEW k \in Commands PROVE statusOf(k) = "unused" /\ replyOf(k) = "none"
      OBVIOUS
    <3>1. answer[k] = "none" /\ returned[k] = "none" /\ k[2] > calls[k[1]]
      BY CommandFacts DEF Init
    <3>2. ~Logged(k) /\ ~Failed(k) /\ ~GivenUp(k)
      BY <2>1, <3>1 DEF Logged, Failed, GivenUp
    <3> QED BY <3>1, <3>2 DEF statusOf, replyOf
  <2>3. history = <<>>
    BY <2>1 DEF history
  <2> QED BY <2>1, <2>2, <2>3 DEF Authority!Init, Authority!Commands, Commands, status, reply, closed
<1>2. RInv /\ [Next]_vars => [Authority!Next]_(Authority!vars)
  <2> SUFFICES ASSUME RInv, [Next]_vars PROVE Authority!Next \/ UNCHANGED Authority!vars
    OBVIOUS
  <2>1. CASE RunExit
    <3>1. UNCHANGED <<replayLog, world, returned, calls, answer, current, outcome>> /\ workerPc' = "exited"
          /\ workerPc = "draining"
      BY <2>1 DEF RunExit, lifecycle, worker, authority, callers
    <3>2. \A k \in Commands : statusOf(k)' = statusOf(k)
      BY <3>1 DEF statusOf, Logged, Failed, GivenUp
    <3>3. Authority!Close
      BY <3>1, <3>2 DEF Authority!Close, history, status, reply, replyOf, closed
    <3> QED BY <3>3 DEF Authority!Next
  <2>2. CASE UNCHANGED vars
    BY <2>2, AuthorityStays DEF vars, lifecycle, worker, authority, callers, closed, statusOf, Logged, Failed, GivenUp
  <2>3. CASE Next
    BY <2>1, <2>3, InvisibleSteps, CheckRefines, ReturnRefines, FinishRefines, DrainRefines
       DEF Next, Caller, Worker, Apply
  <2> QED BY <2>2, <2>3
<1> QED BY <1>1, <1>2, AuthorityInvariant, PTL DEF Spec, ImplementsAuthority, Authority!Spec

-----------------------------------------------------------------------------
(* The commands: a shard beside its replay *)

-----------------------------------------------------------------------------
(* Maps and worlds *)

\* A function, of which the code has a map.
IsMap(f) == f = [x \in DOMAIN f |-> f[x]]

\* g is f but for y at x; g is f without x.
Extends(g, f, x, y) ==
    /\ IsMap(g) /\ DOMAIN g = DOMAIN f \cup {x} /\ g[x] = y
    /\ \A z \in DOMAIN f : z # x => g[z] = f[z]
Lacks(g, f, x) == IsMap(g) /\ DOMAIN g = DOMAIN f \ {x} /\ \A z \in DOMAIN f : z # x => g[z] = f[z]

\* Adding a key, removing one, and setting one to what it has.
LEMMA WithFacts ==
    ASSUME NEW f, NEW x, NEW y PROVE Extends(With(f, x, y), f, x, y)
BY DEF With, IsMap, Extends

LEMMA WithoutFacts ==
    ASSUME NEW f, NEW x PROVE Lacks(Without(f, x), f, x)
BY DEF Without, Restrict, IsMap, Lacks

LEMMA WithSame ==
    ASSUME NEW f, IsMap(f), NEW x \in DOMAIN f
    PROVE  With(f, x, f[x]) = f
BY DEF With, IsMap

\* A session has the fields of the code's, and its own character.
PlayerFields ==
    {"char", "pos", "connected", "alive", "health", "max", "resource", "target", "auto",
     "quests", "done", "claims", "bag", "bar", "copper"}

PlayerGood(t, p) ==
    /\ p = [f \in PlayerFields |-> p[f]]
    /\ p.char = CharacterOf[t]
    /\ p.connected \in BOOLEAN /\ p.alive \in BOOLEAN /\ p.auto \in BOOLEAN
    /\ p.health \in Nat /\ p.max \in Nat /\ p.resource \in Int

\* An NPC, and its table of who threatens it.
NpcFields == {"alive", "targetable", "health", "max", "target", "threat", "respawn"}

ThreatGood(threat) ==
    /\ IsMap(threat)
    /\ DOMAIN threat \subseteq Nat
    /\ \A id \in DOMAIN threat : threat[id] \in Int

NpcGood(npc) ==
    /\ npc = [f \in NpcFields |-> npc[f]]
    /\ npc.alive \in BOOLEAN /\ npc.targetable \in BOOLEAN
    /\ npc.health \in Nat /\ npc.max \in Nat
    /\ ThreatGood(npc.threat)

\* The sessions are of different characters, and each is the one its character has.
SessionsGood(w) ==
    /\ IsMap(w.player)
    /\ IsMap(w.session)
    /\ DOMAIN w.player \subseteq Tokens
    /\ DOMAIN w.session = {CharacterOf[t] : t \in DOMAIN w.player}
    /\ \A t \in DOMAIN w.player : PlayerGood(t, w.player[t]) /\ w.session[CharacterOf[t]] = t

NpcsGood(w) ==
    /\ IsMap(w.npc)
    /\ \A n \in DOMAIN w.npc : NpcGood(w.npc[n])

\* What is well formed: the sessions, the NPCs and the loot.
WorldGood(w) ==
    /\ w = [player |-> w.player, session |-> w.session, npc |-> w.npc, loot |-> w.loot]
    /\ SessionsGood(w) /\ NpcsGood(w)
    /\ IsMap(w.loot)

\* Ids are positive, and those of NPCs nobody else's.
LEMMA Ids0 ==
    /\ \A t \in Tokens : CharacterOf[t] \in Characters /\ CharacterOf[t] \in Nat \ {0}
    /\ Characters \subseteq Nat \ {0} /\ Npcs \subseteq Nat \ {0} /\ Npcs \cap Characters = {}
    /\ FullHealth \in Nat \ {0}
BY ShardWorldAssumption DEF Characters, Range

\* A known session, or the first one of its character.
Fits(w, t) == t \in Tokens /\ (t \in DOMAIN w.player \/ CharacterOf[t] \notin DOMAIN w.session)

\* What a world is after a session is upserted.
LEMMA UpsertPlayerParts ==
    ASSUME NEW w, WorldGood(w), NEW t, NEW p
    PROVE  /\ UpsertPlayer(w, t, p) = [player |-> With(w.player, t, p), session |-> With(w.session, p.char, t),
                                       npc |-> w.npc, loot |-> w.loot]
           /\ UpsertPlayer(w, t, p).player = With(w.player, t, p)
           /\ UpsertPlayer(w, t, p).session = With(w.session, p.char, t)
           /\ UpsertPlayer(w, t, p).npc = w.npc /\ UpsertPlayer(w, t, p).loot = w.loot
<1> DEFINE P == With(w.player, t, p)
           S == With(w.session, p.char, t)
<1> HIDE DEF P, S
<1> DEFINE a == w.player
           b == w.session
           c == w.npc
           d == w.loot
<1>1. w = [player |-> a, session |-> b, npc |-> c, loot |-> d]
  BY DEF WorldGood
<1>2. UpsertPlayer(w, t, p) = [w EXCEPT !.player = P, !.session = S]
  BY DEF UpsertPlayer, P, S
<1> HIDE DEF a, b, c, d
<1>3. [w EXCEPT !.player = P] = [player |-> P, session |-> b, npc |-> c, loot |-> d]
  BY <1>1
<1>4. [w EXCEPT !.player = P, !.session = S] = [player |-> P, session |-> S, npc |-> c, loot |-> d]
  <2>1. [[player |-> P, session |-> b, npc |-> c, loot |-> d] EXCEPT !.session = S]
           = [player |-> P, session |-> S, npc |-> c, loot |-> d]
    OBVIOUS
  <2>2. [[w EXCEPT !.player = P] EXCEPT !.session = S] = [player |-> P, session |-> S, npc |-> c, loot |-> d]
    BY <1>3, <2>1
  <2>3. [w EXCEPT !.player = P, !.session = S] = [[w EXCEPT !.player = P] EXCEPT !.session = S]
    OBVIOUS
  <2> QED BY <2>2, <2>3
<1> QED BY <1>2, <1>4 DEF P, S, c, d

\* A session is upserted that is known or the first of its character.
LEMMA UpsertPlayerGood ==
    ASSUME NEW w, WorldGood(w), NEW t, Fits(w, t), NEW p, PlayerGood(t, p)
    PROVE  LET v == UpsertPlayer(w, t, p)
           IN  /\ WorldGood(v)
               /\ v.npc = w.npc /\ v.loot = w.loot
               /\ DOMAIN v.player = DOMAIN w.player \cup {t}
               /\ v.player[t] = p
               /\ \A u \in DOMAIN w.player : u # t => v.player[u] = w.player[u]
               /\ t \in DOMAIN w.player => v.session = w.session
<1> DEFINE v == UpsertPlayer(w, t, p)
<1>1. /\ v = [player |-> v.player, session |-> v.session, npc |-> v.npc, loot |-> v.loot]
      /\ v.player = With(w.player, t, p) /\ v.session = With(w.session, p.char, t)
      /\ v.npc = w.npc /\ v.loot = w.loot
  BY UpsertPlayerParts
<1> HIDE DEF v
<1>2. p.char = CharacterOf[t] /\ t \in Tokens
  BY DEF PlayerGood, Fits
<1>3. /\ IsMap(v.player) /\ DOMAIN v.player = DOMAIN w.player \cup {t}
      /\ v.player[t] = p /\ \A u \in DOMAIN w.player : u # t => v.player[u] = w.player[u]
  <2>1. Extends(v.player, w.player, t, p)
    BY <1>1, WithFacts
  <2> QED BY <2>1 DEF Extends
<1>4. /\ IsMap(v.session)
      /\ DOMAIN v.session = DOMAIN w.session \cup {CharacterOf[t]}
      /\ v.session[CharacterOf[t]] = t
      /\ \A c \in DOMAIN w.session : c # CharacterOf[t] => v.session[c] = w.session[c]
  <2>1. Extends(v.session, w.session, CharacterOf[t], t)
    BY <1>1, <1>2, WithFacts
  <2> QED BY <2>1 DEF Extends
<1>5. SessionsGood(w)
  BY DEF WorldGood
<1>6. ASSUME NEW u \in DOMAIN w.player, u # t PROVE CharacterOf[u] # CharacterOf[t]
  BY <1>5, <1>6 DEF SessionsGood, Fits
<1>7. SessionsGood(v)
  <2>1. DOMAIN v.player \subseteq Tokens /\ DOMAIN v.session = {CharacterOf[u] : u \in DOMAIN v.player}
    BY <1>2, <1>3, <1>4, <1>5 DEF SessionsGood
  <2>2. ASSUME NEW u \in DOMAIN v.player PROVE PlayerGood(u, v.player[u]) /\ v.session[CharacterOf[u]] = u
    <3>1. CASE u = t
      BY <3>1, <1>3, <1>4
    <3>2. CASE u # t
      <4>1. u \in DOMAIN w.player /\ PlayerGood(u, w.player[u]) /\ w.session[CharacterOf[u]] = u
            /\ CharacterOf[u] \in DOMAIN w.session
        BY <3>2, <2>2, <1>3, <1>5 DEF SessionsGood
      <4> QED BY <4>1, <3>2, <1>3, <1>4, <1>6
    <3> QED BY <3>1, <3>2
  <2> QED BY <2>1, <2>2, <1>3, <1>4 DEF SessionsGood
<1>8. t \in DOMAIN w.player => v.session = w.session
  <2>1. ASSUME t \in DOMAIN w.player PROVE With(w.session, CharacterOf[t], t) = w.session
    BY <2>1, <1>5, WithSame DEF SessionsGood
  <2> QED BY <2>1, <1>1, <1>2
<1>9. NpcsGood(v) /\ IsMap(v.loot)
  BY <1>1 DEF WorldGood, NpcsGood
<1> QED BY <1>1, <1>3, <1>7, <1>8, <1>9 DEF WorldGood, v

\* Upserting a session as it is changes nothing.
LEMMA UpsertPlayerSame ==
    ASSUME NEW w, WorldGood(w), NEW t \in DOMAIN w.player
    PROVE  UpsertPlayer(w, t, w.player[t]) = w
<1>1. With(w.player, t, w.player[t]) = w.player
  BY WithSame DEF WorldGood, SessionsGood
<1>2. With(w.session, w.player[t].char, t) = w.session
  BY WithSame DEF WorldGood, SessionsGood, PlayerGood
<1> QED BY <1>1, <1>2, UpsertPlayerParts DEF WorldGood

-----------------------------------------------------------------------------
(* Fights *)

\* The parts of a player that fights leave alone, and of the world.
Carries(p, q) == q.copper = p.copper /\ q.claims = p.claims /\ q.bag = p.bag

\* A fight moves no goods and lets nobody in or out.
Fought(w, v) ==
    /\ WorldGood(v) /\ v.session = w.session /\ v.loot = w.loot
    /\ DOMAIN v.player = DOMAIN w.player
    /\ \A t \in DOMAIN w.player : Carries(w.player[t], v.player[t])

LEMMA FoughtChain ==
    ASSUME NEW w, NEW v, NEW u, Fought(w, v), Fought(v, u)
    PROVE  Fought(w, u)
BY DEF Fought, Carries

LEMMA FoughtSame ==
    ASSUME NEW w, WorldGood(w) PROVE Fought(w, w)
BY DEF Fought, Carries

\* A session is changed, but for its goods.
LEMMA UpsertFought ==
    ASSUME NEW w, WorldGood(w), NEW t \in DOMAIN w.player, NEW p, PlayerGood(t, p), Carries(w.player[t], p)
    PROVE  Fought(w, UpsertPlayer(w, t, p))
<1> DEFINE v == UpsertPlayer(w, t, p)
<1>1. Fits(w, t)
  BY DEF Fits, WorldGood, SessionsGood
<1>2. /\ WorldGood(v) /\ v.npc = w.npc /\ v.loot = w.loot
      /\ DOMAIN v.player = DOMAIN w.player \cup {t} /\ v.player[t] = p
      /\ \A u \in DOMAIN w.player : u # t => v.player[u] = w.player[u]
      /\ t \in DOMAIN w.player => v.session = w.session
  BY <1>1, UpsertPlayerGood
<1> HIDE DEF v
<1>3. DOMAIN v.player = DOMAIN w.player
  BY <1>2
<1>4. ASSUME NEW u \in DOMAIN w.player PROVE Carries(w.player[u], v.player[u])
  <2>1. CASE u = t
    BY <2>1, <1>2
  <2>2. CASE u # t
    BY <2>2, <1>2 DEF Carries
  <2> QED BY <2>1, <2>2
<1>5. Fought(w, v)
  BY <1>2, <1>3, <1>4 DEF Fought
<1> QED BY <1>5 DEF v

\* The world with other NPCs.
LEMMA NpcsFought ==
    ASSUME NEW w, WorldGood(w), NEW f, IsMap(f), \A n \in DOMAIN f : NpcGood(f[n])
    PROVE  LET v == [w EXCEPT !.npc = f]
           IN  Fought(w, v) /\ v.player = w.player /\ v.npc = f
<1> DEFINE v == [w EXCEPT !.npc = f]
           a == w.player
           b == w.session
           d == w.loot
<1>1. w = [player |-> a, session |-> b, npc |-> w.npc, loot |-> d]
  BY DEF WorldGood
<1> HIDE DEF a, b, d
<1>2. v = [player |-> a, session |-> b, npc |-> f, loot |-> d]
  BY <1>1
<1>3. v.player = w.player /\ v.session = w.session /\ v.loot = w.loot /\ v.npc = f
      /\ v = [player |-> v.player, session |-> v.session, npc |-> v.npc, loot |-> v.loot]
  BY <1>2 DEF a, b, d
<1> HIDE DEF v
<1>4. SessionsGood(v)
  BY <1>3 DEF WorldGood, SessionsGood
<1>5. NpcsGood(v) /\ IsMap(v.loot)
  BY <1>3 DEF WorldGood, NpcsGood
<1>6. WorldGood(v)
  BY <1>3, <1>4, <1>5 DEF WorldGood
<1> QED BY <1>3, <1>6 DEF Fought, Carries, v

\* An NPC is changed.
LEMMA UpsertNPCFought ==
    ASSUME NEW w, WorldGood(w), NEW n, NEW npc, NpcGood(npc)
    PROVE  LET v == UpsertNPC(w, n, npc)
           IN  Fought(w, v) /\ v.player = w.player /\ Extends(v.npc, w.npc, n, npc)
<1> DEFINE f == With(w.npc, n, npc)
<1>1. Extends(f, w.npc, n, npc)
  BY WithFacts
<1> HIDE DEF f
<1>2. IsMap(f) /\ \A m \in DOMAIN f : NpcGood(f[m])
  BY <1>1 DEF Extends, WorldGood, NpcsGood
<1>3. UpsertNPC(w, n, npc) = [w EXCEPT !.npc = f]
  BY DEF UpsertNPC, f
<1>4. LET v == [w EXCEPT !.npc = f]
      IN  Fought(w, v) /\ v.player = w.player /\ v.npc = f
  BY <1>2, NpcsFought
<1> QED BY <1>1, <1>3, <1>4

-----------------------------------------------------------------------------
(* Threat *)

\* The tables that threat leaves are tables.
LEMMA RaisedGood ==
    ASSUME NEW threat, ThreatGood(threat), NEW id \in Nat, NEW amount \in Int
    PROVE  ThreatGood(Raised(threat, id, amount)) /\ DOMAIN Raised(threat, id, amount) = DOMAIN threat \cup {id}
<1> DEFINE y == (IF id \in DOMAIN threat THEN threat[id] ELSE 0) + amount
<1>1. y \in Int
  BY DEF ThreatGood
<1>2. Raised(threat, id, amount) = With(threat, id, y)
  BY DEF Raised
<1> HIDE DEF y
<1>3. Extends(Raised(threat, id, amount), threat, id, y)
  BY <1>2, WithFacts
<1> QED BY <1>1, <1>3 DEF ThreatGood, Extends

LEMMA WithoutGood ==
    ASSUME NEW threat, ThreatGood(threat), NEW id
    PROVE  ThreatGood(Without(threat, id)) /\ DOMAIN Without(threat, id) = DOMAIN threat \ {id}
<1>1. Lacks(Without(threat, id), threat, id)
  BY WithoutFacts
<1> QED BY <1>1 DEF Lacks, ThreatGood

LEMMA DecayedGood ==
    ASSUME NEW threat, ThreatGood(threat), NEW amount \in Int
    PROVE  ThreatGood(Decayed(threat, amount)) /\ DOMAIN Decayed(threat, amount) \subseteq DOMAIN threat
BY DEF ThreatGood, Decayed, IsMap

LEMMA EmptyGood == ThreatGood(Empty) /\ DOMAIN Empty = {}
BY DEF ThreatGood, Empty, IsMap

\* Who leads a table.
Top(threat) == {id \in DOMAIN threat : \A other \in DOMAIN threat : threat[other] <= threat[id]}

\* The lowest of some ids.
LEMMA MinIs ==
    ASSUME NEW T \in SUBSET Nat, T # {}
    PROVE  Min(T) \in T /\ \A y \in T : Min(T) <= y
<1>1. PICK x \in T : \A y \in T : ~(<<y, x>> \in OpToRel(<, Nat))
  BY NatLessThanWellFounded, WFMin
<1>2. \A y \in T : ~(y < x)
  BY <1>1 DEF OpToRel
<1>3. \A y \in T : x <= y
  BY <1>2
<1> QED BY <1>3 DEF Min

\* The empty table has no leader.
LEMMA NobodyLeads == HighestThreatTarget(Empty) = NoId
BY EmptyGood DEF HighestThreatTarget

\* Who is struck off without leading leaves the leader.
LEMMA LeaderStays ==
    ASSUME NEW threat, ThreatGood(threat), NEW id, HighestThreatTarget(threat) # id
    PROVE  HighestThreatTarget(Without(threat, id)) = HighestThreatTarget(threat)
<1> DEFINE rest == Without(threat, id)
<1>1. Lacks(rest, threat, id) /\ ThreatGood(rest)
  BY WithoutFacts, WithoutGood
<1> SUFFICES HighestThreatTarget(rest) = HighestThreatTarget(threat)
  OBVIOUS
<1> HIDE DEF rest
<1>2. /\ HighestThreatTarget(threat) = IF Top(threat) = {} THEN NoId ELSE Min(Top(threat))
      /\ HighestThreatTarget(rest) = IF Top(rest) = {} THEN NoId ELSE Min(Top(rest))
  BY DEF HighestThreatTarget, Top
<1>3. /\ Top(threat) \in SUBSET Nat /\ Top(rest) \in SUBSET Nat
  BY <1>1 DEF ThreatGood, Top
<1>4. /\ DOMAIN rest = DOMAIN threat \ {id} /\ \A z \in DOMAIN rest : rest[z] = threat[z]
      /\ \A z \in DOMAIN threat : threat[z] \in Int
  BY <1>1 DEF Lacks, ThreatGood
<1>5. CASE Top(threat) = {}
  <2> SUFFICES ASSUME NEW z \in Top(rest) PROVE FALSE
    BY <1>2, <1>5
  <2>2. z \in DOMAIN threat /\ z # id /\ \A y \in DOMAIN threat \ {id} : threat[y] <= threat[z]
    BY <1>4 DEF Top
  <2>3. PICK y \in DOMAIN threat : ~(threat[y] <= threat[z])
    BY <1>5, <2>2 DEF Top
  <2>4. y = id
    BY <2>2, <2>3
  <2>5. \A x \in DOMAIN threat : threat[x] <= threat[id]
    BY <1>4, <2>2, <2>3, <2>4
  <2> QED BY <1>5, <2>4, <2>5 DEF Top
<1>6. CASE Top(threat) # {}
  <2> DEFINE m == Min(Top(threat))
  <2>1. m \in Top(threat) /\ m # id /\ \A y \in Top(threat) : m <= y
    BY <1>2, <1>3, <1>6, MinIs
  <2> HIDE DEF m
  <2>2. m \in DOMAIN rest /\ \A y \in DOMAIN threat : threat[y] <= threat[m]
    BY <1>4, <2>1 DEF Top
  <2>3. m \in Top(rest)
    BY <1>4, <2>2 DEF Top
  <2>4. ASSUME NEW z \in Top(rest) PROVE z \in Top(threat)
    <3>1. z \in DOMAIN rest /\ rest[m] <= rest[z]
      BY <2>2 DEF Top
    <3>2. rest[m] = threat[m] /\ rest[z] = threat[z] /\ z \in DOMAIN threat /\ m \in DOMAIN threat
      BY <1>4, <2>2, <3>1
    <3>3. \A y \in DOMAIN threat : threat[y] <= threat[z]
      BY <1>4, <2>2, <3>1, <3>2
    <3> QED BY <3>2, <3>3 DEF Top
  <2>5. Min(Top(rest)) \in Top(rest) /\ \A y \in Top(rest) : Min(Top(rest)) <= y
    BY <1>3, <2>3, MinIs
  <2>6. Min(Top(rest)) = m
    BY <1>3, <2>1, <2>3, <2>4, <2>5
  <2> QED BY <1>2, <1>6, <2>3, <2>6 DEF m
<1> QED BY <1>5, <1>6

-----------------------------------------------------------------------------
(* Who is dead *)

\* What DeadAreOut says of an NPC, and of a world.
NpcStands(npc) ==
    /\ ~npc.alive => npc.health = 0 /\ ~npc.targetable /\ npc.threat = Empty
    /\ npc.target = HighestThreatTarget(npc.threat)

Standing(w) ==
    /\ \A t \in DOMAIN w.player :
          ~w.player[t].alive =>
             /\ w.player[t].health = 0 /\ ~w.player[t].auto
             /\ \A n \in DOMAIN w.npc : CharacterOf[t] \notin DOMAIN w.npc[n].threat
    /\ \A n \in DOMAIN w.npc : NpcStands(w.npc[n])

\* The NPCs keep their threat or lose of it.
Soothed(w, v) ==
    /\ DOMAIN v.npc = DOMAIN w.npc
    /\ \A n \in DOMAIN w.npc :
          /\ DOMAIN v.npc[n].threat \subseteq DOMAIN w.npc[n].threat
          /\ NpcStands(w.npc[n]) => NpcStands(v.npc[n])

\* A table without keys is the empty one.
LEMMA EmptyIs ==
    ASSUME NEW f, IsMap(f), DOMAIN f = {} PROVE f = Empty
BY DEF IsMap, Empty

\* An NPC that forgets a character.
Cleared(npc, id) ==
    [npc EXCEPT !.threat = Without(npc.threat, id),
                !.target = IF npc.target = id THEN HighestThreatTarget(Without(npc.threat, id)) ELSE npc.target]

LEMMA ClearedNpc ==
    ASSUME NEW npc, NpcGood(npc), NEW id
    PROVE  LET x == Cleared(npc, id)
           IN  /\ NpcGood(x) /\ DOMAIN x.threat = DOMAIN npc.threat \ {id}
               /\ NpcStands(npc) => NpcStands(x)
<1> DEFINE threat == Without(npc.threat, id)
           target == IF npc.target = id THEN HighestThreatTarget(threat) ELSE npc.target
           x == [npc EXCEPT !.threat = threat, !.target = target]
<1>1. ThreatGood(threat) /\ DOMAIN threat = DOMAIN npc.threat \ {id}
  BY WithoutGood DEF NpcGood
<1>2. NpcStands(npc) => target = HighestThreatTarget(threat)
  <2> SUFFICES ASSUME NpcStands(npc), npc.target # id PROVE npc.target = HighestThreatTarget(threat)
    OBVIOUS
  <2> QED BY LeaderStays DEF NpcStands, NpcGood
<1>3. npc.threat = Empty => threat = Empty
  BY <1>1, EmptyIs, EmptyGood DEF ThreatGood
<1> HIDE DEF threat, target
<1>4. /\ NpcGood(x) /\ x.threat = threat /\ x.target = target
      /\ x.alive = npc.alive /\ x.health = npc.health /\ x.targetable = npc.targetable
  BY <1>1 DEF NpcGood, NpcFields
<1>5. x = Cleared(npc, id)
  BY DEF Cleared, threat, target
<1> HIDE DEF x
<1>6. NpcStands(npc) => NpcStands(x)
  BY <1>2, <1>3, <1>4 DEF NpcStands
<1> QED BY <1>1, <1>4, <1>5, <1>6

\* clearThreatForEntity leaves the world well formed, and its NPCs without the character.
LEMMA ClearThreatFought ==
    ASSUME NEW w, WorldGood(w), NEW id
    PROVE  LET v == ClearThreatForEntity(w, id)
           IN  /\ Fought(w, v) /\ v.player = w.player /\ Soothed(w, v)
               /\ id # NoId => \A n \in DOMAIN v.npc : id \notin DOMAIN v.npc[n].threat
<1>1. CASE id = NoId
  <2>1. ClearThreatForEntity(w, id) = w
    BY <1>1 DEF ClearThreatForEntity
  <2> QED BY <1>1, <2>1, FoughtSame DEF Soothed
<1>2. CASE id # NoId
  <2> DEFINE f == [n \in DOMAIN w.npc |-> Cleared(w.npc[n], id)]
             v == [w EXCEPT !.npc = f]
  <2>1. ClearThreatForEntity(w, id) = v
    BY <1>2 DEF ClearThreatForEntity, Cleared
  <2>2. \A n \in DOMAIN w.npc :
           /\ NpcGood(Cleared(w.npc[n], id)) /\ DOMAIN Cleared(w.npc[n], id).threat = DOMAIN w.npc[n].threat \ {id}
           /\ NpcStands(w.npc[n]) => NpcStands(Cleared(w.npc[n], id))
    BY ClearedNpc DEF WorldGood, NpcsGood
  <2>3. IsMap(f) /\ DOMAIN f = DOMAIN w.npc /\ \A n \in DOMAIN w.npc : f[n] = Cleared(w.npc[n], id)
    BY DEF IsMap
  <2> HIDE DEF f
  <2>4. Fought(w, v) /\ v.player = w.player /\ v.npc = f
    BY <2>2, <2>3, NpcsFought
  <2> HIDE DEF v
  <2>5. Soothed(w, v)
    BY <2>2, <2>3, <2>4 DEF Soothed
  <2>6. \A n \in DOMAIN v.npc : id \notin DOMAIN v.npc[n].threat
    BY <2>2, <2>3, <2>4
  <2> QED BY <2>1, <2>4, <2>5, <2>6
<1> QED BY <1>1, <1>2

\* Where threat only goes, the dead stay out.
LEMMA SoothedStands ==
    ASSUME NEW w, NEW v, Standing(w), Soothed(w, v), v.player = w.player
    PROVE  Standing(v)
BY DEF Standing, Soothed

\* A player is changed, and stands if it is out of what its death should have it out of.
LEMMA UpsertStands ==
    ASSUME NEW w, WorldGood(w), Standing(w), NEW t, Fits(w, t), NEW p, PlayerGood(t, p),
           ~p.alive => /\ p.health = 0 /\ ~p.auto
                       /\ \A n \in DOMAIN w.npc : CharacterOf[t] \notin DOMAIN w.npc[n].threat
    PROVE  Standing(UpsertPlayer(w, t, p))
<1> DEFINE v == UpsertPlayer(w, t, p)
<1>1. /\ v.npc = w.npc
      /\ DOMAIN v.player = DOMAIN w.player \cup {t} /\ v.player[t] = p
      /\ \A u \in DOMAIN w.player : u # t => v.player[u] = w.player[u]
  BY UpsertPlayerGood
<1> HIDE DEF v
<1>2. ASSUME NEW u \in DOMAIN v.player, ~v.player[u].alive
      PROVE  /\ v.player[u].health = 0 /\ ~v.player[u].auto
             /\ \A n \in DOMAIN v.npc : CharacterOf[u] \notin DOMAIN v.npc[n].threat
  <2>1. CASE u = t
    BY <1>1, <1>2, <2>1
  <2>2. CASE u # t
    <3>1. u \in DOMAIN w.player /\ v.player[u] = w.player[u]
      BY <1>1, <1>2, <2>2
    <3> QED BY <1>1, <1>2, <3>1 DEF Standing
  <2> QED BY <2>1, <2>2
<1>3. Standing(v)
  BY <1>1, <1>2 DEF Standing
<1> QED BY <1>3 DEF v

\* An NPC is changed.
LEMMA NpcStood ==
    ASSUME NEW w, WorldGood(w), Standing(w), NEW v, NEW n, NEW npc,
           v.player = w.player, Extends(v.npc, w.npc, n, npc), NpcStands(npc),
           \A t \in DOMAIN w.player : ~w.player[t].alive => CharacterOf[t] \notin DOMAIN npc.threat
    PROVE  Standing(v)
BY DEF Standing, Extends

\* Whoever has this id is alive.
Lively(w, id) == \A t \in DOMAIN w.player : CharacterOf[t] = id => w.player[t].alive

\* The session that a character has.
LEMMA TheToken ==
    ASSUME NEW w, WorldGood(w), NEW id, IsPlayer(w, id)
    PROVE  TokenOf(w, id) \in DOMAIN w.player /\ CharacterOf[TokenOf(w, id)] = id
           /\ PlayerGood(TokenOf(w, id), w.player[TokenOf(w, id)]) /\ id \in Nat \ {0}
BY Ids0 DEF WorldGood, SessionsGood, IsPlayer, TokenOf

\* Damage to a player leaves the dead out.
LEMMA HurtPlayerFought ==
    ASSUME NEW w, WorldGood(w), NEW id, IsPlayer(w, id), NEW amount \in Nat
    PROVE  LET v == HurtPlayer(w, id, amount)
           IN  Fought(w, v) /\ (Standing(w) => Standing(v))
<1> DEFINE t == TokenOf(w, id)
           p == w.player[t]
           left == Higher(0, p.health - amount)
           hurt == [p EXCEPT !.health = left]
           dead == [hurt EXCEPT !.alive = FALSE, !.auto = FALSE]
           c == ClearThreatForEntity(w, id)
<1>1. t \in DOMAIN w.player /\ CharacterOf[t] = id /\ PlayerGood(t, p) /\ id # NoId /\ Fits(w, t)
  BY TheToken DEF NoId, Fits, WorldGood, SessionsGood
<1>2. HurtPlayer(w, id, amount) = IF left > 0 THEN UpsertPlayer(w, t, hurt) ELSE UpsertPlayer(c, t, dead)
  BY DEF HurtPlayer
<1>3. left \in Nat /\ (left > 0 => p.health > 0)
  BY <1>1 DEF Higher, PlayerGood
<1>4. /\ Fought(w, c) /\ c.player = w.player /\ Soothed(w, c)
      /\ \A n \in DOMAIN c.npc : id \notin DOMAIN c.npc[n].threat
  BY <1>1, ClearThreatFought
<1> HIDE DEF left, p, t, c
<1>5. /\ PlayerGood(t, hurt) /\ Carries(p, hurt) /\ hurt.alive = p.alive /\ hurt.health = left
      /\ PlayerGood(t, dead) /\ Carries(p, dead) /\ dead.alive = FALSE /\ dead.auto = FALSE /\ dead.health = left
  BY <1>1, <1>3 DEF PlayerGood, PlayerFields, Carries
<1> HIDE DEF hurt, dead
<1>6. CASE left > 0
  <2>1. Fought(w, UpsertPlayer(w, t, hurt))
    BY <1>1, <1>5, UpsertFought DEF p
  <2>2. ASSUME Standing(w) PROVE Standing(UpsertPlayer(w, t, hurt))
    <3>1. p.alive
      BY <1>1, <1>3, <1>6, <2>2 DEF Standing, p
    <3> QED BY <1>1, <1>5, <2>2, <3>1, UpsertStands
  <2> QED BY <1>2, <1>6, <2>1, <2>2
<1>7. CASE ~(left > 0)
  <2>1. WorldGood(c) /\ t \in DOMAIN c.player /\ c.player[t] = p /\ Fits(c, t)
    BY <1>1, <1>4 DEF Fought, Fits, p
  <2>2. Fought(c, UpsertPlayer(c, t, dead))
    BY <1>5, <2>1, UpsertFought
  <2>3. Fought(w, UpsertPlayer(c, t, dead))
    BY <1>4, <2>2, FoughtChain
  <2>4. ASSUME Standing(w) PROVE Standing(UpsertPlayer(c, t, dead))
    <3>1. Standing(c)
      BY <1>4, <2>4, SoothedStands
    <3>2. dead.health = 0
      BY <1>3, <1>5, <1>7
    <3> QED BY <1>1, <1>4, <1>5, <2>1, <3>1, <3>2, UpsertStands
  <2> QED BY <1>2, <1>7, <2>3, <2>4
<1> QED BY <1>6, <1>7

\* What resolveDeath leaves of an NPC.
LEMMA DeadNpc ==
    ASSUME NEW npc, NpcGood(npc), NEW respawn
    PROVE  LET x == Dead(npc, respawn)
           IN  NpcGood(x) /\ NpcStands(x) /\ x.threat = Empty
<1> DEFINE x == Dead(npc, respawn)
<1>1. /\ x = [f \in NpcFields |-> x[f]] /\ x.health = 0 /\ x.alive = FALSE /\ x.targetable = FALSE
      /\ x.target = NoId /\ x.threat = Empty /\ x.max = npc.max
  BY DEF Dead, NpcGood, NpcFields
<1> HIDE DEF x
<1>2. NpcGood(x) /\ NpcStands(x)
  <2>1. ThreatGood(x.threat) /\ x.target = HighestThreatTarget(x.threat)
    BY <1>1, EmptyGood, NobodyLeads
  <2>2. x.max \in Nat /\ x.health \in Nat /\ x.alive \in BOOLEAN /\ x.targetable \in BOOLEAN
    <3>1. npc.max \in Nat
      BY DEF NpcGood
    <3>2. x.max = npc.max /\ x.health = 0
      BY <1>1
    <3>3. x.alive \in BOOLEAN /\ x.targetable \in BOOLEAN
      BY <1>1
    <3> QED BY <3>1, <3>2, <3>3
  <2>3. NpcGood(x)
    BY <1>1, <2>1, <2>2 DEF NpcGood
  <2> QED BY <1>1, <2>1, <2>3 DEF NpcStands
<1> QED BY <1>1, <1>2 DEF x

\* An NPC that is not dead has another health, threat and target.
LEMMA HurtNpcFought ==
    ASSUME NEW w, WorldGood(w), NEW source \in Nat, NEW n, IsNpc(w, n), NEW amount \in Nat, NEW threat \in Int
    PROVE  LET v == HurtNpc(w, source, n, amount, threat)
           IN  Fought(w, v) /\ v.player = w.player /\ (Standing(w) /\ Lively(w, source) => Standing(v))
<1> DEFINE npc == w.npc[n]
           left == Higher(0, npc.health - amount)
           more == IF threat <= 0 THEN amount ELSE threat
           table == IF source = NoId THEN npc.threat ELSE Raised(npc.threat, source, more)
           target == IF source = NoId THEN npc.target ELSE HighestThreatTarget(table)
           hurt == [npc EXCEPT !.health = left, !.threat = table, !.target = target]
           x == IF left <= 0 THEN Dead(hurt, "now") ELSE hurt
           v == UpsertNPC(w, n, x)
<1>1. NpcGood(npc)
  BY DEF IsNpc, WorldGood, NpcsGood
<1>2. HurtNpc(w, source, n, amount, threat) = v
  BY DEF HurtNpc
<1>3. left \in Nat /\ (left > 0 => npc.health > 0) /\ more \in Int
  BY <1>1 DEF Higher, NpcGood
<1> HIDE DEF left, more
<1>4. ThreatGood(table) /\ DOMAIN table \subseteq DOMAIN npc.threat \cup ({source} \ {NoId})
  <2>1. ThreatGood(npc.threat)
    BY <1>1 DEF NpcGood
  <2>2. CASE source = NoId
    BY <2>1, <2>2
  <2>3. CASE source # NoId
    <3> DEFINE raised == Raised(npc.threat, source, more)
    <3>1. ThreatGood(raised) /\ DOMAIN raised = DOMAIN npc.threat \cup {source}
      BY <1>3, <2>1, RaisedGood
    <3> HIDE DEF raised
    <3> QED BY <2>3, <3>1 DEF raised
  <2> QED BY <2>2, <2>3
<1> HIDE DEF table, target
<1>5. /\ NpcGood(hurt) /\ hurt.threat = table /\ hurt.target = target /\ hurt.health = left
      /\ hurt.alive = npc.alive /\ hurt.targetable = npc.targetable
  BY <1>1, <1>3, <1>4 DEF NpcGood, NpcFields
<1> HIDE DEF hurt
<1>6. NpcGood(x) /\ DOMAIN x.threat \subseteq DOMAIN npc.threat \cup ({source} \ {NoId})
  BY <1>4, <1>5, DeadNpc, EmptyGood
<1>7. NpcStands(npc) => NpcStands(x)
  <2> SUFFICES ASSUME NpcStands(npc) PROVE NpcStands(x)
    OBVIOUS
  <2>1. CASE left <= 0
    BY <1>5, <2>1, DeadNpc
  <2>2. CASE ~(left <= 0)
    <3>1. npc.alive
      BY <1>1, <1>3, <2>2 DEF NpcStands, NpcGood
    <3>2. target = HighestThreatTarget(table)
      BY DEF NpcStands, target, table
    <3> QED BY <1>5, <2>2, <3>1, <3>2 DEF NpcStands
  <2> QED BY <2>1, <2>2
<1> HIDE DEF x
<1>8. Fought(w, v) /\ v.player = w.player /\ Extends(v.npc, w.npc, n, x)
  BY <1>6, UpsertNPCFought
<1> HIDE DEF v
<1>9. ASSUME Standing(w), Lively(w, source) PROVE Standing(v)
  <2>1. NpcStands(npc)
    BY <1>9 DEF Standing, IsNpc
  <2>2. ASSUME NEW t \in DOMAIN w.player, ~w.player[t].alive PROVE CharacterOf[t] \notin DOMAIN x.threat
    <3>1. CharacterOf[t] \notin DOMAIN npc.threat
      BY <1>9, <2>2 DEF Standing, IsNpc
    <3>2. CharacterOf[t] # source
      BY <1>9, <2>2 DEF Lively
    <3> QED BY <1>6, <3>1, <3>2
  <2> HIDE DEF npc
  <2> QED BY <1>7, <1>8, <1>9, <2>1, <2>2, NpcStood
<1> QED BY <1>2, <1>8, <1>9

\* What anything that harms leaves of a world, by the three parts of applyDamage.
LEMMA HarmFought ==
    ASSUME NEW w, WorldGood(w), NEW source \in Nat, NEW target, NEW amount \in Nat, NEW threat \in Int,
           amount <= 0 \/ IsPlayer(w, target) \/ IsNpc(w, target),
           NEW v, v = DamageEntity(w, source, target, amount, threat)
    PROVE  Fought(w, v) /\ (Standing(w) /\ Lively(w, source) => Standing(v))
<1>1. CASE amount <= 0
  BY <1>1, FoughtSame DEF DamageEntity
<1>2. CASE ~(amount <= 0) /\ IsPlayer(w, target)
  BY <1>2, HurtPlayerFought DEF DamageEntity
<1>3. CASE ~(amount <= 0) /\ ~IsPlayer(w, target)
  <2>1. IsNpc(w, target) /\ v = HurtNpc(w, source, target, amount, threat)
    BY <1>3 DEF DamageEntity
  <2> QED BY <2>1, HurtNpcFought
<1> QED BY <1>1, <1>2, <1>3

\* So for damage, healing and death.
LEMMA DamageFought ==
    ASSUME NEW w, WorldGood(w), NEW source \in Nat, NEW target, NEW amount \in Nat, NEW threat \in Int,
           NEW v, v = DamageEntity(w, source, target, amount, threat), v # Refused
    PROVE  Fought(w, v) /\ (Standing(w) /\ Lively(w, source) => Standing(v))
<1>1. amount <= 0 \/ IsPlayer(w, target) \/ IsNpc(w, target)
  BY DEF DamageEntity
<1> QED BY <1>1, HarmFought

LEMMA HealFought ==
    ASSUME NEW w, WorldGood(w), NEW target, NEW amount \in Nat \ {0},
           NEW v, v = HealEntity(w, target, amount), v # Refused
    PROVE  Fought(w, v) /\ (Standing(w) => Standing(v))
<1>0. ASSUME NEW max \in Nat, NEW health \in Nat
      PROVE  /\ MinNumber(max, health + amount) \in Nat
             /\ health = 0 => MinNumber(max, health + amount) > 0
  BY DEF MinNumber, Lower
<1>1. CASE IsPlayer(w, target)
  <2> DEFINE t == TokenOf(w, target)
             p == w.player[t]
             healed == MinNumber(p.max, p.health + amount)
             q == [p EXCEPT !.health = healed, !.alive = @ \/ healed > 0]
  <2>1. t \in DOMAIN w.player /\ PlayerGood(t, p) /\ Fits(w, t)
    BY <1>1, TheToken DEF Fits, WorldGood, SessionsGood
  <2>2. v = UpsertPlayer(w, t, q)
    BY <1>1 DEF HealEntity
  <2>3. healed \in Nat /\ (p.health = 0 => healed > 0)
    BY <1>0, <2>1 DEF PlayerGood
  <2> HIDE DEF healed, p, t
  <2>4. PlayerGood(t, q) /\ Carries(p, q) /\ q.alive = (p.alive \/ healed > 0)
    BY <2>1, <2>3 DEF PlayerGood, PlayerFields, Carries
  <2> HIDE DEF q
  <2>5. Fought(w, v)
    BY <2>1, <2>2, <2>4, UpsertFought DEF p
  <2>6. ASSUME Standing(w) PROVE Standing(v)
    <3>1. q.alive
      BY <2>1, <2>3, <2>4, <2>6 DEF Standing, p
    <3> QED BY <2>1, <2>2, <2>4, <2>6, <3>1, UpsertStands
  <2> QED BY <2>5, <2>6
<1>2. CASE ~IsPlayer(w, target)
  <2> DEFINE npc == w.npc[target]
             healed == MinNumber(npc.max, npc.health + amount)
             x == [npc EXCEPT !.health = healed, !.alive = @ \/ healed > 0, !.targetable = @ \/ healed > 0]
  <2>1. IsNpc(w, target) /\ v = UpsertNPC(w, target, x)
    BY <1>2 DEF HealEntity
  <2>2. NpcGood(npc)
    BY <2>1 DEF IsNpc, WorldGood, NpcsGood
  <2>3. healed \in Nat /\ (npc.health = 0 => healed > 0)
    BY <1>0, <2>2 DEF NpcGood
  <2> HIDE DEF healed, npc
  <2>4. /\ NpcGood(x) /\ x.threat = npc.threat /\ x.target = npc.target
        /\ x.alive = (npc.alive \/ healed > 0) /\ x.targetable = (npc.targetable \/ healed > 0)
    BY <2>2, <2>3 DEF NpcGood, NpcFields
  <2> HIDE DEF x
  <2>5. NpcStands(npc) => NpcStands(x)
    BY <2>2, <2>3, <2>4 DEF NpcStands, NpcGood
  <2>6. Fought(w, v) /\ v.player = w.player /\ Extends(v.npc, w.npc, target, x)
    BY <2>1, <2>4, UpsertNPCFought
  <2>7. ASSUME Standing(w) PROVE Standing(v)
    <3>1. NpcStands(npc) /\ \A t \in DOMAIN w.player : ~w.player[t].alive => CharacterOf[t] \notin DOMAIN npc.threat
      BY <2>1, <2>7 DEF Standing, IsNpc, npc
    <3> QED BY <2>4, <2>5, <2>6, <2>7, <3>1, NpcStood
  <2> QED BY <2>6, <2>7
<1> QED BY <1>1, <1>2

LEMMA KillFought ==
    ASSUME NEW w, WorldGood(w), NEW id, NEW respawn,
           NEW v, v = KillEntity(w, id, respawn), v # Refused
    PROVE  Fought(w, v) /\ (Standing(w) => Standing(v))
<1>1. CASE IsPlayer(w, id)
  <2> DEFINE t == TokenOf(w, id)
             p == w.player[t]
             q == [p EXCEPT !.health = 0, !.alive = FALSE, !.auto = FALSE]
             u == UpsertPlayer(w, t, q)
             c == ClearThreatForEntity(w, id)
  <2>1. t \in DOMAIN w.player /\ CharacterOf[t] = id /\ PlayerGood(t, p) /\ id # NoId /\ Fits(w, t)
    BY <1>1, TheToken DEF NoId, Fits, WorldGood, SessionsGood
  <2>2. v = ClearThreatForEntity(u, id)
    BY <1>1 DEF KillEntity
  <2> HIDE DEF p, t
  <2>3. PlayerGood(t, q) /\ Carries(p, q) /\ q.alive = FALSE /\ q.auto = FALSE /\ q.health = 0
    BY <2>1 DEF PlayerGood, PlayerFields, Carries
  <2> HIDE DEF q
  <2>4. /\ Fought(w, u) /\ u.npc = w.npc /\ u.player[t] = q /\ DOMAIN u.player = DOMAIN w.player
        /\ \A y \in DOMAIN w.player : y # t => u.player[y] = w.player[y]
    <3>1. Fought(w, u)
      BY <2>1, <2>3, UpsertFought DEF p
    <3>2. /\ u.npc = w.npc /\ u.player[t] = q /\ DOMAIN u.player = DOMAIN w.player \cup {t}
          /\ \A y \in DOMAIN w.player : y # t => u.player[y] = w.player[y]
      BY <2>1, <2>3, UpsertPlayerGood
    <3> QED BY <2>1, <3>1, <3>2
  <2> HIDE DEF u
  <2>5. /\ Fought(u, v) /\ v.player = u.player /\ Soothed(u, v)
        /\ \A n \in DOMAIN v.npc : id \notin DOMAIN v.npc[n].threat
    BY <2>1, <2>2, <2>4, ClearThreatFought DEF Fought
  <2>6. ASSUME Standing(w) PROVE Standing(v)
    <3>1. \A n \in DOMAIN v.npc : NpcStands(v.npc[n])
      BY <2>4, <2>5, <2>6 DEF Standing, Soothed
    <3>2. ASSUME NEW y \in DOMAIN v.player, ~v.player[y].alive
          PROVE  /\ v.player[y].health = 0 /\ ~v.player[y].auto
                 /\ \A n \in DOMAIN v.npc : CharacterOf[y] \notin DOMAIN v.npc[n].threat
      <4>1. CASE y = t
        BY <2>1, <2>3, <2>4, <2>5, <4>1
      <4>2. CASE y # t
        <5>1. y \in DOMAIN w.player /\ v.player[y] = w.player[y]
          BY <2>4, <2>5, <3>2, <4>2
        <5> QED BY <2>4, <2>5, <2>6, <3>2, <5>1 DEF Standing, Soothed
      <4> QED BY <4>1, <4>2
    <3> QED BY <3>1, <3>2 DEF Standing
  <2> QED BY <2>4, <2>5, <2>6, FoughtChain
<1>2. CASE ~IsPlayer(w, id)
  <2> DEFINE x == Dead(w.npc[id], respawn)
  <2>1. IsNpc(w, id) /\ v = UpsertNPC(w, id, x)
    BY <1>2 DEF KillEntity
  <2>2. NpcGood(x) /\ NpcStands(x) /\ x.threat = Empty
    BY <2>1, DeadNpc DEF IsNpc, WorldGood, NpcsGood
  <2> HIDE DEF x
  <2>3. Fought(w, v) /\ v.player = w.player /\ Extends(v.npc, w.npc, id, x)
    BY <2>1, <2>2, UpsertNPCFought
  <2>4. \A t \in DOMAIN w.player : CharacterOf[t] \notin DOMAIN x.threat
    BY <2>2, EmptyGood
  <2> QED BY <2>2, <2>3, <2>4, NpcStood
<1> QED BY <1>1, <1>2

\* Commands that give an NPC another table and let it choose.
LEMMA TableFought ==
    ASSUME NEW w, WorldGood(w), NEW n, IsNpc(w, n), NEW table, ThreatGood(table),
           NEW v, v = UpsertNPC(w, n, [w.npc[n] EXCEPT !.threat = table, !.target = HighestThreatTarget(table)]),
           NEW who, DOMAIN table \subseteq DOMAIN w.npc[n].threat \cup {who}
    PROVE  /\ Fought(w, v)
           /\ /\ Standing(w)
              /\ DOMAIN table \subseteq DOMAIN w.npc[n].threat \/ (Lively(w, who) /\ w.npc[n].alive)
              => Standing(v)
<1> DEFINE npc == w.npc[n]
           target == HighestThreatTarget(table)
           x == [npc EXCEPT !.threat = table, !.target = target]
<1>1. NpcGood(npc)
  BY DEF IsNpc, WorldGood, NpcsGood
<1> HIDE DEF target
<1>2. /\ NpcGood(x) /\ x.threat = table /\ x.target = target
      /\ x.alive = npc.alive /\ x.health = npc.health /\ x.targetable = npc.targetable
  BY <1>1 DEF NpcGood, NpcFields
<1>3. v = UpsertNPC(w, n, x)
  BY DEF target
<1> HIDE DEF x
<1>4. Fought(w, v) /\ v.player = w.player /\ Extends(v.npc, w.npc, n, x)
  BY <1>2, <1>3, UpsertNPCFought
<1>5. ASSUME Standing(w), DOMAIN table \subseteq DOMAIN npc.threat \/ (Lively(w, who) /\ npc.alive)
      PROVE  Standing(v)
  <2>1. NpcStands(npc) /\ \A t \in DOMAIN w.player : ~w.player[t].alive => CharacterOf[t] \notin DOMAIN npc.threat
    BY <1>5 DEF Standing, IsNpc
  <2> HIDE DEF npc
  <2>2. \A t \in DOMAIN w.player : ~w.player[t].alive => CharacterOf[t] \notin DOMAIN x.threat
    BY <1>2, <1>5, <2>1 DEF Lively, npc
  <2>3. npc.threat = Empty /\ DOMAIN table \subseteq DOMAIN npc.threat => table = Empty
    BY EmptyIs, EmptyGood DEF ThreatGood
  <2>4. NpcStands(x)
    BY <1>2, <1>5, <2>1, <2>3 DEF NpcStands, target
  <2> QED BY <1>4, <1>5, <2>2, <2>4, NpcStood
<1> QED BY <1>4, <1>5

\* What commands that are not about goods leave of a world.
Moved(w, v) ==
    /\ WorldGood(v) /\ v.loot = w.loot
    /\ DOMAIN w.player \subseteq DOMAIN v.player
    /\ \A t \in DOMAIN w.player : Carries(w.player[t], v.player[t])
    /\ \A t \in DOMAIN v.player \ DOMAIN w.player :
          /\ CharacterOf[t] \notin DOMAIN w.session
          /\ v.player[t].copper = 0 /\ v.player[t].claims = {} /\ v.player[t].bag = Empty

\* The same, and the dead stay out.
Fared(w, v) == Moved(w, v) /\ (Standing(w) => Standing(v))

\* Fights move nothing that is not about them.
LEMMA FoughtMoved ==
    ASSUME NEW w, NEW v, Fought(w, v) PROVE Moved(w, v)
BY DEF Fought, Moved

\* A player is changed who is alive, or dead as before.
LEMMA PlayerChanged ==
    ASSUME NEW w, WorldGood(w), NEW t \in DOMAIN w.player, NEW p, PlayerGood(t, p), Carries(w.player[t], p),
           ~p.alive => /\ ~w.player[t].alive /\ p.health = w.player[t].health
                       /\ p.auto => w.player[t].auto
    PROVE  Fared(w, UpsertPlayer(w, t, p))
<1>1. Fits(w, t)
  BY DEF Fits, WorldGood, SessionsGood
<1>2. Fought(w, UpsertPlayer(w, t, p))
  BY UpsertFought
<1>3. ASSUME Standing(w) PROVE Standing(UpsertPlayer(w, t, p))
  <2>1. ~p.alive => /\ p.health = 0 /\ ~p.auto
                    /\ \A n \in DOMAIN w.npc : CharacterOf[t] \notin DOMAIN w.npc[n].threat
    BY <1>3 DEF Standing
  <2> QED BY <1>1, <1>3, <2>1, UpsertStands
<1> QED BY <1>2, <1>3, FoughtMoved DEF Fared

\* Who is in the world, and who a session of it is.
LEMMA APlayer ==
    ASSUME NEW w, WorldGood(w), NEW t, Has(w, t)
    PROVE  t \in DOMAIN w.player /\ t \in Tokens /\ PlayerGood(t, w.player[t])
BY DEF Has, WorldGood, SessionsGood

\* Who connects, and who an initial snapshot has, is well formed and alive.
LEMMA StrangerGood ==
    ASSUME NEW t \in Tokens
    PROVE  LET p == Stranger(t)
           IN  /\ PlayerGood(t, p) /\ p.alive = TRUE /\ p.connected = TRUE
               /\ p.pos = 0 /\ p.max = 0 /\ p.health = 0
               /\ p.copper = 0 /\ p.claims = {} /\ p.bag = Empty
<1> DEFINE p == Stranger(t)
<1>1. DOMAIN p = PlayerFields
  BY DEF Stranger, PlayerFields
<1>2. p = [f \in PlayerFields |-> p[f]]
  BY <1>1, Zenon DEF Stranger
<1>3. /\ p.char = CharacterOf[t] /\ p.alive = TRUE /\ p.connected = TRUE /\ p.auto = FALSE
      /\ p.pos = 0 /\ p.max = 0 /\ p.health = 0 /\ p.resource = 0
      /\ p.copper = 0 /\ p.claims = {} /\ p.bag = Empty
  BY DEF Stranger
<1> HIDE DEF p
<1>4. PlayerGood(t, p)
  <2>1. p.connected \in BOOLEAN /\ p.alive \in BOOLEAN /\ p.auto \in BOOLEAN
    BY <1>3
  <2>2. p.health \in Nat /\ p.max \in Nat /\ p.resource \in Int
    BY <1>3
  <2> QED BY <1>2, <1>3, <2>1, <2>2 DEF PlayerGood
<1> QED BY <1>3, <1>4 DEF p

LEMMA NativeGood ==
    ASSUME NEW t \in Tokens
    PROVE  /\ PlayerGood(t, Native(t)) /\ Native(t).alive
           /\ Native(t).copper = 0 /\ Native(t).claims = {} /\ Native(t).bag = Empty
<1> DEFINE p == Stranger(t)
           q == [p EXCEPT !.pos = 1, !.health = FullHealth, !.max = FullHealth, !.resource = 1]
<1>1. FullHealth \in Nat
  BY Ids0
<1>2. PlayerGood(t, p) /\ p.alive = TRUE /\ p.copper = 0 /\ p.claims = {} /\ p.bag = Empty
  BY StrangerGood
<1>3. Native(t) = q
  BY DEF Native
<1> HIDE DEF p
<1>4. PlayerGood(t, q)
  <2>1. /\ q = [f \in PlayerFields |-> q[f]]
        /\ q.char = p.char /\ q.connected = p.connected /\ q.alive = p.alive /\ q.auto = p.auto
        /\ q.health = FullHealth /\ q.max = FullHealth /\ q.resource = 1
    BY <1>2 DEF PlayerGood, PlayerFields
  <2>2. q.connected \in BOOLEAN /\ q.alive \in BOOLEAN /\ q.auto \in BOOLEAN
    BY <1>2, <2>1 DEF PlayerGood
  <2>3. q.health \in Nat /\ q.max \in Nat /\ q.resource \in Int
    BY <1>1, <2>1
  <2> HIDE DEF q
  <2> QED BY <1>2, <2>1, <2>2, <2>3 DEF PlayerGood
<1>5. q.alive = p.alive /\ q.copper = p.copper /\ q.claims = p.claims /\ q.bag = p.bag
  BY <1>2 DEF PlayerGood, PlayerFields
<1> HIDE DEF q
<1> QED BY <1>2, <1>3, <1>4, <1>5

\* A character connects for the first time.
LEMMA ConnectFared ==
    ASSUME NEW w, WorldGood(w), NEW t \in Tokens, ~Has(w, t), CharacterOf[t] \notin DOMAIN w.session
    PROVE  /\ Connect(w, t, Stranger(t)) = UpsertPlayer(w, t, Stranger(t))
           /\ ReplayConnect(w, t, Stranger(t).pos) = UpsertPlayer(w, t, Stranger(t))
           /\ Fared(w, UpsertPlayer(w, t, Stranger(t)))
<1> DEFINE p == Stranger(t)
<1>3. /\ PlayerGood(t, p) /\ p.alive = TRUE /\ p.connected = TRUE /\ p.pos = 0 /\ p.max = 0 /\ p.health = 0
      /\ p.copper = 0 /\ p.claims = {} /\ p.bag = Empty
  BY StrangerGood
<1> DEFINE q == [p EXCEPT !.connected = TRUE, !.max = IF @ = 0 THEN p.health ELSE @, !.alive = @ \/ p.health > 0]
           r == [p EXCEPT !.pos = p.pos, !.connected = TRUE, !.alive = TRUE]
<1>0. Connect(w, t, p) = UpsertPlayer(w, t, q) /\ ReplayConnect(w, t, p.pos) = UpsertPlayer(w, t, r)
  BY DEF Connect, ReplayConnect
<1> HIDE DEF p
<1>1. q = p
  BY <1>3 DEF PlayerGood, PlayerFields
<1>2. r = p
  BY <1>3 DEF PlayerGood, PlayerFields
<1> HIDE DEF q, r
<1>4. Fits(w, t)
  BY DEF Fits
<1> DEFINE v == UpsertPlayer(w, t, p)
<1>5. /\ WorldGood(v) /\ v.loot = w.loot
      /\ DOMAIN v.player = DOMAIN w.player \cup {t} /\ v.player[t] = p
      /\ \A u \in DOMAIN w.player : u # t => v.player[u] = w.player[u]
  BY <1>3, <1>4, UpsertPlayerGood
<1>6. Standing(w) => Standing(v)
  BY <1>3, <1>4, UpsertStands
<1> HIDE DEF v
<1>7. t \notin DOMAIN w.player
  BY DEF Has
<1>8. Moved(w, v)
  <2>1. \A u \in DOMAIN w.player : Carries(w.player[u], v.player[u])
    BY <1>5, <1>7 DEF Carries
  <2>2. ASSUME NEW u \in DOMAIN v.player \ DOMAIN w.player PROVE u = t
    BY <1>5, <2>2
  <2>3. /\ v.player[t].copper = 0 /\ v.player[t].claims = {} /\ v.player[t].bag = Empty
    BY <1>3, <1>5
  <2> QED BY <1>5, <2>1, <2>2, <2>3 DEF Moved
<1> QED BY <1>0, <1>1, <1>2, <1>6, <1>8 DEF Fared, v, p

\* A player who is back.
Returned(p, pos) == [p EXCEPT !.pos = pos, !.connected = TRUE]

\* The player last seen comes back.
LEMMA ReconnectFared ==
    ASSUME NEW w, WorldGood(w), NEW t, Has(w, t), w.player[t].alive, NEW pos \in {1, w.player[t].pos}
    PROVE  /\ Reconnect(w, t, [w.player[t] EXCEPT !.pos = pos]) = UpsertPlayer(w, t, Returned(w.player[t], pos))
           /\ ReplayConnect(w, t, pos) = UpsertPlayer(w, t, Returned(w.player[t], pos))
           /\ Fared(w, UpsertPlayer(w, t, Returned(w.player[t], pos)))
<1> DEFINE p == w.player[t]
           q == Returned(p, pos)
<1>1. t \in DOMAIN w.player /\ PlayerGood(t, p)
  BY APlayer
<1>2. Reconnect(w, t, [p EXCEPT !.pos = pos]) = UpsertPlayer(w, t, q)
  <2> DEFINE r == [p EXCEPT !.pos = pos]
             s == [r EXCEPT !.connected = TRUE, !.pos = IF @ = 0 /\ Has(w, t) THEN w.player[t].pos ELSE @]
  <2>1. Reconnect(w, t, r) = UpsertPlayer(w, t, s)
    BY DEF Reconnect
  <2>2. p = [f \in PlayerFields |-> p[f]]
    BY <1>1 DEF PlayerGood
  <2>3. pos \in {1, p.pos}
    OBVIOUS
  <2>4. s = [r EXCEPT !.connected = TRUE, !.pos = IF @ = 0 THEN p.pos ELSE @]
    OBVIOUS
  <2> HIDE DEF p, s
  <2> DEFINE place == IF pos = 0 THEN p.pos ELSE pos
  <2>5. place = pos
    BY <2>3
  <2>6. r.pos = pos
    BY <2>2 DEF PlayerFields
  <2>7. s = [r EXCEPT !.connected = TRUE, !.pos = place]
    BY <2>4, <2>6
  <2> HIDE DEF place
  <2>8. s = q
    BY <2>2, <2>5, <2>7 DEF PlayerFields, Returned
  <2> QED BY <2>1, <2>8 DEF p
<1>3. ReplayConnect(w, t, pos) = UpsertPlayer(w, t, q)
  <2> DEFINE s == [p EXCEPT !.pos = pos, !.connected = TRUE, !.alive = TRUE]
  <2>1. ReplayConnect(w, t, pos) = UpsertPlayer(w, t, s)
    BY DEF ReplayConnect
  <2>2. p = [f \in PlayerFields |-> p[f]]
    BY <1>1 DEF PlayerGood
  <2>3. p.alive = TRUE
    BY <1>1 DEF PlayerGood
  <2> HIDE DEF p
  <2>4. s = q
    BY <2>2, <2>3 DEF PlayerFields, Returned
  <2> QED BY <2>1, <2>4
<1>4. PlayerGood(t, q) /\ Carries(p, q) /\ q.alive = p.alive
  <2> HIDE DEF p
  <2> QED BY <1>1 DEF PlayerGood, PlayerFields, Carries, Returned
<1> HIDE DEF q
<1>5. Fared(w, UpsertPlayer(w, t, q))
  BY <1>1, <1>4, PlayerChanged
<1> QED BY <1>2, <1>3, <1>5 DEF q

\* A command that changes these fields of a player.
LEMMA ChangeFared ==
    ASSUME NEW w, WorldGood(w), NEW t, NEW p, Change(w, t, p) # Refused,
           Has(w, t) => /\ PlayerGood(t, p) /\ Carries(w.player[t], p)
                        /\ ~p.alive => /\ ~w.player[t].alive /\ p.health = w.player[t].health
                                       /\ p.auto => w.player[t].auto
    PROVE  Fared(w, Change(w, t, p))
BY PlayerChanged, APlayer DEF Change

\* Leaving and walking.
LEMMA DisconnectFared ==
    ASSUME NEW w, WorldGood(w), NEW t, Disconnect(w, t) # Refused
    PROVE  Fared(w, Disconnect(w, t))
<1> DEFINE p == w.player[t]
           q == [p EXCEPT !.connected = FALSE, !.auto = FALSE]
<1>1. ASSUME Has(w, t) PROVE PlayerGood(t, q) /\ Carries(p, q) /\ q.alive = p.alive /\ q.health = p.health /\ q.auto = FALSE
  <2>1. PlayerGood(t, p)
    BY <1>1, APlayer
  <2> HIDE DEF p
  <2> QED BY <2>1 DEF PlayerGood, PlayerFields, Carries
<1>2. Disconnect(w, t) = Change(w, t, q)
  BY DEF Disconnect
<1> HIDE DEF q
<1> QED BY <1>1, <1>2, ChangeFared

LEMMA MovementFared ==
    ASSUME NEW w, WorldGood(w), NEW t, NEW next, NEW delta, ApplyMovement(w, t, next, delta) # Refused
    PROVE  Fared(w, ApplyMovement(w, t, next, delta))
<1> DEFINE p == w.player[t]
           q == [p EXCEPT !.pos = IF next = NoId THEN @ + delta ELSE next]
<1>1. ASSUME Has(w, t) PROVE PlayerGood(t, q) /\ Carries(p, q) /\ q.alive = p.alive /\ q.health = p.health /\ q.auto = p.auto
  <2>1. PlayerGood(t, p)
    BY <1>1, APlayer
  <2> HIDE DEF p
  <2> QED BY <2>1 DEF PlayerGood, PlayerFields, Carries
<1>2. ApplyMovement(w, t, next, delta) = Change(w, t, q)
  BY DEF ApplyMovement
<1> HIDE DEF q
<1> QED BY <1>1, <1>2, ChangeFared

\* The target or auto-attack is another.
LEMMA AimFared ==
    ASSUME NEW w, WorldGood(w), NEW t, Has(w, t), NEW target, NEW auto \in BOOLEAN,
           auto => w.player[t].auto \/ w.player[t].alive
    PROVE  /\ Fared(w, UpsertPlayer(w, t, [w.player[t] EXCEPT !.target = target, !.auto = auto]))
           /\ Fared(w, UpsertPlayer(w, t, [w.player[t] EXCEPT !.target = target]))
           /\ Fared(w, UpsertPlayer(w, t, [w.player[t] EXCEPT !.auto = auto]))
<1> DEFINE p == w.player[t]
           q == [p EXCEPT !.target = target, !.auto = auto]
           r == [p EXCEPT !.target = target]
           s == [p EXCEPT !.auto = auto]
<1>1. PlayerGood(t, p) /\ t \in DOMAIN w.player
  BY APlayer
<1>2. /\ PlayerGood(t, q) /\ Carries(p, q) /\ q.alive = p.alive /\ q.health = p.health /\ q.auto = auto
      /\ PlayerGood(t, r) /\ Carries(p, r) /\ r.alive = p.alive /\ r.health = p.health /\ r.auto = p.auto
      /\ PlayerGood(t, s) /\ Carries(p, s) /\ s.alive = p.alive /\ s.health = p.health /\ s.auto = auto
  <2> HIDE DEF p
  <2> QED BY <1>1 DEF PlayerGood, PlayerFields, Carries
<1> HIDE DEF q, r, s
<1>3. Fared(w, UpsertPlayer(w, t, q))
  BY <1>1, <1>2, PlayerChanged
<1>4. Fared(w, UpsertPlayer(w, t, r))
  BY <1>1, <1>2, PlayerChanged
<1>5. Fared(w, UpsertPlayer(w, t, s))
  BY <1>1, <1>2, PlayerChanged
<1> QED BY <1>3, <1>4, <1>5 DEF q, r, s

\* A limit of health is kept.
LEMMA MinNumberIs ==
    ASSUME NEW x \in Nat, NEW y \in Nat PROVE MinNumber(x, y) \in Nat
BY DEF MinNumber, Lower

\* The only player with a character's id is its session.
LEMMA LivelyIs ==
    ASSUME NEW w, WorldGood(w), NEW t \in DOMAIN w.player, w.player[t].alive
    PROVE  Lively(w, CharacterOf[t])
BY DEF WorldGood, SessionsGood, Lively

\* Everybody has the character of its session.
LEMMA LivelyChar ==
    ASSUME NEW w, WorldGood(w), NEW t, Has(w, t), w.player[t].alive
    PROVE  Lively(w, CharacterOf[t])
BY LivelyIs, APlayer

\* The abilities, and what using one costs.
AbilityGood(a) == a.cost \in Int /\ a.damage \in Nat /\ a.threat \in Int /\ a.heal \in Nat

User(p, a) ==
    [p EXCEPT !.resource = @ - a.cost, !.health = IF a.heal > 0 THEN MinNumber(p.max, @ + a.heal) ELSE @]

LEMMA UserGood ==
    ASSUME NEW t, NEW p, PlayerGood(t, p), NEW a, AbilityGood(a)
    PROVE  PlayerGood(t, User(p, a)) /\ Carries(p, User(p, a)) /\ User(p, a).alive = p.alive
<1> DEFINE health == IF a.heal > 0 THEN MinNumber(p.max, p.health + a.heal) ELSE p.health
           resource == p.resource - a.cost
           q == [p EXCEPT !.resource = resource, !.health = health]
<1>1. User(p, a) = q
  BY DEF User
<1>2. health \in Nat
  <2>1. p.max \in Nat /\ p.health \in Nat /\ a.heal \in Nat
    BY DEF PlayerGood, AbilityGood
  <2>2. p.health + a.heal \in Nat
    BY <2>1
  <2> QED BY <2>1, <2>2, MinNumberIs
<1>3. resource \in Int
  BY DEF PlayerGood, AbilityGood
<1> HIDE DEF health, resource
<1>4. PlayerGood(t, q) /\ Carries(p, q) /\ q.alive = p.alive
  BY <1>2, <1>3 DEF PlayerGood, PlayerFields, Carries
<1> QED BY <1>1, <1>4

\* Whoever uses an ability is alive, and is upserted into the world the harm made.
LEMMA AbilityFared ==
    ASSUME NEW w, WorldGood(w), NEW t, NEW id, NEW a, AbilityGood(a),
           NEW v, v = UseAbility(w, t, id, a), v # Refused
    PROVE  Moved(w, v) /\ (Standing(w) /\ w.player[t].alive => Standing(v))
<1> DEFINE p == w.player[t]
           target == IF id = NoId THEN p.target ELSE id
           harmed == DamageEntity(w, p.char, target, a.damage, a.threat)
           u == IF a.damage > 0 THEN harmed ELSE w
<1>1. Has(w, t)
  BY DEF UseAbility
<1>2. t \in DOMAIN w.player /\ t \in Tokens /\ PlayerGood(t, p)
  BY <1>1, APlayer
<1>3. v = UpsertPlayer(u, t, User(p, a)) /\ (a.damage > 0 => harmed # Refused)
  BY <1>1 DEF UseAbility, User
<1>4. p.char = CharacterOf[t] /\ CharacterOf[t] \in Nat
  BY <1>2, Ids0 DEF PlayerGood
<1>5. Fought(w, u) /\ (Standing(w) /\ p.alive => Standing(u))
  <2>1. CASE a.damage > 0
    <3>1. /\ Fought(w, harmed)
          /\ Standing(w) /\ Lively(w, CharacterOf[t]) => Standing(harmed)
      BY <1>3, <1>4, <2>1, DamageFought DEF AbilityGood
    <3> QED BY <1>2, <2>1, <3>1, LivelyIs
  <2>2. CASE ~(a.damage > 0)
    BY <2>2, FoughtSame
  <2> QED BY <2>1, <2>2
<1> HIDE DEF u, p
<1>6. PlayerGood(t, User(p, a)) /\ Carries(p, User(p, a)) /\ User(p, a).alive = p.alive
  BY <1>2, UserGood
<1>7. WorldGood(u) /\ t \in DOMAIN u.player /\ Carries(u.player[t], User(p, a)) /\ Fits(u, t)
  BY <1>2, <1>5, <1>6 DEF Fought, Carries, Fits, p
<1>8. Fought(w, v)
  BY <1>3, <1>5, <1>6, <1>7, UpsertFought, FoughtChain
<1>9. ASSUME Standing(w), p.alive PROVE Standing(v)
  BY <1>3, <1>5, <1>6, <1>7, <1>9, UpsertStands
<1> QED BY <1>8, <1>9, FoughtMoved DEF p

-----------------------------------------------------------------------------
(* NPCs *)

\* What an NPC respawns as.
LEMMA WolfGood ==
    ASSUME NEW health \in Nat, NEW max \in Nat, NEW target
    PROVE  LET x == [Wolf EXCEPT !.max = max, !.health = health, !.target = target, !.respawn = "now"]
           IN  /\ NpcGood(x) /\ x.threat = Empty
               /\ target = NoId => NpcStands(x)
<1> DEFINE a == Wolf
           x == [a EXCEPT !.max = max, !.health = health, !.target = target, !.respawn = "now"]
<1>1. /\ a = [f \in NpcFields |-> a[f]] /\ a.alive = TRUE /\ a.targetable = TRUE /\ a.threat = Empty
  <2>1. DOMAIN a = NpcFields
    BY DEF Wolf, NpcFields
  <2>2. a = [f \in NpcFields |-> a[f]]
    BY <2>1, Zenon DEF Wolf
  <2> QED BY <2>2 DEF Wolf
<1> HIDE DEF a
<1>2. /\ x = [f \in NpcFields |-> x[f]] /\ x.alive = TRUE /\ x.targetable = TRUE /\ x.threat = Empty
      /\ x.health = health /\ x.max = max /\ x.target = target
  BY <1>1 DEF NpcFields
<1> HIDE DEF x
<1>3. NpcGood(x)
  <2>1. x.alive \in BOOLEAN /\ x.targetable \in BOOLEAN
    BY <1>2
  <2>2. x.health \in Nat /\ x.max \in Nat
    BY <1>2
  <2>3. ThreatGood(x.threat)
    BY <1>2, EmptyGood
  <2> QED BY <1>2, <2>1, <2>2, <2>3 DEF NpcGood
<1>4. target = NoId => NpcStands(x)
  BY <1>2, NobodyLeads DEF NpcStands
<1> QED BY <1>2, <1>3, <1>4 DEF x, a

\* Respawns leave the dead out.
LEMMA RespawnFared ==
    ASSUME NEW w, WorldGood(w), NEW n, NEW health \in Nat, NEW max \in Nat, NEW target
    PROVE  /\ Moved(w, RespawnNPC(w, n, health, max, target))
           /\ Standing(w) /\ target = NoId => Standing(RespawnNPC(w, n, health, max, target))
<1> DEFINE limit == IF max = 0 THEN health ELSE max
           h == IF health = 0 THEN limit ELSE health
           x == [Wolf EXCEPT !.max = limit, !.health = h, !.target = target, !.respawn = "now"]
           v == UpsertNPC(w, n, x)
<1>1. RespawnNPC(w, n, health, max, target) = v
  BY DEF RespawnNPC
<1>2. limit \in Nat /\ h \in Nat
  OBVIOUS
<1> HIDE DEF limit, h
<1>3. NpcGood(x) /\ x.threat = Empty /\ (target = NoId => NpcStands(x))
  BY <1>2, WolfGood
<1> HIDE DEF x
<1>4. Fought(w, v) /\ v.player = w.player /\ Extends(v.npc, w.npc, n, x)
  BY <1>3, UpsertNPCFought
<1> HIDE DEF v
<1>5. \A t \in DOMAIN w.player : CharacterOf[t] \notin DOMAIN x.threat
  BY <1>3, EmptyGood
<1>6. Standing(w) /\ target = NoId => Standing(v)
  BY <1>3, <1>4, <1>5, NpcStood
<1> QED BY <1>1, <1>4, <1>6, FoughtMoved

LEMMA ScheduleFared ==
    ASSUME NEW w, WorldGood(w), NEW n, ScheduleRespawn(w, n) # Refused
    PROVE  Fared(w, ScheduleRespawn(w, n))
<1> DEFINE npc == w.npc[n]
           x == [npc EXCEPT !.respawn = "given"]
           v == UpsertNPC(w, n, x)
<1>1. IsNpc(w, n) /\ ScheduleRespawn(w, n) = v
  BY DEF ScheduleRespawn, ChangeNpc
<1>2. NpcGood(npc)
  BY <1>1 DEF IsNpc, WorldGood, NpcsGood
<1> HIDE DEF npc
<1>3. /\ NpcGood(x) /\ x.threat = npc.threat /\ x.target = npc.target /\ x.alive = npc.alive
      /\ x.health = npc.health /\ x.targetable = npc.targetable
  BY <1>2 DEF NpcGood, NpcFields
<1> HIDE DEF x
<1>4. NpcStands(npc) => NpcStands(x)
  BY <1>3 DEF NpcStands
<1>5. Fought(w, v) /\ v.player = w.player /\ Extends(v.npc, w.npc, n, x)
  BY <1>3, UpsertNPCFought
<1> HIDE DEF v
<1>6. ASSUME Standing(w) PROVE Standing(v)
  <2>1. NpcStands(npc) /\ \A t \in DOMAIN w.player : ~w.player[t].alive => CharacterOf[t] \notin DOMAIN npc.threat
    BY <1>1, <1>6 DEF Standing, IsNpc, npc
  <2> QED BY <1>3, <1>4, <1>5, <1>6, <2>1, NpcStood
<1> QED BY <1>1, <1>5, <1>6, FoughtMoved DEF Fared

\* Threat leaves the dead out, if it is the living who are threatened.
LEMMA AddThreatFared ==
    ASSUME NEW w, WorldGood(w), NEW n, NEW target \in Nat, NEW amount \in Nat \ {0}, AddThreat(w, n, target, amount) # Refused
    PROVE  /\ Moved(w, AddThreat(w, n, target, amount))
           /\ Standing(w) /\ Lively(w, target) /\ w.npc[n].alive => Standing(AddThreat(w, n, target, amount))
<1> DEFINE table == Raised(w.npc[n].threat, target, amount)
           v == UpsertNPC(w, n, [w.npc[n] EXCEPT !.threat = table, !.target = HighestThreatTarget(table)])
<1>1. IsNpc(w, n) /\ AddThreat(w, n, target, amount) = v
  BY DEF AddThreat, RaiseThreat
<1>2. ThreatGood(table) /\ DOMAIN table = DOMAIN w.npc[n].threat \cup {target}
  <2>1. ThreatGood(w.npc[n].threat)
    BY <1>1 DEF IsNpc, WorldGood, NpcsGood, NpcGood
  <2> HIDE DEF v
  <2>2. amount \in Int
    OBVIOUS
  <2> DEFINE threat == w.npc[n].threat
  <2> HIDE DEF threat
  <2>3. ThreatGood(Raised(threat, target, amount)) /\ DOMAIN Raised(threat, target, amount) = DOMAIN threat \cup {target}
    BY <2>1, <2>2, RaisedGood DEF threat
  <2> QED BY <2>3 DEF threat
<1> HIDE DEF table
<1>3. /\ Fought(w, v)
      /\ Standing(w) /\ Lively(w, target) /\ w.npc[n].alive => Standing(v)
  BY <1>1, <1>2, TableFought
<1> QED BY <1>1, <1>3, FoughtMoved

\* A table that has nobody new on it.
LEMMA LessThreat ==
    ASSUME NEW w, WorldGood(w), NEW n, IsNpc(w, n), NEW table, ThreatGood(table),
           DOMAIN table \subseteq DOMAIN w.npc[n].threat
    PROVE  Fared(w, UpsertNPC(w, n, [w.npc[n] EXCEPT !.threat = table, !.target = HighestThreatTarget(table)]))
<1> DEFINE v == UpsertNPC(w, n, [w.npc[n] EXCEPT !.threat = table, !.target = HighestThreatTarget(table)])
<1>1. Fought(w, v) /\ (Standing(w) => Standing(v))
  BY TableFought
<1> QED BY <1>1, FoughtMoved DEF Fared

LEMMA CalmFared ==
    ASSUME NEW w, WorldGood(w), NEW n
    PROVE  /\ DecayThreat(w, n, 1) # Refused => Fared(w, DecayThreat(w, n, 1))
           /\ ResetThreat(w, n) # Refused => Fared(w, ResetThreat(w, n))
           /\ SelectNPCTarget(w, n) # Refused => Fared(w, SelectNPCTarget(w, n))
<1> SUFFICES ASSUME IsNpc(w, n)
             PROVE  Fared(w, DecayThreat(w, n, 1)) /\ Fared(w, ResetThreat(w, n)) /\ Fared(w, SelectNPCTarget(w, n))
  BY DEF DecayThreat, ResetThreat, SelectNPCTarget, ChangeNpc
<1>1. ThreatGood(w.npc[n].threat) /\ NpcGood(w.npc[n])
  BY DEF IsNpc, WorldGood, NpcsGood, NpcGood
<1>2. Fared(w, DecayThreat(w, n, 1))
  <2> DEFINE table == Decayed(w.npc[n].threat, 1)
  <2>1. ThreatGood(table) /\ DOMAIN table \subseteq DOMAIN w.npc[n].threat
    BY <1>1, DecayedGood
  <2>2. DecayThreat(w, n, 1) = UpsertNPC(w, n, [w.npc[n] EXCEPT !.threat = table, !.target = HighestThreatTarget(table)])
    BY DEF DecayThreat, ChangeNpc
  <2> HIDE DEF table
  <2> QED BY <2>1, <2>2, LessThreat
<1>3. Fared(w, ResetThreat(w, n))
  <2>1. ResetThreat(w, n) = UpsertNPC(w, n, [w.npc[n] EXCEPT !.threat = Empty, !.target = HighestThreatTarget(Empty)])
    BY NobodyLeads DEF ResetThreat, ChangeNpc
  <2> QED BY <2>1, EmptyGood, LessThreat
<1>4. Fared(w, SelectNPCTarget(w, n))
  <2> DEFINE npc == w.npc[n]
             target == HighestThreatTarget(npc.threat)
             a == npc.threat
  <2>1. SelectNPCTarget(w, n) = UpsertNPC(w, n, [npc EXCEPT !.target = target])
    BY DEF SelectNPCTarget, ChangeNpc
  <2>2. npc = [f \in NpcFields |-> npc[f]]
    BY <1>1 DEF NpcGood
  <2> HIDE DEF npc, target
  <2>3. [npc EXCEPT !.target = target] = [npc EXCEPT !.threat = npc.threat, !.target = target]
    BY <2>2 DEF NpcFields
  <2>4. SelectNPCTarget(w, n)
          = UpsertNPC(w, n, [w.npc[n] EXCEPT !.threat = w.npc[n].threat, !.target = HighestThreatTarget(w.npc[n].threat)])
    BY <2>1, <2>3 DEF npc, target
  <2>5. Fared(w, UpsertNPC(w, n, [w.npc[n] EXCEPT !.threat = w.npc[n].threat, !.target = HighestThreatTarget(w.npc[n].threat)]))
    BY <1>1, LessThreat
  <2> QED BY <2>4, <2>5
<1> QED BY <1>2, <1>3, <1>4

\* The world stays well formed, and the dead out of it.
Kept(w, v) == WorldGood(v) /\ (Standing(w) => Standing(v))

\* What is neither about goods nor about life keeps both.
LEMMA FaredKept ==
    ASSUME NEW w, NEW v, Fared(w, v) PROVE Kept(w, v) /\ Moved(w, v)
BY DEF Fared, Moved, Kept

\* A player who comes back as it was keeps its goods.
LEMMA ReconnectKept ==
    ASSUME NEW w, WorldGood(w), NEW t, Has(w, t), NEW r, PlayerGood(t, r), r.alive
    PROVE  /\ Kept(w, Reconnect(w, t, r))
           /\ Carries(w.player[t], r) => Moved(w, Reconnect(w, t, r))
<1> DEFINE pos == IF r.pos = 0 /\ Has(w, t) THEN w.player[t].pos ELSE r.pos
           q == [r EXCEPT !.connected = TRUE, !.pos = pos]
           v == UpsertPlayer(w, t, q)
<1>1. Reconnect(w, t, r) = v
  BY DEF Reconnect
<1> HIDE DEF pos
<1>2. PlayerGood(t, q) /\ Carries(r, q) /\ q.alive = r.alive
  BY DEF PlayerGood, PlayerFields, Carries
<1> HIDE DEF q
<1>3. t \in DOMAIN w.player /\ Fits(w, t)
  BY APlayer DEF Fits
<1>4. WorldGood(v)
  BY <1>2, <1>3, UpsertPlayerGood
<1>5. Standing(w) => Standing(v)
  BY <1>2, <1>3, UpsertStands
<1>6. ASSUME Carries(w.player[t], r) PROVE Moved(w, v)
  <2>1. Carries(w.player[t], q)
    BY <1>2, <1>6 DEF Carries
  <2> QED BY <1>2, <1>3, <2>1, UpsertFought, FoughtMoved
<1> QED BY <1>1, <1>4, <1>5, <1>6 DEF Kept

-----------------------------------------------------------------------------
(* The journal *)

\* What a command of the journal or the action bar changes of a player.
Wiser(p, q) ==
    /\ q = [f \in PlayerFields |-> q[f]]
    /\ \A f \in PlayerFields \ {"quests", "done", "bar"} : q[f] = p[f]

\* The commands of the journal and the action bar.
LEMMA JournalFared ==
    ASSUME NEW w, WorldGood(w), NEW t, Has(w, t), NEW p, Wiser(w.player[t], p)
    PROVE  Fared(w, Change(w, t, p))
<1> DEFINE q == w.player[t]
<1>1. PlayerGood(t, q)
  BY APlayer
<1> HIDE DEF q
<1>2. /\ p.char = q.char /\ p.connected = q.connected /\ p.alive = q.alive /\ p.auto = q.auto
      /\ p.health = q.health /\ p.max = q.max /\ p.resource = q.resource
      /\ p.copper = q.copper /\ p.claims = q.claims /\ p.bag = q.bag
  BY DEF Wiser, PlayerFields, q
<1>3. PlayerGood(t, p) /\ Carries(q, p)
  BY <1>1, <1>2 DEF PlayerGood, Wiser, Carries
<1>4. Fared(w, UpsertPlayer(w, t, p))
  BY <1>2, <1>3, APlayer, PlayerChanged DEF q
<1> QED BY <1>4 DEF Change

\* Three ways in which the fields are changed.
LEMMA WiserIs ==
    ASSUME NEW t, NEW p, PlayerGood(t, p), NEW quests, NEW done, NEW bar
    PROVE  /\ Wiser(p, [p EXCEPT !.quests = quests]) /\ Wiser(p, [p EXCEPT !.quests = quests, !.done = done])
           /\ Wiser(p, [p EXCEPT !.done = done]) /\ Wiser(p, [p EXCEPT !.bar = bar])
<1>1. p = [f \in PlayerFields |-> p[f]]
  BY DEF PlayerGood
<1>2. Wiser(p, [p EXCEPT !.quests = quests])
  BY <1>1 DEF Wiser, PlayerFields
<1>3. Wiser(p, [p EXCEPT !.quests = quests, !.done = done])
  BY <1>1 DEF Wiser, PlayerFields
<1>4. Wiser(p, [p EXCEPT !.done = done])
  BY <1>1 DEF Wiser, PlayerFields
<1>5. Wiser(p, [p EXCEPT !.bar = bar])
  BY <1>1 DEF Wiser, PlayerFields
<1> QED BY <1>2, <1>3, <1>4, <1>5

LEMMA JournalCommands ==
    ASSUME NEW w, WorldGood(w), NEW t, Has(w, t), NEW q, NEW delta, NEW slot, NEW ability, NEW clear
    PROVE  /\ Fared(w, AcceptQuest(w, t, q)) /\ Fared(w, ProgressQuestObjective(w, t, q, delta))
           /\ Fared(w, AbandonQuest(w, t, q)) /\ Fared(w, CompleteQuest(w, t, q))
           /\ Fared(w, UpdateActionBar(w, t, slot, ability, clear))
<1> DEFINE p == w.player[t]
<1>0. PlayerGood(t, p)
  BY APlayer
<1>1. Fared(w, AcceptQuest(w, t, q))
  <2> DEFINE quests == IF q \in DOMAIN p.quests THEN p.quests ELSE With(p.quests, q, 0)
  <2>1. AcceptQuest(w, t, q) = Change(w, t, [p EXCEPT !.quests = quests])
    BY DEF AcceptQuest
  <2> HIDE DEF quests
  <2>2. Wiser(p, [p EXCEPT !.quests = quests])
    BY <1>0, WiserIs
  <2> QED BY <2>1, <2>2, JournalFared
<1>2. Fared(w, ProgressQuestObjective(w, t, q, delta))
  <2> DEFINE quests == Progressed(p.quests, q, IF delta = 0 THEN 1 ELSE delta)
  <2>1. ProgressQuestObjective(w, t, q, delta) = Change(w, t, [p EXCEPT !.quests = quests])
    BY DEF ProgressQuestObjective
  <2> HIDE DEF quests
  <2>2. Wiser(p, [p EXCEPT !.quests = quests])
    BY <1>0, WiserIs
  <2> QED BY <2>1, <2>2, JournalFared
<1>3. Fared(w, AbandonQuest(w, t, q))
  <2> DEFINE quests == Without(p.quests, q)
             done == p.done \ {q}
  <2>1. AbandonQuest(w, t, q) = Change(w, t, [p EXCEPT !.quests = quests, !.done = done])
    BY DEF AbandonQuest
  <2> HIDE DEF quests, done
  <2>2. Wiser(p, [p EXCEPT !.quests = quests, !.done = done])
    BY <1>0, WiserIs
  <2> QED BY <2>1, <2>2, JournalFared
<1>4. Fared(w, CompleteQuest(w, t, q))
  <2> DEFINE done == p.done \cup {q}
  <2>1. CompleteQuest(w, t, q) = Change(w, t, [p EXCEPT !.done = done])
    BY DEF CompleteQuest
  <2> HIDE DEF done
  <2>2. Wiser(p, [p EXCEPT !.done = done])
    BY <1>0, WiserIs
  <2> QED BY <2>1, <2>2, JournalFared
<1>5. Fared(w, UpdateActionBar(w, t, slot, ability, clear))
  <2> DEFINE bar == IF clear \/ ability = NoItem THEN Without(p.bar, slot) ELSE With(p.bar, slot, ability)
  <2>1. UpdateActionBar(w, t, slot, ability, clear) = Change(w, t, [p EXCEPT !.bar = bar])
    BY DEF UpdateActionBar
  <2> HIDE DEF bar
  <2>2. Wiser(p, [p EXCEPT !.bar = bar])
    BY <1>0, WiserIs
  <2> QED BY <2>1, <2>2, JournalFared
<1> QED BY <1>1, <1>2, <1>3, <1>4, <1>5

-----------------------------------------------------------------------------
(* Goods *)

\* What a reward, a delta, a grant or a loot claim changes of a player.
Richer(p, q) ==
    /\ q = [f \in PlayerFields |-> q[f]]
    /\ \A f \in PlayerFields \ {"copper", "claims", "bag", "done"} : q[f] = p[f]

\* A player has other goods.
LEMMA RicherKept ==
    ASSUME NEW w, WorldGood(w), NEW t, Has(w, t), NEW p, Richer(w.player[t], p)
    PROVE  LET v == UpsertPlayer(w, t, p)
           IN  /\ Kept(w, v) /\ PlayerGood(t, p)
               /\ v.loot = w.loot /\ v.npc = w.npc /\ v.session = w.session
               /\ DOMAIN v.player = DOMAIN w.player /\ v.player[t] = p
               /\ \A u \in DOMAIN w.player : u # t => v.player[u] = w.player[u]
<1> DEFINE q == w.player[t]
           v == UpsertPlayer(w, t, p)
<1>1. t \in DOMAIN w.player /\ Fits(w, t) /\ PlayerGood(t, q)
  BY APlayer DEF Fits
<1> HIDE DEF q
<1>2. /\ p.char = q.char /\ p.connected = q.connected /\ p.alive = q.alive /\ p.auto = q.auto
      /\ p.health = q.health /\ p.max = q.max /\ p.resource = q.resource
  BY DEF Richer, PlayerFields, q
<1>3. PlayerGood(t, p)
  BY <1>1, <1>2 DEF PlayerGood, Richer
<1>4. /\ WorldGood(v) /\ v.npc = w.npc /\ v.loot = w.loot /\ v.session = w.session
      /\ DOMAIN v.player = DOMAIN w.player \cup {t} /\ v.player[t] = p
      /\ \A u \in DOMAIN w.player : u # t => v.player[u] = w.player[u]
  BY <1>1, <1>3, UpsertPlayerGood
<1>5. ASSUME Standing(w) PROVE Standing(v)
  <2>1. ~p.alive => /\ p.health = 0 /\ ~p.auto
                    /\ \A n \in DOMAIN w.npc : CharacterOf[t] \notin DOMAIN w.npc[n].threat
    BY <1>1, <1>2, <1>5 DEF Standing, q
  <2> QED BY <1>1, <1>3, <1>5, <2>1, UpsertStands
<1>6. DOMAIN v.player = DOMAIN w.player
  BY <1>1, <1>4
<1> HIDE DEF v
<1> QED BY <1>3, <1>4, <1>5, <1>6 DEF Kept, v

\* A container is upserted.
LEMMA UpsertLootKept ==
    ASSUME NEW w, WorldGood(w), NEW c, NEW container
    PROVE  LET v == UpsertLootContainer(w, c, container)
           IN  /\ Kept(w, v)
               /\ v.player = w.player /\ v.npc = w.npc /\ v.session = w.session
               /\ v.loot = With(w.loot, c, container) /\ Extends(v.loot, w.loot, c, container)
<1> DEFINE L == With(w.loot, c, container)
           v == [w EXCEPT !.loot = L]
           a == w.player
           b == w.session
           d == w.npc
<1>1. UpsertLootContainer(w, c, container) = v
  BY DEF UpsertLootContainer
<1>2. Extends(L, w.loot, c, container)
  BY WithFacts
<1> HIDE DEF L
<1>3. w = [player |-> a, session |-> b, npc |-> d, loot |-> w.loot]
  BY DEF WorldGood
<1> HIDE DEF a, b, d
<1>4. v = [player |-> a, session |-> b, npc |-> d, loot |-> L]
  BY <1>3
<1>5. v.player = w.player /\ v.session = w.session /\ v.npc = w.npc /\ v.loot = L
      /\ v = [player |-> v.player, session |-> v.session, npc |-> v.npc, loot |-> v.loot]
  BY <1>4 DEF a, b, d
<1> HIDE DEF v
<1>6. WorldGood(v)
  <2>1. SessionsGood(v)
    BY <1>5 DEF WorldGood, SessionsGood
  <2>2. NpcsGood(v)
    BY <1>5 DEF WorldGood, NpcsGood
  <2> QED BY <1>2, <1>5, <2>1, <2>2 DEF WorldGood, Extends
<1>7. Standing(w) => Standing(v)
  BY <1>5 DEF Standing
<1> QED BY <1>1, <1>2, <1>5, <1>6, <1>7 DEF Kept, L

\* No two of the sessions are of one character.
Apart(natives) == \A t, u \in natives : CharacterOf[t] = CharacterOf[u] => t = u

\* A character has one session, and what is not recorded does not change.
Settled ==
    /\ Races \cap {"unrecorded", "twice"} = {}
    /\ \A s \in Scenes : Apart(Natives[s])

\* The initial snapshot is well formed, and nobody in it has anything.
LEMMA StartGood ==
    ASSUME NEW natives \in SUBSET Tokens, Apart(natives)
    PROVE  LET w == WorldOf(natives)
           IN  /\ WorldGood(w) /\ Standing(w) /\ w.loot = Empty
               /\ \A t \in DOMAIN w.player :
                     w.player[t].copper = 0 /\ w.player[t].claims = {} /\ w.player[t].bag = Empty
<1> DEFINE w == WorldOf(natives)
           chars == {CharacterOf[t] : t \in natives}
           tokenOf(c) == CHOOSE t \in natives : CharacterOf[t] = c
           a == [t \in natives |-> Native(t)]
           b == [c \in chars |-> tokenOf(c)]
           d == [n \in Npcs |-> Wolf]
<1>1. w = [player |-> a, session |-> b, npc |-> d, loot |-> Empty]
  BY DEF WorldOf
<1>2. ASSUME NEW t \in natives PROVE tokenOf(CharacterOf[t]) = t
  <2>1. tokenOf(CharacterOf[t]) \in natives /\ CharacterOf[tokenOf(CharacterOf[t])] = CharacterOf[t]
    OBVIOUS
  <2> HIDE DEF tokenOf
  <2> QED BY <2>1 DEF Apart
<1>3. IsMap(a) /\ DOMAIN a = natives /\ \A t \in natives : a[t] = Native(t)
  BY DEF IsMap
<1> HIDE DEF tokenOf
<1>4. IsMap(b) /\ DOMAIN b = chars /\ \A t \in natives : b[CharacterOf[t]] = t
  BY <1>2 DEF IsMap
<1>5. IsMap(d) /\ DOMAIN d = Npcs /\ \A n \in DOMAIN d : d[n] = Wolf
  BY DEF IsMap
<1>6. NpcGood(Wolf) /\ NpcStands(Wolf) /\ Wolf.threat = Empty
  <2> DEFINE x == Wolf
  <2>1. DOMAIN x = NpcFields
    BY DEF Wolf, NpcFields
  <2>2. x = [f \in NpcFields |-> x[f]]
    BY <2>1, Zenon DEF Wolf
  <2>3. /\ x.alive = TRUE /\ x.targetable = TRUE /\ x.threat = Empty /\ x.target = NoId
        /\ x.health = FullHealth /\ x.max = FullHealth
    BY DEF Wolf
  <2> HIDE DEF x
  <2>4. x.alive \in BOOLEAN /\ x.targetable \in BOOLEAN
    BY <2>3
  <2>5. x.health \in Nat /\ x.max \in Nat
    BY <2>3, Ids0
  <2>6. ThreatGood(x.threat) /\ x.target = HighestThreatTarget(x.threat)
    BY <2>3, EmptyGood, NobodyLeads
  <2>7. NpcGood(x)
    BY <2>2, <2>4, <2>5, <2>6 DEF NpcGood
  <2>8. NpcStands(x)
    BY <2>3, <2>6 DEF NpcStands
  <2> QED BY <2>3, <2>7, <2>8 DEF x
<1>7. \A t \in natives : /\ PlayerGood(t, Native(t)) /\ Native(t).alive
                         /\ Native(t).copper = 0 /\ Native(t).claims = {} /\ Native(t).bag = Empty
  BY NativeGood
<1> HIDE DEF a, b, d
<1>8. /\ w = [player |-> w.player, session |-> w.session, npc |-> w.npc, loot |-> w.loot]
      /\ w.player = a /\ w.session = b /\ w.npc = d /\ w.loot = Empty
  BY <1>1
<1> HIDE DEF w
<1>9. SessionsGood(w)
  BY <1>3, <1>4, <1>7, <1>8 DEF SessionsGood
<1>10. NpcsGood(w) /\ IsMap(w.loot)
  BY <1>5, <1>6, <1>8, EmptyGood DEF NpcsGood, ThreatGood
<1>11. Standing(w)
  BY <1>3, <1>5, <1>6, <1>7, <1>8 DEF Standing
<1> QED BY <1>3, <1>7, <1>8, <1>9, <1>10, <1>11 DEF WorldGood, w

-----------------------------------------------------------------------------
(* The steps *)

\* Of the two worlds of a step the first is the loop's.
LEMMA TheStep ==
    ASSUME NEW after, NEW replayed, Applies(after, replayed)
    PROVE  live' = after /\ replica' = replayed /\ after # Refused /\ scene' = scene /\ loose' = loose
BY DEF Applies, Step

\* A new session: the same in the loop and in its replay.
LEMMA ConnectStepKept ==
    ASSUME WorldGood(live), Settled, NEW t \in Tokens, ConnectStep(t)
    PROVE  Fared(live, live') /\ loose' = loose /\ (replica = live => replica' = live')
<1>1. /\ ~Has(live, t) /\ CharacterOf[t] \notin DOMAIN live.session
      /\ Applies(Connect(live, t, Stranger(t)), ReplayConnect(replica, t, Stranger(t).pos))
  BY DEF ConnectStep, Settled, May, OrIf
<1>2. /\ Connect(live, t, Stranger(t)) = UpsertPlayer(live, t, Stranger(t))
      /\ ReplayConnect(live, t, Stranger(t).pos) = UpsertPlayer(live, t, Stranger(t))
      /\ Fared(live, UpsertPlayer(live, t, Stranger(t)))
  BY <1>1, ConnectFared
<1> QED BY <1>1, <1>2, TheStep

\* A session comes back: the same in both but where a default is filled in.
LEMMA ReconnectStepKept ==
    ASSUME WorldGood(live), Settled, NEW t \in Tokens, ReconnectStep(t)
    PROVE  /\ Kept(live, live') /\ loose' = loose
           /\ "forgets" \notin Races => Moved(live, live')
           /\ Races \cap {"defaults", "forgets"} = {} /\ replica = live => replica' = live'
<1> DEFINE q == live.player[t]
<1>1. Has(live, t) /\ q.alive
  BY DEF ReconnectStep, Settled, May
<1>2. PICK p \in {q} \cup OrIf("forgets", {[q EXCEPT !.claims = {}]}) :
          \E pos \in {1, q.pos} \cup OrIf("defaults", {0}) :
              Applies(Reconnect(live, t, [p EXCEPT !.pos = pos]), ReplayConnect(replica, t, pos))
  BY DEF ReconnectStep, Settled, May, OrIf
<1>3. PICK pos \in {1, q.pos} \cup OrIf("defaults", {0}) :
          Applies(Reconnect(live, t, [p EXCEPT !.pos = pos]), ReplayConnect(replica, t, pos))
  BY <1>2
<1>4. PlayerGood(t, q)
  BY <1>1, APlayer
<1> DEFINE r == [p EXCEPT !.pos = pos]
<1>5. (p = q \/ p = [q EXCEPT !.claims = {}]) /\ ("forgets" \notin Races => p = q)
  BY <1>2 DEF OrIf, May
<1>6. PlayerGood(t, r) /\ r.alive = q.alive /\ (p = q => Carries(q, r))
  <2> HIDE DEF q
  <2>1. CASE p = q
    BY <1>4, <2>1 DEF PlayerGood, PlayerFields, Carries
  <2>2. CASE p = [q EXCEPT !.claims = {}]
    <3>1. PlayerGood(t, p) /\ p.alive = q.alive
      BY <1>4, <2>2 DEF PlayerGood, PlayerFields
    <3>2. PlayerGood(t, r) /\ r.alive = p.alive
      BY <3>1 DEF PlayerGood, PlayerFields
    <3>3. p = q => Carries(q, r)
      BY <1>4 DEF PlayerGood, PlayerFields, Carries
    <3> QED BY <3>1, <3>2, <3>3
  <2> QED BY <1>5, <2>1, <2>2
<1>7. live' = Reconnect(live, t, r) /\ loose' = loose /\ replica' = ReplayConnect(replica, t, pos)
  BY <1>3, TheStep
<1> HIDE DEF r
<1>8. Kept(live, live') /\ (Carries(q, r) => Moved(live, live'))
  BY <1>1, <1>6, <1>7, ReconnectKept
<1>9. ASSUME Races \cap {"defaults", "forgets"} = {}, replica = live PROVE replica' = live'
  <2>1. p = q /\ pos \in {1, q.pos}
    BY <1>3, <1>5, <1>9 DEF OrIf, May
  <2>2. Reconnect(live, t, r) = UpsertPlayer(live, t, Returned(q, pos)) /\ ReplayConnect(live, t, pos) = UpsertPlayer(live, t, Returned(q, pos))
    BY <1>1, <2>1, ReconnectFared DEF r
  <2> QED BY <1>7, <1>9, <2>2
<1> QED BY <1>5, <1>6, <1>7, <1>8, <1>9

\* Leaving and walking: the same in both.
LEMMA SessionStepKept ==
    ASSUME WorldGood(live), NEW t, SessionStep(t)
    PROVE  Fared(live, live') /\ loose' = loose /\ (replica = live => replica' = live')
<1>1. CASE Applies(Disconnect(live, t), ReplayDisconnect(replica, t))
  <2>1. replica = live => ReplayDisconnect(replica, t) = Disconnect(live, t)
    BY DEF Disconnect, ReplayDisconnect
  <2>2. live' = Disconnect(live, t) /\ replica' = ReplayDisconnect(replica, t) /\ live' # Refused /\ loose' = loose
    BY <1>1, TheStep
  <2>3. Fared(live, Disconnect(live, t))
    BY <2>2, DisconnectFared
  <2> QED BY <2>1, <2>2, <2>3
<1>2. ASSUME NEW next, NEW delta, Applies(ApplyMovement(live, t, next, delta), ReplayMovement(replica, t, next, delta))
      PROVE  Fared(live, live') /\ loose' = loose /\ (replica = live => replica' = live')
  <2> DEFINE p == live.player[t]
  <2>1. replica = live => ReplayMovement(replica, t, next, delta) = ApplyMovement(live, t, next, delta)
    <3> SUFFICES ReplayMovement(live, t, next, delta) = ApplyMovement(live, t, next, delta)
      OBVIOUS
    <3> DEFINE a == IF next = NoId THEN p.pos + delta ELSE next
               b == IF next # NoId THEN next ELSE p.pos + delta
    <3>1. /\ ApplyMovement(live, t, next, delta) = Change(live, t, [p EXCEPT !.pos = a])
          /\ ReplayMovement(live, t, next, delta) = Change(live, t, [p EXCEPT !.pos = b])
      BY DEF ApplyMovement, ReplayMovement
    <3>2. a = b
      OBVIOUS
    <3> HIDE DEF a, b
    <3> QED BY <3>1, <3>2
  <2>2. /\ live' = ApplyMovement(live, t, next, delta) /\ replica' = ReplayMovement(replica, t, next, delta)
        /\ live' # Refused /\ loose' = loose
    BY <1>2, TheStep
  <2>3. Fared(live, ApplyMovement(live, t, next, delta))
    BY <2>2, MovementFared
  <2> QED BY <2>1, <2>2, <2>3
<1>3. CASE \E next \in 1 .. MaxPosition : Applies(ApplyMovement(live, t, next, 0), ReplayMovement(replica, t, next, 0))
  BY <1>2, <1>3
<1>4. CASE Applies(ApplyMovement(live, t, NoId, 1), ReplayMovement(replica, t, NoId, 1))
  BY <1>2, <1>4
<1> QED BY <1>1, <1>3, <1>4 DEF SessionStep

\* Selecting a target: the same in both but for no target.
LEMMA SelectFared ==
    ASSUME NEW w, WorldGood(w), NEW t, NEW id, SelectTarget(w, t, id) # Refused
    PROVE  /\ Fared(w, SelectTarget(w, t, id))
           /\ id # NoId => ReplaySelectTarget(w, t, id) = SelectTarget(w, t, id)
<1>1. Has(w, t)
  BY DEF SelectTarget
<1>2. CASE id = NoId
  <2>1. SelectTarget(w, t, id) = UpsertPlayer(w, t, [w.player[t] EXCEPT !.target = NoId, !.auto = FALSE])
    BY <1>1, <1>2 DEF SelectTarget
  <2> QED BY <1>1, <1>2, <2>1, AimFared
<1>3. CASE id # NoId
  <2>1. /\ SelectTarget(w, t, id) = UpsertPlayer(w, t, [w.player[t] EXCEPT !.target = id])
        /\ ReplaySelectTarget(w, t, id) = UpsertPlayer(w, t, [w.player[t] EXCEPT !.target = id])
    BY <1>1, <1>3 DEF SelectTarget, ReplaySelectTarget, Change
  <2>2. Fared(w, UpsertPlayer(w, t, [w.player[t] EXCEPT !.target = id]))
    BY <1>1, AimFared
  <2> QED BY <2>1, <2>2
<1> QED BY <1>2, <1>3

LEMMA TargetStepKept ==
    ASSUME WorldGood(live), NEW t \in Tokens, TargetStep(t)
    PROVE  /\ Moved(live, live') /\ loose' = loose
           /\ "deadActs" \notin Races => Fared(live, live')
           /\ "deselect" \notin Races /\ replica = live => replica' = live'
<1>1. CASE \E id \in (Ids \ {CharacterOf[t]}) \cup OrIf("deselect", {NoId}) :
              Applies(SelectTarget(live, t, id), ReplaySelectTarget(replica, t, id))
  <2>1. PICK id \in (Ids \ {CharacterOf[t]}) \cup OrIf("deselect", {NoId}) :
              Applies(SelectTarget(live, t, id), ReplaySelectTarget(replica, t, id))
    BY <1>1
  <2>2. "deselect" \notin Races => id # NoId
    BY Ids0 DEF OrIf, May, Ids, NoId
  <2>3. /\ live' = SelectTarget(live, t, id) /\ replica' = ReplaySelectTarget(replica, t, id)
        /\ SelectTarget(live, t, id) # Refused /\ loose' = loose
    BY <2>1, TheStep
  <2>4. /\ Fared(live, SelectTarget(live, t, id))
        /\ id # NoId => ReplaySelectTarget(live, t, id) = SelectTarget(live, t, id)
    BY <2>3, SelectFared
  <2> QED BY <2>2, <2>3, <2>4, FaredKept
<1>2. CASE Applies(ClearTarget(live, t), ReplayClearTarget(replica, t))
  <2>1. Has(live, t) /\ ClearTarget(live, t) = UpsertPlayer(live, t, [live.player[t] EXCEPT !.target = NoId, !.auto = FALSE])
    BY <1>2, TheStep DEF ClearTarget, Change
  <2>2. Fared(live, ClearTarget(live, t))
    BY <2>1, AimFared
  <2>3. replica = live => ReplayClearTarget(replica, t) = ClearTarget(live, t)
    BY DEF ReplayClearTarget, ClearTarget
  <2> QED BY <1>2, <2>2, <2>3, TheStep, FaredKept
<1>3. CASE \E enabled \in BOOLEAN :
             /\ enabled => Acts(t)
             /\ Applies(StartAutoAttack(live, t, enabled), ReplayAutoAttack(replica, t, enabled))
  <2>1. PICK enabled \in BOOLEAN :
             /\ enabled => Acts(t)
             /\ Applies(StartAutoAttack(live, t, enabled), ReplayAutoAttack(replica, t, enabled))
    BY <1>3
  <2> DEFINE p == live.player[t]
             q == [p EXCEPT !.auto = enabled]
  <2>2. Has(live, t) /\ StartAutoAttack(live, t, enabled) = UpsertPlayer(live, t, q)
    BY <2>1, TheStep DEF StartAutoAttack
  <2>3. ReplayAutoAttack(live, t, enabled) = UpsertPlayer(live, t, q)
    BY <2>2 DEF ReplayAutoAttack, Change
  <2>4. t \in DOMAIN live.player /\ PlayerGood(t, p)
    BY <2>2, APlayer
  <2>5. Moved(live, UpsertPlayer(live, t, q))
    <3> HIDE DEF p
    <3>1. PlayerGood(t, q) /\ Carries(p, q)
      BY <2>4 DEF PlayerGood, PlayerFields, Carries
    <3> HIDE DEF q
    <3> QED BY <2>4, <3>1, UpsertFought, FoughtMoved DEF p
  <2>6. "deadActs" \notin Races => Fared(live, UpsertPlayer(live, t, q))
    <3>1. ASSUME "deadActs" \notin Races PROVE enabled => p.alive
      BY <2>1, <3>1 DEF Acts, May
    <3> QED BY <2>2, <3>1, AimFared
  <2> HIDE DEF q
  <2> QED BY <2>1, <2>2, <2>3, <2>5, <2>6, TheStep
<1>4. CASE Applies(StopAutoAttack(live, t), ReplayAutoAttack(replica, t, FALSE))
  <2>1. Has(live, t) /\ StopAutoAttack(live, t) = UpsertPlayer(live, t, [live.player[t] EXCEPT !.auto = FALSE])
    BY <1>4, TheStep DEF StopAutoAttack, Change
  <2>2. Fared(live, StopAutoAttack(live, t))
    BY <2>1, AimFared
  <2>3. replica = live => ReplayAutoAttack(replica, t, FALSE) = StopAutoAttack(live, t)
    BY DEF ReplayAutoAttack, StopAutoAttack
  <2>4. live' = StopAutoAttack(live, t) /\ replica' = ReplayAutoAttack(replica, t, FALSE) /\ loose' = loose
    BY <1>4, TheStep
  <2>5. Moved(live, StopAutoAttack(live, t))
    BY <2>2, FaredKept
  <2> QED BY <2>2, <2>3, <2>4, <2>5
<1> QED BY <1>1, <1>2, <1>3, <1>4 DEF TargetStep

\* Worlds are the same if their parts are.
LEMMA SameWorld ==
    ASSUME NEW w, WorldGood(w), NEW v, WorldGood(v),
           v.player = w.player, v.session = w.session, v.npc = w.npc, v.loot = w.loot
    PROVE  v = w
BY DEF WorldGood

\* Keys may be set in any order.
LEMMA WithSwapped ==
    ASSUME NEW f, NEW x, NEW y, NEW a, NEW b, x # y
    PROVE  With(With(f, x, a), y, b) = With(With(f, y, b), x, a)
BY DEF With

\* The NPCs are cleared of a character whatever the players are.
LEMMA ClearedSame ==
    ASSUME NEW w, WorldGood(w), NEW v, WorldGood(v), v.npc = w.npc, NEW id
    PROVE  ClearThreatForEntity(v, id).npc = ClearThreatForEntity(w, id).npc
<1>1. CASE id = NoId
  BY <1>1 DEF ClearThreatForEntity
<1>2. CASE id # NoId
  <2> DEFINE f == [n \in DOMAIN w.npc |-> Cleared(w.npc[n], id)]
  <2>1. ClearThreatForEntity(w, id) = [w EXCEPT !.npc = f]
    BY <1>2 DEF ClearThreatForEntity, Cleared
  <2>2. ClearThreatForEntity(v, id) = [v EXCEPT !.npc = f]
    BY <1>2 DEF ClearThreatForEntity, Cleared
  <2> HIDE DEF f
  <2>3. [w EXCEPT !.npc = f].npc = f /\ [v EXCEPT !.npc = f].npc = f
    BY DEF WorldGood
  <2> QED BY <2>1, <2>2, <2>3
<1> QED BY <1>1, <1>2

\* Harm to somebody else leaves a player, and comes to the same before and after it is changed.
LEMMA HarmToAnother ==
    ASSUME NEW w, WorldGood(w), NEW t \in DOMAIN w.player, NEW q, PlayerGood(t, q),
           NEW source \in Nat, NEW id, id # CharacterOf[t], NEW amount \in Nat \ {0}, NEW threat \in Int,
           DamageEntity(w, source, id, amount, threat) # Refused
    PROVE  LET harmed == DamageEntity(w, source, id, amount, threat)
           IN  /\ harmed.player[t] = w.player[t]
               /\ DamageEntity(UpsertPlayer(w, t, q), source, id, amount, threat) = UpsertPlayer(harmed, t, q)
<1> DEFINE W == UpsertPlayer(w, t, q)
           d == DamageEntity(w, source, id, amount, threat)
           D == DamageEntity(W, source, id, amount, threat)
<1>1. Fits(w, t)
  BY DEF Fits, WorldGood, SessionsGood
<1>2. /\ WorldGood(W) /\ W.npc = w.npc /\ W.loot = w.loot /\ W.session = w.session
      /\ DOMAIN W.player = DOMAIN w.player \cup {t} /\ W.player[t] = q
      /\ \A u \in DOMAIN w.player : u # t => W.player[u] = w.player[u]
      /\ W.player = With(w.player, t, q)
  BY <1>1, UpsertPlayerGood, UpsertPlayerParts
<1>3. Fought(w, d)
  BY DamageFought
<1>4. Fought(W, D)
  <2>1. IsPlayer(w, id) \/ IsNpc(w, id)
    BY DEF DamageEntity
  <2>2. IsPlayer(W, id) \/ IsNpc(W, id)
    BY <1>2, <2>1 DEF IsPlayer, IsNpc
  <2> HIDE DEF W
  <2> QED BY <1>2, <2>2, HarmFought
<1>5. /\ WorldGood(D) /\ D.session = w.session /\ D.loot = w.loot
      /\ WorldGood(d) /\ d.session = w.session /\ d.loot = w.loot /\ DOMAIN d.player = DOMAIN w.player
  BY <1>2, <1>3, <1>4 DEF Fought
<1>6. Fits(d, t)
  BY <1>1, <1>5 DEF Fits
<1>7. LET R == UpsertPlayer(d, t, q)
      IN  WorldGood(R) /\ R.session = w.session /\ R.loot = w.loot /\ R.npc = d.npc /\ R.player = With(d.player, t, q)
  BY <1>5, <1>6, UpsertPlayerGood, UpsertPlayerParts
<1> SUFFICES /\ d.player[t] = w.player[t]
             /\ D.npc = d.npc /\ D.player = With(d.player, t, q)
  BY <1>5, <1>7, SameWorld
<1>8. ~(amount <= 0)
  OBVIOUS
<1> HIDE DEF W
<1>9. CASE IsPlayer(w, id)
  <2> DEFINE u == TokenOf(w, id)
             p == w.player[u]
             left == Higher(0, p.health - amount)
             hurt == [p EXCEPT !.health = left]
             dead == [hurt EXCEPT !.alive = FALSE, !.auto = FALSE]
  <2>1. u \in DOMAIN w.player /\ CharacterOf[u] = id /\ u # t
    BY <1>9, TheToken
  <2>2. d = IF left > 0 THEN UpsertPlayer(w, u, hurt) ELSE UpsertPlayer(ClearThreatForEntity(w, id), u, dead)
    BY <1>8, <1>9 DEF DamageEntity, HurtPlayer
  <2>3. IsPlayer(W, id) /\ TokenOf(W, id) = u /\ W.player[u] = p
    BY <1>2, <1>9, <2>1 DEF IsPlayer, TokenOf
  <2>4. D = IF left > 0 THEN UpsertPlayer(W, u, hurt) ELSE UpsertPlayer(ClearThreatForEntity(W, id), u, dead)
    BY <1>8, <2>3 DEF DamageEntity, HurtPlayer
  <2> HIDE DEF u, left, hurt, dead, d, D
  <2>5. CASE left > 0
    <3>1. d.player = With(w.player, u, hurt) /\ d.npc = w.npc
      BY <2>2, <2>5, UpsertPlayerParts
    <3>2. D.player = With(W.player, u, hurt) /\ D.npc = w.npc
      BY <1>2, <2>4, <2>5, UpsertPlayerParts
    <3>3. Extends(d.player, w.player, u, hurt)
      BY <3>1, WithFacts
    <3>4. d.player[t] = w.player[t]
      BY <2>1, <3>3 DEF Extends
    <3>5. D.player = With(With(w.player, u, hurt), t, q)
      BY <1>2, <2>1, <3>2, WithSwapped
    <3> QED BY <3>1, <3>2, <3>4, <3>5
  <2>6. CASE ~(left > 0)
    <3> DEFINE c == ClearThreatForEntity(w, id)
               C == ClearThreatForEntity(W, id)
    <3>1. /\ Fought(w, c) /\ c.player = w.player
          /\ Fought(W, C) /\ C.player = W.player
          /\ C.npc = c.npc
      BY <1>2, ClearThreatFought, ClearedSame
    <3>2. d = UpsertPlayer(c, u, dead) /\ D = UpsertPlayer(C, u, dead)
      BY <2>2, <2>4, <2>6
    <3> HIDE DEF c, C
    <3>3. d.player = With(w.player, u, dead) /\ d.npc = c.npc
      BY <3>1, <3>2, UpsertPlayerParts DEF Fought
    <3>4. D.player = With(W.player, u, dead) /\ D.npc = c.npc
      BY <3>1, <3>2, UpsertPlayerParts DEF Fought
    <3>5. Extends(d.player, w.player, u, dead)
      BY <3>3, WithFacts
    <3>6. d.player[t] = w.player[t]
      BY <2>1, <3>5 DEF Extends
    <3>7. D.player = With(With(w.player, u, dead), t, q)
      BY <1>2, <2>1, <3>4, WithSwapped
    <3> QED BY <3>3, <3>4, <3>6, <3>7
  <2> QED BY <2>5, <2>6
<1>10. CASE ~IsPlayer(w, id)
  <2>1. IsNpc(w, id) /\ d = HurtNpc(w, source, id, amount, threat)
    BY <1>8, <1>10 DEF DamageEntity
  <2>2. ~IsPlayer(W, id) /\ IsNpc(W, id)
    BY <1>2, <1>10, <2>1 DEF IsPlayer, IsNpc
  <2>3. D = HurtNpc(W, source, id, amount, threat)
    BY <1>8, <2>2 DEF DamageEntity
  <2>4. PICK x : HurtNpc(w, source, id, amount, threat) = UpsertNPC(w, id, x)
                 /\ HurtNpc(W, source, id, amount, threat) = UpsertNPC(W, id, x)
    BY <1>2 DEF HurtNpc
  <2>5. ASSUME NEW v, WorldGood(v) PROVE UpsertNPC(v, id, x).player = v.player /\ UpsertNPC(v, id, x).npc = With(v.npc, id, x)
    <3> DEFINE f == With(v.npc, id, x)
    <3>1. UpsertNPC(v, id, x) = [v EXCEPT !.npc = f]
      BY DEF UpsertNPC
    <3> HIDE DEF f
    <3>2. [v EXCEPT !.npc = f].npc = f /\ [v EXCEPT !.npc = f].player = v.player
      BY <2>5 DEF WorldGood
    <3> QED BY <3>1, <3>2 DEF f
  <2>6. d.player = w.player /\ d.npc = With(w.npc, id, x)
    BY <2>1, <2>4, <2>5
  <2>7. D.player = W.player /\ D.npc = With(w.npc, id, x)
    BY <1>2, <2>3, <2>4, <2>5
  <2> QED BY <1>2, <2>6, <2>7
<1> QED BY <1>9, <1>10

\* What a free ability that does not harm who uses it does, its record does too.
LEMMA AbilityReplayed ==
    ASSUME NEW w, WorldGood(w), NEW t, NEW id \in Nat \ {0}, NEW a, AbilityGood(a), a.cost = 0,
           a.damage > 0 => id # CharacterOf[t],
           UseAbility(w, t, id, a) # Refused
    PROVE  ReplayUseAbility(w, t, id, a) = UseAbility(w, t, id, a)
<1> DEFINE p == w.player[t]
           harmed == DamageEntity(w, p.char, id, a.damage, a.threat)
           cured == [p EXCEPT !.health = MinNumber(p.max, @ + a.heal)]
<1>1. Has(w, t)
  BY DEF UseAbility
<1>2. t \in DOMAIN w.player /\ t \in Tokens /\ PlayerGood(t, p) /\ p.char = CharacterOf[t] /\ CharacterOf[t] \in Nat
  BY <1>1, APlayer, Ids0 DEF PlayerGood
<1>3. /\ UseAbility(w, t, id, a) = UpsertPlayer(IF a.damage > 0 THEN harmed ELSE w, t, User(p, a))
      /\ a.damage > 0 => harmed # Refused
  BY <1>1 DEF UseAbility, User, NoId
<1>4. ReplayUseAbility(w, t, id, a)
        = DamageEntity(IF a.heal > 0 THEN UpsertPlayer(w, t, cured) ELSE w, p.char, id, a.damage, a.threat)
  BY <1>1 DEF ReplayUseAbility
<1>5. a.damage \in Nat /\ a.heal \in Nat /\ a.threat \in Int
  BY DEF AbilityGood
<1>6. User(p, a) = IF a.heal > 0 THEN cured ELSE p
  <2> HIDE DEF p
  <2>1. p = [f \in PlayerFields |-> p[f]] /\ p.resource \in Int
    BY <1>2 DEF PlayerGood
  <2>2. p.resource - a.cost = p.resource
    BY <2>1
  <2>3. CASE a.heal > 0
    BY <2>1, <2>2, <2>3 DEF User, PlayerFields
  <2>4. CASE ~(a.heal > 0)
    BY <2>1, <2>2, <2>4 DEF User, PlayerFields
  <2> QED BY <2>3, <2>4
<1>7. PlayerGood(t, User(p, a))
  BY <1>2, UserGood
<1>8. CASE ~(a.damage > 0)
  <2>1. ReplayUseAbility(w, t, id, a) = IF a.heal > 0 THEN UpsertPlayer(w, t, cured) ELSE w
    BY <1>4, <1>5, <1>8 DEF DamageEntity
  <2>2. UseAbility(w, t, id, a) = UpsertPlayer(w, t, User(p, a))
    BY <1>3, <1>8
  <2>3. UpsertPlayer(w, t, p) = w
    BY <1>2, UpsertPlayerSame
  <2> HIDE DEF p, cured
  <2> QED BY <1>6, <2>1, <2>2, <2>3
<1>9. CASE a.damage > 0
  <2>1. UseAbility(w, t, id, a) = UpsertPlayer(harmed, t, User(p, a)) /\ harmed # Refused
    BY <1>3, <1>9
  <2>2. a.damage \in Nat \ {0} /\ id # CharacterOf[t] /\ p.char \in Nat
    BY <1>2, <1>5, <1>9
  <2>3. Fought(w, harmed)
    BY <1>5, <2>1, <2>2, DamageFought
  <2>4. WorldGood(harmed) /\ t \in DOMAIN harmed.player
    BY <1>2, <2>3 DEF Fought
  <2> HIDE DEF p
  <2>5. /\ harmed.player[t] = w.player[t]
        /\ DamageEntity(UpsertPlayer(w, t, User(p, a)), p.char, id, a.damage, a.threat) = UpsertPlayer(harmed, t, User(p, a))
    BY <1>2, <1>5, <1>7, <2>1, <2>2, HarmToAnother
  <2> HIDE DEF harmed, cured
  <2>6. CASE a.heal > 0
    BY <1>4, <1>6, <2>1, <2>5, <2>6
  <2>7. CASE ~(a.heal > 0)
    <3>1. UpsertPlayer(harmed, t, p) = harmed
      BY <2>4, <2>5, UpsertPlayerSame DEF p
    <3> QED BY <1>4, <1>6, <2>1, <2>7, <3>1 DEF harmed
  <2> QED BY <2>6, <2>7
<1> QED BY <1>8, <1>9

\* What a step of a fight does to the loop's world, and that its record does the same.
Fights(fair) ==
    /\ Moved(live, live') /\ loose' = loose
    /\ "deadActs" \notin Races /\ Standing(live) => Standing(live')
    /\ fair /\ replica = live => replica' = live'

\* What is said of a step of a fight, from what is said of its world.
LEMMA FaredFights ==
    ASSUME Fared(live, live'), loose' = loose, NEW fair \in BOOLEAN, fair /\ replica = live => replica' = live'
    PROVE  Fights(fair)
BY DEF Fared, Fights

LEMMA AbilitiesGood ==
    ASSUME NEW a \in Abilities
    PROVE  AbilityGood(a) /\ ("cost" \notin Races => a.cost = 0)
<1> DEFINE costs == {0} \cup OrIf("cost", {1})
           kinds == {<<1, 0, 0>>, <<1, 2, 0>>, <<0, 0, 1>>, <<1, 0, 1>>}
<1>1. PICK cost \in costs, kind \in kinds :
          a = [cost |-> cost, damage |-> kind[1], threat |-> kind[2], heal |-> kind[3]]
  BY DEF Abilities
<1>2. cost \in {0, 1} /\ ("cost" \notin Races => cost = 0)
  BY DEF OrIf, May
<1>3. a.cost = cost /\ a.damage \in {0, 1} /\ a.threat \in {0, 2} /\ a.heal \in {0, 1}
  BY <1>1
<1> QED BY <1>2, <1>3 DEF AbilityGood

\* Each step of a fight, with what its replay needs to be the same.
LEMMA AbilityStepKept ==
    ASSUME WorldGood(live), NEW t \in Tokens, AbilityStep(t)
    PROVE  Fights(Races \cap {"cost", "self", "defaults"} = {})
<1>1. PICK a \in Abilities, id \in Ids \cup OrIf("defaults", {NoId}) :
          /\ IF a.damage > 0 THEN id # CharacterOf[t] \/ May("self") ELSE id = CharacterOf[t]
          /\ Applies(UseAbility(live, t, id, a), ReplayUseAbility(replica, t, id, a))
  BY DEF AbilityStep
<1>2. AbilityGood(a) /\ ("cost" \notin Races => a.cost = 0)
  BY AbilitiesGood
<1>3. /\ live' = UseAbility(live, t, id, a) /\ replica' = ReplayUseAbility(replica, t, id, a)
      /\ UseAbility(live, t, id, a) # Refused /\ loose' = loose
  BY <1>1, TheStep
<1>4. Moved(live, live') /\ (Standing(live) /\ live.player[t].alive => Standing(live'))
  BY <1>2, <1>3, AbilityFared
<1>5. "deadActs" \notin Races => live.player[t].alive
  BY DEF AbilityStep, Acts, May
<1>6. ASSUME Races \cap {"cost", "self", "defaults"} = {}, replica = live PROVE replica' = live'
  <2>1. id \in Nat \ {0}
    BY <1>6, Ids0 DEF OrIf, May, Ids
  <2>2. a.damage > 0 => id # CharacterOf[t]
    BY <1>1, <1>6 DEF May
  <2>3. ReplayUseAbility(live, t, id, a) = UseAbility(live, t, id, a)
    BY <1>2, <1>3, <1>6, <2>1, <2>2, AbilityReplayed
  <2> QED BY <1>3, <1>6, <2>3
<1> QED BY <1>3, <1>4, <1>5, <1>6 DEF Fights

LEMMA DamageStepKept ==
    ASSUME WorldGood(live), NEW t \in Tokens, DamageStep(t)
    PROVE  Fights("defaults" \notin Races)
<1>1. PICK source \in {CharacterOf[t]} \cup OrIf("defaults", {NoId}), id \in Ids :
          Applies(ApplyDamage(live, CharacterOf[t], source, id, 1, 0), ReplayDamage(replica, source, id, 1, 0))
  BY DEF DamageStep
<1>2. CharacterOf[t] \in Nat \ {0} /\ (IF source = NoId THEN CharacterOf[t] ELSE source) = CharacterOf[t]
  BY Ids0 DEF OrIf, NoId
<1>3. ApplyDamage(live, CharacterOf[t], source, id, 1, 0) = DamageEntity(live, CharacterOf[t], id, 1, 0)
  BY <1>2 DEF ApplyDamage
<1>4. /\ live' = DamageEntity(live, CharacterOf[t], id, 1, 0) /\ replica' = ReplayDamage(replica, source, id, 1, 0)
      /\ DamageEntity(live, CharacterOf[t], id, 1, 0) # Refused /\ loose' = loose
  BY <1>1, <1>3, TheStep
<1>5. Fought(live, live') /\ (Standing(live) /\ Lively(live, CharacterOf[t]) => Standing(live'))
  BY <1>2, <1>4, DamageFought
<1>6. "deadActs" \notin Races => Lively(live, CharacterOf[t])
  BY LivelyChar DEF DamageStep, Acts, May
<1>7. ASSUME "defaults" \notin Races, replica = live PROVE replica' = live'
  BY <1>1, <1>4, <1>7 DEF ReplayDamage, OrIf, May
<1> QED BY <1>4, <1>5, <1>6, <1>7, FoughtMoved DEF Fights

LEMMA HealStepKept ==
    ASSUME WorldGood(live), NEW t \in Tokens, HealStep(t)
    PROVE  Fights("defaults" \notin Races)
<1>1. PICK id \in Ids, amount \in {1} \cup OrIf("defaults", {0}) :
          Applies(ApplyHeal(live, CharacterOf[t], id, amount), ReplayHeal(replica, id, amount))
  BY DEF HealStep
<1>2. id # NoId /\ amount \in {0, 1} /\ ("defaults" \notin Races => amount = 1)
  BY Ids0 DEF OrIf, May, Ids, NoId
<1>3. /\ live' = ApplyHeal(live, CharacterOf[t], id, amount) /\ replica' = ReplayHeal(replica, id, amount)
      /\ ApplyHeal(live, CharacterOf[t], id, amount) # Refused /\ loose' = loose
  BY <1>1, TheStep
<1>4. CASE amount = 0
  <2>1. live' = live
    BY <1>3, <1>4 DEF ApplyHeal
  <2> QED BY <1>2, <1>3, <1>4, <2>1, FoughtSame, FoughtMoved DEF Fights
<1>5. CASE amount = 1
  <2>1. live' = HealEntity(live, id, 1) /\ live' # Refused
    BY <1>2, <1>3, <1>5 DEF ApplyHeal
  <2>2. Fought(live, live') /\ (Standing(live) => Standing(live'))
    BY <2>1, HealFought
  <2>3. replica = live => replica' = live'
    BY <1>3, <1>5, <2>1 DEF ReplayHeal
  <2> QED BY <1>3, <2>2, <2>3, FoughtMoved DEF Fights
<1> QED BY <1>2, <1>4, <1>5

LEMMA DeathStepKept ==
    ASSUME WorldGood(live), DeathStep
    PROVE  Fights(TRUE)
<1>1. PICK id \in Ids : Applies(ResolveDeath(live, id, "given"), ReplayDeath(replica, id, "given"))
  BY DEF DeathStep
<1>2. /\ live' = KillEntity(live, id, "given") /\ replica' = KillEntity(replica, id, "given")
      /\ live' # Refused /\ loose' = loose
  BY <1>1, TheStep DEF ResolveDeath, ReplayDeath
<1>3. Fought(live, live') /\ (Standing(live) => Standing(live'))
  BY <1>2, KillFought
<1> QED BY <1>2, <1>3, FoughtMoved DEF Fights

LEMMA RespawnReplayed ==
    ASSUME NEW w, NEW n
    PROVE  ReplayRespawn(w, n, FullHealth, FullHealth) = RespawnNPC(w, n, FullHealth, FullHealth, NoId)
<1> DEFINE a == Wolf
           limit == IF FullHealth = 0 THEN FullHealth ELSE FullHealth
           h == IF FullHealth = 0 THEN limit ELSE FullHealth
<1>1. FullHealth # 0
  BY Ids0
<1>2. DOMAIN a = NpcFields /\ a.target = NoId
  BY DEF Wolf, NpcFields
<1>3. a = [f \in NpcFields |-> a[f]]
  BY <1>2, Zenon DEF Wolf
<1>4. /\ RespawnNPC(w, n, FullHealth, FullHealth, NoId)
           = UpsertNPC(w, n, [a EXCEPT !.max = limit, !.health = h, !.target = NoId, !.respawn = "now"])
      /\ ReplayRespawn(w, n, FullHealth, FullHealth)
           = UpsertNPC(w, n, [a EXCEPT !.health = FullHealth, !.max = FullHealth, !.respawn = "now"])
  BY DEF RespawnNPC, ReplayRespawn
<1>5. limit = FullHealth /\ h = FullHealth
  BY <1>1
<1> HIDE DEF a, limit, h
<1>6. [a EXCEPT !.max = limit, !.health = h, !.target = NoId, !.respawn = "now"]
        = [a EXCEPT !.health = FullHealth, !.max = FullHealth, !.respawn = "now"]
  BY <1>2, <1>3, <1>5 DEF NpcFields
<1> QED BY <1>4, <1>6

LEMMA RespawnStepKept ==
    ASSUME WorldGood(live), "unrecorded" \notin Races, NEW n, RespawnStep(n)
    PROVE  Fights("defaults" \notin Races)
<1>1. CASE Applies(ScheduleRespawn(live, n), ReplayScheduleRespawn(replica, n))
  <2>1. /\ live' = ScheduleRespawn(live, n) /\ replica' = ReplayScheduleRespawn(replica, n)
        /\ live' # Refused /\ loose' = loose
    BY <1>1, TheStep
  <2>2. Fared(live, live')
    BY <2>1, ScheduleFared
  <2>3. replica = live => replica' = live'
    BY <2>1 DEF ScheduleRespawn, ReplayScheduleRespawn
  <2> QED BY <2>1, <2>2, <2>3 DEF Fights, Fared
<1>2. CASE \E health, max \in {FullHealth} \cup OrIf("defaults", {0}),
              target \in {NoId} \cup OrIf("unrecorded", Characters) :
              Applies(RespawnNPC(live, n, health, max, target), ReplayRespawn(replica, n, health, max))
  <2>1. PICK health \in {FullHealth} \cup OrIf("defaults", {0}), max \in {FullHealth} \cup OrIf("defaults", {0}) :
              Applies(RespawnNPC(live, n, health, max, NoId), ReplayRespawn(replica, n, health, max))
    BY <1>2 DEF OrIf, May
  <2>2. health \in Nat /\ max \in Nat /\ ("defaults" \notin Races => health = FullHealth /\ max = FullHealth)
    BY Ids0 DEF OrIf, May
  <2>3. /\ live' = RespawnNPC(live, n, health, max, NoId) /\ replica' = ReplayRespawn(replica, n, health, max)
        /\ loose' = loose
    BY <2>1, TheStep
  <2>4. Moved(live, live') /\ (Standing(live) => Standing(live'))
    BY <2>2, <2>3, RespawnFared
  <2>5. ASSUME "defaults" \notin Races, replica = live PROVE replica' = live'
    BY <2>2, <2>3, <2>5, RespawnReplayed
  <2> QED BY <2>3, <2>4, <2>5 DEF Fights
<1> QED BY <1>1, <1>2 DEF RespawnStep

LEMMA ThreatStepKept ==
    ASSUME WorldGood(live), NEW n, ThreatStep(n)
    PROVE  Fights(TRUE)
<1>1. CASE \E t \in Tokens :
             /\ Acts(t) /\ (live.npc[n].alive \/ May("deadActs"))
             /\ Applies(AddThreat(live, n, CharacterOf[t], 1), ReplayAddThreat(replica, n, CharacterOf[t], 1))
  <2>1. PICK t \in Tokens :
             /\ Acts(t) /\ (live.npc[n].alive \/ May("deadActs"))
             /\ Applies(AddThreat(live, n, CharacterOf[t], 1), ReplayAddThreat(replica, n, CharacterOf[t], 1))
    BY <1>1
  <2>2. /\ live' = AddThreat(live, n, CharacterOf[t], 1) /\ replica' = ReplayAddThreat(replica, n, CharacterOf[t], 1)
        /\ live' # Refused /\ loose' = loose
    BY <2>1, TheStep
  <2>3. CharacterOf[t] \in Nat
    BY Ids0
  <2>4. /\ Moved(live, live')
        /\ Standing(live) /\ Lively(live, CharacterOf[t]) /\ live.npc[n].alive => Standing(live')
    BY <2>2, <2>3, AddThreatFared
  <2>5. "deadActs" \notin Races => Lively(live, CharacterOf[t]) /\ live.npc[n].alive
    BY <2>1, LivelyChar DEF Acts, May
  <2>6. replica = live => replica' = live'
    BY <2>2 DEF AddThreat, ReplayAddThreat
  <2> QED BY <2>2, <2>4, <2>5, <2>6 DEF Fights
<1>2. CASE Applies(DecayThreat(live, n, 1), ReplayDecayThreat(replica, n, 1))
  <2>1. live' = DecayThreat(live, n, 1) /\ replica' = ReplayDecayThreat(replica, n, 1) /\ live' # Refused /\ loose' = loose
    BY <1>2, TheStep
  <2>2. replica = live => replica' = live'
    BY <2>1 DEF DecayThreat, ReplayDecayThreat
  <2> QED BY <2>1, <2>2, CalmFared DEF Fights, Fared
<1>3. CASE Applies(ResetThreat(live, n), ReplayResetThreat(replica, n))
  <2>1. live' = ResetThreat(live, n) /\ replica' = ReplayResetThreat(replica, n) /\ live' # Refused /\ loose' = loose
    BY <1>3, TheStep
  <2>2. replica = live => replica' = live'
    BY <2>1 DEF ResetThreat, ReplayResetThreat
  <2> QED BY <2>1, <2>2, CalmFared DEF Fights, Fared
<1>4. CASE Applies(SelectNPCTarget(live, n), ReplaySelectNPCTarget(replica, n))
  <2>1. live' = SelectNPCTarget(live, n) /\ replica' = ReplaySelectNPCTarget(replica, n) /\ live' # Refused /\ loose' = loose
    BY <1>4, TheStep
  <2>2. replica = live => replica' = live'
    BY <2>1 DEF SelectNPCTarget, ReplaySelectNPCTarget
  <2> QED BY <2>1, <2>2, CalmFared DEF Fights, Fared
<1>5. CASE \E id \in Characters : Applies(ClearThreatOnDeath(live, id), ReplayClearThreat(replica, id))
  <2>1. PICK id \in Characters : Applies(ClearThreatOnDeath(live, id), ReplayClearThreat(replica, id))
    BY <1>5
  <2>2. live' = ClearThreatForEntity(live, id) /\ replica' = ClearThreatForEntity(replica, id) /\ loose' = loose
    BY <2>1, TheStep DEF ClearThreatOnDeath, ReplayClearThreat
  <2>3. Fought(live, live') /\ live'.player = live.player /\ Soothed(live, live')
    BY <2>2, ClearThreatFought
  <2> QED BY <2>2, <2>3, FoughtMoved, SoothedStands DEF Fights
<1> QED BY <1>1, <1>2, <1>3, <1>4, <1>5 DEF ThreatStep

\* No command leaves to the loop what its record does not say.
Replayable == Races \cap {"defaults", "cost", "self", "deselect", "again", "forgets"} = {}

\* What every step does.
Works ==
    /\ WorldGood(live')
    /\ "deadActs" \notin Races /\ Standing(live) => Standing(live')
    /\ Replayable /\ replica = live => replica' = live'

\* So every fight and journal step works.
LEMMA FightsWorks ==
    ASSUME NEW fair \in BOOLEAN, Fights(fair), Replayable => fair
    PROVE  Works /\ Moved(live, live') /\ loose' = loose
BY DEF Fights, Works, Moved

LEMMA FightKept ==
    ASSUME WorldGood(live), Settled, FightStep
    PROVE  Works /\ loose' = loose /\ ("forgets" \notin Races => Moved(live, live'))
<1>1. ASSUME NEW t \in Tokens, ConnectStep(t) PROVE Works /\ loose' = loose /\ Moved(live, live')
  BY <1>1, ConnectStepKept, FaredKept DEF Works, Kept
<1>2. ASSUME NEW t \in Tokens, ReconnectStep(t)
      PROVE  Works /\ loose' = loose /\ ("forgets" \notin Races => Moved(live, live'))
  <2>1. /\ Kept(live, live') /\ loose' = loose
        /\ "forgets" \notin Races => Moved(live, live')
        /\ Races \cap {"defaults", "forgets"} = {} /\ replica = live => replica' = live'
    BY <1>2, ReconnectStepKept
  <2>2. Replayable => Races \cap {"defaults", "forgets"} = {}
    BY DEF Replayable
  <2> QED BY <2>1, <2>2 DEF Works, Kept
<1>3. ASSUME NEW t \in Tokens, SessionStep(t) PROVE Works /\ loose' = loose /\ Moved(live, live')
  BY <1>3, SessionStepKept, FaredKept DEF Works, Kept
<1>4. ASSUME NEW t \in Tokens, TargetStep(t) PROVE Works /\ loose' = loose /\ Moved(live, live')
  <2>1. /\ Moved(live, live') /\ loose' = loose
        /\ "deadActs" \notin Races => Fared(live, live')
        /\ "deselect" \notin Races /\ replica = live => replica' = live'
    BY <1>4, TargetStepKept
  <2>2. Replayable => "deselect" \notin Races
    BY DEF Replayable
  <2> QED BY <2>1, <2>2 DEF Works, Fared, Moved
<1>5. ASSUME NEW t \in Tokens, AbilityStep(t) PROVE Works /\ loose' = loose /\ Moved(live, live')
  BY <1>5, AbilityStepKept, FightsWorks DEF Replayable
<1>6. ASSUME NEW t \in Tokens, DamageStep(t) PROVE Works /\ loose' = loose /\ Moved(live, live')
  BY <1>6, DamageStepKept, FightsWorks DEF Replayable
<1>7. ASSUME NEW t \in Tokens, HealStep(t) PROVE Works /\ loose' = loose /\ Moved(live, live')
  BY <1>7, HealStepKept, FightsWorks DEF Replayable
<1>8. ASSUME DeathStep PROVE Works /\ loose' = loose /\ Moved(live, live')
  BY <1>8, DeathStepKept, FightsWorks
<1>9. ASSUME NEW n \in Npcs, RespawnStep(n) PROVE Works /\ loose' = loose /\ Moved(live, live')
  BY <1>9, RespawnStepKept, FightsWorks DEF Replayable, Settled
<1>10. ASSUME NEW n \in Npcs, ThreatStep(n) PROVE Works /\ loose' = loose /\ Moved(live, live')
  BY <1>10, ThreatStepKept, FightsWorks
<1> QED BY <1>1, <1>2, <1>3, <1>4, <1>5, <1>6, <1>7, <1>8, <1>9, <1>10 DEF FightStep

LEMMA JournalKept ==
    ASSUME WorldGood(live), NEW t \in Tokens, JournalStep(t)
    PROVE  Works /\ loose' = loose /\ Moved(live, live')
<1>1. Has(live, t)
  BY DEF JournalStep
<1>2. ASSUME NEW after, NEW replayed, Applies(after, replayed), Fared(live, after),
             Replayable /\ replica = live => replayed = after
      PROVE  Works /\ loose' = loose /\ Moved(live, live')
  <2>1. live' = after /\ replica' = replayed /\ loose' = loose
    BY <1>2, TheStep
  <2> QED BY <1>2, <2>1, FaredKept DEF Works, Kept
<1>3. ASSUME "errand" \notin DOMAIN live.player[t].quests \/ May("again"),
             Applies(AcceptQuest(live, t, "errand"), ReplayAcceptQuest(replica, t, "errand"))
      PROVE  Works /\ loose' = loose /\ Moved(live, live')
  <2>1. ASSUME Replayable, replica = live PROVE ReplayAcceptQuest(replica, t, "errand") = AcceptQuest(live, t, "errand")
    <3> DEFINE quests == live.player[t].quests
               given == IF "errand" \in DOMAIN quests THEN quests ELSE With(quests, "errand", 0)
    <3>1. given = With(quests, "errand", 0)
      BY <1>3, <2>1 DEF Replayable, May
    <3>2. AcceptQuest(live, t, "errand") = Change(live, t, [live.player[t] EXCEPT !.quests = given])
      BY DEF AcceptQuest
    <3>3. ReplayAcceptQuest(live, t, "errand") = Change(live, t, [live.player[t] EXCEPT !.quests = With(quests, "errand", 0)])
      BY DEF ReplayAcceptQuest
    <3> HIDE DEF given
    <3> QED BY <2>1, <3>1, <3>2, <3>3
  <2> QED BY <1>1, <1>2, <1>3, <2>1, JournalCommands
<1>4. ASSUME NEW delta \in {1} \cup OrIf("defaults", {0}),
             Applies(ProgressQuestObjective(live, t, "errand", delta), ReplayProgressQuestObjective(replica, t, "errand", delta))
      PROVE  Works /\ loose' = loose /\ Moved(live, live')
  <2>1. ASSUME Replayable, replica = live
        PROVE  ReplayProgressQuestObjective(replica, t, "errand", delta) = ProgressQuestObjective(live, t, "errand", delta)
    BY <2>1 DEF Replayable, OrIf, May, ReplayProgressQuestObjective, ProgressQuestObjective
  <2> QED BY <1>1, <1>2, <1>4, <2>1, JournalCommands
<1>5. ASSUME Applies(AbandonQuest(live, t, "errand"), ReplayAbandonQuest(replica, t, "errand"))
      PROVE  Works /\ loose' = loose /\ Moved(live, live')
  <2>1. replica = live => ReplayAbandonQuest(replica, t, "errand") = AbandonQuest(live, t, "errand")
    BY DEF ReplayAbandonQuest, AbandonQuest
  <2> QED BY <1>1, <1>2, <1>5, <2>1, JournalCommands
<1>6. ASSUME Applies(CompleteQuest(live, t, "errand"), ReplayCompleteQuest(replica, t, "errand"))
      PROVE  Works /\ loose' = loose /\ Moved(live, live')
  <2>1. replica = live => ReplayCompleteQuest(replica, t, "errand") = CompleteQuest(live, t, "errand")
    BY DEF ReplayCompleteQuest, CompleteQuest
  <2> QED BY <1>1, <1>2, <1>6, <2>1, JournalCommands
<1>7. ASSUME NEW slot, NEW ability, NEW clear, Replayable => (clear <=> ability = NoItem),
             Applies(UpdateActionBar(live, t, slot, ability, clear), ReplayUpdateActionBar(replica, t, slot, ability, clear))
      PROVE  Works /\ loose' = loose /\ Moved(live, live')
  <2>1. ASSUME Replayable, replica = live
        PROVE  ReplayUpdateActionBar(replica, t, slot, ability, clear) = UpdateActionBar(live, t, slot, ability, clear)
    <3> DEFINE bar == live.player[t].bar
               a == IF clear \/ ability = NoItem THEN Without(bar, slot) ELSE With(bar, slot, ability)
               b == IF clear THEN Without(bar, slot) ELSE IF ability # NoItem THEN With(bar, slot, ability) ELSE bar
    <3>1. a = b
      BY <1>7, <2>1
    <3>2. /\ UpdateActionBar(live, t, slot, ability, clear) = Change(live, t, [live.player[t] EXCEPT !.bar = a])
          /\ ReplayUpdateActionBar(live, t, slot, ability, clear) = Change(live, t, [live.player[t] EXCEPT !.bar = b])
      BY DEF UpdateActionBar, ReplayUpdateActionBar
    <3> HIDE DEF a, b
    <3> QED BY <2>1, <3>1, <3>2
  <2> QED BY <1>1, <1>2, <1>7, <2>1, JournalCommands
<1>8. ASSUME NEW slot \in {0, 1}, NEW ability \in {"strike", "mend"},
             Applies(UpdateActionBar(live, t, slot, ability, FALSE), ReplayUpdateActionBar(replica, t, slot, ability, FALSE))
      PROVE  Works /\ loose' = loose /\ Moved(live, live')
  <2>1. ability # NoItem
    BY DEF NoItem
  <2> QED BY <1>7, <1>8, <2>1
<1>9. ASSUME NEW slot \in {0, 1}, NEW clear \in {TRUE} \cup OrIf("defaults", {FALSE}),
             Applies(UpdateActionBar(live, t, slot, NoItem, clear), ReplayUpdateActionBar(replica, t, slot, NoItem, clear))
      PROVE  Works /\ loose' = loose /\ Moved(live, live')
  <2>1. Replayable => clear
    BY DEF Replayable, OrIf, May
  <2> QED BY <1>7, <1>9, <2>1
<1> QED BY <1>3, <1>4, <1>5, <1>6, <1>8, <1>9 DEF JournalStep

\* One more item in the first slot that is empty.
PutOne(bag, item) == With(bag, FirstEmptySlot(bag), item)

\* An item is put in the first empty slot; two are put one after the other.
LEMMA MaxOfFew ==
    /\ Max({1}) = 1 /\ Max({2}) = 2 /\ Max({1, 2}) = 2
<1>1. \A x \in {1} : x = 1
  OBVIOUS
<1>2. ASSUME NEW T \in SUBSET Nat, NEW m \in T, \A y \in T : m >= y PROVE Max(T) = m
  <2>1. Max(T) \in T /\ \A y \in T : Max(T) >= y
    BY <1>2 DEF Max
  <2> HIDE DEF Max
  <2>2. Max(T) >= m /\ m >= Max(T) /\ Max(T) \in Nat /\ m \in Nat
    BY <1>2, <2>1
  <2> QED BY <2>2
<1>3. Max({1}) = 1
  BY <1>2
<1>4. Max({2}) = 2
  BY <1>2
<1>5. Max({1, 2}) = 2
  <2>1. {1, 2} \in SUBSET Nat /\ 2 \in {1, 2} /\ \A y \in {1, 2} : 2 >= y
    OBVIOUS
  <2> QED BY <1>2, <2>1
<1> QED BY <1>3, <1>4, <1>5

\* A list of one item, or of two, is put in a bag item by item.
LEMMA PutIsOne ==
    ASSUME NEW bag, NEW a
    PROVE  PutInBag(bag, <<a>>) = PutOne(bag, a)
<1> DEFINE list == <<a>>
           it == CHOOSE it : it = [s \in SUBSET {1} |->
                     IF s = {} THEN bag ELSE PutOne(it[s \ {Max(s)}], list[Max(s)])]
           g == [s \in SUBSET {1} |-> IF s = {} THEN bag ELSE PutOne(bag, a)]
<1>1. PutInBag(bag, list)
        = MapThenFoldSet(LAMBDA x, y : PutOne(y, x), bag, LAMBDA i : list[i], LAMBDA S : Max(S), {1})
  <2>1. DOMAIN list = {1}
    OBVIOUS
  <2> HIDE DEF list
  <2> QED BY <2>1 DEF PutInBag, FoldLeft, PutOne
<1>2. MapThenFoldSet(LAMBDA x, y : PutOne(y, x), bag, LAMBDA i : list[i], LAMBDA S : Max(S), {1}) = it[{1}]
  BY Zenon DEF MapThenFoldSet
<1>3. g = [s \in SUBSET {1} |-> IF s = {} THEN bag ELSE PutOne(g[s \ {Max(s)}], list[Max(s)])]
  <2>1. ASSUME NEW s \in SUBSET {1}, s # {} PROVE PutOne(g[s \ {Max(s)}], list[Max(s)]) = PutOne(bag, a)
    <3>1. s = {1}
      BY <2>1
    <3>2. s \ {Max(s)} = {} /\ list[Max(s)] = a
      BY <3>1, MaxOfFew
    <3> QED BY <3>2
  <2> QED BY <2>1
<1>4. it = [s \in SUBSET {1} |-> IF s = {} THEN bag ELSE PutOne(it[s \ {Max(s)}], list[Max(s)])]
  <2> HIDE DEF g
  <2> QED BY <1>3
<1> HIDE DEF it
<1>5. it[{}] = bag
  BY <1>4
<1>6. it[{1}] = PutOne(it[{1} \ {Max({1})}], list[Max({1})])
  BY <1>4
<1>7. {1} \ {Max({1})} = {} /\ list[Max({1})] = a
  BY MaxOfFew
<1>8. it[{1}] = PutOne(bag, a)
  BY <1>5, <1>6, <1>7
<1> QED BY <1>1, <1>2, <1>8

LEMMA PutIsTwo ==
    ASSUME NEW bag, NEW a, NEW b
    PROVE  PutInBag(bag, <<a, b>>) = PutOne(PutOne(bag, a), b)
<1> DEFINE list == <<a, b>>
           it == CHOOSE it : it = [s \in SUBSET {1, 2} |->
                     IF s = {} THEN bag ELSE PutOne(it[s \ {Max(s)}], list[Max(s)])]
           one == PutOne(bag, a)
           other == PutOne(bag, b)
           both == PutOne(one, b)
           g == [s \in SUBSET {1, 2} |->
                     IF s = {} THEN bag ELSE IF s = {1} THEN one ELSE IF s = {2} THEN other ELSE both]
<1>1. PutInBag(bag, list)
        = MapThenFoldSet(LAMBDA x, y : PutOne(y, x), bag, LAMBDA i : list[i], LAMBDA S : Max(S), {1, 2})
  <2>1. DOMAIN list = {1, 2}
    OBVIOUS
  <2> HIDE DEF list
  <2> QED BY <2>1 DEF PutInBag, FoldLeft, PutOne
<1>2. MapThenFoldSet(LAMBDA x, y : PutOne(y, x), bag, LAMBDA i : list[i], LAMBDA S : Max(S), {1, 2}) = it[{1, 2}]
  BY Zenon DEF MapThenFoldSet
<1>3. /\ g[{}] = bag /\ g[{1}] = one /\ g[{2}] = other /\ g[{1, 2}] = both
  <2>1. {1} # {} /\ {2} # {} /\ {2} # {1} /\ {1, 2} # {} /\ {1, 2} # {1} /\ {1, 2} # {2}
    OBVIOUS
  <2> HIDE DEF one, other, both
  <2> QED BY <2>1
<1>4. ASSUME NEW s \in SUBSET {1, 2}, s # {} PROVE g[s] = PutOne(g[s \ {Max(s)}], list[Max(s)])
  <2>1. s = {1} \/ s = {2} \/ s = {1, 2}
    BY <1>4
  <2>2. {1} \ {1} = {} /\ {2} \ {2} = {} /\ {1, 2} \ {2} = {1} /\ list[1] = a /\ list[2] = b
    OBVIOUS
  <2> HIDE DEF g, list
  <2>3. CASE s = {1}
    BY <1>3, <2>2, <2>3, MaxOfFew DEF one
  <2>4. CASE s = {2}
    BY <1>3, <2>2, <2>4, MaxOfFew DEF other
  <2>5. CASE s = {1, 2}
    BY <1>3, <2>2, <2>5, MaxOfFew DEF both
  <2> QED BY <2>1, <2>3, <2>4, <2>5
<1>5. g = [s \in SUBSET {1, 2} |-> IF s = {} THEN bag ELSE PutOne(g[s \ {Max(s)}], list[Max(s)])]
  <2>1. g = [s \in SUBSET {1, 2} |-> g[s]]
    OBVIOUS
  <2> HIDE DEF g, list
  <2> QED BY <1>3, <1>4, <2>1
<1>6. it = [s \in SUBSET {1, 2} |-> IF s = {} THEN bag ELSE PutOne(it[s \ {Max(s)}], list[Max(s)])]
  <2> HIDE DEF g, list
  <2> QED BY <1>5
<1>7. list[1] = a /\ list[2] = b
  OBVIOUS
<1> HIDE DEF it, list
<1>8. it[{}] = bag
  BY <1>6
<1>9. it[{1}] = PutOne(it[{1} \ {Max({1})}], list[Max({1})])
  BY <1>6
<1>10. it[{1, 2}] = PutOne(it[{1, 2} \ {Max({1, 2})}], list[Max({1, 2})])
  BY <1>6
<1>11. {1} \ {Max({1})} = {} /\ {1, 2} \ {Max({1, 2})} = {1}
  BY MaxOfFew
<1>12. it[{1, 2}] = both
  BY <1>7, <1>8, <1>9, <1>10, <1>11, MaxOfFew
<1> QED BY <1>1, <1>2, <1>12 DEF list

\* How many of an item a bag has.
HowMany(bag, item) == Cardinality({i \in DOMAIN bag : bag[i] = item})

\* A bag: its slots are numbered, and there are finitely many.
BagGood(bag) ==
    /\ IsMap(bag) /\ DOMAIN bag \subseteq Nat /\ IsFiniteSet(DOMAIN bag)
    /\ \A i \in DOMAIN bag : bag[i] # NoItem

LEMMA EmptyBagGood == BagGood(Empty)
<1>1. DOMAIN Empty = {}
  BY EmptyGood
<1>2. IsMap(Empty)
  BY EmptyGood DEF ThreatGood
<1>3. IsFiniteSet(DOMAIN Empty)
  BY <1>1, FS_EmptySet
<1> QED BY <1>1, <1>2, <1>3 DEF BagGood

LEMMA EmptyBagCounts == \A item : HowMany(Empty, item) = 0
<1> SUFFICES ASSUME NEW item PROVE HowMany(Empty, item) = 0
  OBVIOUS
<1>1. DOMAIN Empty = {}
  BY EmptyGood
<1>2. {i \in DOMAIN Empty : Empty[i] = item} = {}
  BY <1>1
<1> QED BY <1>2, FS_EmptySet DEF HowMany

\* Counts of a bag are numbers.
LEMMA CountIs ==
    ASSUME NEW bag, BagGood(bag), NEW item
    PROVE  IsFiniteSet({i \in DOMAIN bag : bag[i] = item}) /\ HowMany(bag, item) \in Nat
<1>1. IsFiniteSet({i \in DOMAIN bag : bag[i] = item})
  BY FS_Subset DEF BagGood
<1> QED BY <1>1, FS_CardinalityType DEF HowMany

\* The first empty slot is one.
LEMMA SlotIsEmpty ==
    ASSUME NEW bag, BagGood(bag)
    PROVE  FirstEmptySlot(bag) \in Nat \ DOMAIN bag
<1> DEFINE n == Cardinality(DOMAIN bag)
           free == {i \in 0 .. n : ItemIn(bag, i) = NoItem}
<1>1. n \in Nat /\ IsFiniteSet(DOMAIN bag)
  BY FS_CardinalityType DEF BagGood
<1> HIDE DEF n
<1>2. free # {}
  <2> SUFFICES ASSUME free = {} PROVE FALSE
    OBVIOUS
  <2>1. 0 .. n \subseteq DOMAIN bag
    BY DEF ItemIn
  <2>2. Cardinality(0 .. n) = n + 1
    BY <1>1, FS_Interval
  <2>3. Cardinality(0 .. n) <= Cardinality(DOMAIN bag)
    BY <1>1, <2>1, FS_Subset
  <2>4. n + 1 <= n
    BY <2>2, <2>3 DEF n
  <2> QED BY <1>1, <2>4
<1>3. free \in SUBSET Nat
  BY <1>1
<1>4. FirstEmptySlot(bag) = Min(free)
  BY DEF FirstEmptySlot, n
<1>5. Min(free) \in free
  BY <1>2, <1>3, MinIs
<1>6. ASSUME NEW i \in free PROVE i \in Nat \ DOMAIN bag
  BY <1>1, <1>6 DEF ItemIn, BagGood
<1> QED BY <1>4, <1>5, <1>6

\* An item more, and as many of the others.
LEMMA PutOneCounts ==
    ASSUME NEW bag, BagGood(bag), NEW item, item # NoItem
    PROVE  /\ BagGood(PutOne(bag, item))
           /\ HowMany(PutOne(bag, item), item) = HowMany(bag, item) + 1
           /\ \A other : other # item => HowMany(PutOne(bag, item), other) = HowMany(bag, other)
<1> DEFINE slot == FirstEmptySlot(bag)
           more == PutOne(bag, item)
<1>1. slot \in Nat /\ slot \notin DOMAIN bag
  BY SlotIsEmpty
<1>2. Extends(more, bag, slot, item)
  BY WithFacts DEF PutOne
<1> HIDE DEF slot, more
<1>3. /\ IsMap(more) /\ DOMAIN more = DOMAIN bag \cup {slot} /\ more[slot] = item
      /\ \A i \in DOMAIN bag : more[i] = bag[i]
  BY <1>1, <1>2 DEF Extends
<1>4. BagGood(more)
  <2>1. IsFiniteSet(DOMAIN bag \cup {slot})
    BY FS_AddElement DEF BagGood
  <2> QED BY <1>1, <1>3, <2>1 DEF BagGood
<1>5. HowMany(more, item) = HowMany(bag, item) + 1
  <2> DEFINE old == {i \in DOMAIN bag : bag[i] = item}
  <2>1. {i \in DOMAIN more : more[i] = item} = old \cup {slot} /\ slot \notin old
    BY <1>1, <1>3
  <2>2. IsFiniteSet(old) /\ HowMany(bag, item) = Cardinality(old)
    BY CountIs DEF HowMany
  <2> HIDE DEF old
  <2>3. Cardinality(old \cup {slot}) = Cardinality(old) + 1
    BY <2>1, <2>2, FS_AddElement
  <2> QED BY <2>1, <2>2, <2>3 DEF HowMany
<1>6. ASSUME NEW other, other # item PROVE HowMany(more, other) = HowMany(bag, other)
  <2>1. {i \in DOMAIN more : more[i] = other} = {i \in DOMAIN bag : bag[i] = other}
    BY <1>1, <1>3, <1>6
  <2> QED BY <2>1 DEF HowMany
<1> QED BY <1>4, <1>5, <1>6 DEF more

\* An element of a set makes place for another.
LEMMA Replaced ==
    ASSUME NEW S, IsFiniteSet(S), NEW x \in S, NEW y, y \notin S
    PROVE  Cardinality((S \ {x}) \cup {y}) = Cardinality(S)
<1>1. IsFiniteSet(S \ {x}) /\ Cardinality(S \ {x}) = Cardinality(S) - 1
  BY FS_RemoveElement
<1>2. Cardinality((S \ {x}) \cup {y}) = Cardinality(S \ {x}) + 1
  BY <1>1, FS_AddElement
<1>3. Cardinality(S) \in Nat
  BY FS_CardinalityType
<1> QED BY <1>1, <1>2, <1>3

\* Two slots change their items.
LEMMA SwappedCounts ==
    ASSUME NEW bag, BagGood(bag), NEW from \in DOMAIN bag, NEW to \in Nat, from # to
    PROVE  BagGood(Swapped(bag, from, to)) /\ \A item : HowMany(Swapped(bag, from, to), item) = HowMany(bag, item)
<1> DEFINE first == With(bag, from, ItemIn(bag, to))
           moved == With(first, to, ItemIn(bag, from))
           now == Swapped(bag, from, to)
<1>1. Extends(first, bag, from, ItemIn(bag, to)) /\ Extends(moved, first, to, ItemIn(bag, from))
  BY WithFacts
<1>2. ItemIn(bag, from) = bag[from] /\ bag[from] # NoItem /\ from \in Nat
  BY DEF ItemIn, BagGood
<1>3. now = IF ItemIn(moved, from) = NoItem THEN Without(moved, from) ELSE moved
  BY DEF Swapped
<1> HIDE DEF first, moved, now
<1>4. /\ IsMap(moved) /\ DOMAIN moved = DOMAIN bag \cup {to} /\ moved[to] = bag[from] /\ moved[from] = ItemIn(bag, to)
      /\ \A i \in DOMAIN bag : i # from /\ i # to => moved[i] = bag[i]
  BY <1>1, <1>2 DEF Extends
<1>5. CASE to \in DOMAIN bag
  <2>1. ItemIn(bag, to) = bag[to] /\ bag[to] # NoItem
    BY <1>5 DEF ItemIn, BagGood
  <2>2. now = moved
    BY <1>3, <1>4, <2>1 DEF ItemIn
  <2>3. BagGood(moved)
    BY <1>2, <1>4, <1>5, <2>1 DEF BagGood
  <2>4. ASSUME NEW item PROVE HowMany(moved, item) = HowMany(bag, item)
    <3> DEFINE S == {i \in DOMAIN bag : bag[i] = item}
               T == {i \in DOMAIN moved : moved[i] = item}
    <3>1. IsFiniteSet(S)
      BY CountIs
    <3>2. CASE from \in S <=> to \in S
      <4>1. T = S
        BY <1>4, <1>5, <2>1, <3>2
      <4> QED BY <4>1 DEF HowMany
    <3>3. CASE from \in S /\ to \notin S
      <4>1. T = (S \ {from}) \cup {to}
        BY <1>4, <1>5, <2>1, <3>3
      <4> HIDE DEF S
      <4>2. Cardinality((S \ {from}) \cup {to}) = Cardinality(S)
        BY <3>1, <3>3, Replaced
      <4> QED BY <4>1, <4>2 DEF HowMany, S
    <3>4. CASE to \in S /\ from \notin S
      <4>1. T = (S \ {to}) \cup {from}
        BY <1>4, <1>5, <2>1, <3>4
      <4> HIDE DEF S
      <4>2. Cardinality((S \ {to}) \cup {from}) = Cardinality(S)
        BY <3>1, <3>4, Replaced
      <4> QED BY <4>1, <4>2 DEF HowMany, S
    <3> QED BY <3>2, <3>3, <3>4
  <2> QED BY <2>2, <2>3, <2>4 DEF now
<1>6. CASE to \notin DOMAIN bag
  <2>1. moved[from] = NoItem
    BY <1>4, <1>6 DEF ItemIn
  <2>2. now = Without(moved, from)
    BY <1>3, <1>4, <2>1 DEF ItemIn
  <2>3. Lacks(now, moved, from)
    BY <2>2, WithoutFacts
  <2>4. /\ IsMap(now) /\ DOMAIN now = (DOMAIN bag \ {from}) \cup {to} /\ now[to] = bag[from]
        /\ \A i \in DOMAIN bag \ {from} : now[i] = bag[i]
    BY <1>4, <1>6, <2>3 DEF Lacks
  <2>5. BagGood(now)
    <3>1. IsFiniteSet(DOMAIN bag \ {from})
      BY FS_RemoveElement DEF BagGood
    <3>2. IsFiniteSet((DOMAIN bag \ {from}) \cup {to})
      BY <3>1, FS_AddElement
    <3> QED BY <1>2, <2>4, <3>2 DEF BagGood
  <2>6. ASSUME NEW item PROVE HowMany(now, item) = HowMany(bag, item)
    <3> DEFINE S == {i \in DOMAIN bag : bag[i] = item}
               T == {i \in DOMAIN now : now[i] = item}
    <3>1. IsFiniteSet(S) /\ to \notin S
      BY <1>6, CountIs
    <3>2. CASE from \in S
      <4>1. T = (S \ {from}) \cup {to}
        BY <1>6, <2>4, <3>2
      <4> HIDE DEF S
      <4>2. Cardinality((S \ {from}) \cup {to}) = Cardinality(S)
        BY <3>1, <3>2, Replaced
      <4> QED BY <4>1, <4>2 DEF HowMany, S
    <3>3. CASE from \notin S
      <4>1. T = S
        BY <1>6, <2>4, <3>3
      <4> QED BY <4>1 DEF HowMany
    <3> QED BY <3>2, <3>3
  <2> QED BY <2>5, <2>6 DEF now
<1> QED BY <1>5, <1>6

-----------------------------------------------------------------------------
(* What is taken of a list *)

\* What is picked of the lists that are given.
LEMMA ItemsAtAll ==
    /\ \A a : ItemsAt(<<a>>, {1}) = <<a>>
    /\ \A a, b : ItemsAt(<<a, b>>, {1, 2}) = <<a, b>> /\ ItemsAt(<<a, b>>, {2}) = <<b>>
<1>1. ASSUME NEW x PROVE IsFiniteSet({x}) /\ Cardinality({x}) = 1
  BY FS_Singleton
<1>2. Cardinality({1, 2}) = 2
  <2>1. {1, 2} = {1} \cup {2} /\ 2 \notin {1}
    OBVIOUS
  <2>2. Cardinality({1} \cup {2}) = Cardinality({1}) + 1
    BY <1>1, <2>1, FS_AddElement
  <2> QED BY <1>1, <2>1, <2>2
<1>3. ASSUME NEW a PROVE ItemsAt(<<a>>, {1}) = <<a>>
  <2> DEFINE P == {1}
             list == <<a>>
             before(i) == Cardinality({j \in P : j <= i})
             at(k) == CHOOSE i \in P : before(i) = k
  <2>1. ItemsAt(list, P) = [k \in 1 .. Cardinality(P) |-> list[at(k)]]
    BY DEF ItemsAt
  <2>2. {j \in P : j <= 1} = P /\ 1 .. 1 = {1}
    OBVIOUS
  <2>3. before(1) = 1 /\ Cardinality(P) = 1
    BY <1>1, <2>2
  <2> HIDE DEF before
  <2>4. at(1) = 1
    BY <2>3
  <2>5. list = [k \in {1} |-> list[k]] /\ list[1] = a
    OBVIOUS
  <2> HIDE DEF at, list
  <2>6. ItemsAt(list, P) = [k \in {1} |-> list[at(k)]]
    BY <2>1, <2>2, <2>3
  <2>7. [k \in {1} |-> list[at(k)]] = [k \in {1} |-> list[k]]
    BY <2>4
  <2> QED BY <2>5, <2>6, <2>7 DEF list
<1>4. ASSUME NEW a, NEW b PROVE ItemsAt(<<a, b>>, {2}) = <<b>>
  <2> DEFINE P == {2}
             list == <<a, b>>
             one == <<b>>
             before(i) == Cardinality({j \in P : j <= i})
             at(k) == CHOOSE i \in P : before(i) = k
  <2>1. ItemsAt(list, P) = [k \in 1 .. Cardinality(P) |-> list[at(k)]]
    BY DEF ItemsAt
  <2>2. {j \in P : j <= 2} = P /\ 1 .. 1 = {1}
    OBVIOUS
  <2>3. before(2) = 1 /\ Cardinality(P) = 1
    BY <1>1, <2>2
  <2> HIDE DEF before
  <2>4. at(1) = 2
    BY <2>3
  <2>5. one = [k \in {1} |-> one[k]] /\ one[1] = b /\ list[2] = b
    OBVIOUS
  <2> HIDE DEF at, list, one
  <2>6. ItemsAt(list, P) = [k \in {1} |-> list[at(k)]]
    BY <2>1, <2>2, <2>3
  <2>7. [k \in {1} |-> list[at(k)]] = [k \in {1} |-> one[k]]
    BY <2>4, <2>5
  <2> QED BY <2>5, <2>6, <2>7 DEF list, one
<1>5. ASSUME NEW a, NEW b PROVE ItemsAt(<<a, b>>, {1, 2}) = <<a, b>>
  <2> DEFINE P == {1, 2}
             list == <<a, b>>
             before(i) == Cardinality({j \in P : j <= i})
             at(k) == CHOOSE i \in P : before(i) = k
  <2>1. ItemsAt(list, P) = [k \in 1 .. Cardinality(P) |-> list[at(k)]]
    BY DEF ItemsAt
  <2>2. {j \in P : j <= 1} = {1} /\ {j \in P : j <= 2} = P /\ 1 .. 2 = {1, 2}
    OBVIOUS
  <2>3. before(1) = 1 /\ before(2) = 2 /\ Cardinality(P) = 2
    BY <1>1, <1>2, <2>2
  <2> HIDE DEF before
  <2>4. at(1) = 1 /\ at(2) = 2
    BY <2>3
  <2>5. list = [k \in {1, 2} |-> list[k]]
    OBVIOUS
  <2> HIDE DEF at, list
  <2>6. ItemsAt(list, P) = [k \in {1, 2} |-> list[at(k)]]
    BY <2>1, <2>2, <2>3
  <2>7. [k \in {1, 2} |-> list[at(k)]] = [k \in {1, 2} |-> list[k]]
    BY <2>4
  <2> QED BY <2>5, <2>6, <2>7 DEF list
<1> QED BY <1>3, <1>4, <1>5

-----------------------------------------------------------------------------
(* What a player has *)

\* What a claim is worth.
Worth(p, key, amount) == IF key \in p.claims THEN amount ELSE 0

\* A player's bag and money are what its claims are worth and what it was given.
PlayerTally(p, looted, l) ==
    /\ BagGood(p.bag) /\ NoKey \notin p.claims
    /\ p.copper = Worth(p, QuestKey, 2) + Worth(p, "coin", 1) + l.copper
    /\ HowMany(p.bag, "badge") = Worth(p, QuestKey, 1)
    /\ HowMany(p.bag, "fang") = IF looted THEN 1 ELSE 0
    /\ HowMany(p.bag, "hide") - Worth(p, "gift", 1) - l.items \in IF looted THEN {0, 1} ELSE {0}

\* Whether it was this player that claimed the loot.
Looted(w, p) == Corpse \in DOMAIN w.loot /\ w.loot[Corpse].claimed = p.char

\* The corpse has the loot it was generated with, and is claimed by a player or nobody.
ContainerFields == {"owner", "items", "opened", "claimed", "closed"}

LootTally(w) ==
    Corpse \in DOMAIN w.loot => /\ w.loot[Corpse] = [f \in ContainerFields |-> w.loot[Corpse][f]]
                                /\ w.loot[Corpse].items = <<"hide", "fang">>
                                /\ w.loot[Corpse].claimed \in {NoId} \cup DOMAIN w.session

\* Every player has what it claimed and was given, and those not here were given nothing.
Tallied(w, l) ==
    /\ l \in [Tokens -> [copper : Nat, items : Nat]]
    /\ \A t \in Tokens \ DOMAIN w.player : l[t].copper = 0 /\ l[t].items = 0
    /\ LootTally(w)
    /\ \A t \in DOMAIN w.player : PlayerTally(w.player[t], Looted(w, w.player[t]), l[t])

\* Keys and items are different.
LEMMA ItemsDiffer ==
    /\ "badge" # NoItem /\ "hide" # NoItem /\ "fang" # NoItem
    /\ QuestKey # NoKey /\ QuestKey # "coin" /\ QuestKey # "gift" /\ "coin" # NoKey /\ "gift" # NoKey
    /\ LootKey # NoKey /\ LootKey # QuestKey /\ LootKey # "coin" /\ LootKey # "gift" /\ "kill" # QuestKey /\ "kill" # NoKey
BY DEF NoItem, NoKey, QuestKey, LootKey

\* The tally looks at goods and claims only.
LEMMA TallySame ==
    ASSUME NEW p, NEW q, Carries(p, q), NEW looted, NEW l, PlayerTally(p, looted, l)
    PROVE  PlayerTally(q, looted, l)
BY DEF Carries, PlayerTally, Worth

\* Who has nothing has claimed nothing.
LEMMA BeginnerTally ==
    ASSUME NEW p, p.copper = 0, p.claims = {}, p.bag = Empty, NEW l, l.copper = 0, l.items = 0
    PROVE  PlayerTally(p, FALSE, l)
BY EmptyBagGood, EmptyBagCounts DEF PlayerTally, Worth

\* What is not about goods leaves the tally.
LEMMA MovedTally ==
    ASSUME NEW w, WorldGood(w), NEW v, Moved(w, v), NEW l, Tallied(w, l)
    PROVE  Tallied(v, l)
<1>1. SessionsGood(w) /\ SessionsGood(v) /\ v.loot = w.loot /\ DOMAIN w.player \subseteq DOMAIN v.player
  BY DEF Moved, WorldGood
<1>2. DOMAIN w.session \subseteq DOMAIN v.session
  BY <1>1 DEF SessionsGood
<1>3. LootTally(v)
  BY <1>1, <1>2 DEF Tallied, LootTally
<1>4. ASSUME NEW t \in DOMAIN v.player PROVE PlayerTally(v.player[t], Looted(v, v.player[t]), l[t])
  <2>1. v.player[t].char = CharacterOf[t] /\ t \in Tokens /\ CharacterOf[t] # NoId
    BY <1>1, Ids0 DEF SessionsGood, PlayerGood, NoId
  <2>2. CASE t \in DOMAIN w.player
    <3>1. w.player[t].char = CharacterOf[t]
      BY <1>1, <2>2 DEF SessionsGood, PlayerGood
    <3>2. Looted(v, v.player[t]) = Looted(w, w.player[t])
      BY <1>1, <2>1, <3>1 DEF Looted
    <3>3. Carries(w.player[t], v.player[t]) /\ PlayerTally(w.player[t], Looted(w, w.player[t]), l[t])
      BY <2>2 DEF Moved, Tallied
    <3> QED BY <3>2, <3>3, TallySame
  <2>3. CASE t \notin DOMAIN w.player
    <3>1. /\ CharacterOf[t] \notin DOMAIN w.session
          /\ v.player[t].copper = 0 /\ v.player[t].claims = {} /\ v.player[t].bag = Empty
      BY <2>3 DEF Moved
    <3>2. Looted(v, v.player[t]) = FALSE
      BY <1>1, <2>1, <3>1 DEF Looted, Tallied, LootTally
    <3>3. l[t].copper = 0 /\ l[t].items = 0
      BY <2>1, <2>3 DEF Tallied
    <3> QED BY <3>1, <3>2, <3>3, BeginnerTally
  <2> QED BY <2>2, <2>3
<1> QED BY <1>1, <1>3, <1>4 DEF Tallied

\* One player's goods change, and what it was given without a key.
LEMMA PlayerTallied ==
    ASSUME NEW w, WorldGood(w), NEW v, WorldGood(v), NEW t \in DOMAIN w.player,
           v.session = w.session, DOMAIN v.player = DOMAIN w.player, v.loot = w.loot,
           \A u \in DOMAIN w.player : u # t => v.player[u] = w.player[u],
           NEW l, Tallied(w, l), NEW m \in [Tokens -> [copper : Nat, items : Nat]], \A u \in Tokens : u # t => m[u] = l[u],
           PlayerTally(w.player[t], Looted(w, w.player[t]), l[t]) => PlayerTally(v.player[t], Looted(w, w.player[t]), m[t])
    PROVE  Tallied(v, m)
<1>1. t \in Tokens /\ w.player[t].char = CharacterOf[t] /\ v.player[t].char = CharacterOf[t] /\ DOMAIN w.player \subseteq Tokens
  BY DEF WorldGood, SessionsGood, PlayerGood
<1>2. LootTally(v)
  BY DEF Tallied, LootTally
<1>3. \A u \in Tokens \ DOMAIN v.player : m[u].copper = 0 /\ m[u].items = 0
  BY DEF Tallied
<1>4. ASSUME NEW u \in DOMAIN v.player PROVE PlayerTally(v.player[u], Looted(v, v.player[u]), m[u])
  <2>1. CASE u = t
    <3>1. Looted(v, v.player[t]) = Looted(w, w.player[t])
      BY <1>1 DEF Looted
    <3>2. PlayerTally(w.player[t], Looted(w, w.player[t]), l[t])
      BY DEF Tallied
    <3> QED BY <2>1, <3>1, <3>2
  <2>2. CASE u # t
    <3>1. v.player[u] = w.player[u] /\ m[u] = l[u] /\ u \in DOMAIN w.player
      BY <1>1, <2>2
    <3>2. Looted(v, v.player[u]) = Looted(w, w.player[u])
      BY <3>1 DEF Looted
    <3> QED BY <3>1, <3>2 DEF Tallied
  <2> QED BY <2>1, <2>2
<1> QED BY <1>2, <1>3, <1>4 DEF Tallied

\* Every container but the corpse's claim is as it was.
LEMMA LootTallied ==
    ASSUME NEW w, NEW v, v.player = w.player, v.session = w.session, NEW l, Tallied(w, l), LootTally(v),
           \A t \in DOMAIN w.player : Looted(v, w.player[t]) = Looted(w, w.player[t])
    PROVE  Tallied(v, l)
BY DEF Tallied

\* A reward with a key that was not claimed.
LEMMA RewardTally ==
    ASSUME NEW p, NEW looted, NEW l, l.copper \in Nat, PlayerTally(p, looted, l), QuestKey \notin p.claims,
           NEW q, q.copper = p.copper + 2, q.claims = p.claims \cup {QuestKey}, q.bag = PutOne(p.bag, "badge")
    PROVE  PlayerTally(q, looted, l)
<1>1. /\ BagGood(q.bag) /\ HowMany(q.bag, "badge") = HowMany(p.bag, "badge") + 1
      /\ HowMany(q.bag, "hide") = HowMany(p.bag, "hide") /\ HowMany(q.bag, "fang") = HowMany(p.bag, "fang")
  <2>1. BagGood(p.bag) /\ "badge" # "hide" /\ "badge" # "fang"
    BY DEF PlayerTally
  <2> QED BY <2>1, PutOneCounts, ItemsDiffer
<1>2. /\ Worth(q, QuestKey, 1) = 1 /\ Worth(p, QuestKey, 1) = 0 /\ Worth(q, QuestKey, 2) = 2 /\ Worth(p, QuestKey, 2) = 0
      /\ Worth(q, "coin", 1) = Worth(p, "coin", 1) /\ Worth(q, "gift", 1) = Worth(p, "gift", 1)
      /\ Worth(p, "coin", 1) \in Nat
  BY ItemsDiffer DEF Worth
<1>3. NoKey \notin q.claims
  BY ItemsDiffer DEF PlayerTally
<1>4. q.copper = Worth(q, QuestKey, 2) + Worth(q, "coin", 1) + l.copper
  BY <1>2 DEF PlayerTally
<1> QED BY <1>1, <1>2, <1>3, <1>4 DEF PlayerTally

\* A delta: under the key that was not claimed, or without one.
LEMMA CurrencyTally ==
    ASSUME NEW p, NEW looted, NEW l, l.copper \in Nat, PlayerTally(p, looted, l),
           NEW q, q.copper = p.copper + 1, q.bag = p.bag, NEW m, m.items = l.items,
           \/ "coin" \notin p.claims /\ q.claims = p.claims \cup {"coin"} /\ m.copper = l.copper
           \/ q.claims = p.claims /\ m.copper = l.copper + 1
    PROVE  PlayerTally(q, looted, m)
<1>1. /\ Worth(q, QuestKey, 1) = Worth(p, QuestKey, 1) /\ Worth(q, QuestKey, 2) = Worth(p, QuestKey, 2)
      /\ Worth(q, "gift", 1) = Worth(p, "gift", 1) /\ Worth(p, "coin", 1) \in Nat /\ Worth(p, QuestKey, 2) \in Nat
  BY ItemsDiffer DEF Worth
<1>2. NoKey \notin q.claims
  BY ItemsDiffer DEF PlayerTally
<1>3. Worth(q, "coin", 1) + m.copper = Worth(p, "coin", 1) + l.copper + 1
  BY DEF Worth
<1>4. /\ m.copper \in Nat /\ Worth(q, "coin", 1) \in Nat
      /\ p.copper = Worth(p, QuestKey, 2) + Worth(p, "coin", 1) + l.copper
  BY DEF Worth, PlayerTally
<1>5. q.copper = Worth(q, QuestKey, 2) + Worth(q, "coin", 1) + m.copper
  BY <1>1, <1>3, <1>4
<1> QED BY <1>1, <1>2, <1>5 DEF PlayerTally

\* A grant, likewise.
LEMMA GrantTally ==
    ASSUME NEW p, NEW looted, NEW l, l.items \in Nat, PlayerTally(p, looted, l),
           NEW q, q.copper = p.copper, q.bag = PutOne(p.bag, "hide"), NEW m, m.copper = l.copper,
           \/ "gift" \notin p.claims /\ q.claims = p.claims \cup {"gift"} /\ m.items = l.items
           \/ q.claims = p.claims /\ m.items = l.items + 1
    PROVE  PlayerTally(q, looted, m)
<1>1. /\ BagGood(q.bag) /\ HowMany(q.bag, "hide") = HowMany(p.bag, "hide") + 1
      /\ HowMany(q.bag, "badge") = HowMany(p.bag, "badge") /\ HowMany(q.bag, "fang") = HowMany(p.bag, "fang")
      /\ HowMany(p.bag, "hide") \in Nat
  <2>1. BagGood(p.bag) /\ "hide" # "badge" /\ "hide" # "fang"
    BY DEF PlayerTally
  <2>2. HowMany(p.bag, "hide") \in Nat
    BY <2>1, CountIs
  <2>3. /\ BagGood(PutOne(p.bag, "hide")) /\ HowMany(PutOne(p.bag, "hide"), "hide") = HowMany(p.bag, "hide") + 1
        /\ \A other : other # "hide" => HowMany(PutOne(p.bag, "hide"), other) = HowMany(p.bag, other)
    BY <2>1, PutOneCounts, ItemsDiffer
  <2> QED BY <2>1, <2>2, <2>3
<1>2. /\ Worth(q, QuestKey, 1) = Worth(p, QuestKey, 1) /\ Worth(q, QuestKey, 2) = Worth(p, QuestKey, 2)
      /\ Worth(q, "coin", 1) = Worth(p, "coin", 1)
  BY ItemsDiffer DEF Worth
<1>3. NoKey \notin q.claims
  BY ItemsDiffer DEF PlayerTally
<1>4. /\ Worth(q, "gift", 1) + m.items = Worth(p, "gift", 1) + l.items + 1
      /\ Worth(q, "gift", 1) \in Nat /\ Worth(p, "gift", 1) \in Nat /\ m.items \in Nat
  BY DEF Worth
<1>5. HowMany(q.bag, "hide") - Worth(q, "gift", 1) - m.items = HowMany(p.bag, "hide") - Worth(p, "gift", 1) - l.items
  BY <1>1, <1>4
<1> QED BY <1>1, <1>2, <1>3, <1>5 DEF PlayerTally

\* The bag is the same but for the order.
LEMMA SwapTally ==
    ASSUME NEW p, NEW looted, NEW l, PlayerTally(p, looted, l), NEW from \in DOMAIN p.bag, NEW to \in Nat, from # to,
           NEW q, q.copper = p.copper, q.claims = p.claims, q.bag = Swapped(p.bag, from, to)
    PROVE  PlayerTally(q, looted, l)
<1>1. BagGood(q.bag) /\ \A item : HowMany(q.bag, item) = HowMany(p.bag, item)
  BY SwappedCounts DEF PlayerTally
<1> QED BY <1>1 DEF PlayerTally, Worth

\* The loot is claimed: all of it, or what is asked for.
LEMMA ClaimTally ==
    ASSUME NEW p, NEW l, l.items \in Nat, PlayerTally(p, FALSE, l), NEW key \in {LootKey, "kill"},
           NEW q, q.copper = p.copper, q.claims = p.claims \cup {key},
           q.bag \in {PutOne(p.bag, "fang"), PutOne(PutOne(p.bag, "hide"), "fang")}
    PROVE  PlayerTally(q, TRUE, l)
<1>1. /\ Worth(q, QuestKey, 1) = Worth(p, QuestKey, 1) /\ Worth(q, QuestKey, 2) = Worth(p, QuestKey, 2)
      /\ Worth(q, "coin", 1) = Worth(p, "coin", 1) /\ Worth(q, "gift", 1) = Worth(p, "gift", 1)
      /\ Worth(p, "gift", 1) \in Nat
  BY ItemsDiffer DEF Worth, LootKey
<1>2. NoKey \notin q.claims
  BY ItemsDiffer DEF PlayerTally
<1>3. /\ BagGood(q.bag) /\ HowMany(q.bag, "fang") = 1 /\ HowMany(q.bag, "badge") = HowMany(p.bag, "badge")
      /\ HowMany(q.bag, "hide") \in {HowMany(p.bag, "hide"), HowMany(p.bag, "hide") + 1} /\ HowMany(p.bag, "hide") \in Nat
  <2>1. BagGood(p.bag) /\ HowMany(p.bag, "fang") = 0 /\ HowMany(p.bag, "hide") \in Nat
    BY CountIs DEF PlayerTally
  <2>2. "hide" # "badge" /\ "hide" # "fang" /\ "fang" # "badge"
    OBVIOUS
  <2>3. ASSUME NEW bag, BagGood(bag)
        PROVE  /\ BagGood(PutOne(bag, "fang")) /\ HowMany(PutOne(bag, "fang"), "fang") = HowMany(bag, "fang") + 1
               /\ HowMany(PutOne(bag, "fang"), "badge") = HowMany(bag, "badge")
               /\ HowMany(PutOne(bag, "fang"), "hide") = HowMany(bag, "hide")
    BY <2>2, <2>3, PutOneCounts, ItemsDiffer
  <2>4. /\ BagGood(PutOne(p.bag, "hide")) /\ HowMany(PutOne(p.bag, "hide"), "hide") = HowMany(p.bag, "hide") + 1
        /\ HowMany(PutOne(p.bag, "hide"), "badge") = HowMany(p.bag, "badge")
        /\ HowMany(PutOne(p.bag, "hide"), "fang") = HowMany(p.bag, "fang")
    BY <2>1, <2>2, PutOneCounts, ItemsDiffer
  <2>5. CASE q.bag = PutOne(p.bag, "fang")
    BY <2>1, <2>3, <2>5
  <2>6. CASE q.bag = PutOne(PutOne(p.bag, "hide"), "fang")
    BY <2>1, <2>3, <2>4, <2>6
  <2> QED BY <2>5, <2>6
<1>4. HowMany(q.bag, "hide") - Worth(q, "gift", 1) - l.items \in {0, 1}
  BY <1>1, <1>3 DEF PlayerTally
<1> QED BY <1>1, <1>2, <1>3, <1>4 DEF PlayerTally

\* What is left to chance adds up: no reward under another key, no container again.
Exact == Races \cap {"defaults", "otherKey", "anew", "forgets"} = {}

\* What every step does with the goods besides.
Trades == Works /\ (Exact /\ Tallied(live, loose) => Tallied(live', loose'))

\* Two ways in which a step does: what is kept, and what is not changed at all.
LEMMA KeptWorks ==
    ASSUME Kept(live, live'), Replayable /\ replica = live => replica' = live'
    PROVE  Works
BY DEF Kept, Works

LEMMA NothingTraded ==
    ASSUME WorldGood(live), live' = live, Replayable /\ replica = live => replica' = live',
           Exact => loose' = loose
    PROVE  Trades
BY KeptWorks DEF Trades, Kept

\* The tally of one player.
LEMMA TheTally ==
    ASSUME NEW w, NEW l, Tallied(w, l), NEW t \in DOMAIN w.player, t \in Tokens
    PROVE  /\ PlayerTally(w.player[t], Looted(w, w.player[t]), l[t]) /\ l[t].copper \in Nat /\ l[t].items \in Nat
           /\ l \in [Tokens -> [copper : Nat, items : Nat]]
BY DEF Tallied

\* The others' goods are as they were.
OnlyAt(l, m, t) == m \in [Tokens -> [copper : Nat, items : Nat]] /\ \A u \in Tokens : u # t => m[u] = l[u]

\* A player is paid, and its record pays the same.
LEMMA Paid ==
    ASSUME WorldGood(live), NEW t, Has(live, t), NEW q, Richer(live.player[t], q),
           live' = UpsertPlayer(live, t, q),
           Replayable /\ replica = live => replica' = live',
           Exact /\ Tallied(live, loose)
             => /\ OnlyAt(loose, loose', t)
                /\ PlayerTally(q, Looted(live, live.player[t]), loose'[t])
    PROVE  Trades
<1>1. t \in DOMAIN live.player /\ t \in Tokens
  BY APlayer
<1>2. /\ Kept(live, live')
      /\ live'.loot = live.loot /\ live'.session = live.session
      /\ DOMAIN live'.player = DOMAIN live.player /\ live'.player[t] = q
      /\ \A u \in DOMAIN live.player : u # t => live'.player[u] = live.player[u]
  BY RicherKept
<1>3. ASSUME Exact, Tallied(live, loose) PROVE Tallied(live', loose')
  <2>1. /\ loose' \in [Tokens -> [copper : Nat, items : Nat]]
        /\ \A u \in Tokens : u # t => loose'[u] = loose[u]
        /\ PlayerTally(live'.player[t], Looted(live, live.player[t]), loose'[t])
    BY <1>2, <1>3 DEF OnlyAt
  <2> QED BY <1>1, <1>2, <1>3, <2>1, PlayerTallied DEF Kept
<1> QED BY <1>2, <1>3, KeptWorks DEF Trades

\* A reward adds up, and its record pays the same.
LEMMA RewardStepKept ==
    ASSUME WorldGood(live), NEW t \in Tokens, Has(live, t), RewardStep(t)
    PROVE  Trades
<1>1. PICK key \in {NoKey} \cup OrIf("otherKey", {"reward"}), items \in {<<"badge">>} \cup OrIf("defaults", {<<NoItem>>}) :
          Applies(ClaimQuestReward(live, t, "errand", items, 2, key),
                  ReplayClaimQuestReward(replica, t, "errand", items, 2, key))
  BY DEF RewardStep
<1> DEFINE p == live.player[t]
           its == IF key = NoKey THEN QuestKey ELSE key
           some == ItemsAt(items, {i \in DOMAIN items : items[i] # NoItem})
           done == p.done \cup {"errand"}
           copper == p.copper + 2
           claims == p.claims \cup {its}
           bag == PutInBag(p.bag, some)
           full == PutInBag(p.bag, items)
           q == [p EXCEPT !.done = done, !.copper = copper, !.bag = bag, !.claims = claims]
           r == [p EXCEPT !.done = done, !.copper = copper, !.bag = full, !.claims = claims]
<1>2. /\ live' = ClaimQuestReward(live, t, "errand", items, 2, key)
      /\ replica' = ReplayClaimQuestReward(replica, t, "errand", items, 2, key) /\ loose' = loose
  BY <1>1, TheStep
<1>3. /\ ClaimQuestReward(live, t, "errand", items, 2, key) = IF its \in p.claims THEN live ELSE UpsertPlayer(live, t, q)
      /\ ReplayClaimQuestReward(live, t, "errand", items, 2, key)
           = IF its \in p.claims THEN UpsertPlayer(live, t, p) ELSE UpsertPlayer(live, t, r)
  BY DEF ClaimQuestReward, ReplayClaimQuestReward, Change
<1>4. PlayerGood(t, p) /\ t \in DOMAIN live.player
  BY APlayer
<1>5. items = <<"badge">> => some = items
  <2> SUFFICES ASSUME items = <<"badge">> PROVE some = items
    OBVIOUS
  <2>1. {i \in DOMAIN <<"badge">> : <<"badge">>[i] # NoItem} = {1}
    BY ItemsDiffer
  <2> QED BY <2>1, ItemsAtAll
<1>6. items = <<"badge">> => bag = PutOne(p.bag, "badge")
  BY <1>5, PutIsOne
<1>7. /\ Replayable => items = <<"badge">>
      /\ Exact => items = <<"badge">> /\ its = QuestKey
  BY DEF Replayable, Exact, OrIf, May
<1> HIDE DEF some, done, copper, claims
<1>8. Replayable => q = r
  BY <1>5, <1>7
<1>9. CASE its \in p.claims
  <2>1. UpsertPlayer(live, t, p) = live
    BY <1>4, UpsertPlayerSame
  <2>2. live' = live /\ (replica = live => replica' = live)
    BY <1>2, <1>3, <1>9, <2>1
  <2> QED BY <1>2, <2>2, NothingTraded
<1>10. CASE its \notin p.claims
  <2> HIDE DEF p, its, bag, full
  <2>0. p = [f \in PlayerFields |-> p[f]]
    BY <1>4 DEF PlayerGood
  <2>1. Richer(p, q) /\ q.copper = copper /\ q.bag = bag /\ q.claims = claims
    BY <2>0 DEF Richer, PlayerFields
  <2> HIDE DEF q, r
  <2>2. live' = UpsertPlayer(live, t, q) /\ (Replayable /\ replica = live => replica' = live')
    BY <1>2, <1>3, <1>8, <1>10
  <2>3. ASSUME Exact, Tallied(live, loose)
        PROVE  OnlyAt(loose, loose', t) /\ PlayerTally(q, Looted(live, p), loose'[t])
    <3>1. /\ PlayerTally(p, Looted(live, p), loose[t]) /\ loose[t].copper \in Nat
          /\ loose \in [Tokens -> [copper : Nat, items : Nat]]
      BY <1>4, <2>3, TheTally DEF p
    <3>2. its = QuestKey /\ bag = PutOne(p.bag, "badge")
      BY <1>6, <1>7, <2>3
    <3>3. q.copper = p.copper + 2 /\ q.claims = p.claims \cup {QuestKey} /\ q.bag = PutOne(p.bag, "badge")
      BY <2>1, <3>2 DEF copper, claims
    <3>4. PlayerTally(q, Looted(live, p), loose[t])
      BY <1>10, <3>1, <3>2, <3>3, RewardTally
    <3> QED BY <1>2, <3>1, <3>4 DEF OnlyAt
  <2> QED BY <2>1, <2>2, <2>3, Paid DEF p
<1> QED BY <1>9, <1>10

\* A delta of one coin, or a grant of one hide, under a key.
LEMMA KeyCurrencyKept ==
    ASSUME WorldGood(live), NEW t \in Tokens, Has(live, t), NEW key \in {"coin", NoKey},
           live' = ApplyCurrencyDelta(live, t, 1, key), replica' = ReplayCurrencyDelta(replica, t, 1, key),
           key = "coin" => loose' = loose,
           key = NoKey => loose' = [loose EXCEPT ![t].copper = @ + 1]
    PROVE  Trades
<1> DEFINE p == live.player[t]
           copper == p.copper + 1
           claims == p.claims \cup ({key} \ {NoKey})
           q == [p EXCEPT !.copper = copper, !.claims = claims]
<1>1. /\ ApplyCurrencyDelta(live, t, 1, key) = IF key \in p.claims THEN live ELSE UpsertPlayer(live, t, q)
      /\ ReplayCurrencyDelta(live, t, 1, key) = IF key \in p.claims THEN UpsertPlayer(live, t, p) ELSE UpsertPlayer(live, t, q)
  BY DEF ApplyCurrencyDelta, ReplayCurrencyDelta, Change
<1>2. PlayerGood(t, p) /\ t \in DOMAIN live.player
  BY APlayer
<1> HIDE DEF copper, claims
<1>3. CASE key \in p.claims
  <2>1. UpsertPlayer(live, t, p) = live
    BY <1>2, UpsertPlayerSame
  <2>2. live' = live /\ (replica = live => replica' = live)
    BY <1>1, <1>3, <2>1
  <2>3. ASSUME Tallied(live, loose) PROVE loose' = loose
    <3>1. NoKey \notin p.claims
      BY <1>2, <2>3, TheTally DEF PlayerTally
    <3> QED BY <1>3, <3>1
  <2>4. Works
    BY <2>2, KeptWorks DEF Kept
  <2> HIDE DEF p
  <2> QED BY <2>2, <2>3, <2>4 DEF Trades
<1>4. CASE key \notin p.claims
  <2> HIDE DEF p
  <2>0. p = [f \in PlayerFields |-> p[f]]
    BY <1>2 DEF PlayerGood
  <2>1. Richer(p, q) /\ q.copper = copper /\ q.bag = p.bag /\ q.claims = claims
    BY <2>0 DEF Richer, PlayerFields
  <2> HIDE DEF q
  <2>2. live' = UpsertPlayer(live, t, q) /\ (Replayable /\ replica = live => replica' = live')
    BY <1>1, <1>4
  <2>3. ASSUME Exact, Tallied(live, loose)
        PROVE  OnlyAt(loose, loose', t) /\ PlayerTally(q, Looted(live, p), loose'[t])
    <3>1. /\ PlayerTally(p, Looted(live, p), loose[t]) /\ loose[t].copper \in Nat /\ loose[t].items \in Nat
          /\ loose \in [Tokens -> [copper : Nat, items : Nat]]
      BY <1>2, <2>3, TheTally DEF p
    <3>2. /\ OnlyAt(loose, loose', t) /\ loose'[t].items = loose[t].items
          /\ loose'[t].copper = IF key = NoKey THEN loose[t].copper + 1 ELSE loose[t].copper
      <4>1. CASE key = NoKey
        BY <3>1, <4>1 DEF OnlyAt
      <4>2. CASE key # NoKey
        BY <3>1, <4>2 DEF OnlyAt
      <4> QED BY <4>1, <4>2
    <3>3. q.copper = p.copper + 1
      BY <2>1 DEF copper
    <3>4. \/ "coin" \notin p.claims /\ q.claims = p.claims \cup {"coin"} /\ loose'[t].copper = loose[t].copper
          \/ q.claims = p.claims /\ loose'[t].copper = loose[t].copper + 1
      <4>1. CASE key = NoKey
        BY <2>1, <3>2, <4>1 DEF claims
      <4>2. CASE key # NoKey
        BY <1>4, <2>1, <3>2, <4>2 DEF claims
      <4> QED BY <4>1, <4>2
    <3>5. PlayerTally(q, Looted(live, p), loose'[t])
      BY <2>1, <3>1, <3>2, <3>3, <3>4, CurrencyTally
    <3> QED BY <3>2, <3>5
  <2> QED BY <2>1, <2>2, <2>3, Paid DEF p
<1> QED BY <1>3, <1>4

\* So does a grant.
LEMMA GrantKept ==
    ASSUME WorldGood(live), NEW t \in Tokens, Has(live, t), NEW key \in {"gift", NoKey}, NEW quantity \in {0, 1},
           Replayable => quantity = 1,
           live' = ApplyItemGrant(live, t, "hide", quantity, key),
           replica' = ReplayItemGrant(replica, t, "hide", quantity, key),
           key = "gift" => loose' = loose,
           key = NoKey => loose' = [loose EXCEPT ![t].items = @ + 1]
    PROVE  Trades
<1> DEFINE p == live.player[t]
           bag == PutInBag(p.bag, Copies("hide", Higher(1, quantity)))
           less == PutInBag(p.bag, Copies("hide", quantity))
           claims == p.claims \cup ({key} \ {NoKey})
           q == [p EXCEPT !.bag = bag, !.claims = claims]
           r == [p EXCEPT !.bag = less, !.claims = claims]
<1>1. /\ ApplyItemGrant(live, t, "hide", quantity, key) = IF key \in p.claims THEN live ELSE UpsertPlayer(live, t, q)
      /\ ReplayItemGrant(live, t, "hide", quantity, key) = IF key \in p.claims THEN UpsertPlayer(live, t, p) ELSE UpsertPlayer(live, t, r)
  BY DEF ApplyItemGrant, ReplayItemGrant, Change
<1>2. PlayerGood(t, p) /\ t \in DOMAIN live.player
  BY APlayer
<1>3. Higher(1, quantity) = 1
  BY DEF Higher
<1>4. bag = PutOne(p.bag, "hide")
  <2>1. Copies("hide", 1) = <<"hide">>
    BY DEF Copies
  <2> QED BY <1>3, <2>1, PutIsOne
<1>5. Replayable => bag = less
  BY <1>3
<1> HIDE DEF claims, bag, less
<1>6. CASE key \in p.claims
  <2>1. UpsertPlayer(live, t, p) = live
    BY <1>2, UpsertPlayerSame
  <2>2. live' = live /\ (replica = live => replica' = live)
    BY <1>1, <1>6, <2>1
  <2>3. ASSUME Tallied(live, loose) PROVE loose' = loose
    <3>1. NoKey \notin p.claims
      BY <1>2, <2>3, TheTally DEF PlayerTally
    <3> QED BY <1>6, <3>1
  <2>4. Works
    BY <2>2, KeptWorks DEF Kept
  <2> HIDE DEF p
  <2> QED BY <2>2, <2>3, <2>4 DEF Trades
<1>7. CASE key \notin p.claims
  <2> HIDE DEF p
  <2>0. p = [f \in PlayerFields |-> p[f]]
    BY <1>2 DEF PlayerGood
  <2>2. Replayable => r = q
    BY <1>5
  <2>1. Richer(p, q) /\ q.copper = p.copper /\ q.bag = bag /\ q.claims = claims
    BY <2>0 DEF Richer, PlayerFields
  <2> HIDE DEF q, r
  <2>3. live' = UpsertPlayer(live, t, q) /\ (Replayable /\ replica = live => replica' = live')
    BY <1>1, <1>7, <2>2
  <2>4. ASSUME Exact, Tallied(live, loose)
        PROVE  OnlyAt(loose, loose', t) /\ PlayerTally(q, Looted(live, p), loose'[t])
    <3>1. /\ PlayerTally(p, Looted(live, p), loose[t]) /\ loose[t].copper \in Nat /\ loose[t].items \in Nat
          /\ loose \in [Tokens -> [copper : Nat, items : Nat]]
      BY <1>2, <2>4, TheTally DEF p
    <3>2. /\ OnlyAt(loose, loose', t) /\ loose'[t].copper = loose[t].copper
          /\ loose'[t].items = IF key = NoKey THEN loose[t].items + 1 ELSE loose[t].items
      <4>1. CASE key = NoKey
        BY <3>1, <4>1 DEF OnlyAt
      <4>2. CASE key # NoKey
        BY <3>1, <4>2 DEF OnlyAt
      <4> QED BY <4>1, <4>2
    <3>3. q.bag = PutOne(p.bag, "hide")
      BY <1>4, <2>1 DEF p
    <3>4. \/ "gift" \notin p.claims /\ q.claims = p.claims \cup {"gift"} /\ loose'[t].items = loose[t].items
          \/ q.claims = p.claims /\ loose'[t].items = loose[t].items + 1
      <4>1. CASE key = NoKey
        BY <2>1, <3>2, <4>1 DEF claims
      <4>2. CASE key # NoKey
        BY <1>7, <2>1, <3>2, <4>2 DEF claims
      <4> QED BY <4>1, <4>2
    <3>5. PlayerTally(q, Looted(live, p), loose'[t])
      BY <2>1, <3>1, <3>2, <3>3, <3>4, GrantTally
    <3> QED BY <3>2, <3>5
  <2> QED BY <2>1, <2>3, <2>4, Paid DEF p
<1> QED BY <1>6, <1>7

\* An item is moved in the bag.
LEMMA BagStepKept ==
    ASSUME WorldGood(live), NEW t \in Tokens, BagStep(t)
    PROVE  Trades
<1>1. PICK from \in 0 .. 1, to \in 0 .. 1 :
          from # to /\ Applies(MoveInventoryItem(live, t, from, to), ReplayMoveInventoryItem(replica, t, from, to))
  BY DEF BagStep
<1> DEFINE p == live.player[t]
           bag == Swapped(p.bag, from, to)
           q == [p EXCEPT !.bag = bag]
<1>2. /\ live' = MoveInventoryItem(live, t, from, to) /\ replica' = ReplayMoveInventoryItem(replica, t, from, to)
      /\ loose' = loose /\ live' # Refused
  BY <1>1, TheStep
<1>3. Has(live, t) /\ ItemIn(p.bag, from) # NoItem
  BY <1>2 DEF MoveInventoryItem
<1>4. /\ MoveInventoryItem(live, t, from, to) = UpsertPlayer(live, t, q)
      /\ ReplayMoveInventoryItem(live, t, from, to) = UpsertPlayer(live, t, q)
  BY <1>3 DEF MoveInventoryItem, ReplayMoveInventoryItem, Change
<1>5. PlayerGood(t, p) /\ t \in DOMAIN live.player
  BY <1>3, APlayer
<1>6. from \in DOMAIN p.bag
  BY <1>3 DEF ItemIn
<1> HIDE DEF bag, p
<1>7. p = [f \in PlayerFields |-> p[f]]
  BY <1>5 DEF PlayerGood
<1>8. Richer(p, q) /\ q.copper = p.copper /\ q.bag = bag /\ q.claims = p.claims
  BY <1>7 DEF Richer, PlayerFields
<1> HIDE DEF q
<1>9. ASSUME Exact, Tallied(live, loose)
      PROVE  OnlyAt(loose, loose', t) /\ PlayerTally(q, Looted(live, p), loose'[t])
  <2>1. PlayerTally(p, Looted(live, p), loose[t]) /\ loose \in [Tokens -> [copper : Nat, items : Nat]]
    BY <1>5, <1>9, TheTally DEF p
  <2>2. to \in Nat /\ from # to
    BY <1>1
  <2>3. PlayerTally(q, Looted(live, p), loose[t])
    BY <1>6, <1>8, <2>1, <2>2, SwapTally DEF bag
  <2> QED BY <1>2, <2>1, <2>3 DEF OnlyAt
<1>10. live' = UpsertPlayer(live, t, q) /\ (Replayable /\ replica = live => replica' = live')
  BY <1>2, <1>4
<1> QED BY <1>3, <1>8, <1>9, <1>10, Paid DEF p

\* A container is upserted that has the items and the claim it had, or that is new.
LEMMA ContainerTraded ==
    ASSUME WorldGood(live), NEW c, live' = UpsertLootContainer(live, Corpse, c), loose' = loose,
           Replayable /\ replica = live => replica' = live',
           Exact /\ Tallied(live, loose)
             => /\ c = [f \in ContainerFields |-> c[f]] /\ c.items = <<"hide", "fang">>
                /\ c.claimed = IF Corpse \in DOMAIN live.loot THEN live.loot[Corpse].claimed ELSE NoId
    PROVE  Trades
<1>1. /\ Kept(live, live') /\ live'.player = live.player /\ live'.session = live.session
      /\ Extends(live'.loot, live.loot, Corpse, c)
  BY UpsertLootKept
<1>2. ASSUME Exact, Tallied(live, loose) PROVE Tallied(live', loose')
  <2>1. Corpse \in DOMAIN live'.loot /\ live'.loot[Corpse] = c
    BY <1>1 DEF Extends
  <2>2. LootTally(live')
    BY <1>1, <1>2, <2>1 DEF Tallied, LootTally
  <2>3. ASSUME NEW t \in DOMAIN live.player PROVE Looted(live', live.player[t]) = Looted(live, live.player[t])
    <3>1. live.player[t].char # NoId
      BY Ids0 DEF WorldGood, SessionsGood, PlayerGood, NoId
    <3> QED BY <1>2, <2>1, <3>1 DEF Looted
  <2> QED BY <1>1, <1>2, <2>2, <2>3, LootTallied
<1> QED BY <1>1, <1>2, KeptWorks DEF Trades

\* The corpse is generated once.
LEMMA GenerateStepKept ==
    ASSUME WorldGood(live), GenerateStep
    PROVE  Trades
<1>1. PICK owner \in {NoId} \cup Characters :
          Applies(GenerateLoot(live, Corpse, owner, <<"hide", "fang">>),
                  ReplayGenerateLoot(replica, Corpse, owner, <<"hide", "fang">>))
  BY DEF GenerateStep
<1> DEFINE c == [owner |-> owner, items |-> <<"hide", "fang">>, opened |-> NoId, claimed |-> NoId, closed |-> FALSE]
<1>2. live' = UpsertLootContainer(live, Corpse, c) /\ replica' = UpsertLootContainer(replica, Corpse, c) /\ loose' = loose
  BY <1>1, TheStep DEF GenerateLoot, ReplayGenerateLoot
<1>3. DOMAIN c = ContainerFields
  BY DEF ContainerFields
<1>4. c = [f \in ContainerFields |-> c[f]]
  BY <1>3, Zenon
<1>5. c.items = <<"hide", "fang">> /\ c.claimed = NoId
  OBVIOUS
<1>6. Exact => Corpse \notin DOMAIN live.loot
  BY DEF GenerateStep, Exact, May
<1> HIDE DEF c
<1> QED BY <1>2, <1>4, <1>5, <1>6, ContainerTraded

\* A container is opened or closed.
LEMMA Handled ==
    ASSUME WorldGood(live), Corpse \in DOMAIN live.loot, NEW opened, NEW shut, loose' = loose,
           \/ live' = UpsertLootContainer(live, Corpse, [live.loot[Corpse] EXCEPT !.opened = opened])
           \/ live' = UpsertLootContainer(live, Corpse, [live.loot[Corpse] EXCEPT !.closed = shut]),
           Replayable /\ replica = live => replica' = live'
    PROVE  Trades
<1> DEFINE b == live.loot[Corpse]
           c == [b EXCEPT !.opened = opened]
           d == [b EXCEPT !.closed = shut]
<1>1. ASSUME Tallied(live, loose)
      PROVE  /\ c = [f \in ContainerFields |-> c[f]] /\ c.items = <<"hide", "fang">> /\ c.claimed = b.claimed
             /\ d = [f \in ContainerFields |-> d[f]] /\ d.items = <<"hide", "fang">> /\ d.claimed = b.claimed
  <2>1. b = [f \in ContainerFields |-> b[f]] /\ b.items = <<"hide", "fang">>
    BY <1>1 DEF Tallied, LootTally
  <2> HIDE DEF b
  <2> QED BY <2>1 DEF ContainerFields
<1> HIDE DEF c, d
<1>2. live' = UpsertLootContainer(live, Corpse, c) \/ live' = UpsertLootContainer(live, Corpse, d)
  BY DEF c, d
<1>3. CASE live' = UpsertLootContainer(live, Corpse, c)
  BY <1>1, <1>3, ContainerTraded
<1>4. CASE live' = UpsertLootContainer(live, Corpse, d)
  BY <1>1, <1>4, ContainerTraded
<1> QED BY <1>2, <1>3, <1>4

\* It is closed and opened.
LEMMA CloseStepKept ==
    ASSUME WorldGood(live), Applies(CloseLoot(live, Corpse), ReplayCloseLoot(replica, Corpse))
    PROVE  Trades
<1>1. live' = CloseLoot(live, Corpse) /\ replica' = ReplayCloseLoot(replica, Corpse) /\ loose' = loose /\ live' # Refused
  BY TheStep
<1>2. /\ Corpse \in DOMAIN live.loot
      /\ live' = UpsertLootContainer(live, Corpse, [live.loot[Corpse] EXCEPT !.closed = TRUE])
  BY <1>1 DEF CloseLoot
<1>3. replica = live => replica' = live'
  BY <1>1 DEF CloseLoot, ReplayCloseLoot
<1> QED BY <1>1, <1>2, <1>3, Handled

LEMMA OpenStepKept ==
    ASSUME WorldGood(live), NEW t, Applies(OpenLoot(live, t, Corpse), ReplayOpenLoot(replica, t, Corpse))
    PROVE  Trades
<1>1. live' = OpenLoot(live, t, Corpse) /\ replica' = ReplayOpenLoot(replica, t, Corpse) /\ loose' = loose /\ live' # Refused
  BY TheStep
<1>2. /\ Corpse \in DOMAIN live.loot /\ Has(live, t)
      /\ live' = UpsertLootContainer(live, Corpse, [live.loot[Corpse] EXCEPT !.opened = live.player[t].char])
  BY <1>1 DEF OpenLoot, MayLoot
<1>3. replica = live => replica' = live'
  BY <1>1, <1>2 DEF ReplayOpenLoot
<1> QED BY <1>1, <1>2, <1>3, Handled

\* What is taken of the corpse.
LEMMA TakenIs ==
    ASSUME NEW item \in {NoItem, "fang"}, NEW bag
    PROVE  LET there == <<"hide", "fang">>
               taken == ItemsAt(there, {i \in DOMAIN there : item \in {NoItem, there[i]}})
           IN  PutInBag(bag, taken) \in {PutOne(bag, "fang"), PutOne(PutOne(bag, "hide"), "fang")}
<1> DEFINE there == <<"hide", "fang">>
           places == {i \in DOMAIN there : item \in {NoItem, there[i]}}
<1>1. DOMAIN there = {1, 2} /\ there[1] = "hide" /\ there[2] = "fang"
  OBVIOUS
<1>2. CASE item = NoItem
  <2>1. places = {1, 2}
    BY <1>1, <1>2
  <2> QED BY <2>1, ItemsAtAll, PutIsTwo
<1>3. CASE item = "fang"
  <2>1. places = {2}
    BY <1>1, <1>3, ItemsDiffer
  <2> QED BY <2>1, ItemsAtAll, PutIsOne
<1> QED BY <1>2, <1>3

\* Whose loot is claimed, before and after a claim.
LEMMA ClaimedBy ==
    ASSUME NEW w, WorldGood(w), NEW t \in DOMAIN w.player, NEW l, Tallied(w, l), w.loot[Corpse].claimed = NoId,
           Corpse \in DOMAIN w.loot,
           NEW q, Richer(w.player[t], q), PlayerTally(w.player[t], FALSE, l[t]) => PlayerTally(q, TRUE, l[t]),
           NEW v, WorldGood(v), v.session = w.session, DOMAIN v.player = DOMAIN w.player, v.player[t] = q,
           \A u \in DOMAIN w.player : u # t => v.player[u] = w.player[u],
           NEW c, Extends(v.loot, w.loot, Corpse, c), c = [w.loot[Corpse] EXCEPT !.claimed = CharacterOf[t]]
    PROVE  Tallied(v, l)
<1> DEFINE b == w.loot[Corpse]
<1>1. /\ \A u \in DOMAIN w.player : /\ w.player[u].char = CharacterOf[u] /\ v.player[u].char = CharacterOf[u]
                                   /\ w.session[CharacterOf[u]] = u /\ CharacterOf[u] # NoId
      /\ CharacterOf[t] \in DOMAIN w.session /\ DOMAIN w.player \subseteq Tokens
  BY Ids0 DEF WorldGood, SessionsGood, PlayerGood, NoId
<1>2. b = [f \in ContainerFields |-> b[f]] /\ b.items = <<"hide", "fang">>
  BY DEF Tallied, LootTally
<1>3. Corpse \in DOMAIN v.loot /\ v.loot[Corpse] = c
  BY DEF Extends
<1>4. c = [f \in ContainerFields |-> c[f]] /\ c.items = <<"hide", "fang">> /\ c.claimed = CharacterOf[t]
  <2> HIDE DEF b
  <2>1. c = [b EXCEPT !.claimed = CharacterOf[t]]
    BY DEF b
  <2> QED BY <1>2, <2>1 DEF ContainerFields
<1>5. LootTally(v)
  BY <1>1, <1>3, <1>4 DEF LootTally
<1>6. ASSUME NEW u \in DOMAIN v.player PROVE PlayerTally(v.player[u], Looted(v, v.player[u]), l[u])
  <2>1. Looted(w, w.player[u]) = FALSE
    BY <1>1 DEF Looted
  <2>2. PlayerTally(w.player[u], FALSE, l[u])
    BY <2>1 DEF Tallied
  <2>3. CASE u = t
    <3>1. Looted(v, v.player[u]) = TRUE
      BY <1>1, <1>3, <1>4, <2>3 DEF Looted
    <3> QED BY <2>2, <2>3, <3>1
  <2>4. CASE u # t
    <3>1. Looted(v, v.player[u]) = FALSE
      BY <1>1, <1>3, <1>4, <2>4 DEF Looted
    <3> QED BY <2>2, <2>4, <3>1
  <2> QED BY <2>3, <2>4
<1> QED BY <1>5, <1>6 DEF Tallied

\* The loot is claimed: by one player, once.
LEMMA ClaimStepKept ==
    ASSUME WorldGood(live), NEW t, NEW item \in {NoItem, "fang"}, NEW key \in {NoKey, "kill"},
           Applies(ClaimLoot(live, t, Corpse, item, key), ReplayClaimLoot(replica, t, Corpse, item, key))
    PROVE  Trades
<1> DEFINE p == live.player[t]
           its == IF key = NoKey THEN LootKey ELSE key
           b == live.loot[Corpse]
           there == b.items
           taken == ItemsAt(there, {i \in DOMAIN there : item \in {NoItem, there[i]}})
           bag == PutInBag(p.bag, taken)
           claims == p.claims \cup {its}
           q == [p EXCEPT !.bag = bag, !.claims = claims]
           c == [b EXCEPT !.claimed = p.char]
           u == UpsertPlayer(live, t, q)
           v == UpsertLootContainer(u, Corpse, c)
<1>1. /\ live' = ClaimLoot(live, t, Corpse, item, key) /\ replica' = ReplayClaimLoot(replica, t, Corpse, item, key)
      /\ loose' = loose /\ live' # Refused
  BY TheStep
<1>2. MayLoot(live, t, Corpse)
  BY <1>1 DEF ClaimLoot
<1>3. Has(live, t) /\ Corpse \in DOMAIN live.loot
  BY <1>2 DEF MayLoot
<1>4. PlayerGood(t, p) /\ t \in DOMAIN live.player /\ t \in Tokens
  BY <1>3, APlayer
<1>5. TakeFrom(live, t, Corpse, item, its) = v
  BY DEF TakeFrom
<1>6. /\ ClaimLoot(live, t, Corpse, item, key)
           = IF its \in p.claims \/ b.claimed # NoId THEN live ELSE TakeFrom(live, t, Corpse, item, its)
      /\ ReplayClaimLoot(live, t, Corpse, item, key)
           = IF its \in p.claims \/ b.claimed # NoId THEN UpsertPlayer(live, t, p) ELSE TakeFrom(live, t, Corpse, item, its)
  BY <1>2, <1>3 DEF ClaimLoot, ReplayClaimLoot
<1>7. its \in {LootKey, "kill"}
  OBVIOUS
<1>8. p.char = CharacterOf[t] /\ p = [f \in PlayerFields |-> p[f]]
  BY <1>4 DEF PlayerGood
<1> HIDE DEF its, bag, claims
<1>9. CASE its \in p.claims \/ b.claimed # NoId
  <2>1. UpsertPlayer(live, t, p) = live
    BY <1>4, UpsertPlayerSame
  <2>2. live' = live /\ (replica = live => replica' = live)
    BY <1>1, <1>6, <1>9, <2>1
  <2> QED BY <1>1, <2>2, NothingTraded
<1>10. CASE ~(its \in p.claims \/ b.claimed # NoId)
  <2> HIDE DEF p
  <2>1. Richer(p, q) /\ q.copper = p.copper /\ q.bag = bag /\ q.claims = claims
    BY <1>8 DEF Richer, PlayerFields
  <2> HIDE DEF q
  <2>2. /\ Kept(live, u) /\ u.loot = live.loot /\ u.session = live.session
        /\ DOMAIN u.player = DOMAIN live.player /\ u.player[t] = q
        /\ \A s \in DOMAIN live.player : s # t => u.player[s] = live.player[s]
    BY <1>3, <2>1, RicherKept DEF p
  <2> HIDE DEF u, c
  <2>3. /\ Kept(u, v) /\ v.player = u.player /\ v.session = u.session
        /\ Extends(v.loot, u.loot, Corpse, c)
    BY <2>2, UpsertLootKept DEF Kept
  <2>4. /\ Kept(live, v) /\ v.session = live.session
        /\ DOMAIN v.player = DOMAIN live.player /\ v.player[t] = q
        /\ \A s \in DOMAIN live.player : s # t => v.player[s] = live.player[s]
        /\ Extends(v.loot, live.loot, Corpse, c)
    BY <2>2, <2>3 DEF Kept
  <2> HIDE DEF v
  <2>5. live' = v /\ (Replayable /\ replica = live => replica' = live')
    BY <1>1, <1>5, <1>6, <1>10
  <2>6. ASSUME Tallied(live, loose) PROVE Tallied(v, loose)
    <3>1. loose[t].items \in Nat
      BY <1>4, <2>6, TheTally
    <3>2. there = <<"hide", "fang">>
      BY <1>3, <2>6 DEF Tallied, LootTally
    <3>3. bag \in {PutOne(p.bag, "fang"), PutOne(PutOne(p.bag, "hide"), "fang")}
      BY <3>2, TakenIs DEF bag
    <3>4. PlayerTally(p, FALSE, loose[t]) => PlayerTally(q, TRUE, loose[t])
      BY <1>7, <2>1, <3>1, <3>3, ClaimTally DEF claims
    <3>5. c = [live.loot[Corpse] EXCEPT !.claimed = CharacterOf[t]] /\ live.loot[Corpse].claimed = NoId
      BY <1>8, <1>10 DEF c, p
    <3>6. Richer(live.player[t], q) /\ (PlayerTally(live.player[t], FALSE, loose[t]) => PlayerTally(q, TRUE, loose[t]))
      BY <2>1, <3>4 DEF p
    <3>7. WorldGood(v)
      BY <2>4 DEF Kept
    <3> HIDE DEF b
    <3> QED BY <1>3, <1>4, <2>4, <2>6, <3>5, <3>6, <3>7, ClaimedBy
  <2>7. Works
    BY <2>4, <2>5, KeptWorks
  <2> QED BY <1>1, <2>5, <2>6, <2>7 DEF Trades
<1> QED BY <1>9, <1>10

\* The goods steps together.
LEMMA LootStepKept ==
    ASSUME WorldGood(live), NEW t, LootStep(t)
    PROVE  Trades
<1>1. CASE Applies(OpenLoot(live, t, Corpse), ReplayOpenLoot(replica, t, Corpse))
  BY <1>1, OpenStepKept
<1>2. CASE \E item \in {NoItem, "fang"}, key \in {NoKey, "kill"} :
              Applies(ClaimLoot(live, t, Corpse, item, key), ReplayClaimLoot(replica, t, Corpse, item, key))
  BY <1>2, ClaimStepKept
<1> QED BY <1>1, <1>2 DEF LootStep

LEMMA CurrencyStepKept ==
    ASSUME WorldGood(live), NEW t \in Tokens, Has(live, t), CurrencyStep(t)
    PROVE  Trades
<1>1. "coin" # NoKey
  BY ItemsDiffer
<1>2. CASE Applies(ApplyCurrencyDelta(live, t, 1, "coin"), ReplayCurrencyDelta(replica, t, 1, "coin"))
  <2>1. /\ live' = ApplyCurrencyDelta(live, t, 1, "coin") /\ replica' = ReplayCurrencyDelta(replica, t, 1, "coin")
        /\ loose' = loose
    BY <1>2, TheStep
  <2> QED BY <1>1, <2>1, KeyCurrencyKept
<1>3. CASE /\ Step(ApplyCurrencyDelta(live, t, 1, NoKey), ReplayCurrencyDelta(replica, t, 1, NoKey))
           /\ loose' = [loose EXCEPT ![t].copper = @ + 1]
  <2>1. /\ live' = ApplyCurrencyDelta(live, t, 1, NoKey) /\ replica' = ReplayCurrencyDelta(replica, t, 1, NoKey)
        /\ loose' = [loose EXCEPT ![t].copper = @ + 1]
    BY <1>3 DEF Step
  <2> QED BY <1>1, <2>1, KeyCurrencyKept
<1> QED BY <1>2, <1>3 DEF CurrencyStep

LEMMA GrantStepKept ==
    ASSUME WorldGood(live), NEW t \in Tokens, Has(live, t), GrantStep(t)
    PROVE  Trades
<1>1. PICK quantity \in {1} \cup OrIf("defaults", {0}) :
        \/ Applies(ApplyItemGrant(live, t, "hide", quantity, "gift"),
                 ReplayItemGrant(replica, t, "hide", quantity, "gift"))
        \/ /\ Step(ApplyItemGrant(live, t, "hide", quantity, NoKey),
                   ReplayItemGrant(replica, t, "hide", quantity, NoKey))
           /\ loose' = [loose EXCEPT ![t].items = @ + 1]
  BY DEF GrantStep
<1>2. "gift" # NoKey /\ quantity \in {0, 1} /\ (Replayable => quantity = 1)
  BY ItemsDiffer DEF OrIf, May, Replayable
<1>3. CASE Applies(ApplyItemGrant(live, t, "hide", quantity, "gift"), ReplayItemGrant(replica, t, "hide", quantity, "gift"))
  <2>1. /\ live' = ApplyItemGrant(live, t, "hide", quantity, "gift")
        /\ replica' = ReplayItemGrant(replica, t, "hide", quantity, "gift")
        /\ loose' = loose
    BY <1>3, TheStep
  <2> QED BY <1>2, <2>1, GrantKept
<1>4. CASE /\ Step(ApplyItemGrant(live, t, "hide", quantity, NoKey), ReplayItemGrant(replica, t, "hide", quantity, NoKey))
           /\ loose' = [loose EXCEPT ![t].items = @ + 1]
  <2>1. /\ live' = ApplyItemGrant(live, t, "hide", quantity, NoKey)
        /\ replica' = ReplayItemGrant(replica, t, "hide", quantity, NoKey)
        /\ loose' = [loose EXCEPT ![t].items = @ + 1]
    BY <1>4 DEF Step
  <2> QED BY <1>2, <2>1, GrantKept
<1> QED BY <1>1, <1>3, <1>4

\* What a step does that is not about goods.
LEMMA MovedTrades ==
    ASSUME WorldGood(live), Works, loose' = loose, "forgets" \notin Races => Moved(live, live')
    PROVE  Trades
<1>1. ASSUME Exact, Tallied(live, loose) PROVE Tallied(live', loose')
  BY <1>1, MovedTally DEF Exact
<1> QED BY <1>1 DEF Trades

\* Every step keeps what the theorems say.
LEMMA NextTrades ==
    ASSUME WorldGood(live), Settled, CommandsNext
    PROVE  Trades
<1>1. CASE FightStep
  BY <1>1, FightKept, MovedTrades
<1>2. ASSUME NEW t \in Tokens, JournalStep(t) PROVE Trades
  BY <1>2, JournalKept, MovedTrades
<1>3. CASE GoodsStep
  <2>1. ASSUME NEW t \in Tokens, Has(live, t), t \in Earners /\ (RewardStep(t) \/ CurrencyStep(t) \/ GrantStep(t) \/ BagStep(t))
        PROVE  Trades
    BY <2>1, RewardStepKept, CurrencyStepKept, GrantStepKept, BagStepKept
  <2>2. ASSUME NEW t \in Tokens, LootStep(t) PROVE Trades
    BY <2>2, LootStepKept
  <2>3. ASSUME NEW t \in Tokens, ReconnectStep(t) PROVE Trades
    <3>1. /\ Kept(live, live') /\ loose' = loose
          /\ "forgets" \notin Races => Moved(live, live')
          /\ Races \cap {"defaults", "forgets"} = {} /\ replica = live => replica' = live'
      BY <2>3, ReconnectStepKept
    <3>2. Replayable => Races \cap {"defaults", "forgets"} = {}
      BY DEF Replayable
    <3>3. Works
      BY <3>1, <3>2, KeptWorks
    <3> QED BY <3>1, <3>3, MovedTrades
  <2>4. CASE GenerateStep
    BY <2>4, GenerateStepKept
  <2>5. CASE Applies(CloseLoot(live, Corpse), ReplayCloseLoot(replica, Corpse))
    BY <2>5, CloseStepKept
  <2> QED BY <1>3, <2>1, <2>2, <2>3, <2>4, <2>5 DEF GoodsStep
<1> QED BY <1>1, <1>2, <1>3 DEF CommandsNext

-----------------------------------------------------------------------------
(* Theorems *)

\* The initial snapshot has it all.
LEMMA InitHolds ==
    ASSUME Settled, CommandsInit
    PROVE  WorldGood(live) /\ Standing(live) /\ replica = live /\ Tallied(live, loose)
<1>1. Natives[scene] \in SUBSET Tokens /\ Apart(Natives[scene])
  BY ShardCommandsAssumption DEF CommandsInit, Settled
<1>2. live = WorldOf(Natives[scene]) /\ replica = live /\ loose = [t \in Tokens |-> [copper |-> 0, items |-> 0]]
  BY DEF CommandsInit
<1>3. /\ WorldGood(live) /\ Standing(live) /\ live.loot = Empty
      /\ \A t \in DOMAIN live.player :
            live.player[t].copper = 0 /\ live.player[t].claims = {} /\ live.player[t].bag = Empty
  BY <1>1, <1>2, StartGood
<1>4. Corpse \notin DOMAIN live.loot
  BY <1>3, EmptyGood
<1>5. /\ loose \in [Tokens -> [copper : Nat, items : Nat]]
      /\ \A t \in Tokens : loose[t].copper = 0 /\ loose[t].items = 0
  BY <1>2
<1>6. LootTally(live)
  BY <1>4 DEF LootTally
<1>7. ASSUME NEW t \in DOMAIN live.player PROVE PlayerTally(live.player[t], Looted(live, live.player[t]), loose[t])
  <2>1. t \in Tokens
    BY <1>3 DEF WorldGood, SessionsGood
  <2>2. Looted(live, live.player[t]) = FALSE
    BY <1>4 DEF Looted
  <2>3. loose[t].copper = 0 /\ loose[t].items = 0
    BY <1>5, <2>1
  <2>4. live.player[t].copper = 0 /\ live.player[t].claims = {} /\ live.player[t].bag = Empty
    BY <1>3
  <2>5. PlayerTally(live.player[t], FALSE, loose[t])
    BY <2>3, <2>4, BeginnerTally
  <2> QED BY <2>2, <2>5
<1> QED BY <1>2, <1>3, <1>5, <1>6, <1>7 DEF Tallied

\* A step that stutters.
LEMMA StillWorld ==
    ASSUME UNCHANGED shard PROVE live' = live /\ replica' = replica /\ loose' = loose
BY DEF shard

\* The sessions are of different characters, each the one its character has, and the
\* NPCs' tables are tables: what the other theorems about the commands rest on.
THEOREM WorldAlwaysGood ==
    ASSUME Settled PROVE CommandsSpec => []WorldGood(live)
<1>1. CommandsInit => WorldGood(live)
  BY InitHolds
<1>2. WorldGood(live) /\ [CommandsNext]_shard => WorldGood(live)'
  <2>1. ASSUME WorldGood(live), CommandsNext PROVE WorldGood(live')
    BY <2>1, NextTrades DEF Trades, Works
  <2> QED BY <2>1, StillWorld
<1> QED BY <1>1, <1>2, PTL DEF CommandsSpec

\* The records replay to the world the loop is at, whatever commands are applied and in
\* what order, as long as no command leaves to the loop what its record does not say
\* (Replay and applyReplayRecord; see ReplayReproduces).
THEOREM ReplayAlwaysReproduces ==
    ASSUME Settled, Replayable PROVE CommandsSpec => []ReplayReproduces
<1> DEFINE Inv == WorldGood(live) /\ replica = live
<1>1. CommandsInit => Inv
  BY InitHolds
<1>2. Inv /\ [CommandsNext]_shard => Inv'
  <2>1. ASSUME Inv, CommandsNext PROVE WorldGood(live') /\ replica' = live'
    BY <2>1, NextTrades DEF Trades, Works
  <2> QED BY <2>1, StillWorld
<1>3. Inv => ReplayReproduces
  BY DEF ReplayReproduces
<1> QED BY <1>1, <1>2, <1>3, PTL DEF CommandsSpec

\* The invariant of the fights is what DeadAreOut says.
LEMMA StandingOut ==
    ASSUME WorldGood(live), Standing(live) PROVE DeadAreOut
<1>1. ASSUME NEW id \in DOMAIN live.session
      PROVE  /\ TokenOf(live, id) \in DOMAIN live.player /\ id = CharacterOf[TokenOf(live, id)]
  BY DEF WorldGood, SessionsGood, TokenOf
<1>2. ASSUME NEW id \in DOMAIN live.session, ~live.player[TokenOf(live, id)].alive
      PROVE  /\ live.player[TokenOf(live, id)].health = 0 /\ ~live.player[TokenOf(live, id)].auto
             /\ \A n \in DOMAIN live.npc : id \notin DOMAIN live.npc[n].threat
  <2>1. PICK t \in DOMAIN live.player : t = TokenOf(live, id) /\ id = CharacterOf[t]
    BY <1>1
  <2> QED BY <1>2, <2>1 DEF Standing
<1>3. ASSUME NEW n \in DOMAIN live.npc
      PROVE  /\ ~live.npc[n].alive => live.npc[n].health = 0 /\ ~live.npc[n].targetable /\ live.npc[n].threat = Empty
             /\ live.npc[n].target = HighestThreatTarget(live.npc[n].threat)
  BY DEF Standing, NpcStands
<1> QED BY <1>2, <1>3 DEF DeadAreOut

\* The dead have no health, do not attack and are in nobody's threat, and an NPC's target
\* leads its threat (applyDamage, resolveDeath, clearThreatForEntity; see DeadAreOut), as
\* long as the services let no dead player act.
THEOREM DeadAlwaysOut ==
    ASSUME Settled, "deadActs" \notin Races PROVE CommandsSpec => []DeadAreOut
<1> DEFINE Inv == WorldGood(live) /\ Standing(live)
<1>1. CommandsInit => Inv
  BY InitHolds
<1>2. Inv /\ [CommandsNext]_shard => Inv'
  <2>1. ASSUME Inv, CommandsNext PROVE WorldGood(live') /\ Standing(live')
    BY <2>1, NextTrades DEF Trades, Works
  <2> QED BY <2>1, StillWorld
<1>3. Inv => DeadAreOut
  BY StandingOut
<1> QED BY <1>1, <1>2, <1>3, PTL DEF CommandsSpec

\* The tally is what ClaimsAddUp says.
LEMMA TalliedAddsUp ==
    ASSUME Tallied(live, loose) PROVE ClaimsAddUp
<1> SUFFICES ASSUME NEW t \in DOMAIN live.player
             PROVE  LET p == live.player[t]
                        worth(key, amount) == IF key \in p.claims THEN amount ELSE 0
                        count(item) == Cardinality({i \in DOMAIN p.bag : p.bag[i] = item})
                        looted == Corpse \in DOMAIN live.loot /\ live.loot[Corpse].claimed = p.char
                    IN /\ p.copper = worth(QuestKey, 2) + worth("coin", 1) + loose[t].copper
                       /\ count("badge") = worth(QuestKey, 1)
                       /\ count("fang") = IF looted THEN 1 ELSE 0
                       /\ count("hide") - worth("gift", 1) - loose[t].items \in IF looted THEN {0, 1} ELSE {0}
  BY DEF ClaimsAddUp
<1> DEFINE p == live.player[t]
<1>1. PlayerTally(p, Looted(live, p), loose[t])
  BY DEF Tallied
<1>2. /\ p.copper = Worth(p, QuestKey, 2) + Worth(p, "coin", 1) + loose[t].copper
      /\ HowMany(p.bag, "badge") = Worth(p, QuestKey, 1)
      /\ HowMany(p.bag, "fang") = IF Looted(live, p) THEN 1 ELSE 0
      /\ HowMany(p.bag, "hide") - Worth(p, "gift", 1) - loose[t].items \in IF Looted(live, p) THEN {0, 1} ELSE {0}
  BY <1>1 DEF PlayerTally
<1> QED BY <1>2 DEF Worth, Looted, HowMany

\* A player has what its claims are worth, what it was given without a key and what it
\* took of the loot it claimed, however often anything is claimed and by whom (see
\* ClaimsAddUp), as long as the key, the corpse and the items are always the same ones.
THEOREM ClaimsAlwaysAddUp ==
    ASSUME Settled, Exact PROVE CommandsSpec => []ClaimsAddUp
<1> DEFINE Inv == WorldGood(live) /\ Tallied(live, loose)
<1>1. CommandsInit => Inv
  BY InitHolds
<1>2. Inv /\ [CommandsNext]_shard => Inv'
  <2>1. ASSUME Inv, CommandsNext PROVE WorldGood(live') /\ Tallied(live', loose')
    BY <2>1, NextTrades DEF Trades, Works
  <2> QED BY <2>1, StillWorld
<1>3. Inv => ClaimsAddUp
  BY TalliedAddsUp
<1> QED BY <1>1, <1>2, <1>3, PTL DEF CommandsSpec
===============================================================================
