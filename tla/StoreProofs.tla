------------------------------ MODULE StoreProofs ------------------------------
(***************************************************************************)
(* Proofs about the two stores.                                            *)
(*                                                                         *)
(* FileStore, for any number of processes and operations, as long as no    *)
(* save fails and no process dies between os.Remove and os.Rename.  (A      *)
(* failure there loses what was acknowledged.)                              *)
(*                                                                         *)
(* SqlStore, for every set of callers, characters, keys, groups, sessions   *)
(* and tickets.  Each theorem names the hazards (Races) it excludes.  The    *)
(* scenes of SqlStore share no variable, so a step is one of a single part  *)
(* and leaves the invariants of the others alone.                           *)
(***************************************************************************)
EXTENDS FileStore, SqlStore, FiniteSetTheorems, TLAPS

-----------------------------------------------------------------------------
(* The file store *)

WindowClosed == "removed" \notin SaveFailsAt \union CrashAt

\* A missing file is told from every state.
LEMMA MissingIsNoState == Missing \notin SUBSET Op
BY ConstantsAssumption DEF Missing

\* While p is inside, everybody else is outside.
LEMMA Alone ==
  ASSUME IInv, NEW p \in Process, pc[p] \in Holding
  PROVE  \A q \in Process \ {p} :
           /\ pc[q] \in {"down", "idle"} /\ request[q].op = Nil
           /\ Own(q) = {} /\ ~request[q].tx
BY ConstantsAssumption DEF IInv, FileTypeOK, OneInside, Own, Holding

\* What the store holds, by the position of the process inside.
LEMMA DurableIs ==
  ASSUME IInv
  PROVE  /\ file # Missing => Durable = file
         /\ Fresh => Durable = {}
         /\ \A p \in Process : pc[p] = "removed" => Durable = memory[p]
         /\ Durable \in SUBSET Op
<1>1. file # Missing => Durable = file
  BY DEF Durable
<1>2. Fresh => Durable = {}
  BY DEF Durable, Fresh
<1>3. ASSUME NEW p \in Process, pc[p] = "removed"
      PROVE  Durable = memory[p]
  <2>1. Committing = {p}
    BY <1>3, Alone DEF Committing, Holding
  <2>2. file = Missing
    BY <1>3 DEF IInv, MemoryFollows
  <2> QED
    BY <2>1, <2>2 DEF Durable
<1>4. Durable \in SUBSET Op
  <2>1. \A p \in Committing : memory[p] \in SUBSET Op
    BY DEF Committing, IInv, FileTypeOK
  <2>2. UNION {memory[p] : p \in Committing} \in SUBSET Op
    BY <2>1
  <2> QED
    BY <2>2 DEF Durable, IInv, FileTypeOK
<1> QED
  BY <1>1, <1>2, <1>3, <1>4

\* With a process inside before its commit, or nobody inside, nobody commits.
LEMMA NobodyCommits ==
  ASSUME IInv, NEW p \in Process,
         lock = Nil \/ pc[p] \in Holding \ {"removed"}
  PROVE  Committing = {}
BY Alone, ConstantsAssumption DEF IInv, OneInside, Committing, Holding

\* A process that serves, or is past its save, has a file to serve from.
LEMMA FileIsThere ==
  ASSUME IInv, NEW p \in Process,
         \/ pc[p] = "idle" /\ lock = Nil
         \/ pc[p] \in {"holding", "saved"}
  PROVE  file # Missing
BY NobodyCommits DEF IInv, FreshIsEmpty, Fresh, Holding

\* The one step that changes what the store holds is the removal of the old file.
LEMMA DurableSteps ==
  ASSUME WindowClosed, IInv, NEW p \in Process
  PROVE  /\ RemoveOld(p) => Durable' = Durable \union Own(p)
         /\ Open(p) => Durable' = Durable
         /\ \A o \in Op, tx \in BOOLEAN : Begin(p, o, tx) => Durable' = Durable
         /\ Refuse(p) => Durable' = Durable
         /\ Mutate(p) => Durable' = Durable
         /\ FunctionFails(p) => Durable' = Durable
         /\ WriteTemp(p) => Durable' = Durable
         /\ SaveFails(p) => Durable' = Durable
         /\ RenameTemp(p) => Durable' = Durable
         /\ Succeed(p) => Durable' = Durable
         /\ Dies(p) => Durable' = Durable
<1>1. ASSUME RemoveOld(p) PROVE Durable' = Durable \union Own(p)
  <2>1. Committing = {} /\ memory[p] = Durable \union Own(p)
    BY <1>1, NobodyCommits DEF RemoveOld, IInv, OneInside, MemoryFollows, Holding
  <2>2. Committing' = {p}
    BY <1>1, <2>1 DEF RemoveOld, Committing, IInv, FileTypeOK
  <2>3. file' = Missing /\ memory' = memory
    BY <1>1 DEF RemoveOld
  <2> QED
    BY <2>1, <2>2, <2>3 DEF Durable
\* A step that leaves the file and the memory of those who commit alone.
<1>2. ASSUME file' = file, Committing' = Committing,
             \A q \in Committing : memory'[q] = memory[q]
      PROVE  Durable' = Durable
  <2>1. {memory'[q] : q \in Committing'} = {memory[q] : q \in Committing}
    BY <1>2
  <2> QED
    BY <1>2, <2>1 DEF Durable
<1>3. ASSUME Open(p) \/ (\E o \in Op, tx \in BOOLEAN : Begin(p, o, tx)) \/ Refuse(p)
             \/ Mutate(p) \/ FunctionFails(p) \/ WriteTemp(p) \/ SaveFails(p) \/ Succeed(p)
      PROVE  Durable' = Durable
  <2>1. lock = Nil \/ pc[p] \in Holding \ {"removed"}
    BY <1>3, ConstantsAssumption
    DEF WindowClosed, Open, Begin, LockState, Refuse, Mutate, FunctionFails, WriteTemp,
        SaveFails, Succeed, Holding
  <2>2. Committing = {}
    BY <2>1, NobodyCommits
  <2>3. \/ pc' = [pc EXCEPT ![p] = "mutated"] \/ pc' = [pc EXCEPT ![p] = "holding"]
        \/ pc' = [pc EXCEPT ![p] = "idle"]    \/ pc' = [pc EXCEPT ![p] = "down"]
        \/ pc' = [pc EXCEPT ![p] = "written"]
    BY <1>3 DEF Open, Begin, Refuse, Mutate, FunctionFails, WriteTemp, SaveFails, Fail,
                UnlockState, Succeed
  <2>4. Committing' = {}
    BY <2>2, <2>3 DEF Committing, IInv, FileTypeOK
  <2>5. file' = file
    BY <1>3 DEF Open, Begin, Refuse, Mutate, FunctionFails, WriteTemp, SaveFails, Fail,
                Succeed
  <2> QED
    BY <1>2, <2>2, <2>4, <2>5
<1>4. ASSUME RenameTemp(p) PROVE Durable' = Durable
  <2>1. Durable = memory[p] /\ memory[p] # Missing
    BY <1>4, DurableIs, MissingIsNoState DEF RenameTemp, IInv, FileTypeOK
  <2>2. file' = memory[p]
    BY <1>4 DEF RenameTemp
  <2> QED
    BY <2>1, <2>2 DEF Durable
<1>5. ASSUME Dies(p) PROVE Durable' = Durable
  <2>1. pc[p] # "removed" /\ pc' = [pc EXCEPT ![p] = "down"]
    BY <1>5 DEF Dies, WindowClosed
  <2>2. Committing' = Committing /\ p \notin Committing
    BY <2>1 DEF Committing, IInv, FileTypeOK
  <2>3. file' = file /\ \A q \in Committing : memory'[q] = memory[q]
    BY <1>5, <2>2 DEF Dies, Committing, IInv, FileTypeOK
  <2> QED
    BY <1>2, <2>2, <2>3
<1> QED
  BY <1>1, <1>3, <1>4, <1>5

-----------------------------------------------------------------------------
(* The inductive invariant.                                                *)

LEMMA InitInv == FileInit => IInv
<1> SUFFICES ASSUME FileInit PROVE IInv
  OBVIOUS
<1>1. FileTypeOK
  BY DEF FileInit, FileTypeOK, Idle, Holding
<1>2. OneInside
  BY ConstantsAssumption DEF FileInit, OneInside, Idle, Own, Holding
<1>3. AnswersAreTrue
  BY DEF FileInit, AnswersAreTrue, Durable, Committing
<1>4. MemoryFollows
  BY DEF FileInit, MemoryFollows, Idle
<1>5. FreshIsEmpty
  BY ConstantsAssumption DEF FileInit, FreshIsEmpty, Idle, Own
<1> QED
  BY <1>1, <1>2, <1>3, <1>4, <1>5 DEF IInv

LEMMA TypeStep ==
  ASSUME FileTypeOK, OneInside, [FileNext]_vars
  PROVE  FileTypeOK'
<1>1. CASE UNCHANGED vars
  BY <1>1 DEF vars, FileTypeOK
<1>2. ASSUME NEW p \in Process PROVE Reload(p) \in SUBSET Op
  BY DEF Reload, FileTypeOK
<1>3. ASSUME NEW p \in Process, Open(p) PROVE FileTypeOK'
  BY <1>2, <1>3 DEF Open, LockState, FileTypeOK, Holding
<1>4. ASSUME NEW p \in Process, NEW o \in Op, NEW tx \in BOOLEAN, Begin(p, o, tx)
      PROVE  FileTypeOK'
  BY <1>2, <1>4 DEF Begin, LockState, FileTypeOK, Holding
<1>5. ASSUME NEW p \in Process, NEW a \in {"ok", "error"}, NEW to \in {"idle", "down"},
             UnlockState(p, a, to), file' = file, rollback' = rollback,
             memory' \in [Process -> SUBSET Op]
      PROVE  FileTypeOK'
  BY <1>5 DEF UnlockState, Idle, FileTypeOK
<1>6. ASSUME NEW p \in Process, Refuse(p) \/ Succeed(p) PROVE FileTypeOK'
  BY <1>5, <1>6 DEF Refuse, Succeed, FileTypeOK
<1>7. ASSUME NEW p \in Process, Fail(p) PROVE FileTypeOK'
  BY <1>5, <1>7 DEF Fail, Restored, FileTypeOK
<1>8. ASSUME NEW p \in Process, FunctionFails(p) \/ SaveFails(p) PROVE FileTypeOK'
  BY <1>7, <1>8 DEF FunctionFails, SaveFails
<1>9. ASSUME NEW p \in Process, Mutate(p) PROVE FileTypeOK'
  <2>1. request[p].op \in Op
    BY <1>9 DEF Mutate, OneInside
  <2> QED
    BY <1>9, <2>1 DEF Mutate, FileTypeOK, Holding
<1>10. ASSUME NEW p \in Process, WriteTemp(p) \/ RemoveOld(p) \/ RenameTemp(p)
       PROVE  FileTypeOK'
  BY <1>10 DEF WriteTemp, RemoveOld, RenameTemp, FileTypeOK, Holding
<1>11. ASSUME NEW p \in Process, Dies(p) PROVE FileTypeOK'
  BY <1>11 DEF Dies, Idle, FileTypeOK
<1> QED
  BY <1>1, <1>3, <1>4, <1>6, <1>8, <1>9, <1>10, <1>11 DEF FileNext

LEMMA OneInsideStep ==
  ASSUME IInv, [FileNext]_vars
  PROVE  OneInside'
<1> USE ConstantsAssumption
<1>1. CASE UNCHANGED vars
  BY <1>1 DEF vars, IInv, OneInside, Own
\* Somebody enters.
<1>2. ASSUME NEW p \in Process, Open(p) PROVE OneInside'
  BY <1>2 DEF Open, LockState, IInv, FileTypeOK, OneInside, Own, Holding, Nil, Startup
<1>3. ASSUME NEW p \in Process, NEW o \in Op, NEW tx \in BOOLEAN, Begin(p, o, tx)
      PROVE  OneInside'
  BY <1>3 DEF Begin, LockState, IInv, FileTypeOK, OneInside, Own, Holding
\* p leaves, and nobody else was inside.
<1>4. ASSUME NEW p \in Process, pc[p] \in Holding, NEW a \in {"ok", "error"},
             NEW to \in {"idle", "down"}, UnlockState(p, a, to)
      PROVE  OneInside'
  <2>1. \A q \in Process \ {p} : pc[q] \in {"down", "idle"} /\ request[q].op = Nil /\ ~request[q].tx
    BY <1>4, Alone
  <2>2. lock' = Nil /\ pc' = [pc EXCEPT ![p] = to] /\ request' = [request EXCEPT ![p] = Idle]
    BY <1>4 DEF UnlockState
  <2>3. \A q \in Process : pc'[q] \in {"down", "idle"} /\ request'[q].op = Nil /\ ~request'[q].tx
    BY <2>1, <2>2 DEF Idle, IInv, FileTypeOK
  <2> QED
    BY <2>2, <2>3 DEF OneInside, Own, Holding
<1>5. ASSUME NEW p \in Process, Refuse(p) \/ Succeed(p) PROVE OneInside'
  <2>1. pc[p] \in Holding /\ \E a \in {"ok", "error"} : UnlockState(p, a, "idle")
    BY <1>5 DEF Refuse, Succeed, Holding
  <2> QED
    BY <1>4, <2>1
<1>6. ASSUME NEW p \in Process, FunctionFails(p) \/ SaveFails(p) PROVE OneInside'
  <2>1. pc[p] \in Holding
    BY <1>6 DEF FunctionFails, SaveFails, Holding
  <2>2. \E to \in {"idle", "down"} : UnlockState(p, "error", to)
    BY <1>6 DEF FunctionFails, SaveFails, Fail
  <2> QED
    BY <1>4, <2>1, <2>2
\* p goes on inside.
<1>7. ASSUME NEW p \in Process, NEW to \in Holding \ {"holding"}, pc[p] \in Holding,
             pc' = [pc EXCEPT ![p] = to], UNCHANGED <<lock, request, response>>
      PROVE  OneInside'
  BY <1>7 DEF IInv, FileTypeOK, OneInside, Own, Holding
<1>8. ASSUME NEW p \in Process,
             Mutate(p) \/ WriteTemp(p) \/ RemoveOld(p) \/ RenameTemp(p)
      PROVE  OneInside'
  <2>1. /\ pc[p] \in Holding /\ UNCHANGED <<lock, request, response>>
        /\ \E to \in Holding \ {"holding"} : pc' = [pc EXCEPT ![p] = to]
    BY <1>8 DEF Mutate, WriteTemp, RemoveOld, RenameTemp, Holding
  <2> QED
    BY <1>7, <2>1
<1>9. ASSUME NEW p \in Process, Dies(p) PROVE OneInside'
  <2>1. /\ lock' = IF lock = p THEN Nil ELSE lock
        /\ pc' = [pc EXCEPT ![p] = "down"] /\ request' = [request EXCEPT ![p] = Idle]
        /\ \A o \in Op : o # request[p].op => response'[o] = response[o]
    BY <1>9 DEF Dies
  <2>2. \A q \in Process \ {p} : Own(q) = {} \/ request[q].op # request[p].op
    BY DEF IInv, OneInside, Own
  <2> QED
    BY <2>1, <2>2 DEF IInv, FileTypeOK, OneInside, Own, Holding, Idle
<1> QED
  BY <1>1, <1>2, <1>3, <1>5, <1>6, <1>8, <1>9 DEF FileNext

LEMMA AnswersStep ==
  ASSUME WindowClosed, IInv, [FileNext]_vars
  PROVE  AnswersAreTrue'
<1> USE ConstantsAssumption
<1>1. CASE UNCHANGED vars
  BY <1>1 DEF vars, IInv, AnswersAreTrue, Durable, Committing
\* Nobody is answered, nothing becomes durable, and whoever committed is still inside.
<1>2. ASSUME Durable' = Durable, response' = response,
             \A q \in Process : pc[q] \in {"removed", "saved"} =>
               pc'[q] \in {"removed", "saved"} /\ request'[q] = request[q]
      PROVE  AnswersAreTrue'
  BY <1>2 DEF IInv, AnswersAreTrue
<1>3. ASSUME NEW p \in Process,
             \/ Open(p) \/ (\E o \in Op, tx \in BOOLEAN : Begin(p, o, tx))
             \/ Mutate(p) \/ WriteTemp(p) \/ RenameTemp(p)
      PROVE  AnswersAreTrue'
  <2>1. Durable' = Durable
    BY <1>3, DurableSteps
  <2>2. response' = response /\ (pc[p] \in {"removed", "saved"} => RenameTemp(p))
    BY <1>3 DEF Open, Begin, Mutate, WriteTemp, RenameTemp
  <2>3. \A q \in Process \ {p} : pc'[q] = pc[q] /\ request'[q] = request[q]
    BY <1>3 DEF Open, Begin, Mutate, WriteTemp, RenameTemp, IInv, FileTypeOK
  <2>4. RenameTemp(p) => pc'[p] = "saved" /\ request' = request
    BY DEF RenameTemp, IInv, FileTypeOK
  <2> QED
    BY <1>2, <2>1, <2>2, <2>3, <2>4
\* The commit: the operation had no answer.
<1>4. ASSUME NEW p \in Process, RemoveOld(p) PROVE AnswersAreTrue'
  <2>1. Durable' = Durable \union Own(p) /\ response' = response /\ request' = request
    BY <1>4, DurableSteps DEF RemoveOld
  <2>2. \A o \in Own(p) : response[o] = "none" /\ request[p].op = o
    BY DEF IInv, OneInside, Own
  <2>3. pc' = [pc EXCEPT ![p] = "removed"] /\ pc[p] = "written"
    BY <1>4 DEF RemoveOld
  <2>4. /\ pc'[p] = "removed"
        /\ \A q \in Process : pc[q] \in {"removed", "saved"} => pc'[q] = pc[q]
    BY <2>3 DEF IInv, FileTypeOK
  <2>5. ASSUME NEW o \in Op, response'[o] = "none", o \in Durable'
        PROVE  \E q \in Process : request'[q].op = o /\ pc'[q] \in {"removed", "saved"}
    <3>1. CASE o \in Own(p)
      BY <2>1, <2>2, <2>4, <3>1
    <3>2. CASE o \in Durable
      BY <2>1, <2>4, <2>5, <3>2 DEF IInv, AnswersAreTrue
    <3> QED
      BY <2>1, <2>5, <3>1, <3>2
  <2>6. ASSUME NEW o \in Op
        PROVE  /\ response'[o] = "ok" => o \in Durable'
               /\ response'[o] = "error" => o \notin Durable'
    BY <2>1, <2>2 DEF IInv, AnswersAreTrue
  <2> QED
    BY <2>5, <2>6 DEF AnswersAreTrue
\* The answer: the operation of p is durable if and only if it is told so.
<1>5. ASSUME NEW p \in Process, NEW a \in {"ok", "error", "lost"}, Durable' = Durable,
             response' = [o \in Op |-> IF o = request[p].op THEN a ELSE response[o]],
             a = "ok" => Own(p) \subseteq Durable,
             a = "error" => Own(p) \intersect Durable = {},
             \A q \in Process \ {p} : pc'[q] = pc[q] /\ request'[q] = request[q]
      PROVE  AnswersAreTrue'
  <2>1. ASSUME NEW o \in Op PROVE o = request[p].op <=> o \in Own(p)
    BY DEF Own
  <2> QED
    BY <1>5, <2>1 DEF IInv, AnswersAreTrue
\* An operation that has not removed the old file is not durable.
<1>6. ASSUME NEW p \in Process, pc[p] \in {"holding", "mutated", "written"}
      PROVE  Own(p) \intersect Durable = {}
  <2>1. \A q \in Process \ {p} : pc[q] \in {"down", "idle"}
    BY <1>6, Alone DEF Holding
  <2> QED
    BY <1>6, <2>1 DEF IInv, OneInside, AnswersAreTrue, Own
<1>7. ASSUME NEW p \in Process, Refuse(p) \/ FunctionFails(p) \/ SaveFails(p)
      PROVE  AnswersAreTrue'
  <2>1. pc[p] \in {"holding", "mutated", "written"} /\ Durable' = Durable
    BY <1>7, DurableSteps DEF Refuse, FunctionFails, SaveFails, WindowClosed
  <2>2. \E to \in {"idle", "down"} : UnlockState(p, "error", to)
    BY <1>7 DEF Refuse, FunctionFails, SaveFails, Fail
  <2>3. \A q \in Process \ {p} : pc'[q] = pc[q] /\ request'[q] = request[q]
    BY <2>2 DEF UnlockState, IInv, FileTypeOK
  <2> QED
    BY <1>5, <1>6, <2>1, <2>2, <2>3 DEF UnlockState
<1>8. ASSUME NEW p \in Process, Succeed(p) PROVE AnswersAreTrue'
  <2>1. Durable' = Durable /\ pc[p] = "saved" /\ UnlockState(p, "ok", "idle")
    BY <1>8, DurableSteps DEF Succeed
  <2>2. Own(p) \subseteq Durable
    BY <2>1, DurableIs, FileIsThere DEF IInv, MemoryFollows
  <2>3. \A q \in Process \ {p} : pc'[q] = pc[q] /\ request'[q] = request[q]
    BY <2>1 DEF UnlockState, IInv, FileTypeOK
  <2> QED
    BY <1>5, <2>1, <2>2, <2>3 DEF UnlockState
<1>9. ASSUME NEW p \in Process, Dies(p) PROVE AnswersAreTrue'
  <2>1. Durable' = Durable
    BY <1>9, DurableSteps
  <2>2. \A q \in Process \ {p} : pc'[q] = pc[q] /\ request'[q] = request[q]
    BY <1>9 DEF Dies, IInv, FileTypeOK
  <2> QED
    BY <1>5, <1>9, <2>1, <2>2 DEF Dies
<1> QED
  BY <1>1, <1>3, <1>4, <1>7, <1>8, <1>9 DEF FileNext

LEMMA MemoryStep ==
  ASSUME WindowClosed, IInv, [FileNext]_vars
  PROVE  MemoryFollows'
<1> USE ConstantsAssumption
<1> DEFINE Follows(q) ==
      /\ pc[q] = "down" => memory[q] = {}
      /\ pc[q] \in {"holding", "saved"} => memory[q] = file
      /\ pc[q] \in {"mutated", "written"} => memory[q] = Durable \union Own(q)
      /\ pc[q] = "removed" => file = Missing
      /\ pc[q] \in {"removed", "saved"} => Own(q) \subseteq memory[q]
      /\ pc[q] \in {"holding", "mutated", "written"} /\ request[q].tx => rollback[q] = file
<1>1. CASE UNCHANGED vars
  BY <1>1 DEF vars, IInv, MemoryFollows, Durable, Committing, Own
\* Those who are outside stay there, and their memory with them.
<1>2. ASSUME NEW p \in Process, Follows(p)', pc[p] \in Holding \/ lock = Nil,
             \A q \in Process \ {p} : pc'[q] = pc[q] /\ memory'[q] = memory[q]
      PROVE  MemoryFollows'
  <2>1. \A q \in Process \ {p} : pc[q] \in {"down", "idle"}
    BY <1>2, Alone DEF IInv, OneInside, FileTypeOK
  <2>2. \A q \in Process \ {p} : Follows(q)'
    BY <1>2, <2>1 DEF IInv, MemoryFollows
  <2> QED
    BY <1>2, <2>2 DEF MemoryFollows
<1>3. ASSUME NEW p \in Process, Open(p) PROVE MemoryFollows'
  <2>1. Durable' = Durable /\ Reload(p) = Durable
    BY <1>3, DurableSteps, DurableIs, NobodyCommits
    DEF Open, LockState, Reload, Fresh, IInv, MemoryFollows
  <2>2. /\ pc'[p] = "mutated" /\ memory'[p] = Durable /\ request'[p].op = Startup
        /\ ~request'[p].tx
    BY <1>3, <2>1 DEF Open, LockState, IInv, FileTypeOK
  <2>3. Own(p)' = {}
    BY <2>2 DEF Own
  <2>4. lock = Nil /\ \A q \in Process \ {p} : pc'[q] = pc[q] /\ memory'[q] = memory[q]
    BY <1>3 DEF Open, LockState, IInv, FileTypeOK
  <2> QED
    BY <1>2, <2>1, <2>2, <2>3, <2>4
<1>4. ASSUME NEW p \in Process, NEW o \in Op, NEW tx \in BOOLEAN, Begin(p, o, tx)
      PROVE  MemoryFollows'
  <2>1. file # Missing /\ file' = file
    BY <1>4, FileIsThere DEF Begin, LockState
  <2>2. /\ pc'[p] = "holding" /\ memory'[p] = file /\ (request'[p].tx => rollback'[p] = file)
    BY <1>4, <2>1 DEF Begin, LockState, Reload, IInv, FileTypeOK
  <2>3. lock = Nil /\ \A q \in Process \ {p} : pc'[q] = pc[q] /\ memory'[q] = memory[q]
    BY <1>4 DEF Begin, LockState, IInv, FileTypeOK
  <2> QED
    BY <1>2, <2>1, <2>2, <2>3
<1>5. ASSUME NEW p \in Process, Refuse(p) \/ Succeed(p) \/ FunctionFails(p) \/ SaveFails(p)
      PROVE  MemoryFollows'
  <2>1. pc[p] \in Holding
    BY <1>5 DEF Refuse, Succeed, FunctionFails, SaveFails, Holding
  <2>2. pc'[p] = "idle" \/ (pc'[p] = "down" /\ memory'[p] = {})
    BY <1>5 DEF Refuse, Succeed, FunctionFails, SaveFails, Fail, UnlockState, IInv, FileTypeOK
  <2>3. \A q \in Process \ {p} : pc'[q] = pc[q] /\ memory'[q] = memory[q]
    BY <1>5 DEF Refuse, Succeed, FunctionFails, SaveFails, Fail, UnlockState, IInv, FileTypeOK
  <2> QED
    BY <1>2, <2>1, <2>2, <2>3
<1>6. ASSUME NEW p \in Process, Mutate(p) PROVE MemoryFollows'
  <2>1. pc[p] \in Holding /\ request[p].op \in Op /\ memory[p] = file
    BY <1>6 DEF Mutate, Holding, IInv, OneInside, MemoryFollows
  <2>2. Durable' = Durable /\ Durable = file
    BY <1>6, DurableSteps, DurableIs, FileIsThere DEF Mutate
  <2>3. /\ pc'[p] = "mutated" /\ memory'[p] = file \union {request[p].op}
        /\ \A q \in Process \ {p} : pc'[q] = pc[q] /\ memory'[q] = memory[q]
    BY <1>6, <2>1 DEF Mutate, IInv, FileTypeOK
  <2>4. Own(p)' = {request[p].op} /\ UNCHANGED <<file, rollback, request>>
    BY <1>6, <2>1 DEF Mutate, Own
  <2>5. request[p].tx => rollback[p] = file
    BY <1>6 DEF Mutate, IInv, MemoryFollows
  <2> QED
    BY <1>2, <2>1, <2>2, <2>3, <2>4, <2>5
<1>7. ASSUME NEW p \in Process, WriteTemp(p) \/ RemoveOld(p) \/ RenameTemp(p)
      PROVE  MemoryFollows'
  <2>1. /\ pc[p] \in Holding /\ UNCHANGED <<memory, rollback, request>>
        /\ \A q \in Process \ {p} : pc'[q] = pc[q] /\ memory'[q] = memory[q]
    BY <1>7 DEF WriteTemp, RemoveOld, RenameTemp, Holding, IInv, FileTypeOK
  <2>2. Own(p)' = Own(p)
    BY <2>1 DEF Own
  <2>3. CASE WriteTemp(p)
    <3>1. Durable' = Durable /\ file' = file /\ pc[p] = "mutated" /\ pc'[p] = "written"
      BY <2>3, DurableSteps DEF WriteTemp, IInv, FileTypeOK
    <3> QED
      BY <1>2, <2>1, <2>2, <3>1 DEF IInv, MemoryFollows
  <2>4. CASE RemoveOld(p)
    <3>1. file' = Missing /\ pc[p] = "written" /\ pc'[p] = "removed"
      BY <2>4 DEF RemoveOld, IInv, FileTypeOK
    <3> QED
      BY <1>2, <2>1, <2>2, <3>1 DEF IInv, MemoryFollows
  <2>5. CASE RenameTemp(p)
    <3>1. file' = memory[p] /\ pc[p] = "removed" /\ pc'[p] = "saved"
      BY <2>5 DEF RenameTemp, IInv, FileTypeOK
    <3> QED
      BY <1>2, <2>1, <2>2, <3>1 DEF IInv, MemoryFollows
  <2> QED
    BY <1>7, <2>3, <2>4, <2>5
\* A process that dies leaves the one inside as it was.
<1>8. ASSUME NEW p \in Process, Dies(p) PROVE MemoryFollows'
  <2>1. Durable' = Durable /\ UNCHANGED <<file, rollback>>
    BY <1>8, DurableSteps DEF Dies
  <2>2. /\ pc'[p] = "down" /\ memory'[p] = {}
        /\ \A q \in Process \ {p} : /\ pc'[q] = pc[q] /\ memory'[q] = memory[q]
                                   /\ request'[q] = request[q] /\ Own(q)' = Own(q)
    BY <1>8 DEF Dies, IInv, FileTypeOK, Own
  <2>3. \A q \in Process : Follows(q)'
    BY <2>1, <2>2 DEF IInv, MemoryFollows
  <2> QED
    BY <2>3 DEF MemoryFollows
<1> QED
  BY <1>1, <1>3, <1>4, <1>5, <1>6, <1>7, <1>8 DEF FileNext

LEMMA FreshStep ==
  ASSUME WindowClosed, IInv, [FileNext]_vars
  PROVE  FreshIsEmpty'
<1> USE ConstantsAssumption
<1>1. CASE UNCHANGED vars
  BY <1>1 DEF vars, IInv, FreshIsEmpty, Fresh, Committing, Own
\* The first save is over, or has reached its commit.
<1>2. ASSUME NEW p \in Process, RemoveOld(p) \/ RenameTemp(p) PROVE FreshIsEmpty'
  <2>1. ~Fresh'
    BY <1>2, MissingIsNoState DEF RemoveOld, RenameTemp, Fresh, Committing, IInv, FileTypeOK
  <2> QED
    BY <2>1 DEF FreshIsEmpty
<1>3. ASSUME NEW p \in Process, Fresh', file' = file, pc[p] # "removed",
             \A q \in Process \ {p} : pc'[q] = pc[q]
      PROVE  /\ \A o \in Op : response[o] = "none"
             /\ \A q \in Process : pc[q] \in {"down", "mutated", "written"} /\ Own(q) = {}
  <2>1. Fresh
    BY <1>3 DEF Fresh, Committing
  <2> QED
    BY <2>1 DEF IInv, FreshIsEmpty
<1>4. ASSUME NEW p \in Process, (\E o \in Op, tx \in BOOLEAN : Begin(p, o, tx)) \/ Refuse(p)
                                \/ Mutate(p) \/ Succeed(p)
      PROVE  FreshIsEmpty'
  <2>1. file' = file /\ pc[p] \in {"idle", "holding", "saved"}
        /\ \A q \in Process \ {p} : pc'[q] = pc[q]
    BY <1>4 DEF Begin, Refuse, Mutate, Succeed, UnlockState, IInv, FileTypeOK
  <2> QED
    BY <1>3, <2>1 DEF FreshIsEmpty
<1>5. ASSUME NEW p \in Process, Open(p) \/ WriteTemp(p) PROVE FreshIsEmpty'
  <2>1. /\ file' = file /\ response' = response /\ pc[p] # "removed"
        /\ pc'[p] \in {"mutated", "written"}
        /\ \A q \in Process \ {p} : pc'[q] = pc[q] /\ request'[q] = request[q]
        /\ request'[p] = request[p] \/ request'[p].op = Startup
    BY <1>5 DEF Open, WriteTemp, IInv, FileTypeOK
  <2> QED
    BY <1>3, <2>1 DEF FreshIsEmpty, Own
\* Only services that start can fail or die now.
<1>6. ASSUME NEW p \in Process, FunctionFails(p) \/ SaveFails(p) \/ Dies(p)
      PROVE  FreshIsEmpty'
  <2> SUFFICES ASSUME Fresh'
               PROVE  /\ \A o \in Op : response'[o] = "none"
                      /\ \A q \in Process : /\ pc'[q] \in {"down", "mutated", "written"}
                                            /\ Own(q)' = {}
    BY DEF FreshIsEmpty
  <2>1. /\ file' = file /\ pc[p] # "removed"
        /\ \A q \in Process \ {p} : pc'[q] = pc[q] /\ request'[q] = request[q]
        /\ request'[p].op = Nil
        /\ \A o \in Op : o # request[p].op => response'[o] = response[o]
    BY <1>6 DEF FunctionFails, SaveFails, Dies, Fail, UnlockState, WindowClosed, Idle,
                IInv, FileTypeOK
  <2>2. /\ \A o \in Op : response[o] = "none"
        /\ \A q \in Process : pc[q] \in {"down", "mutated", "written"} /\ Own(q) = {}
    BY <1>3, <2>1
  <2>3. request[p].op \notin Op
    BY <2>2 DEF Own
  <2>4. pc[p] \in {"mutated", "written"} => Starting(p) /\ ~request[p].tx
    BY <2>3 DEF IInv, FileTypeOK, OneInside, Holding, Starting
  <2>5. pc'[p] = "down"
    BY <1>6, <2>2, <2>4 DEF FunctionFails, SaveFails, Dies, Fail, UnlockState, IInv, FileTypeOK
  <2> QED
    BY <2>1, <2>2, <2>3, <2>5 DEF Own
<1> QED
  BY <1>1, <1>2, <1>4, <1>5, <1>6 DEF FileNext

LEMMA Inductive ==
  ASSUME WindowClosed, IInv, [FileNext]_vars
  PROVE  IInv'
BY TypeStep, OneInsideStep, AnswersStep, MemoryStep, FreshStep DEF IInv

\* The memory of the process inside agrees with what the callers were told.
LEMMA InsideAgrees ==
  ASSUME IInv, NEW p \in Process, pc[p] \in Holding
  PROVE  Acknowledged \subseteq memory[p] /\ Refused \intersect memory[p] = {}
<1>1. memory[p] = Durable \/ memory[p] = Durable \union Own(p)
  BY DurableIs, FileIsThere DEF IInv, MemoryFollows, Holding
<1>2. \A o \in Own(p) : response[o] = "none"
  BY DEF IInv, OneInside
<1> QED
  BY <1>1, <1>2 DEF IInv, AnswersAreTrue, Acknowledged, Refused

-----------------------------------------------------------------------------
(* The theorems.                                                           *)

\* Why the store is right: the lock has one holder, whose memory follows the
\* file step by step, and every answer is true of what is durable.
THEOREM StoreInvariant ==
  ASSUME WindowClosed
  PROVE  FileSpec => []IInv
<1>1. FileInit => IInv
  BY InitInv
<1>2. IInv /\ [FileNext]_vars => IInv'
  BY Inductive
<1> QED
  BY <1>1, <1>2, PTL DEF FileSpec

\* Every variable keeps its type (FileStore, whatever its methods do).
THEOREM TypeCorrect ==
  ASSUME WindowClosed
  PROVE  FileSpec => []FileTypeOK
<1>1. IInv => FileTypeOK
  BY DEF IInv
<1> QED
  BY <1>1, StoreInvariant, PTL

\* An acknowledged operation is in the file whenever another process can look
\* (saveLocked returned nil before unlockState).
THEOREM Kept ==
  ASSUME WindowClosed
  PROVE  FileSpec => []AcknowledgedIsKept
<1>1. IInv => AcknowledgedIsKept
  <2> SUFFICES ASSUME IInv, lock = Nil, Acknowledged # {}
               PROVE  file # Missing /\ Acknowledged \subseteq file
    BY DEF AcknowledgedIsKept
  <2>1. Committing = {}
    BY ConstantsAssumption DEF IInv, OneInside, Committing, Holding
  <2>2. file # Missing
    BY <2>1 DEF IInv, FreshIsEmpty, Fresh, Acknowledged
  <2> QED
    BY <2>2, DurableIs DEF IInv, AnswersAreTrue, Acknowledged
<1> QED
  BY <1>1, StoreInvariant, PTL

\* An operation answered with an error is in no state a reader or a later save
\* sees (reloadLocked, WithTransaction's rollback).
THEOREM Gone ==
  ASSUME WindowClosed
  PROVE  FileSpec => []RefusedIsGone
<1>1. IInv => RefusedIsGone
  BY InsideAgrees DEF RefusedIsGone
<1> QED
  BY <1>1, StoreInvariant, PTL

\* Whoever is inside works on a state with every acknowledged operation in it
\* (lockState reloads under the lock).
THEOREM NeverStale ==
  ASSUME WindowClosed
  PROVE  FileSpec => []NoStaleRead
<1>1. IInv => NoStaleRead
  BY InsideAgrees DEF NoStaleRead
<1> QED
  BY <1>1, StoreInvariant, PTL

\* A transaction that answers with an error leaves the file and the memory of its
\* process as it found them (WithTransaction's rollbackState).
THEOREM Rollback ==
  ASSUME WindowClosed
  PROVE  FileSpec => RollbackOnError
<1>1. ASSUME IInv, [FileNext]_vars, NEW p \in Process,
             request[p].tx, response[request[p].op] = "none",
             response'[request[p].op] = "error"
      PROVE  file' = rollback[p] /\ memory'[p] = rollback[p]
  <2> USE ConstantsAssumption
  <2>1. request[p].op \in Op /\ pc[p] \in Holding
    BY <1>1 DEF IInv, OneInside
  <2>2. PICK q \in Process : Refuse(q) \/ FunctionFails(q) \/ SaveFails(q)
    <3>1. ~UNCHANGED vars /\ response' # response
      BY <1>1 DEF vars
    <3>2. PICK q \in Process :
            \/ Open(q) \/ (\E o \in Op, tx \in BOOLEAN : Begin(q, o, tx)) \/ Refuse(q)
            \/ Mutate(q) \/ FunctionFails(q) \/ WriteTemp(q) \/ SaveFails(q)
            \/ RemoveOld(q) \/ RenameTemp(q) \/ Succeed(q) \/ Dies(q)
      BY <1>1, <3>1 DEF FileNext
    <3>3. ~(Open(q) \/ (\E o \in Op, tx \in BOOLEAN : Begin(q, o, tx)) \/ Mutate(q)
            \/ WriteTemp(q) \/ RemoveOld(q) \/ RenameTemp(q))
      BY <3>1 DEF Open, Begin, Mutate, WriteTemp, RemoveOld, RenameTemp
    <3>4. ~(Succeed(q) \/ Dies(q))
      BY <1>1, <2>1 DEF Succeed, UnlockState, Dies
    <3> QED
      BY <3>2, <3>3, <3>4
  <2>3. /\ pc[q] \in {"holding", "mutated", "written"} /\ file' = file
    BY <2>2 DEF Refuse, FunctionFails, SaveFails, Fail, WindowClosed
  <2>4. q = p
    BY <1>1, <2>1, <2>3, Alone DEF Holding
  <2> QED
    <3>1. memory[p] = rollback[p] \/ pc[p] # "holding"
      BY <1>1, <2>3, <2>4 DEF IInv, MemoryFollows
    <3>2. memory' = [memory EXCEPT ![p] = Restored(p)] \/ Refuse(p)
      BY <1>1, <2>1, <2>2, <2>3, <2>4 DEF FunctionFails, SaveFails, Fail, Starting
    <3> QED
      BY <1>1, <2>1, <2>3, <2>4, <3>1, <3>2 DEF IInv, MemoryFollows, FileTypeOK, Restored, Refuse
<1>2. IInv /\ [FileNext]_vars =>
        [\A p \in Process : /\ request[p].tx /\ response[request[p].op] = "none"
                            /\ response'[request[p].op] = "error"
                            => file' = rollback[p] /\ memory'[p] = rollback[p]]_vars
  BY <1>1
<1> QED
  BY <1>2, StoreInvariant, PTL DEF FileSpec, RollbackOnError

\* Every run of the service processes is a run of the atomic ledger.
THEOREM Refinement ==
  ASSUME WindowClosed
  PROVE  FileSpec => ImplementsLedger
<1>1. FileInit => L!Init
  BY DEF FileInit, L!Init, Durable, Committing
<1>2. ASSUME IInv, [FileNext]_vars PROVE [L!Next]_(L!vars)
  <2> USE ConstantsAssumption
  <2>1. CASE UNCHANGED vars
    BY <2>1 DEF vars, L!vars, Durable, Committing
  <2>2. ASSUME NEW p \in Process,
               \/ Open(p) \/ (\E o \in Op, tx \in BOOLEAN : Begin(p, o, tx)) \/ Mutate(p)
               \/ WriteTemp(p) \/ RenameTemp(p)
        PROVE  UNCHANGED L!vars
    <3>1. Durable' = Durable
      BY <1>2, <2>2, DurableSteps
    <3>2. response' = response
      BY <2>2 DEF Open, Begin, Mutate, WriteTemp, RenameTemp
    <3> QED
      BY <3>1, <3>2 DEF L!vars
  \* The removal of the old file commits the operation of p.
  <2>3. ASSUME NEW p \in Process, RemoveOld(p) PROVE [L!Next]_(L!vars)
    <3>1. Durable' = Durable \union Own(p) /\ response' = response /\ pc[p] = "written"
      BY <1>2, <2>3, DurableSteps DEF RemoveOld
    <3>2. CASE Own(p) = {}
      BY <3>1, <3>2 DEF L!vars
    <3>3. CASE Own(p) # {}
      <4>1. request[p].op \in Op /\ Own(p) = {request[p].op}
        BY <3>3 DEF Own
      <4>2. response[request[p].op] = "none" /\ request[p].op \notin Durable
        BY <1>2, <3>1, <4>1, Alone DEF IInv, OneInside, AnswersAreTrue, Holding
      <4>3. L!Commit(request[p].op)
        BY <3>1, <4>1, <4>2 DEF L!Commit
      <4> QED
        BY <4>1, <4>3 DEF L!Next
    <3> QED
      BY <3>2, <3>3
  \* An answer answers, or a service that starts answers nobody.
  <2>4. ASSUME NEW p \in Process, NEW a, Durable' = Durable,
               response \in [Op -> {"none", "ok", "error", "lost"}],
               response' = [o \in Op |-> IF o = request[p].op THEN a ELSE response[o]]
        PROVE  \/ UNCHANGED L!vars
               \/ /\ request[p].op \in Op
                  /\ response' = [response EXCEPT ![request[p].op] = a]
    BY <2>4 DEF L!vars
  <2>5. response \in [Op -> {"none", "ok", "error", "lost"}]
    BY <1>2 DEF IInv, FileTypeOK
  <2>6. ASSUME NEW p \in Process, Succeed(p) PROVE [L!Next]_(L!vars)
    <3>1. /\ Durable' = Durable /\ pc[p] = "saved"
          /\ response' = [o \in Op |-> IF o = request[p].op THEN "ok" ELSE response[o]]
      BY <1>2, <2>6, DurableSteps DEF Succeed, UnlockState
    <3>2. Own(p) \subseteq Durable
      BY <1>2, <3>1, DurableIs, FileIsThere DEF IInv, MemoryFollows
    <3>3. ASSUME request[p].op \in Op, response' = [response EXCEPT ![request[p].op] = "ok"]
          PROVE  L!Acknowledge(request[p].op)
      BY <1>2, <3>1, <3>2, <3>3 DEF L!Acknowledge, IInv, OneInside, Own
    <3>4. UNCHANGED L!vars \/ (request[p].op \in Op /\ L!Acknowledge(request[p].op))
      BY <2>4, <2>5, <3>1, <3>3
    <3> QED
      BY <3>4 DEF L!Next
  <2>7. ASSUME NEW p \in Process, Refuse(p) \/ FunctionFails(p) \/ SaveFails(p)
        PROVE  [L!Next]_(L!vars)
    <3>1. /\ Durable' = Durable /\ pc[p] \in {"holding", "mutated", "written"}
          /\ response' = [o \in Op |-> IF o = request[p].op THEN "error" ELSE response[o]]
      BY <1>2, <2>7, DurableSteps
      DEF Refuse, FunctionFails, SaveFails, Fail, UnlockState, WindowClosed
    <3>2. ASSUME request[p].op \in Op, response' = [response EXCEPT ![request[p].op] = "error"]
          PROVE  L!Refuse(request[p].op)
      <4>1. response[request[p].op] = "none" /\ request[p].op \notin Durable
        BY <1>2, <3>1, <3>2, Alone DEF IInv, OneInside, AnswersAreTrue, Holding, Own
      <4> QED
        BY <3>1, <3>2, <4>1 DEF L!Refuse
    <3>4. UNCHANGED L!vars \/ (request[p].op \in Op /\ L!Refuse(request[p].op))
      BY <2>4, <2>5, <3>1, <3>2
    <3> QED
      BY <3>4 DEF L!Next
  <2>8. ASSUME NEW p \in Process, Dies(p) PROVE [L!Next]_(L!vars)
    <3>1. /\ Durable' = Durable
          /\ response' = [o \in Op |-> IF o = request[p].op THEN "lost" ELSE response[o]]
      BY <1>2, <2>8, DurableSteps DEF Dies
    <3>2. ASSUME request[p].op \in Op, response' = [response EXCEPT ![request[p].op] = "lost"]
          PROVE  L!LoseAnswer(request[p].op)
      BY <1>2, <3>1, <3>2 DEF L!LoseAnswer, IInv, OneInside, Own
    <3> QED
      BY <2>4, <2>5, <3>1, <3>2 DEF L!Next
  <2> QED
    BY <1>2, <2>1, <2>2, <2>3, <2>6, <2>7, <2>8 DEF FileNext
<1> QED
  BY <1>1, <1>2, StoreInvariant, PTL DEF FileSpec, ImplementsLedger, L!Spec

-----------------------------------------------------------------------------
(* Sessions and tickets *)

(* Types, and what a caller between two statements has read. *)
SoundRead(r) ==
    /\ r.op = "login" => r.of \in Accounts
    /\ r.op \in {"refresh", "revoke"} => r.of \in Sessions /\ r.token \in 1..issued
    /\ r.op = "consume" => r.of \in Tickets /\ r.token = 0 /\ tickets[r.of] # "none"

DoorsTyped ==
    /\ DoorsTypeOK
    /\ consumed \in [Tickets -> Nat]
    /\ DOMAIN req = Callers
    /\ \A k \in Callers : SoundRead(req[k])

(* A row has a token that was issued and no other row has; what is dead was. *)
TokensDiffer ==
    /\ dead \subseteq 1..issued
    /\ \A s \in Sessions : sessions[s] # NoSession => sessions[s].token \in 1..issued
    /\ \A s, t \in Sessions :
          sessions[s] # NoSession /\ sessions[t] # NoSession /\ sessions[s].token = sessions[t].token => s = t

(* A ticket that may still be consumed was not. *)
ConsumedOnce ==
    \A t \in Tickets : consumed[t] <= 1 /\ (consumed[t] > 0 => tickets[t] \notin {"none", "open"})

DoorsInv == DoorsTyped /\ TokensDiffer /\ DeadTokensOpenNothing /\ ConsumedOnce

LEMMA DoorsBounds ==
    /\ MaxTokens \in Nat /\ Nobody \notin Accounts
    /\ NoSession \in Session /\ 0 \notin 1..MaxTokens
BY SqlDoorsAssumption, SqlConnectionAssumption DEF NoSession, Session

LEMMA DoorsStart == DoorsInit => DoorsInv
<1> SUFFICES ASSUME DoorsInit PROVE DoorsInv
  OBVIOUS
<1>1. DoorsTyped
  BY DoorsBounds DEF DoorsInit, DoorsTyped, DoorsTypeOK, SoundRead, NoRequest
<1>2. TokensDiffer /\ DeadTokensOpenNothing /\ ConsumedOnce
  BY DEF DoorsInit, TokensDiffer, DeadTokensOpenNothing, ConsumedOnce
<1> QED BY <1>1, <1>2 DEF DoorsInv

(* A row has a session exactly when it has a token. *)
LEMMA Rows ==
    ASSUME DoorsTyped, TokensDiffer, NEW s \in Sessions
    PROVE  /\ sessions[s] \in Session
           /\ sessions[s] = NoSession => sessions[s].token = 0
           /\ \A token \in 1..MaxTokens : sessions[s].token = token => sessions[s] # NoSession
BY DoorsBounds DEF DoorsTyped, DoorsTypeOK, NoSession, TokensDiffer

(* The tokens after statements that make none and drop rows, if anything. *)
LEMMA TokensStay ==
    ASSUME DoorsTyped, TokensDiffer, DeadTokensOpenNothing, UNCHANGED issued,
           NEW D \in SUBSET (1..issued), dead' = dead \cup D,
           \A s \in Sessions : \/ sessions'[s] = NoSession
                               \/ /\ sessions'[s].token = sessions[s].token
                                  /\ sessions[s] = NoSession => sessions'[s] = NoSession
                                  /\ sessions[s].token \notin D
    PROVE  TokensDiffer' /\ \A token \in dead' : SessionByToken(token)' = {}
<1>1. dead' \subseteq 1..issued'
  BY DEF TokensDiffer
<1>2. \A s \in Sessions : sessions'[s] # NoSession =>
        sessions'[s].token = sessions[s].token /\ sessions[s] # NoSession /\ sessions[s].token \notin D
  OBVIOUS
<1>3. TokensDiffer'
  BY <1>1, <1>2 DEF TokensDiffer, NoSession
<1>4. ASSUME NEW token \in dead', NEW s \in Sessions, sessions'[s].token = token PROVE FALSE
  <2>1. token \in 1..issued
    BY <1>1
  <2>2. sessions'[s] # NoSession
    BY <1>4, <2>1, DoorsBounds DEF NoSession, DoorsTyped, DoorsTypeOK
  <2>3. sessions[s].token = token /\ token \notin D
    BY <1>2, <1>4, <2>2
  <2> QED BY <2>3 DEF DeadTokensOpenNothing, SessionByToken
<1> QED BY <1>3, <1>4 DEF SessionByToken

LEMMA DeleteFacts ==
    ASSUME DoorsTyped, TokensDiffer, DeadTokensOpenNothing, UNCHANGED issued, NEW token \in 1..issued, Delete(token)
    PROVE  /\ sessions' \in [Sessions -> Session] /\ dead' \subseteq 1..MaxTokens
           /\ TokensDiffer' /\ \A t \in dead' : SessionByToken(t)' = {}
<1>1. \A s \in Sessions : sessions'[s] = NoSession \/ (sessions'[s] = sessions[s] /\ sessions[s].token # token)
  BY DEF Delete, SessionByToken
<1>2. sessions' \in [Sessions -> Session]
  BY DoorsBounds DEF Delete, DoorsTyped, DoorsTypeOK
<1>3. dead' = dead \cup {token} /\ {token} \in SUBSET (1..issued)
  BY DEF Delete
<1>4. dead' \subseteq 1..MaxTokens
  BY <1>3, DoorsBounds DEF DoorsTyped, DoorsTypeOK
<1> QED BY <1>1, <1>2, <1>3, <1>4, TokensStay

LEMMA TokensStand ==
    ASSUME UNCHANGED <<sessions, issued, dead>>, TokensDiffer, DeadTokensOpenNothing
    PROVE  TokensDiffer' /\ \A t \in dead' : SessionByToken(t)' = {}
BY DEF TokensDiffer, DeadTokensOpenNothing, SessionByToken

(* What one caller reads or forgets leaves the others' reads as they were. *)
LEMMA ReadsStand ==
    ASSUME DoorsTyped, NEW k \in Callers, NEW r, req' = [req EXCEPT ![k] = r], SoundRead(r)',
           issued <= issued', issued' \in Nat, issued \in Nat,
           \A t \in Tickets : tickets[t] # "none" => tickets'[t] # "none"
    PROVE  DOMAIN req' = Callers /\ \A l \in Callers : SoundRead(req[l])'
<1>1. DOMAIN req' = Callers
  BY DEF DoorsTyped
<1>2. ASSUME NEW l \in Callers, l # k PROVE SoundRead(req[l])'
  <2>1. req'[l] = req[l] /\ SoundRead(req[l])
    BY <1>2 DEF DoorsTyped
  <2> QED BY <2>1 DEF SoundRead
<1>3. SoundRead(req[k])'
  <2>1. req'[k] = r
    BY DEF DoorsTyped
  <2> QED BY <2>1 DEF SoundRead
<1> QED BY <1>1, <1>2, <1>3

LEMMA ReadsUnchanged ==
    ASSUME DoorsTyped, UNCHANGED req, issued <= issued', issued' \in Nat, issued \in Nat,
           \A t \in Tickets : tickets[t] # "none" => tickets'[t] # "none"
    PROVE  DOMAIN req' = Callers /\ \A l \in Callers : SoundRead(req[l])'
BY DEF DoorsTyped, SoundRead

LEMMA ForgetsSound == SoundRead(NoRequest)'
BY DEF SoundRead, NoRequest

(* A token that is made is new. *)
LEMMA NewToken ==
    ASSUME DoorsTyped, TokensDiffer, MakeToken
    PROVE  /\ Token \in 1..MaxTokens /\ Token \in 1..issued' /\ Token \notin dead /\ Token \notin 1..issued
           /\ issued' \in 0..MaxTokens /\ issued <= issued' /\ issued \in Nat /\ issued' \in Nat
           /\ 1..issued \subseteq 1..issued'
BY DoorsBounds DEF DoorsTyped, DoorsTypeOK, TokensDiffer, MakeToken, Token

LEMMA NobodyHasIt ==
    ASSUME DoorsTyped, TokensDiffer, MakeToken, NEW t \in Sessions
    PROVE  sessions[t].token # Token
<1>1. CASE sessions[t] = NoSession
  <2>1. sessions[t].token = 0
    BY <1>1 DEF NoSession
  <2>2. Token # 0
    BY NewToken, DoorsBounds
  <2> QED BY <2>1, <2>2
<1>2. CASE sessions[t] # NoSession
  <2>1. sessions[t].token \in 1..issued
    BY <1>2 DEF TokensDiffer
  <2> QED BY <2>1, NewToken
<1> QED BY <1>1, <1>2

LEMMA LoginSteps ==
    ASSUME DoorsInv, NEW k \in Callers, NEW s \in Sessions, CreateSession(k, s)
    PROVE  DoorsInv'
<1> USE DEF DoorsInv
<1>0. issued' \in 0..MaxTokens /\ issued \in Nat /\ issued' \in Nat /\ issued <= issued'
  BY NewToken DEF CreateSession
<1> DEFINE r == [account |-> req[k].of, token |-> Token, age |-> "fresh"]
<1>1. /\ req[k].op = "login" /\ sessions[s] = NoSession /\ MakeToken
      /\ sessions' = [sessions EXCEPT ![s] = r] /\ req' = [req EXCEPT ![k] = NoRequest]
      /\ UNCHANGED <<accounts, tickets, places, dead, consumed>>
  BY DEF CreateSession, Answered
<1>2. req[k].of \in Accounts
  BY <1>1 DEF DoorsTyped, SoundRead
<1>3. r \in Session /\ r # NoSession /\ r.token = Token
  BY <1>1, <1>2, NewToken, DoorsBounds DEF Session, NoSession
<1> HIDE DEF r
<1>4. sessions' \in [Sessions -> Session]
  BY <1>1, <1>3 DEF DoorsTyped, DoorsTypeOK
<1>5. sessions'[s] = r /\ \A t \in Sessions : t # s => sessions'[t] = sessions[t]
  BY <1>1 DEF DoorsTyped, DoorsTypeOK
<1>6. TokensDiffer'
  BY <1>1, <1>3, <1>5, NewToken DEF TokensDiffer
<1>7. DeadTokensOpenNothing'
  BY <1>1, <1>3, <1>5, NewToken DEF DeadTokensOpenNothing, SessionByToken
<1>8. DOMAIN req' = Callers /\ \A l \in Callers : SoundRead(req[l])'
  BY <1>0, <1>1, ReadsStand, ForgetsSound
<1>9. DoorsTyped'
  BY <1>0, <1>1, <1>4, <1>8 DEF DoorsTyped, DoorsTypeOK
<1>10. ConsumedOnce'
  BY <1>1 DEF ConsumedOnce
<1> QED BY <1>6, <1>7, <1>9, <1>10

LEMMA RefreshSteps ==
    ASSUME DoorsInv, NEW k \in Callers, RefreshUpdate(k)
    PROVE  DoorsInv'
<1> USE DEF DoorsInv
<1> DEFINE s == req[k].of
<1>0. issued' \in 0..MaxTokens /\ issued \in Nat /\ issued' \in Nat /\ issued <= issued'
  BY NewToken DEF RefreshUpdate
<1>1. /\ req[k].op = "refresh" /\ MakeToken /\ sessions' = UpdateTokens(s)
      /\ dead' = dead \cup (IF sessions[s] = NoSession THEN {Token} ELSE {sessions[s].token})
      /\ req' = [req EXCEPT ![k] = NoRequest]
      /\ UNCHANGED <<accounts, tickets, places, consumed>>
  BY DEF RefreshUpdate, Answered
<1>2. s \in Sessions /\ sessions[s] \in Session
  BY <1>1 DEF DoorsTyped, SoundRead, DoorsTypeOK
<1> HIDE DEF s
<1>3. DOMAIN req' = Callers /\ \A l \in Callers : SoundRead(req[l])'
  BY <1>0, <1>1, ReadsStand, ForgetsSound
<1>4. CASE sessions[s] = NoSession
  <2>1. sessions' = sessions /\ dead' = dead \cup {Token}
    BY <1>1, <1>4 DEF UpdateTokens
  <2>2. DoorsTyped'
    BY <1>0, <1>1, <1>3, <2>1, NewToken DEF DoorsTyped, DoorsTypeOK
  <2>3. TokensDiffer'
    BY <1>1, <2>1, NewToken DEF TokensDiffer
  <2>4. \A t \in Sessions : sessions[t].token # Token
    BY <1>1, NobodyHasIt
  <2>5. DeadTokensOpenNothing'
    BY <1>1, <2>1, <2>4 DEF DeadTokensOpenNothing, SessionByToken
  <2> QED BY <1>1, <2>2, <2>3, <2>5 DEF ConsumedOnce
<1>5. CASE sessions[s] # NoSession
  <2> DEFINE old == sessions[s].token
             a == [account |-> sessions[s].account, token |-> Token, age |-> "fresh"]
  <2>1. sessions' = [sessions EXCEPT ![s] = a] /\ dead' = dead \cup {old}
    BY <1>1, <1>2, <1>5 DEF UpdateTokens, DoorsTyped, DoorsTypeOK
  <2>2. a \in Session /\ a.token = Token /\ a # NoSession /\ old \in 1..issued
    <3>1. a \in Session /\ a.token = Token
      <4>1. Token \in 0..MaxTokens
        BY <1>1, NewToken, DoorsBounds
      <4> QED BY <1>2, <4>1 DEF Session
    <3>2. Token # 0
      BY <1>1, NewToken, DoorsBounds
    <3> QED BY <1>2, <1>5, <3>1, <3>2 DEF TokensDiffer, NoSession
  <2> HIDE DEF a
  <2>3. sessions'[s] = a /\ \A t \in Sessions : t # s => sessions'[t] = sessions[t] /\ sessions[t].token # old
    <3>1. sessions'[s] = a /\ \A t \in Sessions : t # s => sessions'[t] = sessions[t]
      BY <1>2, <2>1 DEF DoorsTyped, DoorsTypeOK
    <3>2. ASSUME NEW t \in Sessions, t # s PROVE sessions[t].token # old
      <4>1. CASE sessions[t] = NoSession
        <5>1. sessions[t].token = 0
          BY <4>1 DEF NoSession
        <5>2. old # 0
          BY <2>2, <1>0
        <5> QED BY <5>1, <5>2
      <4>2. CASE sessions[t] # NoSession
        BY <1>2, <1>5, <3>2, <4>2 DEF TokensDiffer
      <4> QED BY <4>1, <4>2
    <3> QED BY <3>1, <3>2
  <2>4. DoorsTyped'
    <3>1. sessions' \in [Sessions -> Session]
      BY <2>1, <2>2 DEF DoorsTyped, DoorsTypeOK
    <3>2. dead' \subseteq 1..MaxTokens
      <4>1. issued \in 0..MaxTokens /\ dead \subseteq 1..MaxTokens
        BY DEF DoorsTyped, DoorsTypeOK
      <4>2. old \in 1..MaxTokens
        BY <2>2, <4>1, DoorsBounds
      <4> QED BY <2>1, <4>1, <4>2
    <3> QED BY <1>0, <1>1, <1>3, <3>1, <3>2 DEF DoorsTyped, DoorsTypeOK
  <2>5. TokensDiffer'
    <3>1. dead' \subseteq 1..issued'
      BY <1>1, <2>1, <2>2, NewToken DEF TokensDiffer
    <3>2. \A t \in Sessions : sessions'[t] # NoSession => sessions'[t].token \in 1..issued'
      BY <1>1, <2>2, <2>3, NewToken DEF TokensDiffer
    <3>3. \A t \in Sessions : t # s => sessions'[t].token # Token
      BY <1>1, <2>3, NobodyHasIt
    <3> QED BY <2>2, <2>3, <3>1, <3>2, <3>3 DEF TokensDiffer
  <2>6. DeadTokensOpenNothing'
    <3>1. Token \notin dead /\ Token # old
      BY <1>1, <2>2, NewToken
    <3>2. \A t \in Sessions : sessions'[t].token \notin dead'
      BY <2>1, <2>2, <2>3, <3>1 DEF DeadTokensOpenNothing, SessionByToken
    <3> QED BY <1>1, <3>2 DEF DeadTokensOpenNothing, SessionByToken
  <2> QED BY <1>1, <2>4, <2>5, <2>6 DEF ConsumedOnce
<1> QED BY <1>4, <1>5

(* Steps that neither make nor change a token. *)
LEMMA RevokeSteps ==
    ASSUME DoorsInv,
           \/ \E token \in 1..MaxTokens : RevokeSession(token)
           \/ \E k \in Callers : RefreshRevokes(k)
    PROVE  DoorsInv'
<1> USE DEF DoorsInv
<1>0. issued \in Nat /\ issued \in 0..MaxTokens
  BY DoorsBounds DEF DoorsTyped, DoorsTypeOK
<1>1. UNCHANGED <<accounts, tickets, places, issued, consumed>>
  BY DEF RevokeSession, RefreshRevokes
<1>2. PICK token \in 1..issued : Delete(token)
  BY DEF RevokeSession, RefreshRevokes, DoorsTyped, SoundRead
<1>3. /\ sessions' \in [Sessions -> Session] /\ dead' \subseteq 1..MaxTokens
      /\ TokensDiffer' /\ \A t \in dead' : SessionByToken(t)' = {}
  BY <1>1, <1>2, DeleteFacts
<1>4. DOMAIN req' = Callers /\ \A l \in Callers : SoundRead(req[l])'
  <2>1. CASE \E t \in 1..MaxTokens : RevokeSession(t)
    BY <1>0, <1>1, <2>1, ReadsUnchanged DEF RevokeSession
  <2>2. CASE \E k \in Callers : RefreshRevokes(k)
    <3>1. PICK k \in Callers : req' = [req EXCEPT ![k] = NoRequest]
      BY <2>2 DEF RefreshRevokes, Answered
    <3>2. /\ issued <= issued' /\ issued' \in Nat
          /\ \A t \in Tickets : tickets[t] # "none" => tickets'[t] # "none"
      BY <1>0, <1>1
    <3> QED BY <1>0, <3>1, <3>2, ReadsStand, ForgetsSound
  <2> QED BY <2>1, <2>2
<1>5. DoorsTyped'
  BY <1>0, <1>1, <1>3, <1>4 DEF DoorsTyped, DoorsTypeOK
<1>6. DeadTokensOpenNothing' /\ ConsumedOnce'
  BY <1>1, <1>3 DEF DeadTokensOpenNothing, ConsumedOnce
<1> QED BY <1>3, <1>5, <1>6

(* What remains once a step leaves the sessions and the tokens alone. *)
LEMMA QuietStep ==
    ASSUME DoorsInv, UNCHANGED <<sessions, issued, dead>>,
           accounts' \in [Accounts -> {"none", "active", "banned"}],
           tickets' \in [Tickets -> {"none", "open", "consumed", "expired", "gone"}],
           consumed' \in [Tickets -> Nat], ConsumedOnce',
           DOMAIN req' = Callers, \A k \in Callers : SoundRead(req[k])'
    PROVE  DoorsInv'
<1>1. TokensDiffer' /\ DeadTokensOpenNothing'
  BY TokensStand DEF DoorsInv, ConsumedOnce, DeadTokensOpenNothing
<1>2. DoorsTyped'
  BY DEF DoorsInv, DoorsTyped, DoorsTypeOK
<1> QED BY <1>1, <1>2 DEF DoorsInv

LEMMA CountsStay ==
    DoorsInv => issued \in Nat /\ issued <= issued
BY DoorsBounds DEF DoorsInv, DoorsTyped, DoorsTypeOK

(* Statements that only read, and callers that stop. *)
LEMMA ReadSteps ==
    ASSUME DoorsInv, NEW k \in Callers,
           \/ \E a \in Accounts : Authenticate(k, a)
           \/ \E token \in 1..MaxTokens : RefreshRead(k, token) \/ ValidateSession(k, token)
           \/ ValidateAccount(k) \/ Abandon(k)
           \/ \E t \in Tickets : ValidateWorldJoinTicket(k, t)
    PROVE  DoorsInv'
<1>1. UNCHANGED <<accounts, sessions, tickets, places, issued, dead, consumed>>
  BY DEF Authenticate, RefreshRead, ValidateSession, ValidateAccount, Abandon, ValidateWorldJoinTicket
<1>2. PICK r : req' = [req EXCEPT ![k] = r] /\ SoundRead(r)
  <2>1. CASE \E a \in Accounts : Authenticate(k, a)
    <3>1. PICK a \in Accounts : Authenticate(k, a)
      BY <2>1
    <3>2. SoundRead([op |-> "login", of |-> a, token |-> 0])
      BY DEF SoundRead
    <3> QED BY <3>1, <3>2 DEF Authenticate, Read
  <2>2. CASE \E token \in 1..MaxTokens : RefreshRead(k, token)
    <3>1. PICK token \in 1..MaxTokens : RefreshRead(k, token)
      BY <2>2
    <3>2. PICK s \in SessionByToken(token) :
            Read(k, IF sessions[s].age = "old" THEN "revoke" ELSE "refresh", s, token)
      BY <3>1 DEF RefreshRead
    <3>3. s \in Sessions /\ sessions[s].token = token /\ sessions[s] # NoSession
      BY Rows DEF SessionByToken, DoorsInv
    <3>4. token \in 1..issued
      BY <3>3 DEF DoorsInv, TokensDiffer
    <3>5. ASSUME NEW op \in {"refresh", "revoke"} PROVE SoundRead([op |-> op, of |-> s, token |-> token])
      BY <3>3, <3>4 DEF SoundRead
    <3>6. CASE sessions[s].age = "old"
      BY <3>2, <3>5, <3>6 DEF Read
    <3>7. CASE sessions[s].age # "old"
      BY <3>2, <3>5, <3>7 DEF Read
    <3> QED BY <3>6, <3>7
  <2>3. CASE \E token \in 1..MaxTokens : ValidateSession(k, token)
    <3>1. PICK token \in 1..MaxTokens, s \in Sessions : Read(k, "validate", sessions[s].account, token)
      BY <2>3 DEF ValidateSession, SessionByToken
    <3>2. SoundRead([op |-> "validate", of |-> sessions[s].account, token |-> token])
      BY DEF SoundRead
    <3> QED BY <3>1, <3>2 DEF Read
  <2>4. CASE ValidateAccount(k) \/ Abandon(k)
    BY <2>4 DEF ValidateAccount, Abandon, Answered, SoundRead, NoRequest
  <2>5. CASE \E t \in Tickets : ValidateWorldJoinTicket(k, t)
    <3>1. PICK t \in Tickets : ValidateWorldJoinTicket(k, t)
      BY <2>5
    <3>2. tickets[t] = "open" /\ Read(k, "consume", t, consumed[t])
      BY <3>1 DEF ValidateWorldJoinTicket
    <3>3. consumed[t] = 0
      BY <3>2 DEF DoorsInv, DoorsTyped, ConsumedOnce
    <3>4. SoundRead([op |-> "consume", of |-> t, token |-> consumed[t]])
      BY <3>2, <3>3 DEF SoundRead
    <3> QED BY <3>2, <3>4 DEF Read
  <2> QED BY <2>1, <2>2, <2>3, <2>4, <2>5
<1>3. SoundRead(r)'
  BY <1>1, <1>2 DEF SoundRead
<1>4. DOMAIN req' = Callers /\ \A l \in Callers : SoundRead(req[l])'
  <2>1. issued \in Nat /\ issued' \in Nat /\ issued <= issued'
    BY <1>1, CountsStay
  <2>2. \A t \in Tickets : tickets[t] # "none" => tickets'[t] # "none"
    BY <1>1
  <2>3. DoorsTyped
    BY DEF DoorsInv
  <2> QED BY <1>2, <1>3, <2>1, <2>2, <2>3, ReadsStand
<1>5. ConsumedOnce'
  BY <1>1 DEF DoorsInv, ConsumedOnce
<1> QED BY <1>1, <1>4, <1>5, QuietStep DEF DoorsInv, DoorsTyped, DoorsTypeOK

(* Accounts, ages, tickets and world sessions: no caller between statements moves. *)
LEMMA SessionAgesKeeps ==
    ASSUME DoorsInv, NEW s \in Sessions, SessionAges(s)
    PROVE  DoorsInv'
<1>1. UNCHANGED <<accounts, tickets, places, issued, req, dead, consumed>>
  BY DEF SessionAges
<1>2. PICK g \in {"stale", "old"} : sessions' = [sessions EXCEPT ![s].age = g] /\ sessions[s].age \in {"fresh", "stale"}
  BY DEF SessionAges
<1>3. sessions \in [Sessions -> Session] /\ sessions[s] # NoSession
  BY <1>2 DEF DoorsInv, DoorsTyped, DoorsTypeOK, NoSession
<1>4. sessions' \in [Sessions -> Session]
  BY <1>2, <1>3 DEF Session
<1>5. \A t \in Sessions : /\ sessions'[t].token = sessions[t].token
                          /\ sessions[t] = NoSession => sessions'[t] = NoSession
  BY <1>2, <1>3 DEF Session
<1>6. TokensDiffer' /\ \A token \in dead' : SessionByToken(token)' = {}
  <2>1. {} \in SUBSET (1..issued) /\ dead' = dead \cup {}
    BY <1>1
  <2>2. DoorsTyped /\ TokensDiffer /\ DeadTokensOpenNothing /\ UNCHANGED issued
    BY <1>1 DEF DoorsInv
  <2> HIDE DEF DoorsInv
  <2> QED BY <1>5, <2>1, <2>2, TokensStay
<1>7. DOMAIN req' = Callers /\ \A l \in Callers : SoundRead(req[l])'
  BY <1>1 DEF DoorsInv, DoorsTyped, SoundRead
<1>8. DoorsTyped'
  BY <1>1, <1>4, <1>7 DEF DoorsInv, DoorsTyped, DoorsTypeOK
<1>9. ConsumedOnce' /\ DeadTokensOpenNothing'
  BY <1>1, <1>6 DEF DoorsInv, ConsumedOnce, DeadTokensOpenNothing
<1> QED BY <1>6, <1>8, <1>9 DEF DoorsInv

LEMMA TicketSteps ==
    ASSUME DoorsInv, "consume" \notin Races,
           \/ \E a \in Accounts : CreateAccount(a)
           \/ \E t \in Tickets : IssueWorldJoinTicket(t) \/ TicketExpires(t)
           \/ RevokeCharacterJoinTickets(Tickets)
           \/ \E p \in WorldSessions :
                 CreateWorldSession(p) \/ \E c \in {"connected", "left"} : UpdateWorldSession(p, c)
    PROVE  DoorsInv'
<1>1. UNCHANGED <<sessions, issued, req, dead, consumed>>
  BY DEF CreateAccount, IssueWorldJoinTicket, TicketExpires, RevokeCharacterJoinTickets,
         CreateWorldSession, UpdateWorldSession
<1>2. accounts' \in [Accounts -> {"none", "active", "banned"}]
  BY DEF CreateAccount, IssueWorldJoinTicket, TicketExpires, RevokeCharacterJoinTickets,
         CreateWorldSession, UpdateWorldSession, DoorsInv, DoorsTyped, DoorsTypeOK
<1>3. /\ tickets' \in [Tickets -> {"none", "open", "consumed", "expired", "gone"}]
      /\ \A t \in Tickets : /\ tickets[t] # "none" => tickets'[t] # "none"
                            /\ tickets'[t] \in {"none", "open"} => tickets[t] \in {"none", "open"}
  BY DEF CreateAccount, IssueWorldJoinTicket, TicketExpires, RevokeCharacterJoinTickets,
         CreateWorldSession, UpdateWorldSession, DoorsInv, DoorsTyped, DoorsTypeOK
<1>4. ConsumedOnce'
  BY <1>1, <1>3 DEF DoorsInv, ConsumedOnce
<1>5. DOMAIN req' = Callers /\ \A l \in Callers : SoundRead(req[l])'
  BY <1>1, <1>3 DEF DoorsInv, DoorsTyped, SoundRead
<1> QED BY <1>1, <1>2, <1>3, <1>4, <1>5, QuietStep DEF DoorsInv, DoorsTyped

LEMMA ConsumeKeeps ==
    ASSUME DoorsInv, "consume" \notin Races, NEW k \in Callers, ConsumeWorldJoinTicket(k)
    PROVE  DoorsInv'
<1> DEFINE t == req[k].of
<1>1. /\ req[k].op = "consume" /\ ~(consumed[t] > req[k].token)
      /\ tickets' = MarkConsumed(t) /\ consumed' = [consumed EXCEPT ![t] = @ + 1]
      /\ req' = [req EXCEPT ![k] = NoRequest]
      /\ UNCHANGED <<accounts, sessions, places, issued, dead>>
  BY DEF ConsumeWorldJoinTicket, Answered
<1>2. t \in Tickets /\ req[k].token = 0 /\ tickets[t] # "none"
  BY <1>1 DEF DoorsInv, DoorsTyped, SoundRead
<1> HIDE DEF t
<1>3. consumed \in [Tickets -> Nat] /\ consumed[t] = 0
  BY <1>1, <1>2 DEF DoorsInv, DoorsTyped
<1>4. consumed' \in [Tickets -> Nat] /\ consumed'[t] = 1 /\ \A u \in Tickets : u # t => consumed'[u] = consumed[u]
  BY <1>1, <1>2, <1>3
<1>5. /\ tickets' \in [Tickets -> {"none", "open", "consumed", "expired", "gone"}]
      /\ tickets'[t] \in {"gone", "consumed"} /\ \A u \in Tickets : u # t => tickets'[u] = tickets[u]
  BY <1>1, <1>2 DEF MarkConsumed, DoorsInv, DoorsTyped, DoorsTypeOK
<1>6. ConsumedOnce'
  <2>1. ASSUME NEW u \in Tickets
        PROVE consumed'[u] <= 1 /\ (consumed'[u] > 0 => tickets'[u] \notin {"none", "open"})
    <3>1. CASE u = t
      BY <3>1, <1>4, <1>5
    <3>2. CASE u # t
      BY <3>2, <1>4, <1>5 DEF DoorsInv, ConsumedOnce
    <3> QED BY <3>1, <3>2
  <2> QED BY <2>1 DEF ConsumedOnce
<1>7. DOMAIN req' = Callers /\ \A l \in Callers : SoundRead(req[l])'
  <2>1. issued \in Nat /\ issued' \in Nat /\ issued <= issued'
    BY <1>1, CountsStay
  <2>2. \A u \in Tickets : tickets[u] # "none" => tickets'[u] # "none"
    BY <1>5
  <2>3. DoorsTyped
    BY DEF DoorsInv
  <2> QED BY <1>1, <2>1, <2>2, <2>3, ReadsStand, ForgetsSound
<1> QED BY <1>1, <1>4, <1>5, <1>6, <1>7, QuietStep DEF DoorsInv, DoorsTyped, DoorsTypeOK

LEMMA DoorsKeep ==
    ASSUME DoorsInv, "consume" \notin Races, DoorsNext
    PROVE  DoorsInv'
<1>1. CASE \E s \in Sessions : SessionAges(s)
  BY <1>1, SessionAgesKeeps
<1>2. CASE \/ \E a \in Accounts : CreateAccount(a)
           \/ \E t \in Tickets : IssueWorldJoinTicket(t) \/ TicketExpires(t)
           \/ RevokeCharacterJoinTickets(Tickets)
           \/ \E p \in WorldSessions :
                 CreateWorldSession(p) \/ \E c \in {"connected", "left"} : UpdateWorldSession(p, c)
  BY <1>2, TicketSteps
<1>3. CASE (\E token \in 1..MaxTokens : RevokeSession(token)) \/ (\E k \in Callers : RefreshRevokes(k))
  BY <1>3, RevokeSteps
<1>4. CASE \E k \in Callers : RefreshUpdate(k)
  BY <1>4, RefreshSteps
<1>5. CASE \E k \in Callers : \E s \in Sessions : CreateSession(k, s)
  BY <1>5, LoginSteps
<1>6. CASE \E k \in Callers : ConsumeWorldJoinTicket(k)
  BY <1>6, ConsumeKeeps
<1>7. CASE \E k \in Callers :
             \/ \E a \in Accounts : Authenticate(k, a)
             \/ \E token \in 1..MaxTokens : RefreshRead(k, token) \/ ValidateSession(k, token)
             \/ ValidateAccount(k) \/ Abandon(k)
             \/ \E t \in Tickets : ValidateWorldJoinTicket(k, t)
  BY <1>7, ReadSteps
<1> QED BY <1>1, <1>2, <1>3, <1>4, <1>5, <1>6, <1>7 DEF DoorsNext

(* Session and join ticket calls, one statement at a time: unless two callers  *)
(* consume one ticket between each other's statements ("consume"), a token that *)
(* was replaced, revoked or handed out too late has no session and no ticket is *)
(* consumed twice - for any number of callers, sessions and tokens.            *)
THEOREM SpentDoors ==
    ASSUME "consume" \notin Races
    PROVE  Spec => []DeadTokensOpenNothing
<1>1. Init => DoorsInv
  BY DoorsStart DEF Init
<1>2. DoorsInv /\ [Next]_<<goods, grouped, doors, scene>> => DoorsInv'
  <2> SUFFICES ASSUME DoorsInv, [Next]_<<goods, grouped, doors, scene>> PROVE DoorsInv'
    OBVIOUS
  <2>1. CASE DoorsNext
    BY <2>1, DoorsKeep
  <2>2. CASE UNCHANGED doors
    BY <2>2 DEF doors, DoorsInv, DoorsTyped, DoorsTypeOK, SoundRead, TokensDiffer, ConsumedOnce,
                DeadTokensOpenNothing, SessionByToken
  <2> QED BY <2>1, <2>2 DEF Next
<1>3. DoorsInv => DeadTokensOpenNothing
  BY DEF DoorsInv
<1> QED BY <1>1, <1>2, <1>3, PTL DEF Spec

-----------------------------------------------------------------------------
(* Parties and guilds *)

(* A caller's copy is of a group, and the caller is not deleting another one. *)
CopiesSound ==
    /\ DOMAIN copies = Callers
    /\ \A k \in Callers : copies[k] # None =>
          /\ copies[k].of \in Groups /\ copies[k].leader \in Characters
          /\ copies[k].members \subseteq Characters /\ deleting[k] = Nobody

(* Who leads a live group; a group that is being deleted is used and not live. *)
LiveLed ==
    /\ \A g \in Groups : groups[g].live => groups[g].leader \in Characters
    /\ \A k \in Callers : deleting[k] # Nobody =>
          ~groups[deleting[k]].live /\ groups[deleting[k]].leader # Nobody

InvitesSound ==
    \A i \in Invites : invites[i].state = "pending" =>
        invites[i].of \in Groups /\ invites[i].by \in Characters /\ invites[i].to \in Characters

GroupsInv == GroupedTypeOK /\ CopiesSound /\ LiveLed /\ InvitesSound /\ MembershipAgrees

LEMMA GroupsNobody ==
    /\ Nobody \notin Characters /\ Nobody \notin Groups /\ MaxCalls \in Nat
    /\ None.of \notin Groups
BY SqlGroupsAssumption, SqlConnectionAssumption DEF Groups, None

LEMMA GroupsStart == GroupedInit => GroupsInv
<1> SUFFICES ASSUME GroupedInit PROVE GroupsInv
  OBVIOUS
<1>1. GroupedTypeOK
  BY GroupsNobody DEF GroupedInit, GroupedTypeOK, Group, Invite
<1>2. CopiesSound /\ LiveLed /\ InvitesSound /\ MembershipAgrees
  BY DEF GroupedInit, CopiesSound, LiveLed, InvitesSound, MembershipAgrees
<1> QED BY <1>1, <1>2 DEF GroupsInv

LEMMA CallsCount ==
    GroupsInv /\ Call => calls' \in 0..MaxCalls
BY GroupsNobody DEF GroupsInv, GroupedTypeOK, Call

(* A group that is saved with its leader among its members agrees. *)
LEMMA SaveAgrees ==
    ASSUME GroupsInv, NEW g \in Groups, NEW leader \in Characters, NEW ms \in SUBSET Characters,
           leader \in ms, SaveGroup(g, leader, ms), groups[g].live \/ Unused(g), UNCHANGED deleting
    PROVE  /\ groups' \in [Groups -> Group] /\ members' \subseteq Groups \X Characters
           /\ LiveLed' /\ MembershipAgrees'
<1>1. groups \in [Groups -> Group] /\ members \subseteq Groups \X Characters
  BY DEF GroupsInv, GroupedTypeOK
<1>2. [leader |-> leader, live |-> TRUE] \in Group
  BY DEF Group
<1>3. /\ groups' \in [Groups -> Group] /\ groups'[g] = [leader |-> leader, live |-> TRUE]
      /\ \A h \in Groups : h # g => groups'[h] = groups[h]
  BY <1>1, <1>2 DEF SaveGroup
<1>4. members' = {r \in members : r[1] # g} \cup ({g} \X ms)
  BY DEF SaveGroup
<1>5. members' \subseteq Groups \X Characters
  BY <1>1, <1>4
<1>6. \A k \in Callers : deleting[k] # Nobody => deleting[k] # g /\ deleting[k] \in Groups
  BY DEF GroupsInv, GroupedTypeOK, LiveLed, Unused
<1>7. LiveLed'
  BY <1>3, <1>6 DEF GroupsInv, LiveLed
<1>8. \A h \in Groups : groups'[h].live => <<h, groups'[h].leader>> \in members'
  <2>1. ASSUME NEW h \in Groups, h # g, groups'[h].live PROVE <<h, groups'[h].leader>> \in members'
    <3>1. <<h, groups[h].leader>> \in members
      BY <1>3, <2>1 DEF GroupsInv, MembershipAgrees
    <3> QED BY <1>3, <1>4, <2>1, <3>1
  <2>2. <<g, groups'[g].leader>> \in members'
    BY <1>3, <1>4
  <2> QED BY <2>1, <2>2
<1>9. ASSUME NEW r \in members' PROVE groups'[r[1]].live \/ \E k \in Callers : deleting'[k] = r[1]
  <2>1. CASE r \in members /\ r[1] # g
    <3>1. r[1] \in Groups
      BY <1>1, <2>1
    <3>2. groups[r[1]].live \/ \E k \in Callers : deleting[k] = r[1]
      BY <2>1 DEF GroupsInv, MembershipAgrees
    <3> QED BY <1>3, <2>1, <3>1, <3>2
  <2>2. CASE r \in {g} \X ms
    BY <1>3, <2>2
  <2> QED BY <1>4, <2>1, <2>2
<1> QED BY <1>3, <1>5, <1>7, <1>8, <1>9 DEF MembershipAgrees

LEMMA CreateGroupKeeps ==
    ASSUME GroupsInv, NEW g \in Groups, NEW c \in Characters, CreateParty(g, c) \/ CreateGuild(g, c)
    PROVE  GroupsInv'
<1>1. /\ Call /\ Unused(g) /\ SaveGroup(g, c, {c})
      /\ UNCHANGED <<invites, friends, copies, deleting>>
  BY DEF CreateParty, CreateGuild
<1>2. /\ groups' \in [Groups -> Group] /\ members' \subseteq Groups \X Characters
      /\ LiveLed' /\ MembershipAgrees'
  BY <1>1, SaveAgrees
<1>3. GroupedTypeOK'
  BY <1>1, <1>2, CallsCount DEF GroupsInv, GroupedTypeOK
<1> QED BY <1>1, <1>2, <1>3 DEF GroupsInv, CopiesSound, InvitesSound

LEMMA GetGroupKeeps ==
    ASSUME GroupsInv, NEW k \in Callers, NEW g \in Groups, GetGroup(k, g)
    PROVE  GroupsInv'
<1> DEFINE copy == [of |-> g, leader |-> groups[g].leader, members |-> LoadMembers(g)]
<1>1. /\ groups[g].live /\ deleting[k] = Nobody
      /\ copies' = [copies EXCEPT ![k] = copy]
      /\ UNCHANGED <<groups, members, invites, friends, deleting, calls>>
  BY DEF GetGroup, AtRest
<1>2. copy.of \in Groups /\ copy.leader \in Characters /\ copy.members \subseteq Characters
  BY <1>1 DEF GroupsInv, LiveLed, LoadMembers
<1> HIDE DEF copy
<1>3. CopiesSound'
  BY <1>1, <1>2 DEF GroupsInv, CopiesSound
<1> QED BY <1>1, <1>3 DEF GroupsInv, GroupedTypeOK, LiveLed, InvitesSound, MembershipAgrees

LEMMA Forgotten ==
    ASSUME GroupsInv, NEW k \in Callers, copies' = [copies EXCEPT ![k] = None],
           \A l \in Callers : l # k => deleting'[l] = deleting[l]
    PROVE  CopiesSound'
BY DEF GroupsInv, CopiesSound

LEMMA CopyIsLive ==
    ASSUME GroupsInv, "revived" \notin Races, NEW k \in Callers, copies[k].of \in Groups, MaySave(k)
    PROVE  /\ groups[copies[k].of].live /\ copies[k].leader \in Characters
           /\ copies[k].members \subseteq Characters /\ deleting[k] = Nobody
<1>1. copies[k] # None
  BY GroupsNobody
<1> QED BY <1>1 DEF MaySave, AsRead, GroupsInv, CopiesSound

LEMMA SaveCopyKeeps ==
    ASSUME GroupsInv, NEW k \in Callers, NEW g \in Groups, NEW leader \in Characters,
           NEW ms \in SUBSET Characters, leader \in ms, groups[g].live,
           Call, SaveGroup(g, leader, ms), copies' = [copies EXCEPT ![k] = None],
           UNCHANGED <<invites, friends, deleting>>
    PROVE  GroupsInv'
<1>1. /\ groups' \in [Groups -> Group] /\ members' \subseteq Groups \X Characters
      /\ LiveLed' /\ MembershipAgrees'
  BY SaveAgrees
<1>2. CopiesSound'
  BY Forgotten
<1>3. GroupedTypeOK'
  BY <1>1, CallsCount DEF GroupsInv, GroupedTypeOK
<1> QED BY <1>1, <1>2, <1>3 DEF GroupsInv, InvitesSound

LEMMA SavePartyKeeps ==
    ASSUME GroupsInv, "revived" \notin Races, NEW k \in Callers,
           NEW e \in [leader : Characters, members : SUBSET Characters], SaveParty(k, e)
    PROVE  GroupsInv'
<1> DEFINE g == copies[k].of
           ms == NormalizePartyMembers(e.leader, e.members)
<1>1. /\ Call /\ g \in Parties /\ MaySave(k) /\ SaveGroup(g, e.leader, ms)
      /\ copies' = [copies EXCEPT ![k] = None] /\ UNCHANGED <<invites, friends, deleting>>
  BY DEF SaveParty
<1>2. g \in Groups
  BY <1>1 DEF Groups
<1>3. groups[g].live
  BY <1>1, <1>2, CopyIsLive
<1>4. e.leader \in Characters /\ ms \in SUBSET Characters /\ e.leader \in ms
  BY DEF NormalizePartyMembers
<1> HIDE DEF g, ms
<1> QED BY <1>1, <1>2, <1>3, <1>4, SaveCopyKeeps

(* A group that is deleted, and its caller that is to empty it. *)
LEMMA DisbandKeeps ==
    ASSUME GroupsInv, NEW k \in Callers, NEW g \in Groups, groups[g].live, Call,
           deleting[k] = Nobody, deleting' = [deleting EXCEPT ![k] = g],
           groups' = [groups EXCEPT ![g].live = FALSE],
           UNCHANGED <<members, invites, friends>>,
           DOMAIN copies' = Callers, copies'[k] = None, \A l \in Callers : l # k => copies'[l] = copies[l]
    PROVE  GroupsInv'
<1>1. groups \in [Groups -> Group] /\ deleting \in [Callers -> Groups \cup {Nobody}]
  BY DEF GroupsInv, GroupedTypeOK
<1>2. /\ groups' \in [Groups -> Group] /\ ~groups'[g].live /\ groups'[g].leader = groups[g].leader
      /\ \A h \in Groups : h # g => groups'[h] = groups[h]
  BY <1>1 DEF Group
<1>3. /\ deleting' \in [Callers -> Groups \cup {Nobody}] /\ deleting'[k] = g
      /\ \A l \in Callers : l # k => deleting'[l] = deleting[l]
  BY <1>1
<1>4. groups[g].leader # Nobody
  BY GroupsNobody DEF GroupsInv, LiveLed
<1>5. LiveLed'
  <2>1. \A h \in Groups : groups'[h].live => groups'[h].leader \in Characters
    BY <1>2 DEF GroupsInv, LiveLed
  <2>2. ASSUME NEW l \in Callers, deleting'[l] # Nobody
        PROVE  ~groups'[deleting'[l]].live /\ groups'[deleting'[l]].leader # Nobody
    <3>1. CASE l = k
      BY <1>2, <1>3, <1>4, <3>1
    <3>2. CASE l # k
      <4>1. /\ deleting[l] \in Groups /\ deleting'[l] = deleting[l]
            /\ ~groups[deleting[l]].live /\ groups[deleting[l]].leader # Nobody
        BY <1>1, <1>3, <2>2, <3>2 DEF GroupsInv, LiveLed
      <4> QED BY <1>2, <1>4, <4>1
    <3> QED BY <3>1, <3>2
  <2> QED BY <2>1, <2>2 DEF LiveLed
<1>6. MembershipAgrees'
  <2>1. \A h \in Groups : groups'[h].live => <<h, groups'[h].leader>> \in members'
    BY <1>2 DEF GroupsInv, MembershipAgrees
  <2>2. ASSUME NEW r \in members' PROVE groups'[r[1]].live \/ \E l \in Callers : deleting'[l] = r[1]
    <3>1. r \in members /\ r[1] \in Groups
      BY DEF GroupsInv, GroupedTypeOK
    <3>2. groups[r[1]].live \/ \E l \in Callers : deleting[l] = r[1]
      BY <3>1 DEF GroupsInv, MembershipAgrees
    <3>3. CASE r[1] = g
      BY <1>3, <3>3
    <3>4. CASE r[1] # g /\ groups[r[1]].live
      BY <1>2, <3>1, <3>4
    <3>5. ASSUME NEW l \in Callers, deleting[l] = r[1] PROVE deleting'[l] = r[1]
      <4>1. l # k
        BY <3>1, <3>5, GroupsNobody
      <4> QED BY <1>3, <3>5, <4>1
    <3> QED BY <3>2, <3>3, <3>4, <3>5
  <2> QED BY <2>1, <2>2 DEF MembershipAgrees
<1>7. GroupedTypeOK'
  BY <1>2, <1>3, CallsCount DEF GroupsInv, GroupedTypeOK
<1>8. CopiesSound'
  BY <1>3 DEF GroupsInv, CopiesSound
<1> QED BY <1>5, <1>6, <1>7, <1>8 DEF GroupsInv, InvitesSound

LEMMA SaveGuildKeeps ==
    ASSUME GroupsInv, "revived" \notin Races, NEW k \in Callers,
           NEW e \in [leader : Characters, members : SUBSET Characters], SaveGuild(k, e)
    PROVE  GroupsInv'
<1> DEFINE g == copies[k].of
<1>1. /\ Call /\ g \in Guilds /\ MaySave(k)
      /\ copies' = [copies EXCEPT ![k] = None] /\ UNCHANGED <<invites, friends>>
  BY DEF SaveGuild
<1>2. g \in Groups
  BY <1>1 DEF Groups
<1>3. groups[g].live /\ deleting[k] = Nobody
  BY <1>1, <1>2, CopyIsLive
<1>4. CASE e.members = {}
  <2>1. /\ groups' = [groups EXCEPT ![g].live = FALSE] /\ UNCHANGED members
        /\ deleting' = [deleting EXCEPT ![k] = g]
    BY <1>4 DEF SaveGuild
  <2>2. DOMAIN copies' = Callers /\ copies'[k] = None /\ \A l \in Callers : l # k => copies'[l] = copies[l]
    BY <1>1 DEF GroupsInv, CopiesSound
  <2> HIDE DEF g
  <2> QED BY <1>1, <1>2, <1>3, <2>1, <2>2, DisbandKeeps
<1>5. CASE e.members # {}
  <2>1. PICK leader \in e.members : SaveGroup(g, leader, e.members) /\ UNCHANGED deleting
    BY <1>5 DEF SaveGuild
  <2>2. leader \in Characters /\ e.members \in SUBSET Characters
    OBVIOUS
  <2> HIDE DEF g
  <2> QED BY <1>1, <1>2, <1>3, <2>1, <2>2, SaveCopyKeeps
<1> QED BY <1>4, <1>5

LEMMA DeleteGroupKeeps ==
    ASSUME GroupsInv, NEW k \in Callers, NEW g \in Groups, DeleteGroup(k, g)
    PROVE  GroupsInv'
<1>1. /\ Call /\ copies[k] = None /\ deleting[k] = Nobody /\ groups[g].live
      /\ groups' = [groups EXCEPT ![g].live = FALSE]
      /\ deleting' = [deleting EXCEPT ![k] = g]
      /\ UNCHANGED <<members, invites, friends, copies>>
  BY DEF DeleteGroup, AtRest
<1>2. DOMAIN copies = Callers
  BY DEF GroupsInv, CopiesSound
<1> QED BY <1>1, <1>2, DisbandKeeps

LEMMA EmptyGroupKeeps ==
    ASSUME GroupsInv, NEW k \in Callers, EmptyGroup(k)
    PROVE  GroupsInv'
<1> DEFINE g == deleting[k]
<1>1. /\ g # Nobody /\ members' = {r \in members : r[1] # g}
      /\ deleting' = [deleting EXCEPT ![k] = Nobody]
      /\ UNCHANGED <<groups, invites, friends, copies, calls>>
  BY DEF EmptyGroup
<1>2. deleting \in [Callers -> Groups \cup {Nobody}] /\ ~groups[g].live
  BY <1>1 DEF GroupsInv, GroupedTypeOK, LiveLed
<1> HIDE DEF g
<1>3. /\ deleting' \in [Callers -> Groups \cup {Nobody}] /\ deleting'[k] = Nobody
      /\ \A l \in Callers : l # k => deleting'[l] = deleting[l]
  BY <1>1, <1>2
<1>4. LiveLed' /\ CopiesSound'
  BY <1>1, <1>3 DEF GroupsInv, LiveLed, CopiesSound
<1>5. MembershipAgrees'
  <2>1. ASSUME NEW h \in Groups, groups'[h].live PROVE <<h, groups'[h].leader>> \in members'
    <3>1. h # g /\ <<h, groups[h].leader>> \in members
      BY <1>1, <1>2, <2>1 DEF GroupsInv, MembershipAgrees
    <3> QED BY <1>1, <3>1
  <2>2. ASSUME NEW r \in members' PROVE groups'[r[1]].live \/ \E l \in Callers : deleting'[l] = r[1]
    <3>1. r \in members /\ r[1] # g
      BY <1>1
    <3>2. ASSUME NEW l \in Callers, deleting[l] = r[1] PROVE deleting'[l] = r[1]
      BY <1>3, <3>1, <3>2 DEF g
    <3> QED BY <1>1, <3>1, <3>2 DEF GroupsInv, MembershipAgrees
  <2> QED BY <2>1, <2>2 DEF MembershipAgrees
<1>6. GroupedTypeOK'
  BY <1>1, <1>3 DEF GroupsInv, GroupedTypeOK
<1> QED BY <1>1, <1>4, <1>5, <1>6 DEF GroupsInv, InvitesSound

LEMMA CrashKeeps ==
    ASSUME GroupsInv, "crash" \notin Races, NEW k \in Callers, Crash(k)
    PROVE  GroupsInv'
<1>1. /\ deleting[k] = Nobody /\ copies' = [copies EXCEPT ![k] = None]
      /\ deleting' = [deleting EXCEPT ![k] = Nobody]
      /\ UNCHANGED <<groups, members, invites, friends, calls>>
  BY DEF Crash
<1>2. deleting' = deleting
  BY <1>1 DEF GroupsInv, GroupedTypeOK
<1>3. CopiesSound'
  BY <1>1, <1>2, Forgotten
<1> QED BY <1>1, <1>2, <1>3 DEF GroupsInv, GroupedTypeOK, LiveLed, InvitesSound, MembershipAgrees

(* Invitations that are made or answered without a group being saved. *)
LEMMA InviteSteps ==
    ASSUME GroupsInv, NEW i \in Invites,
           \/ \E g \in Groups, by, to \in Characters : CreatePartyInvite(i, g, by, to) \/ CreateGuildInvite(i, g, by, to)
           \/ DeclinePartyInvite(i) \/ DeclineGuildInvite(i)
           \/ CleanupExpiredGuildInvites(i) \/ DeleteGuildInvite(i)
    PROVE  GroupsInv'
<1>1. UNCHANGED <<groups, members, friends, copies, deleting>> /\ (Call \/ UNCHANGED calls)
  BY DEF CreatePartyInvite, CreateGuildInvite, DeclinePartyInvite, DeclineGuildInvite,
         CleanupExpiredGuildInvites, DeleteGuildInvite, Respond
<1>2. calls' \in 0..MaxCalls
  BY <1>1, CallsCount DEF GroupsInv, GroupedTypeOK
<1>3. invites' \in [Invites -> Invite] /\ InvitesSound'
  <2>1. CASE \E g \in Groups, by, to \in Characters :
               CreatePartyInvite(i, g, by, to) \/ CreateGuildInvite(i, g, by, to)
    <3>1. PICK g \in Groups, by \in Characters, to \in Characters :
            invites' = [invites EXCEPT ![i] = [of |-> g, by |-> by, to |-> to, state |-> "pending"]]
      BY <2>1 DEF CreatePartyInvite, CreateGuildInvite
    <3> QED BY <3>1 DEF GroupsInv, GroupedTypeOK, InvitesSound, Invite
  <2>2. CASE ~\E g \in Groups, by, to \in Characters :
               CreatePartyInvite(i, g, by, to) \/ CreateGuildInvite(i, g, by, to)
    <3>1. PICK state \in {"declined", "expired", "deleted"} : invites' = [invites EXCEPT ![i].state = state]
      BY <2>2 DEF DeclinePartyInvite, DeclineGuildInvite, CleanupExpiredGuildInvites, DeleteGuildInvite, Respond
    <3> QED BY <3>1 DEF GroupsInv, GroupedTypeOK, InvitesSound, Invite
  <2> QED BY <2>1, <2>2
<1>4. GroupedTypeOK'
  BY <1>1, <1>2, <1>3 DEF GroupsInv, GroupedTypeOK
<1> QED BY <1>1, <1>3, <1>4 DEF GroupsInv, CopiesSound, LiveLed, MembershipAgrees

LEMMA AdmitKeeps ==
    ASSUME GroupsInv, NEW i \in Invites, invites[i].state = "pending", NEW g \in Groups,
           groups[g].live \/ (Unused(g) /\ g \in Parties), Call, Admit(i, g),
           UNCHANGED <<friends, copies, deleting>>
    PROVE  GroupsInv'
<1> DEFINE leader == IF Unused(g) THEN invites[i].by ELSE groups[g].leader
           ms == (IF Unused(g) THEN {invites[i].by} ELSE LoadMembers(g)) \cup {invites[i].to}
           all == IF g \in Parties THEN NormalizePartyMembers(leader, ms) ELSE ms
<1>1. SaveGroup(g, leader, all) /\ invites' = [invites EXCEPT ![i].state = "accepted"]
  BY DEF Admit
<1>2. invites[i].by \in Characters /\ invites[i].to \in Characters
  BY DEF GroupsInv, InvitesSound
<1>3. ASSUME Unused(g)
      PROVE  /\ groups' \in [Groups -> Group] /\ members' \subseteq Groups \X Characters
             /\ LiveLed' /\ MembershipAgrees'
  <2>1. ~groups[g].live
    BY <1>3, GroupsNobody DEF Unused, GroupsInv, LiveLed
  <2>2. leader \in Characters /\ all \in SUBSET Characters /\ leader \in all
    BY <1>2, <1>3, <2>1 DEF NormalizePartyMembers
  <2> HIDE DEF leader, all
  <2> QED BY <1>1, <1>3, <2>2, SaveAgrees
<1>4. ASSUME ~Unused(g)
      PROVE  /\ groups' \in [Groups -> Group] /\ members' \subseteq Groups \X Characters
             /\ LiveLed' /\ MembershipAgrees'
  <2>1. groups[g].live /\ leader = groups[g].leader /\ ms = LoadMembers(g) \cup {invites[i].to}
    BY <1>4
  <2>2. leader \in Characters /\ leader \in LoadMembers(g)
    BY <2>1 DEF GroupsInv, LiveLed, MembershipAgrees, LoadMembers
  <2>3. all \in SUBSET Characters /\ leader \in all
    BY <1>2, <2>1, <2>2 DEF NormalizePartyMembers, LoadMembers
  <2> HIDE DEF leader, all
  <2> QED BY <1>1, <2>1, <2>2, <2>3, SaveAgrees
<1>5. invites' \in [Invites -> Invite] /\ InvitesSound'
  BY <1>1 DEF GroupsInv, GroupedTypeOK, InvitesSound, Invite
<1>6. GroupedTypeOK'
  BY <1>3, <1>4, <1>5, CallsCount DEF GroupsInv, GroupedTypeOK
<1> QED BY <1>3, <1>4, <1>5, <1>6 DEF GroupsInv, CopiesSound

LEMMA AcceptSteps ==
    ASSUME GroupsInv, NEW i \in Invites, AcceptPartyInvite(i) \/ AcceptGuildInvite(i)
    PROVE  GroupsInv'
<1>1. /\ Call /\ invites[i].state = "pending"
      /\ UNCHANGED <<friends, copies, deleting>>
  BY DEF AcceptPartyInvite, AcceptGuildInvite
<1>2. PICK g \in Groups : (groups[g].live \/ (Unused(g) /\ g \in Parties)) /\ Admit(i, g)
  <2>1. CASE AcceptPartyInvite(i)
    <3>1. PICK g \in PartyToJoin(i) : Admit(i, g)
      BY <2>1 DEF AcceptPartyInvite
    <3>2. invites[i].of \in Parties
      BY <2>1 DEF AcceptPartyInvite
    <3>3. g \in Parties /\ (groups[g].live \/ Unused(g))
      BY <3>2 DEF PartyToJoin, GetGroupForCharacter
    <3> QED BY <3>1, <3>3 DEF Groups
  <2>2. CASE AcceptGuildInvite(i)
    BY <2>2 DEF AcceptGuildInvite, Groups
  <2> QED BY <2>1, <2>2
<1> QED BY <1>1, <1>2, AdmitKeeps

LEMMA FriendSteps ==
    ASSUME GroupsInv, NEW c \in Characters, NEW d \in Characters, AddFriend(c, d) \/ RemoveFriend(c, d)
    PROVE  GroupsInv'
<1>1. UNCHANGED <<groups, members, invites, copies, deleting>> /\ Call
  BY DEF AddFriend, RemoveFriend
<1>2. friends' \subseteq {p \in Characters \X Characters : p[1] # p[2]}
  BY DEF AddFriend, RemoveFriend, GroupsInv, GroupedTypeOK
<1>3. GroupedTypeOK'
  BY <1>1, <1>2, CallsCount DEF GroupsInv, GroupedTypeOK
<1> QED BY <1>1, <1>3 DEF GroupsInv, CopiesSound, LiveLed, InvitesSound, MembershipAgrees

LEMMA GroupsKeep ==
    ASSUME GroupsInv, "crash" \notin Races, "revived" \notin Races, GroupedNext
    PROVE  GroupsInv'
<1>1. CASE \E g \in Groups, c \in Characters : CreateParty(g, c) \/ CreateGuild(g, c)
  BY <1>1, CreateGroupKeeps
<1>2. CASE \E k \in Callers : \E g \in Groups : GetGroup(k, g) \/ DeleteGroup(k, g)
  BY <1>2, GetGroupKeeps, DeleteGroupKeeps
<1>3. CASE \E k \in Callers : \E e \in [leader : Characters, members : SUBSET Characters] :
             SaveParty(k, e) \/ SaveGuild(k, e)
  BY <1>3, SavePartyKeeps, SaveGuildKeeps
<1>4. CASE \E k \in Callers : EmptyGroup(k) \/ Crash(k)
  BY <1>4, EmptyGroupKeeps, CrashKeeps
<1>5. CASE \E i \in Invites : AcceptPartyInvite(i) \/ AcceptGuildInvite(i)
  BY <1>5, AcceptSteps
<1>6. CASE \E i \in Invites :
             \/ \E g \in Groups, by, to \in Characters :
                   CreatePartyInvite(i, g, by, to) \/ CreateGuildInvite(i, g, by, to)
             \/ DeclinePartyInvite(i) \/ DeclineGuildInvite(i)
             \/ CleanupExpiredGuildInvites(i) \/ DeleteGuildInvite(i)
  BY <1>6, InviteSteps
<1>7. CASE \E c, d \in Characters : AddFriend(c, d) \/ RemoveFriend(c, d)
  BY <1>7, FriendSteps
<1> QED BY <1>1, <1>2, <1>3, <1>4, <1>5, <1>6, <1>7 DEF GroupedNext

(* Parties and guilds, whose deletion and whose saves are two steps: unless the *)
(* process dies in a deletion ("crash") or a copy is saved over a group that    *)
(* was deleted ("revived"), the table of groups and that of members agree - for *)
(* any number of callers, groups, invitations and characters, and with copies   *)
(* as stale as they like.                                                       *)
THEOREM GroupsAgree ==
    ASSUME "crash" \notin Races, "revived" \notin Races
    PROVE  Spec => []MembershipAgrees
<1>1. Init => GroupsInv
  BY GroupsStart DEF Init
<1>2. GroupsInv /\ [Next]_<<goods, grouped, doors, scene>> => GroupsInv'
  <2> SUFFICES ASSUME GroupsInv, [Next]_<<goods, grouped, doors, scene>> PROVE GroupsInv'
    OBVIOUS
  <2>1. CASE GroupedNext
    BY <2>1, GroupsKeep
  <2>2. CASE UNCHANGED grouped
    BY <2>2 DEF grouped, GroupsInv, GroupedTypeOK, CopiesSound, LiveLed, InvitesSound, MembershipAgrees
  <2> QED BY <2>1, <2>2 DEF Next
<1>3. GroupsInv => MembershipAgrees
  BY DEF GroupsInv
<1> QED BY <1>1, <1>2, <1>3, PTL DEF Spec

-----------------------------------------------------------------------------
(* One effect for each key *)

(* The row that an effect leaves behind and that refuses the next one. *)
RowOf(c, op, of, key) ==
    IF op \in {"vendor.buy", "vendor.sell"} THEN EconomyMutation(c, op, key)
    ELSE IF op \in {"currency.adjust", "auction.buyout"} THEN LedgerRow(c, op, key)
    ELSE IF op = "auction.list" THEN ListingRow(c, key)
    ELSE IF op = "auction.cancel" THEN AuctionTransaction(of, "cancel", key)
    ELSE IF op = "mail.claim" THEN ClaimRow(of, key)
    ELSE CharacterMutation(c, op, key)

KeysKept ==
    /\ OncePerKey
    /\ \A e \in applied : e[4] # NoKey /\ RowOf(e[1], e[2], e[3], e[4]) \in rows

LEMMA KeyOfRow ==
    ASSUME NEW c, NEW op, NEW of, NEW key
    PROVE  RowOf(c, op, of, key)[3] = key
BY DEF RowOf, EconomyMutation, LedgerRow, ListingRow, AuctionTransaction, ClaimRow, CharacterMutation

(* A transaction that inserts the row of its key, or fails. *)
LEMMA KeyedEffect ==
    ASSUME KeysKept, NEW c, NEW op, NEW of, NEW key, NEW inserts,
           WithTransaction(c, op, of, key), Insert(inserts), RowOf(c, op, of, key) \in inserts
    PROVE  KeysKept'
<1> DEFINE e == <<c, op, of, key>>
<1>1. /\ applied' = IF key = NoKey THEN applied ELSE applied \cup {e}
      /\ twice' = (twice \/ e \in applied)
  BY DEF WithTransaction
<1>2. /\ \A r \in inserts : r[3] # NoKey => r \notin rows
      /\ rows \subseteq rows' /\ \A r \in inserts : r[3] # NoKey => r \in rows'
  BY DEF Insert, Keyed
<1>3. key # NoKey => RowOf(c, op, of, key) \notin rows /\ RowOf(c, op, of, key) \in rows'
  BY <1>2, KeyOfRow
<1>4. e[1] = c /\ e[2] = op /\ e[3] = of /\ e[4] = key
  OBVIOUS
<1> HIDE DEF e
<1>5. e \notin applied
  BY <1>3, <1>4 DEF KeysKept
<1>6. ~twice'
  BY <1>1, <1>5 DEF KeysKept, OncePerKey
<1>7. ASSUME NEW f \in applied' PROVE f[4] # NoKey /\ RowOf(f[1], f[2], f[3], f[4]) \in rows'
  <2>1. CASE f \in applied
    BY <1>2, <2>1 DEF KeysKept
  <2>2. CASE f = e /\ key # NoKey
    BY <1>3, <1>4, <2>2
  <2> QED BY <1>1, <2>1, <2>2
<1> QED BY <1>6, <1>7 DEF KeysKept, OncePerKey

StateOps ==
    {"inventory.move", "inventory.grant", "quest.accept", "quest.progress", "quest.reward",
     "ability.grant", "actionbar.assign", "actionbar.move", "actionbar.clear"}

LEMMA StateEffect ==
    ASSUME KeysKept, NEW c, NEW op \in StateOps, NEW key, NEW ch, MutateCharacterState(c, op, key, ch)
    PROVE  KeysKept'
<1>1. RowOf(c, op, Nobody, key) = CharacterMutation(c, op, key)
  BY DEF RowOf, StateOps
<1> QED BY <1>1, KeyedEffect DEF MutateCharacterState

LEMMA StateKeys ==
    ASSUME KeysKept, NEW c \in Heroes, NEW key \in AllKeys,
           \/ \E i, j \in Slots : MoveInventorySlot(c, key, i, j)
           \/ GrantInventoryItem(c, key)
           \/ AcceptQuestProgress(c, key) \/ UpdateQuestProgress(c, key) \/ CompleteQuestWithReward(c, key)
           \/ GrantLearnedAbility(c, key)
           \/ \E s \in BarSlots : AssignActionBarSlot(c, key, s) \/ ClearActionBarSlot(c, key, s)
           \/ \E s, t \in BarSlots : MoveActionBarSlot(c, key, s, t)
    PROVE  KeysKept'
<1>1. \E op \in StateOps : \E ch : MutateCharacterState(c, op, key, ch)
  BY DEF StateOps, MoveInventorySlot, GrantInventoryItem, AcceptQuestProgress, UpdateQuestProgress,
         CompleteQuestWithReward, GrantLearnedAbility, AssignActionBarSlot, ClearActionBarSlot, MoveActionBarSlot
<1> QED BY <1>1, StateEffect

LEMMA TradeKeys ==
    ASSUME KeysKept, NEW c \in Characters, NEW key \in AllKeys,
           \/ \E delta \in {Price, -Price} : AppendCurrencyMutation(c, key, delta)
           \/ BuyVendorItem(c, key) \/ \E s \in Slots : SellVendorItem(c, key, s)
           \/ \E a \in Auctions, s \in Slots : CreateAuctionListing(c, key, a, s)
           \/ \E a \in Auctions : BuyoutAuction(c, key, a) \/ CancelAuction(c, key, a)
           \/ \E m \in Mails, kind \in {"first", "item", "copper"} : ClaimMailAttachment(c, key, m, kind)
    PROVE  KeysKept'
<1>1. CASE \E delta \in {Price, -Price} : AppendCurrencyMutation(c, key, delta)
  <2>1. RowOf(c, "currency.adjust", Nobody, key) = LedgerRow(c, "currency.adjust", key)
    BY DEF RowOf
  <2> QED BY <1>1, <2>1, KeyedEffect DEF AppendCurrencyMutation
<1>2. CASE BuyVendorItem(c, key)
  <2>1. RowOf(c, "vendor.buy", Nobody, key) \in VendorRows(c, "vendor.buy", "buy", key)
    BY DEF RowOf, VendorRows
  <2> QED BY <1>2, <2>1, KeyedEffect DEF BuyVendorItem
<1>3. CASE \E s \in Slots : SellVendorItem(c, key, s)
  <2>1. RowOf(c, "vendor.sell", Nobody, key) \in VendorRows(c, "vendor.sell", "sell", key)
    BY DEF RowOf, VendorRows
  <2> QED BY <1>3, <2>1, KeyedEffect DEF SellVendorItem
<1>4. CASE \E a \in Auctions, s \in Slots : CreateAuctionListing(c, key, a, s)
  <2>1. RowOf(c, "auction.list", Nobody, key) = ListingRow(c, key)
    BY DEF RowOf
  <2> QED BY <1>4, <2>1, KeyedEffect DEF CreateAuctionListing
<1>5. CASE \E a \in Auctions : BuyoutAuction(c, key, a)
  <2>1. \A a : RowOf(c, "auction.buyout", a, key) = LedgerRow(c, "auction.buyout", key)
    BY DEF RowOf
  <2> QED BY <1>5, <2>1, KeyedEffect DEF BuyoutAuction
<1>6. CASE \E a \in Auctions : CancelAuction(c, key, a)
  <2>1. \A a : RowOf(c, "auction.cancel", a, key) = AuctionTransaction(a, "cancel", key)
    BY DEF RowOf
  <2> QED BY <1>6, <2>1, KeyedEffect DEF CancelAuction
<1>7. CASE \E m \in Mails, kind \in {"first", "item", "copper"} : ClaimMailAttachment(c, key, m, kind)
  <2>1. \A m : RowOf(c, "mail.claim", m, key) = ClaimRow(m, key)
    BY DEF RowOf
  <2> QED BY <1>7, <2>1, KeyedEffect DEF ClaimMailAttachment
<1> QED BY <1>1, <1>2, <1>3, <1>4, <1>5, <1>6, <1>7

LEMMA KeylessSteps ==
    ASSUME KeysKept,
           \/ \E c \in Heroes : \/ ListMailForCharacter(c)
                                \/ \E m \in Mails, item \in BOOLEAN : CreateMail(c, m, item)
                                \/ \E w \in Writers : UpdateRead(w, c)
           \/ \E w \in Writers :
                 \/ UpdateCharacterTrackedQuests(w) \/ UpdateCharacterQuestProgress(w)
                 \/ UpdateCharacterEconomy(w) \/ UpdateCharacterProgression(w)
                 \/ UpdateLearnedAbilities(w) \/ UpdateCharacterInventory(w)
                 \/ \E bar \in SUBSET BarSlots : UpdateActionBarSlots(w, bar)
    PROVE  KeysKept'
<1>1. CASE UNCHANGED <<rows, applied, twice>>
  BY <1>1 DEF KeysKept, OncePerKey
<1>2. CASE \E c \in Heroes : \E m \in Mails, item \in BOOLEAN : CreateMail(c, m, item)
  <2>1. PICK c \in Heroes, m \in Mails : UNCHANGED rows /\ WithTransaction(c, "mail.create", m, NoKey)
    BY <1>2 DEF CreateMail
  <2>2. <<c, "mail.create", m, NoKey>> \notin applied
    BY DEF KeysKept
  <2>3. UNCHANGED <<rows, applied>> /\ ~twice'
    BY <2>1, <2>2 DEF WithTransaction, KeysKept, OncePerKey
  <2> QED BY <2>3 DEF KeysKept, OncePerKey
<1> QED BY <1>1, <1>2 DEF ListMailForCharacter, UpdateRead, UpdateCharacterTrackedQuests,
           UpdateCharacterQuestProgress, UpdateCharacterEconomy, UpdateCharacterProgression,
           UpdateLearnedAbilities, UpdateCharacterInventory, UpdateActionBarSlots, SaveCharacter

LEMMA KeysStep ==
    ASSUME KeysKept, GoodsNext
    PROVE  KeysKept'
<1>1. Heroes \subseteq Characters
  BY SqlGoodsAssumption
<1> QED BY <1>1, StateKeys, TradeKeys, KeylessSteps DEF GoodsNext

(* Whatever is retried, by whom, in whatever order and however often, each key *)
(* of each operation has one effect: without a hypothesis about the races, for  *)
(* any number of characters, auctions, mails and keys.                          *)
THEOREM OneEffect == Spec => []OncePerKey
<1>1. Init => KeysKept
  BY DEF Init, GoodsInit, KeysKept, OncePerKey
<1>2. KeysKept /\ [Next]_<<goods, grouped, doors, scene>> => KeysKept'
  BY KeysStep DEF Next, goods, KeysKept, OncePerKey
<1>3. KeysKept => OncePerKey
  BY DEF KeysKept
<1> QED BY <1>1, <1>2, <1>3, PTL DEF Spec

-----------------------------------------------------------------------------
(* Items and copper *)

(* A set of numbers has a smallest one: else the numbers up to one of them that *)
(* are not below all of the set would map one to one into those but that one.   *)
LEMMA MinIsIn ==
    ASSUME NEW S, S \subseteq Nat, S # {}
    PROVE  Min(S) \in S
<1>1. SUFFICES ASSUME \A x \in S : \E y \in S : y < x PROVE FALSE
  <2>1. (\E x \in S : \A y \in S : x <= y) => Min(S) \in S
    BY DEF Min
  <2>2. (\A x \in S : ~\A y \in S : x <= y) => \A x \in S : \E y \in S : y < x
    OBVIOUS
  <2> QED BY <2>1, <2>2
<1>2. PICK m \in S : TRUE
  OBVIOUS
<1> DEFINE V == {v \in 0..m : \E x \in S : x <= v}
           f == [v \in V |-> v - 1]
<1>3. IsFiniteSet(V)
  <2>1. IsFiniteSet(0..m) /\ V \in SUBSET (0..m)
    BY <1>2, FS_Interval
  <2> QED BY <2>1, FS_Subset
<1>4. ASSUME NEW v \in V PROVE v - 1 \in V
  <2>1. PICK x \in S : x <= v
    OBVIOUS
  <2>2. PICK y \in S : y < x
    BY <1>1
  <2>3. y <= v - 1 /\ v - 1 \in 0..m
    BY <1>2, <2>1, <2>2
  <2> QED BY <2>3
<1>5. m \in V /\ V \subseteq 0..m
  BY <1>2
<1>6. f \in [V -> V] /\ \A v \in V : f[v] = v - 1
  BY <1>4
<1> HIDE DEF V, f
<1>7. f \in Injection(V, V)
  BY <1>5, <1>6 DEF Injection, IsInjective
<1>8. f \in Surjection(V, V)
  BY <1>3, <1>7, FS_Injection
<1>9. PICK v \in V : f[v] = m
  BY <1>5, <1>8 DEF Surjection
<1> QED BY <1>2, <1>5, <1>6, <1>9

(* Types that need no race excluded; a mail that was not sent holds no item. *)
GoodsTyped ==
    /\ GoodsTypeOK
    /\ \A a \in Auctions : listings[a].state = "active" => listings[a].seller \in Characters
    /\ \A m \in Mails : mails[m].to = Nobody => ~mails[m].item
    /\ paid \in [Characters -> Nat]

InBags == {p \in Characters \X Slots : p[2] \in chars[p[1]].bag}
OnSale == {a \in Auctions : listings[a].state = "active"}
InMails == {m \in Mails : mails[m].item}

(* The reward is paid once, when the quest is rewarded, and stays so. *)
CopperExplained ==
    \A c \in Characters :
        /\ chars[c].copper = Start + ledger[c] + paid[c]
        /\ paid[c] = 0 \/ (paid[c] = Price /\ chars[c].quest = "rewarded")

LEMMA GoodsBounds ==
    /\ Start \in Nat /\ Buyout \in Nat /\ Deposit \in Nat /\ Price \in Nat /\ MaxCommits \in Nat
    /\ Slots \subseteq Nat /\ Slots # {} /\ Heroes \subseteq Characters /\ Nobody \notin Characters
    /\ IsFiniteSet(Slots) /\ IsFiniteSet(Characters) /\ IsFiniteSet(Auctions) /\ IsFiniteSet(Mails)
BY SqlGoodsAssumption, SqlConnectionAssumption

LEMMA AllFinite ==
    /\ IsFiniteSet(InBags) /\ IsFiniteSet(OnSale) /\ IsFiniteSet(InMails)
<1>1. IsFiniteSet(Characters \X Slots)
  BY GoodsBounds, FS_Product
<1>2. InBags \in SUBSET (Characters \X Slots) /\ OnSale \in SUBSET Auctions /\ InMails \in SUBSET Mails
  BY DEF InBags, OnSale, InMails
<1> QED BY <1>1, <1>2, GoodsBounds, FS_Subset

LEMMA Granted ==
    ASSUME NEW bag \in SUBSET Slots, Free(bag) # {}
    PROVE  \E s \in Slots \ bag : GrantItemToInventory(bag) = bag \cup {s}
<1>1. Min(Free(bag)) \in Free(bag)
  BY GoodsBounds, MinIsIn DEF Free
<1> QED BY <1>1 DEF GrantItemToInventory, Free

(* A character that is saved: its fields but the bar, and the others' rows. *)
Saved(c, ch) ==
    /\ chars' \in [Characters -> Character]
    /\ chars'[c].copper = ch.copper /\ chars'[c].bag = ch.bag /\ chars'[c].quest = ch.quest
    /\ chars'[c].bar # {} => chars'[c].learned
    /\ \A d \in Characters : d # c => chars'[d] = chars[d]

LEMMA SaveFacts ==
    ASSUME GoodsTyped, NEW c \in Characters, NEW ch \in Character, SaveCharacterWithVersion(c, ch)
    PROVE  Saved(c, ch)
<1> DEFINE bar == IF ch.learned THEN ch.bar ELSE {}
           new == NormalizeActionBarSlots(ch)
<1>1. bar \in SUBSET BarSlots
  BY DEF Character
<1>2. new = [ch EXCEPT !.bar = bar]
  BY DEF NormalizeActionBarSlots
<1>3. /\ new \in Character /\ new.copper = ch.copper /\ new.bag = ch.bag /\ new.quest = ch.quest
      /\ new.learned = ch.learned /\ new.bar = bar
  BY <1>1, <1>2 DEF Character
<1>4. chars' = [chars EXCEPT ![c] = new]
  BY DEF SaveCharacterWithVersion
<1>5. new.bar # {} => new.learned
  BY <1>3
<1> HIDE DEF new
<1> QED BY <1>3, <1>4, <1>5 DEF Saved, GoodsTyped, GoodsTypeOK

(* How the three sets grow and shrink. *)
LEMMA BagsStay ==
    ASSUME \A c \in Characters : chars'[c].bag = chars[c].bag
    PROVE  InBags' = InBags
BY DEF InBags

LEMMA BagGains ==
    ASSUME NEW c \in Characters, NEW s \in Slots \ chars[c].bag, chars'[c].bag = chars[c].bag \cup {s},
           \A d \in Characters : d # c => chars'[d].bag = chars[d].bag
    PROVE  Cardinality(InBags') = Cardinality(InBags) + 1
<1>1. InBags' = InBags \cup {<<c, s>>} /\ <<c, s>> \notin InBags
  BY DEF InBags
<1> QED BY <1>1, AllFinite, FS_AddElement

LEMMA BagLoses ==
    ASSUME NEW c \in Characters, NEW s \in Slots, s \in chars[c].bag, chars'[c].bag = chars[c].bag \ {s},
           \A d \in Characters : d # c => chars'[d].bag = chars[d].bag
    PROVE  Cardinality(InBags') = Cardinality(InBags) - 1
<1>1. InBags' = InBags \ {<<c, s>>} /\ <<c, s>> \in InBags
  BY DEF InBags
<1> QED BY <1>1, AllFinite, FS_RemoveElement

LEMMA BagMoves ==
    ASSUME NEW c \in Characters, NEW s \in Slots, NEW t \in Slots, s \in chars[c].bag, t \notin chars[c].bag,
           chars'[c].bag = (chars[c].bag \ {s}) \cup {t},
           \A d \in Characters : d # c => chars'[d].bag = chars[d].bag
    PROVE  Cardinality(InBags') = Cardinality(InBags)
<1> DEFINE less == InBags \ {<<c, s>>}
<1>1. InBags' = less \cup {<<c, t>>} /\ <<c, s>> \in InBags /\ <<c, t>> \notin less
  BY DEF InBags
<1>2. IsFiniteSet(less) /\ Cardinality(less) = Cardinality(InBags) - 1
  BY <1>1, AllFinite, FS_RemoveElement
<1>3. Cardinality(InBags) \in Nat
  BY AllFinite, FS_CardinalityType
<1> HIDE DEF less
<1>4. Cardinality(InBags') = Cardinality(less) + 1
  BY <1>1, <1>2, FS_AddElement
<1> QED BY <1>2, <1>3, <1>4

LEMMA Counts ==
    /\ Cardinality(InBags) \in Nat /\ Cardinality(OnSale) \in Nat /\ Cardinality(InMails) \in Nat
BY AllFinite, FS_CardinalityType

LEMMA SaleGains ==
    ASSUME NEW a \in Auctions, listings[a].state # "active", listings'[a].state = "active",
           \A b \in Auctions : b # a => listings'[b] = listings[b]
    PROVE  Cardinality(OnSale') = Cardinality(OnSale) + 1
<1>1. OnSale' = OnSale \cup {a} /\ a \notin OnSale
  BY DEF OnSale
<1> QED BY <1>1, AllFinite, FS_AddElement

LEMMA SaleLoses ==
    ASSUME NEW a \in Auctions, listings[a].state = "active", listings'[a].state # "active",
           \A b \in Auctions : b # a => listings'[b] = listings[b]
    PROVE  Cardinality(OnSale') = Cardinality(OnSale) - 1
<1>1. OnSale' = OnSale \ {a} /\ a \in OnSale
  BY DEF OnSale
<1> QED BY <1>1, AllFinite, FS_RemoveElement

LEMMA MailGains ==
    ASSUME NEW m \in Mails, ~mails[m].item, mails'[m].item,
           \A n \in Mails : n # m => mails'[n] = mails[n]
    PROVE  Cardinality(InMails') = Cardinality(InMails) + 1
<1>1. InMails' = InMails \cup {m} /\ m \notin InMails
  BY DEF InMails
<1> QED BY <1>1, AllFinite, FS_AddElement

LEMMA MailLoses ==
    ASSUME NEW m \in Mails, mails[m].item, ~mails'[m].item,
           \A n \in Mails : n # m => mails'[n] = mails[n]
    PROVE  Cardinality(InMails') = Cardinality(InMails) - 1
<1>1. InMails' = InMails \ {m} /\ m \in InMails
  BY DEF InMails
<1> QED BY <1>1, AllFinite, FS_RemoveElement

LEMMA MailStays ==
    ASSUME \A n \in Mails : mails'[n].item = mails[n].item
    PROVE  InMails' = InMails
BY DEF InMails

(* A change of copper that the ledger tells of. *)
LEMMA LedgerTells ==
    ASSUME GoodsTyped, CopperExplained, NEW c \in Characters, NEW n \in Int,
           chars'[c].copper = chars[c].copper + n, chars'[c].quest = chars[c].quest,
           \A d \in Characters : d # c => chars'[d] = chars[d],
           ledger' = [ledger EXCEPT ![c] = @ + n], UNCHANGED paid
    PROVE  CopperExplained'
<1>1. /\ ledger \in [Characters -> Int] /\ paid \in [Characters -> Nat]
      /\ ledger'[c] = ledger[c] + n /\ \A d \in Characters : d # c => ledger'[d] = ledger[d]
  BY DEF GoodsTyped, GoodsTypeOK
<1>2. Start \in Nat /\ ledger[c] \in Int /\ paid[c] \in Nat
  BY <1>1, GoodsBounds
<1>3. chars'[c].copper = Start + ledger'[c] + paid'[c]
  BY <1>1, <1>2 DEF CopperExplained
<1> QED BY <1>1, <1>3 DEF CopperExplained

LEMMA LedgerSilent ==
    ASSUME CopperExplained, UNCHANGED <<ledger, paid>>,
           \A d \in Characters : /\ chars'[d].copper = chars[d].copper
                                 /\ paid[d] = 0 \/ chars'[d].quest = chars[d].quest
    PROVE  CopperExplained'
BY DEF CopperExplained

ItemsKept == made = Cardinality(InBags) + Cardinality(OnSale) + Cardinality(InMails)

(* What each operation is shown to do. *)
GoodsStep ==
    /\ GoodsTyped'
    /\ CopperExplained /\ "lateprogress" \notin Races => CopperExplained'
    /\ ItemsKept => ItemsKept'

LEMMA AddUp == GoodsAddUp <=> ItemsKept
BY DEF GoodsAddUp, ItemsKept, InBags, OnSale, InMails

LEMMA CommitCounts ==
    ASSUME GoodsTyped, NEW c, NEW op, NEW of, NEW key, WithTransaction(c, op, of, key)
    PROVE  commits' \in 0..MaxCommits
BY GoodsBounds DEF GoodsTyped, GoodsTypeOK, WithTransaction

LEMMA TypedAfter ==
    ASSUME GoodsTyped, NEW c \in Characters, NEW ch, Saved(c, ch),
           ledger' \in [Characters -> Int], made' \in Int, paid' \in [Characters -> Nat],
           listings' \in [Auctions -> Listing],
           \A a \in Auctions : listings'[a].state = "active" => listings'[a].seller \in Characters,
           mails' \in [Mails -> Mail], \A m \in Mails : mails'[m].to = Nobody => ~mails'[m].item,
           commits' \in 0..MaxCommits, UNCHANGED <<writer, held>>
    PROVE  GoodsTyped'
<1>1. \A d \in Characters : chars'[d].bar # {} => chars'[d].learned
  BY DEF Saved, GoodsTyped, GoodsTypeOK
<1> QED BY <1>1 DEF Saved, GoodsTyped, GoodsTypeOK

LEMMA Mutated ==
    ASSUME GoodsTyped, NEW c \in Characters, NEW op, NEW key, NEW ch \in Character,
           MutateCharacterState(c, op, key, ch), made' \in Int, paid' \in [Characters -> Nat]
    PROVE  Saved(c, ch) /\ UNCHANGED <<ledger, listings, mails>> /\ GoodsTyped'
<1>1. /\ SaveCharacterWithVersion(c, ch) /\ UNCHANGED <<ledger, listings, mails, writer, held>>
      /\ WithTransaction(c, op, Nobody, key)
  BY DEF MutateCharacterState
<1>2. Saved(c, ch) /\ commits' \in 0..MaxCommits
  BY <1>1, SaveFacts, CommitCounts
<1>3. GoodsTyped'
  BY <1>1, <1>2, TypedAfter DEF GoodsTyped, GoodsTypeOK
<1> QED BY <1>1, <1>2, <1>3

(* A mutation that leaves bag and copper as they were. *)
LEMMA QuietMutation ==
    ASSUME GoodsTyped, NEW c \in Characters, NEW op, NEW key, NEW ch \in Character,
           MutateCharacterState(c, op, key, ch), UNCHANGED <<made, paid>>,
           ch.copper = chars[c].copper, ch.bag = chars[c].bag,
           ch.quest = chars[c].quest \/ (chars[c].quest = "rewarded" => "lateprogress" \in Races)
    PROVE  GoodsStep
<1>1. Saved(c, ch) /\ UNCHANGED <<ledger, listings, mails>> /\ GoodsTyped'
  BY Mutated DEF GoodsTyped, GoodsTypeOK
<1>2. \A d \in Characters : chars'[d].copper = chars[d].copper /\ chars'[d].bag = chars[d].bag
  BY <1>1 DEF Saved
<1>3. ASSUME CopperExplained, "lateprogress" \notin Races PROVE CopperExplained'
  <2>1. \A d \in Characters : paid[d] = 0 \/ chars'[d].quest = chars[d].quest
    BY <1>1, <1>3 DEF Saved, CopperExplained
  <2> QED BY <1>1, <1>2, <1>3, <2>1, LedgerSilent
<1>4. ItemsKept => ItemsKept'
  BY <1>1, <1>2, BagsStay DEF ItemsKept, OnSale, InMails
<1> QED BY <1>1, <1>3, <1>4 DEF GoodsStep

LEMMA QuestSteps ==
    ASSUME GoodsTyped, NEW c \in Characters, NEW key,
           \/ AcceptQuestProgress(c, key) \/ UpdateQuestProgress(c, key) \/ GrantLearnedAbility(c, key)
           \/ \E s \in BarSlots : AssignActionBarSlot(c, key, s) \/ ClearActionBarSlot(c, key, s)
           \/ \E s, t \in BarSlots : MoveActionBarSlot(c, key, s, t)
    PROVE  GoodsStep
<1> DEFINE ch == chars[c]
<1>0. ch \in Character
  BY DEF GoodsTyped, GoodsTypeOK
<1>1. CASE AcceptQuestProgress(c, key) \/ UpdateQuestProgress(c, key)
  <2> DEFINE new == [ch EXCEPT !.quest = "active"]
  <2>1. new \in Character /\ new.copper = ch.copper /\ new.bag = ch.bag
    BY <1>0 DEF Character
  <2>2. PICK op : MutateCharacterState(c, op, key, new)
    BY <1>1 DEF AcceptQuestProgress, UpdateQuestProgress
  <2>3. UNCHANGED <<made, paid>> /\ (ch.quest = "rewarded" => "lateprogress" \in Races)
    BY <1>1 DEF AcceptQuestProgress, UpdateQuestProgress
  <2> HIDE DEF new
  <2> QED BY <2>1, <2>2, <2>3, QuietMutation
<1>2. CASE GrantLearnedAbility(c, key)
  <2> DEFINE new == [ch EXCEPT !.learned = TRUE]
  <2>1. new \in Character /\ new.copper = ch.copper /\ new.bag = ch.bag /\ new.quest = ch.quest
    BY <1>0 DEF Character
  <2>2. MutateCharacterState(c, "ability.grant", key, new) /\ UNCHANGED <<made, paid>>
    BY <1>2 DEF GrantLearnedAbility
  <2> HIDE DEF new
  <2> QED BY <2>1, <2>2, QuietMutation
<1>3. CASE \/ \E s \in BarSlots : AssignActionBarSlot(c, key, s) \/ ClearActionBarSlot(c, key, s)
           \/ \E s, t \in BarSlots : MoveActionBarSlot(c, key, s, t)
  <2>1. ch.bar \in SUBSET BarSlots
    BY <1>0 DEF Character
  <2>2. \E bar \in SUBSET BarSlots : \E op :
          MutateCharacterState(c, op, key, [ch EXCEPT !.bar = bar]) /\ UNCHANGED <<made, paid>>
    <3>1. CASE \E s \in BarSlots : AssignActionBarSlot(c, key, s)
      <4>1. PICK s \in BarSlots : AssignActionBarSlot(c, key, s)
        BY <3>1
      <4>2. ch.bar \cup {s} \in SUBSET BarSlots
        BY <2>1
      <4> QED BY <4>1, <4>2 DEF AssignActionBarSlot
    <3>2. CASE \E s \in BarSlots : ClearActionBarSlot(c, key, s)
      <4>1. PICK s \in BarSlots : ClearActionBarSlot(c, key, s)
        BY <3>2
      <4>2. ch.bar \ {s} \in SUBSET BarSlots
        BY <2>1
      <4> QED BY <4>1, <4>2 DEF ClearActionBarSlot
    <3>3. CASE \E s, t \in BarSlots : MoveActionBarSlot(c, key, s, t)
      <4>1. PICK s \in BarSlots, t \in BarSlots : MoveActionBarSlot(c, key, s, t)
        BY <3>3
      <4> DEFINE bar == IF t \in ch.bar THEN ch.bar ELSE (ch.bar \ {s}) \cup {t}
      <4>2. bar \in SUBSET BarSlots
        BY <2>1
      <4>3. MutateCharacterState(c, "actionbar.move", key, [ch EXCEPT !.bar = bar]) /\ UNCHANGED <<made, paid>>
        BY <4>1 DEF MoveActionBarSlot
      <4> HIDE DEF bar
      <4> QED BY <4>2, <4>3
    <3> QED BY <1>3, <3>1, <3>2, <3>3
  <2>3. PICK bar \in SUBSET BarSlots : \E op :
          MutateCharacterState(c, op, key, [ch EXCEPT !.bar = bar]) /\ UNCHANGED <<made, paid>>
    BY <2>2
  <2> DEFINE new == [ch EXCEPT !.bar = bar]
  <2>4. new \in Character /\ new.copper = ch.copper /\ new.bag = ch.bag /\ new.quest = ch.quest
    BY <1>0 DEF Character
  <2>5. PICK op : MutateCharacterState(c, op, key, new)
    BY <2>3
  <2>6. UNCHANGED <<made, paid>>
    BY <2>3
  <2> HIDE DEF new
  <2> QED BY <2>4, <2>5, <2>6, QuietMutation
<1> QED BY <1>1, <1>2, <1>3

LEMMA MoveKeeps ==
    ASSUME GoodsTyped, NEW c \in Characters, NEW key, NEW i \in Slots, NEW j \in Slots,
           MoveInventorySlot(c, key, i, j)
    PROVE  GoodsStep
<1> DEFINE ch == chars[c]
           bag == IF j \in ch.bag THEN ch.bag ELSE (ch.bag \ {i}) \cup {j}
           new == [ch EXCEPT !.bag = bag]
<1>0. ch \in Character
  BY DEF GoodsTyped, GoodsTypeOK
<1>1. i \in ch.bag /\ MutateCharacterState(c, "inventory.move", key, new) /\ UNCHANGED <<made, paid>>
  BY DEF MoveInventorySlot
<1>2. bag \in SUBSET Slots
  BY <1>0 DEF Character
<1> HIDE DEF bag
<1>3. /\ new \in Character /\ new.copper = ch.copper /\ new.bag = bag /\ new.quest = ch.quest
  BY <1>0, <1>2 DEF Character
<1> HIDE DEF new
<1>4. Saved(c, new) /\ UNCHANGED <<ledger, listings, mails>> /\ GoodsTyped'
  BY <1>1, <1>3, Mutated DEF GoodsTyped, GoodsTypeOK
<1>5. CopperExplained => CopperExplained'
  BY <1>1, <1>3, <1>4, LedgerSilent DEF Saved
<1>6. Cardinality(InBags') = Cardinality(InBags)
  <2>1. CASE j \in ch.bag
    <3>1. \A d \in Characters : chars'[d].bag = chars[d].bag
      BY <1>3, <1>4, <2>1 DEF Saved, bag
    <3> QED BY <3>1, BagsStay
  <2>2. CASE j \notin ch.bag
    <3>1. chars'[c].bag = (chars[c].bag \ {i}) \cup {j}
      BY <1>3, <1>4, <2>2 DEF Saved, bag
    <3>2. \A d \in Characters : d # c => chars'[d].bag = chars[d].bag
      BY <1>4 DEF Saved
    <3> QED BY <1>1, <2>2, <3>1, <3>2, BagMoves
  <2> QED BY <2>1, <2>2
<1>7. ItemsKept => ItemsKept'
  BY <1>1, <1>4, <1>6 DEF ItemsKept, OnSale, InMails
<1> QED BY <1>4, <1>5, <1>7 DEF GoodsStep

LEMMA GrantKeeps ==
    ASSUME GoodsTyped, NEW c \in Characters, NEW key, GrantInventoryItem(c, key)
    PROVE  GoodsStep
<1> DEFINE ch == chars[c]
           bag == GrantItemToInventory(ch.bag)
           new == [ch EXCEPT !.bag = bag]
<1>0. ch \in Character /\ made \in Int
  BY DEF GoodsTyped, GoodsTypeOK
<1>1. /\ Free(ch.bag) # {} /\ MutateCharacterState(c, "inventory.grant", key, new)
      /\ made' = made + 1 /\ UNCHANGED paid
  BY DEF GrantInventoryItem
<1>2. PICK s \in Slots \ ch.bag : bag = ch.bag \cup {s}
  BY <1>0, <1>1, Granted DEF Character
<1> HIDE DEF bag
<1>3. /\ new \in Character /\ new.copper = ch.copper /\ new.bag = bag /\ new.quest = ch.quest
  BY <1>0, <1>2 DEF Character
<1> HIDE DEF new
<1>4. Saved(c, new) /\ UNCHANGED <<ledger, listings, mails>> /\ GoodsTyped'
  BY <1>0, <1>1, <1>3, Mutated DEF GoodsTyped, GoodsTypeOK
<1>5. CopperExplained => CopperExplained'
  BY <1>1, <1>3, <1>4, LedgerSilent DEF Saved
<1>6. Cardinality(InBags') = Cardinality(InBags) + 1
  BY <1>2, <1>3, <1>4, BagGains DEF Saved
<1>7. ItemsKept => ItemsKept'
  BY <1>0, <1>1, <1>4, <1>6, Counts DEF ItemsKept, OnSale, InMails
<1> QED BY <1>4, <1>5, <1>7 DEF GoodsStep

(* A record of a character that is put together field by field. *)
LEMMA CharacterOf ==
    ASSUME NEW ch, ch = [x \in {"copper", "bag", "quest", "learned", "bar"} |-> ch[x]],
           ch.copper \in Nat, ch.bag \in SUBSET Slots, ch.quest \in {"none", "active", "rewarded"},
           ch.learned \in BOOLEAN, ch.bar \in SUBSET BarSlots
    PROVE  ch \in Character
BY DEF Character

LEMMA FieldsOf ==
    ASSUME NEW ch \in Character
    PROVE  /\ DOMAIN ch = {"copper", "bag", "quest", "learned", "bar"}
           /\ ch.copper \in Nat /\ ch.bag \in SUBSET Slots /\ ch.quest \in {"none", "active", "rewarded"}
           /\ ch.learned \in BOOLEAN /\ ch.bar \in SUBSET BarSlots
BY DEF Character

LEMMA Traded ==
    ASSUME NEW ch \in Character, NEW new, new = [x \in DOMAIN ch |-> new[x]],
           new.copper \in Nat, new.bag \in SUBSET Slots, new.quest \in {"none", "active", "rewarded"},
           new.learned = ch.learned, new.bar = ch.bar
    PROVE  new \in Character
<1>1. new = [x \in {"copper", "bag", "quest", "learned", "bar"} |-> new[x]]
  BY FieldsOf
<1> QED BY <1>1, FieldsOf, CharacterOf

LEMMA RewardKeeps ==
    ASSUME GoodsTyped, NEW c \in Characters, NEW key, CompleteQuestWithReward(c, key)
    PROVE  GoodsStep
<1> DEFINE ch == chars[c]
           bag == GrantItemToInventory(ch.bag)
           new == [ch EXCEPT !.quest = "rewarded", !.copper = ch.copper + Price, !.bag = bag]
<1>0. ch \in Character /\ made \in Int /\ ch.copper \in Nat /\ paid \in [Characters -> Nat] /\ Price \in Nat
  BY GoodsBounds DEF GoodsTyped, GoodsTypeOK, Character
<1>1. /\ Free(ch.bag) # {} /\ ch.quest = "active" /\ MutateCharacterState(c, "quest.reward", key, new)
      /\ made' = made + 1 /\ paid' = [paid EXCEPT ![c] = @ + Price]
  BY DEF CompleteQuestWithReward
<1>2. PICK s \in Slots \ ch.bag : bag = ch.bag \cup {s}
  BY <1>0, <1>1, Granted DEF Character
<1> HIDE DEF bag
<1>3. /\ new \in Character /\ new.copper = ch.copper + Price /\ new.bag = bag /\ new.quest = "rewarded"
  <2>1. ch.copper + Price \in Nat /\ bag \in SUBSET Slots
    BY <1>0, <1>2, FieldsOf
  <2>2. /\ new = [x \in DOMAIN ch |-> new[x]] /\ new.learned = ch.learned /\ new.bar = ch.bar
        /\ new.copper = ch.copper + Price /\ new.bag = bag /\ new.quest = "rewarded"
    BY <1>0, FieldsOf
  <2> HIDE DEF new
  <2> QED BY <1>0, <2>1, <2>2, Traded
<1> HIDE DEF new
<1>4. /\ paid' \in [Characters -> Nat] /\ paid'[c] = paid[c] + Price
      /\ \A d \in Characters : d # c => paid'[d] = paid[d]
  BY <1>0, <1>1
<1>5. Saved(c, new) /\ UNCHANGED <<ledger, listings, mails>> /\ GoodsTyped'
  BY <1>0, <1>1, <1>3, <1>4, Mutated
<1>6. ASSUME CopperExplained PROVE CopperExplained'
  <2>1. paid[c] = 0 /\ ledger[c] \in Int /\ Start \in Nat
    BY <1>1, <1>6, GoodsBounds DEF CopperExplained, GoodsTyped, GoodsTypeOK
  <2>2. chars'[c].copper = Start + ledger'[c] + paid'[c] /\ paid'[c] = Price /\ chars'[c].quest = "rewarded"
    BY <1>0, <1>3, <1>4, <1>5, <1>6, <2>1 DEF CopperExplained, Saved
  <2> QED BY <1>4, <1>5, <1>6, <2>2 DEF CopperExplained, Saved
<1>7. Cardinality(InBags') = Cardinality(InBags) + 1
  BY <1>2, <1>3, <1>5, BagGains DEF Saved
<1>8. ItemsKept => ItemsKept'
  BY <1>0, <1>1, <1>5, <1>7, Counts DEF ItemsKept, OnSale, InMails
<1> QED BY <1>5, <1>6, <1>8 DEF GoodsStep

(* A character's trade that the ledger tells of: what is typed and explained. *)
LEMMA LedgeredTrade ==
    ASSUME GoodsTyped, NEW c \in Characters, NEW new \in Character, SaveCharacterWithVersion(c, new),
           NEW n \in Int, new.copper = chars[c].copper + n, new.quest = chars[c].quest,
           ledger' = [ledger EXCEPT ![c] = @ + n], made' \in Int,
           NEW op, NEW of, NEW key, WithTransaction(c, op, of, key),
           listings' \in [Auctions -> Listing],
           \A a \in Auctions : listings'[a].state = "active" => listings'[a].seller \in Characters,
           mails' \in [Mails -> Mail], \A m \in Mails : mails'[m].to = Nobody => ~mails'[m].item,
           UNCHANGED <<writer, held, paid>>
    PROVE  Saved(c, new) /\ GoodsTyped' /\ (CopperExplained => CopperExplained')
<1>1. Saved(c, new) /\ commits' \in 0..MaxCommits
  BY SaveFacts, CommitCounts
<1>2. ledger' \in [Characters -> Int] /\ paid' \in [Characters -> Nat]
  BY DEF GoodsTyped, GoodsTypeOK
<1>3. GoodsTyped'
  BY <1>1, <1>2, TypedAfter
<1>4. CopperExplained => CopperExplained'
  BY <1>1, LedgerTells DEF Saved
<1> QED BY <1>1, <1>3, <1>4

LEMMA StandingGoods ==
    ASSUME GoodsTyped, UNCHANGED <<listings, mails>>
    PROVE  /\ listings' \in [Auctions -> Listing]
           /\ \A a \in Auctions : listings'[a].state = "active" => listings'[a].seller \in Characters
           /\ mails' \in [Mails -> Mail] /\ \A m \in Mails : mails'[m].to = Nobody => ~mails'[m].item
BY DEF GoodsTyped, GoodsTypeOK

LEMMA CurrencyKeeps ==
    ASSUME GoodsTyped, NEW c \in Characters, NEW key, NEW delta \in {Price, -Price},
           AppendCurrencyMutation(c, key, delta)
    PROVE  GoodsStep
<1> DEFINE ch == chars[c]
           new == [ch EXCEPT !.copper = ch.copper + delta]
<1>0. ch \in Character /\ made \in Int /\ ch.copper \in Nat /\ delta \in Int
  BY GoodsBounds DEF GoodsTyped, GoodsTypeOK, Character
<1>1. /\ ch.copper + delta >= 0 /\ WithTransaction(c, "currency.adjust", Nobody, key)
      /\ SaveCharacterWithVersion(c, new) /\ ledger' = [ledger EXCEPT ![c] = @ + delta]
      /\ UNCHANGED <<listings, mails, writer, held, made, paid>>
  BY DEF AppendCurrencyMutation
<1>2. ch.copper + delta \in Nat
  BY <1>0, <1>1
<1>3. new \in Character /\ new.copper = ch.copper + delta /\ new.bag = ch.bag /\ new.quest = ch.quest
  BY <1>0, <1>2 DEF Character
<1> HIDE DEF new
<1>4. Saved(c, new) /\ GoodsTyped' /\ (CopperExplained => CopperExplained')
  BY <1>0, <1>1, <1>3, StandingGoods, LedgeredTrade
<1>5. \A d \in Characters : chars'[d].bag = chars[d].bag
  BY <1>3, <1>4 DEF Saved
<1>6. ItemsKept => ItemsKept'
  BY <1>1, <1>5, BagsStay DEF ItemsKept, OnSale, InMails
<1> QED BY <1>4, <1>6 DEF GoodsStep

LEMMA BuyKeeps ==
    ASSUME GoodsTyped, NEW c \in Characters, NEW key, BuyVendorItem(c, key)
    PROVE  GoodsStep
<1> DEFINE ch == chars[c]
           bag == GrantItemToInventory(ch.bag)
           new == [ch EXCEPT !.copper = ch.copper - Price, !.bag = bag]
<1>0. ch \in Character /\ made \in Int /\ ch.copper \in Nat /\ Price \in Nat
  BY GoodsBounds DEF GoodsTyped, GoodsTypeOK, Character
<1>1. /\ ch.copper >= Price /\ Free(ch.bag) # {} /\ WithTransaction(c, "vendor.buy", Nobody, key)
      /\ SaveCharacterWithVersion(c, new) /\ ledger' = [ledger EXCEPT ![c] = @ - Price]
      /\ made' = made + 1 /\ UNCHANGED <<listings, mails, writer, held, paid>>
  BY DEF BuyVendorItem
<1>2. PICK s \in Slots \ ch.bag : bag = ch.bag \cup {s}
  BY <1>0, <1>1, Granted, FieldsOf
<1> HIDE DEF bag
<1>3. /\ new \in Character /\ new.copper = ch.copper + (-Price) /\ new.bag = bag /\ new.quest = ch.quest
  <2>1. /\ ch.copper - Price \in Nat /\ bag \in SUBSET Slots /\ ch.copper - Price = ch.copper + (-Price)
    BY <1>0, <1>1, <1>2, FieldsOf
  <2>2. /\ new = [x \in DOMAIN ch |-> new[x]] /\ new.learned = ch.learned /\ new.bar = ch.bar
        /\ new.copper = ch.copper - Price /\ new.bag = bag /\ new.quest = ch.quest
    BY <1>0, FieldsOf
  <2> HIDE DEF new
  <2>3. new \in Character
    BY <1>0, <2>1, <2>2, FieldsOf, Traded
  <2> QED BY <2>1, <2>2, <2>3
<1> HIDE DEF new
<1>4. -Price \in Int /\ ledger' = [ledger EXCEPT ![c] = @ + (-Price)]
  <2>1. ledger[c] \in Int /\ -Price \in Int
    BY <1>0 DEF GoodsTyped, GoodsTypeOK
  <2>2. ledger[c] - Price = ledger[c] + (-Price)
    BY <1>0, <2>1
  <2> QED BY <1>1, <2>1, <2>2
<1>5. Saved(c, new) /\ GoodsTyped' /\ (CopperExplained => CopperExplained')
  <2>1. made' \in Int
    BY <1>0, <1>1
  <2> QED BY <1>0, <1>1, <1>3, <1>4, <2>1, StandingGoods, LedgeredTrade
<1>6. Cardinality(InBags') = Cardinality(InBags) + 1
  BY <1>2, <1>3, <1>5, BagGains DEF Saved
<1>7. ItemsKept => ItemsKept'
  BY <1>0, <1>1, <1>6, Counts DEF ItemsKept, OnSale, InMails
<1> QED BY <1>5, <1>7 DEF GoodsStep

LEMMA SellKeeps ==
    ASSUME GoodsTyped, NEW c \in Characters, NEW key, NEW s \in Slots, SellVendorItem(c, key, s)
    PROVE  GoodsStep
<1> DEFINE ch == chars[c]
           bag == ch.bag \ {s}
           new == [ch EXCEPT !.copper = ch.copper + Price, !.bag = bag]
<1>0. ch \in Character /\ made \in Int /\ ch.copper \in Nat /\ Price \in Nat
  BY GoodsBounds DEF GoodsTyped, GoodsTypeOK, Character
<1>1. /\ s \in ch.bag /\ WithTransaction(c, "vendor.sell", Nobody, key)
      /\ SaveCharacterWithVersion(c, new) /\ ledger' = [ledger EXCEPT ![c] = @ + Price]
      /\ made' = made - 1 /\ UNCHANGED <<listings, mails, writer, held, paid>>
  BY DEF SellVendorItem
<1>3. /\ new \in Character /\ new.copper = ch.copper + Price /\ new.bag = bag /\ new.quest = ch.quest
  <2>1. /\ ch.copper + Price \in Nat /\ bag \in SUBSET Slots
    BY <1>0, FieldsOf
  <2>2. /\ new = [x \in DOMAIN ch |-> new[x]] /\ new.learned = ch.learned /\ new.bar = ch.bar
        /\ new.copper = ch.copper + Price /\ new.bag = bag /\ new.quest = ch.quest
    BY <1>0, FieldsOf
  <2> HIDE DEF new
  <2>3. new \in Character
    BY <1>0, <2>1, <2>2, FieldsOf, Traded
  <2> QED BY <2>2, <2>3
<1> HIDE DEF new
<1>5. Saved(c, new) /\ GoodsTyped' /\ (CopperExplained => CopperExplained')
  <2>1. made' \in Int /\ Price \in Int
    BY <1>0, <1>1
  <2> QED BY <1>0, <1>1, <1>3, <2>1, StandingGoods, LedgeredTrade
<1>6. Cardinality(InBags') = Cardinality(InBags) - 1
  BY <1>1, <1>3, <1>5, BagLoses DEF Saved
<1>7. ItemsKept => ItemsKept'
  BY <1>0, <1>1, <1>6, Counts DEF ItemsKept, OnSale, InMails
<1> QED BY <1>5, <1>7 DEF GoodsStep

LEMMA ListKeeps ==
    ASSUME GoodsTyped, NEW c \in Characters, NEW key, NEW a \in Auctions, NEW s \in Slots,
           CreateAuctionListing(c, key, a, s)
    PROVE  GoodsStep
<1> DEFINE ch == chars[c]
           bag == ch.bag \ {s}
           new == [ch EXCEPT !.copper = ch.copper - Deposit, !.bag = bag]
<1>0. ch \in Character /\ made \in Int /\ ch.copper \in Nat /\ Deposit \in Nat
  BY GoodsBounds DEF GoodsTyped, GoodsTypeOK, Character
<1>1. /\ s \in ch.bag /\ ch.copper >= Deposit /\ listings[a].state = "none"
      /\ WithTransaction(c, "auction.list", Nobody, key)
      /\ SaveCharacterWithVersion(c, new) /\ ledger' = [ledger EXCEPT ![c] = @ - Deposit]
      /\ listings' = [listings EXCEPT ![a] = [seller |-> c, state |-> "active"]]
      /\ UNCHANGED <<mails, writer, held, made, paid>>
  BY DEF CreateAuctionListing
<1>3. /\ new \in Character /\ new.copper = ch.copper + (-Deposit) /\ new.bag = bag /\ new.quest = ch.quest
  <2>1. /\ ch.copper - Deposit \in Nat /\ bag \in SUBSET Slots /\ ch.copper - Deposit = ch.copper + (-Deposit)
    BY <1>0, <1>1, FieldsOf
  <2>2. /\ new = [x \in DOMAIN ch |-> new[x]] /\ new.learned = ch.learned /\ new.bar = ch.bar
        /\ new.copper = ch.copper - Deposit /\ new.bag = bag /\ new.quest = ch.quest
    BY <1>0, FieldsOf
  <2> HIDE DEF new
  <2>3. new \in Character
    BY <1>0, <2>1, <2>2, FieldsOf, Traded
  <2> QED BY <2>1, <2>2, <2>3
<1> HIDE DEF new
<1>4. -Deposit \in Int /\ ledger' = [ledger EXCEPT ![c] = @ + (-Deposit)]
  <2>1. ledger[c] \in Int /\ -Deposit \in Int
    BY <1>0 DEF GoodsTyped, GoodsTypeOK
  <2>2. ledger[c] - Deposit = ledger[c] + (-Deposit)
    BY <1>0, <2>1
  <2> QED BY <1>1, <2>1, <2>2
<1>5. /\ listings' \in [Auctions -> Listing] /\ listings'[a].state = "active"
      /\ \A b \in Auctions : b # a => listings'[b] = listings[b]
      /\ \A b \in Auctions : listings'[b].state = "active" => listings'[b].seller \in Characters
  BY <1>1 DEF GoodsTyped, GoodsTypeOK, Listing
<1>6. mails' \in [Mails -> Mail] /\ \A m \in Mails : mails'[m].to = Nobody => ~mails'[m].item
  BY <1>1 DEF GoodsTyped, GoodsTypeOK
<1>7. Saved(c, new) /\ GoodsTyped' /\ (CopperExplained => CopperExplained')
  <2>1. made' \in Int
    BY <1>0, <1>1
  <2> QED BY <1>0, <1>1, <1>3, <1>4, <1>5, <1>6, <2>1, LedgeredTrade
<1>8. Cardinality(InBags') = Cardinality(InBags) - 1
  BY <1>1, <1>3, <1>7, BagLoses DEF Saved
<1>9. Cardinality(OnSale') = Cardinality(OnSale) + 1
  BY <1>1, <1>5, SaleGains
<1>10. ItemsKept => ItemsKept'
  BY <1>0, <1>1, <1>8, <1>9, Counts DEF ItemsKept, InMails
<1> QED BY <1>7, <1>10 DEF GoodsStep

LEMMA CancelKeeps ==
    ASSUME GoodsTyped, NEW c \in Characters, NEW key, NEW a \in Auctions, CancelAuction(c, key, a)
    PROVE  GoodsStep
<1> DEFINE ch == chars[c]
           bag == GrantItemToInventory(ch.bag)
           new == [ch EXCEPT !.bag = bag]
<1>0. ch \in Character /\ made \in Int
  BY DEF GoodsTyped, GoodsTypeOK
<1>1. /\ listings[a].state = "active" /\ Free(ch.bag) # {} /\ WithTransaction(c, "auction.cancel", a, key)
      /\ SaveCharacterWithVersion(c, new) /\ listings' = [listings EXCEPT ![a].state = "canceled"]
      /\ UNCHANGED <<ledger, mails, writer, held, made, paid>>
  BY DEF CancelAuction
<1>2. PICK s \in Slots \ ch.bag : bag = ch.bag \cup {s}
  BY <1>0, <1>1, Granted, FieldsOf
<1> HIDE DEF bag
<1>3. /\ new \in Character /\ new.copper = ch.copper /\ new.bag = bag /\ new.quest = ch.quest
  BY <1>0, <1>2 DEF Character
<1> HIDE DEF new
<1>4. /\ listings' \in [Auctions -> Listing] /\ listings'[a].state = "canceled"
      /\ \A b \in Auctions : b # a => listings'[b] = listings[b]
      /\ \A b \in Auctions : listings'[b].state = "active" => listings'[b].seller \in Characters
  BY <1>1 DEF GoodsTyped, GoodsTypeOK, Listing
<1>5. Saved(c, new) /\ commits' \in 0..MaxCommits
  BY <1>1, <1>3, SaveFacts, CommitCounts
<1>6. GoodsTyped'
  BY <1>1, <1>4, <1>5, TypedAfter DEF GoodsTyped, GoodsTypeOK
<1>7. CopperExplained => CopperExplained'
  BY <1>1, <1>3, <1>5, LedgerSilent DEF Saved
<1>8. Cardinality(InBags') = Cardinality(InBags) + 1
  BY <1>2, <1>3, <1>5, BagGains DEF Saved
<1>9. Cardinality(OnSale') = Cardinality(OnSale) - 1
  BY <1>1, <1>4, SaleLoses
<1>10. ItemsKept => ItemsKept'
  BY <1>0, <1>1, <1>8, <1>9, Counts DEF ItemsKept, InMails
<1> QED BY <1>6, <1>7, <1>10 DEF GoodsStep

LEMMA ProceedsCount == Proceeds \in Nat
<1> DEFINE x == Buyout - Cut + Deposit
<1>1. x \in Int
  BY GoodsBounds DEF Cut
<1> HIDE DEF x
<1>2. \E y \in {x, 0} : \A z \in {x, 0} : y >= z
  BY <1>1
<1>3. Max({x, 0}) \in {x, 0} /\ \A z \in {x, 0} : Max({x, 0}) >= z
  BY <1>2 DEF Max
<1> QED BY <1>1, <1>3 DEF Proceeds, x

LEMMA BuyoutKeeps ==
    ASSUME GoodsTyped, NEW c \in Characters, NEW key, NEW a \in Auctions, BuyoutAuction(c, key, a)
    PROVE  GoodsStep
<1> DEFINE seller == listings[a].seller
           ch == chars[c]
           bag == GrantItemToInventory(ch.bag)
           bought == [ch EXCEPT !.copper = ch.copper - Buyout, !.bag = bag]
           sold == [chars[seller] EXCEPT !.copper = chars[seller].copper + Proceeds]
<1>1. /\ listings[a].state = "active" /\ seller # c /\ ch.copper >= Buyout /\ Free(ch.bag) # {}
      /\ WithTransaction(c, "auction.buyout", a, key)
      /\ chars' = [chars EXCEPT ![c] = bought, ![seller] = sold]
      /\ ledger' = [ledger EXCEPT ![c] = @ - Buyout, ![seller] = @ + Proceeds]
      /\ listings' = [listings EXCEPT ![a].state = "sold"]
      /\ UNCHANGED <<mails, writer, held, made, paid>>
  BY DEF BuyoutAuction
<1>2. /\ seller \in Characters /\ chars \in [Characters -> Character] /\ ledger \in [Characters -> Int]
      /\ made \in Int /\ ch \in Character /\ chars[seller] \in Character
      /\ ch.copper \in Nat /\ chars[seller].copper \in Nat
      /\ Buyout \in Nat /\ Proceeds \in Nat
  BY <1>1, GoodsBounds, ProceedsCount DEF GoodsTyped, GoodsTypeOK, Character
<1>3. PICK s \in Slots \ ch.bag : bag = ch.bag \cup {s}
  BY <1>1, <1>2, Granted, FieldsOf
<1> HIDE DEF bag
<1>4. /\ bought \in Character /\ bought.copper = ch.copper - Buyout /\ bought.bag = bag
      /\ bought.quest = ch.quest /\ bought.learned = ch.learned /\ bought.bar = ch.bar
  <2>1. ch.copper - Buyout \in Nat /\ bag \in SUBSET Slots
    BY <1>1, <1>2, <1>3, FieldsOf
  <2>2. /\ bought = [x \in DOMAIN ch |-> bought[x]] /\ bought.learned = ch.learned /\ bought.bar = ch.bar
        /\ bought.copper = ch.copper - Buyout /\ bought.bag = bag /\ bought.quest = ch.quest
    BY <1>2, FieldsOf
  <2> HIDE DEF bought
  <2>3. bought \in Character
    BY <1>2, <2>1, <2>2, FieldsOf, Traded
  <2> QED BY <2>2, <2>3
<1>5. /\ sold \in Character /\ sold.copper = chars[seller].copper + Proceeds
      /\ sold.bag = chars[seller].bag /\ sold.quest = chars[seller].quest
      /\ sold.learned = chars[seller].learned /\ sold.bar = chars[seller].bar
  <2>1. chars[seller].copper + Proceeds \in Nat
    BY <1>2
  <2> QED BY <1>2, <2>1 DEF Character
<1> HIDE DEF bought, sold, ch
<1>6. /\ chars' \in [Characters -> Character] /\ chars'[c] = bought /\ chars'[seller] = sold
      /\ \A d \in Characters \ {c, seller} : chars'[d] = chars[d]
  BY <1>1, <1>2, <1>4, <1>5
<1>7. /\ ledger' \in [Characters -> Int] /\ ledger'[c] = ledger[c] - Buyout
      /\ ledger'[seller] = ledger[seller] + Proceeds
      /\ \A d \in Characters \ {c, seller} : ledger'[d] = ledger[d]
  <2>1. ledger[c] - Buyout \in Int /\ ledger[seller] + Proceeds \in Int
    BY <1>2
  <2> QED BY <1>1, <1>2, <2>1
<1>8. /\ listings' \in [Auctions -> Listing] /\ listings'[a].state = "sold"
      /\ \A b \in Auctions : b # a => listings'[b] = listings[b]
      /\ \A b \in Auctions : listings'[b].state = "active" => listings'[b].seller \in Characters
  BY <1>1 DEF GoodsTyped, GoodsTypeOK, Listing
<1>9. \A d \in Characters : chars'[d].bar # {} => chars'[d].learned
  BY <1>4, <1>5, <1>6 DEF GoodsTyped, GoodsTypeOK, ch
<1>10. GoodsTyped'
  BY <1>1, <1>6, <1>7, <1>8, <1>9, CommitCounts DEF GoodsTyped, GoodsTypeOK
<1>11. ASSUME CopperExplained PROVE CopperExplained'
  <2>1. Start \in Nat /\ \A d \in Characters : ledger[d] \in Int /\ paid[d] \in Nat
    BY <1>2, GoodsBounds DEF GoodsTyped
  <2>2. chars'[c].copper = Start + ledger'[c] + paid'[c] /\ chars'[c].quest = chars[c].quest
    BY <1>1, <1>2, <1>4, <1>6, <1>7, <1>11, <2>1 DEF CopperExplained, ch
  <2>3. chars'[seller].copper = Start + ledger'[seller] + paid'[seller] /\ chars'[seller].quest = chars[seller].quest
    BY <1>1, <1>2, <1>5, <1>6, <1>7, <1>11, <2>1 DEF CopperExplained
  <2> HIDE DEF seller
  <2> QED BY <1>1, <1>6, <1>7, <1>11, <2>2, <2>3 DEF CopperExplained
<1>12. Cardinality(InBags') = Cardinality(InBags) + 1
  <2>1. chars'[c].bag = chars[c].bag \cup {s} /\ s \in Slots \ chars[c].bag
    BY <1>3, <1>4, <1>6 DEF ch
  <2>2. \A d \in Characters : d # c => chars'[d].bag = chars[d].bag
    BY <1>5, <1>6
  <2> QED BY <2>1, <2>2, BagGains
<1>13. Cardinality(OnSale') = Cardinality(OnSale) - 1
  BY <1>1, <1>8, SaleLoses
<1>14. ItemsKept => ItemsKept'
  BY <1>1, <1>2, <1>12, <1>13, Counts DEF ItemsKept, InMails
<1> QED BY <1>10, <1>11, <1>14 DEF GoodsStep

LEMMA CreateMailKeeps ==
    ASSUME GoodsTyped, NEW c \in Characters, NEW m \in Mails, NEW item \in BOOLEAN, CreateMail(c, m, item)
    PROVE  GoodsStep
<1>0. made \in Int
  BY DEF GoodsTyped, GoodsTypeOK
<1>1. /\ mails[m].to = Nobody /\ WithTransaction(c, "mail.create", m, NoKey)
      /\ mails' = [mails EXCEPT ![m] = [to |-> c, item |-> item, copper |-> TRUE]]
      /\ made' = made + (IF item THEN 1 ELSE 0)
      /\ UNCHANGED <<chars, rows, ledger, listings, writer, held, paid>>
  BY DEF CreateMail
<1>2. ~mails[m].item
  BY <1>1 DEF GoodsTyped
<1>3. /\ mails' \in [Mails -> Mail] /\ mails'[m].item = item /\ mails'[m].to # Nobody
      /\ \A n \in Mails : n # m => mails'[n] = mails[n]
  BY <1>1, GoodsBounds DEF GoodsTyped, GoodsTypeOK, Mail
<1>4. \A n \in Mails : mails'[n].to = Nobody => ~mails'[n].item
  BY <1>3 DEF GoodsTyped
<1>5. commits' \in 0..MaxCommits
  BY <1>1, CommitCounts
<1>6. made' \in Int
  BY <1>0, <1>1
<1>7. GoodsTyped'
  BY <1>1, <1>3, <1>4, <1>5, <1>6 DEF GoodsTyped, GoodsTypeOK
<1>8. CopperExplained => CopperExplained'
  BY <1>1 DEF CopperExplained
<1>9. ItemsKept => ItemsKept'
  <2>1. CASE item
    <3>1. mails'[m].item
      BY <1>3, <2>1
    <3>2. Cardinality(InMails') = Cardinality(InMails) + 1
      BY <1>2, <1>3, <3>1, MailGains
    <3>3. made' = made + 1
      BY <1>1, <2>1
    <3> QED BY <1>0, <1>1, <3>2, <3>3, Counts DEF ItemsKept, InBags, OnSale
  <2>2. CASE ~item
    <3>1. \A n \in Mails : n \in InMails' <=> n \in InMails
      BY <1>2, <1>3, <2>2 DEF InMails
    <3>2. InMails' = InMails
      BY <3>1 DEF InMails
    <3>3. made' = made
      BY <1>0, <1>1, <2>2
    <3> QED BY <1>1, <3>2, <3>3 DEF ItemsKept, InBags, OnSale
  <2> QED BY <2>1, <2>2
<1> QED BY <1>7, <1>8, <1>9 DEF GoodsStep

LEMMA ClaimKeeps ==
    ASSUME GoodsTyped, NEW c \in Characters, NEW key, NEW m \in Mails,
           NEW kind \in {"first", "item", "copper"}, ClaimMailAttachment(c, key, m, kind)
    PROVE  GoodsStep
<1> DEFINE asked == IF kind # "first" THEN kind ELSE IF mails[m].item THEN "item" ELSE "copper"
           ch == chars[c]
           bag == GrantItemToInventory(ch.bag)
<1>0. /\ ch \in Character /\ made \in Int /\ ch.copper \in Nat /\ Price \in Nat /\ asked \in {"item", "copper"}
  BY GoodsBounds DEF GoodsTyped, GoodsTypeOK, Character
<1>1. /\ mails[m].to = c /\ mails[m][asked] /\ (asked = "item" => Free(ch.bag) # {})
      /\ WithTransaction(c, "mail.claim", m, key)
      /\ SaveCharacterWithVersion(c, IF asked = "item" THEN [ch EXCEPT !.bag = bag]
                                                       ELSE [ch EXCEPT !.copper = ch.copper + Price])
      /\ ledger' = IF asked = "copper" THEN [ledger EXCEPT ![c] = @ + Price] ELSE ledger
      /\ mails' = [mails EXCEPT ![m][asked] = FALSE]
      /\ UNCHANGED <<listings, writer, held, made, paid>>
  BY DEF ClaimMailAttachment
<1> HIDE DEF asked
<1>2. /\ listings' \in [Auctions -> Listing]
      /\ \A a \in Auctions : listings'[a].state = "active" => listings'[a].seller \in Characters
  BY <1>1 DEF GoodsTyped, GoodsTypeOK
<1>3. CASE asked = "item"
  <2> DEFINE new == [ch EXCEPT !.bag = bag]
  <2>1. SaveCharacterWithVersion(c, new) /\ UNCHANGED ledger /\ mails' = [mails EXCEPT ![m].item = FALSE]
        /\ mails[m].item
    BY <1>1, <1>3
  <2>2. PICK s \in Slots \ ch.bag : bag = ch.bag \cup {s}
    BY <1>0, <1>1, <1>3, Granted, FieldsOf
  <2> HIDE DEF bag
  <2>3. /\ new \in Character /\ new.copper = ch.copper /\ new.bag = bag /\ new.quest = ch.quest
    BY <1>0, <2>2 DEF Character
  <2> HIDE DEF new
  <2>4. /\ mails' \in [Mails -> Mail] /\ ~mails'[m].item /\ \A n \in Mails : n # m => mails'[n] = mails[n]
        /\ \A n \in Mails : mails'[n].to = Nobody => ~mails'[n].item
    BY <2>1 DEF GoodsTyped, GoodsTypeOK, Mail
  <2>5. Saved(c, new) /\ commits' \in 0..MaxCommits
    BY <1>1, <2>1, <2>3, SaveFacts, CommitCounts
  <2>6. GoodsTyped'
    BY <1>1, <1>2, <2>1, <2>4, <2>5, TypedAfter DEF GoodsTyped, GoodsTypeOK
  <2>7. CopperExplained => CopperExplained'
    BY <1>1, <2>1, <2>3, <2>5, LedgerSilent DEF Saved
  <2>8. Cardinality(InBags') = Cardinality(InBags) + 1
    BY <2>2, <2>3, <2>5, BagGains DEF Saved
  <2>9. Cardinality(InMails') = Cardinality(InMails) - 1
    BY <2>1, <2>4, MailLoses
  <2>10. ItemsKept => ItemsKept'
    BY <1>0, <1>1, <2>8, <2>9, Counts DEF ItemsKept, OnSale
  <2> QED BY <2>6, <2>7, <2>10 DEF GoodsStep
<1>4. CASE asked = "copper"
  <2> DEFINE new == [ch EXCEPT !.copper = ch.copper + Price]
  <2>1. /\ SaveCharacterWithVersion(c, new) /\ ledger' = [ledger EXCEPT ![c] = @ + Price]
        /\ mails' = [mails EXCEPT ![m].copper = FALSE]
    BY <1>1, <1>4
  <2>2. ch.copper + Price \in Nat /\ Price \in Int
    BY <1>0
  <2>3. /\ new \in Character /\ new.copper = ch.copper + Price /\ new.bag = ch.bag /\ new.quest = ch.quest
    BY <1>0, <2>2 DEF Character
  <2> HIDE DEF new
  <2>4. /\ mails' \in [Mails -> Mail] /\ \A n \in Mails : mails'[n].item = mails[n].item /\ mails'[n].to = mails[n].to
    BY <2>1 DEF GoodsTyped, GoodsTypeOK, Mail
  <2>5. \A n \in Mails : mails'[n].to = Nobody => ~mails'[n].item
    BY <2>4 DEF GoodsTyped
  <2>6. made' \in Int
    BY <1>0, <1>1
  <2>7. Saved(c, new) /\ GoodsTyped' /\ (CopperExplained => CopperExplained')
    BY <1>1, <1>2, <2>1, <2>2, <2>3, <2>4, <2>5, <2>6, LedgeredTrade
  <2>8. \A d \in Characters : chars'[d].bag = chars[d].bag
    BY <2>3, <2>7 DEF Saved
  <2>9. InMails' = InMails /\ InBags' = InBags
    BY <2>4, <2>8, MailStays, BagsStay
  <2>10. ItemsKept => ItemsKept'
    BY <1>1, <2>9 DEF ItemsKept, OnSale
  <2> QED BY <2>7, <2>10 DEF GoodsStep
<1> QED BY <1>0, <1>3, <1>4

(* Reads change nothing but what the reader holds. *)
LEMMA ReaderKeeps ==
    ASSUME GoodsTyped, NEW c \in Characters, ListMailForCharacter(c) \/ \E w \in Writers : UpdateRead(w, c)
    PROVE  GoodsStep
<1>1. UNCHANGED <<chars, rows, ledger, listings, mails, commits, made, paid>>
  BY DEF ListMailForCharacter, UpdateRead
<1>2. writer' \in [Writers -> [of : Characters \cup {Nobody}, read : Character]] /\ held' \in BOOLEAN
  <2>1. CASE ListMailForCharacter(c)
    <3>1. writer' = writer /\ (held' <=> \E m \in Mails : mails[m].to = c)
      BY <2>1 DEF ListMailForCharacter
    <3>2. held' \in BOOLEAN
      BY <2>1 DEF ListMailForCharacter
    <3> QED BY <3>1, <3>2 DEF GoodsTyped, GoodsTypeOK
  <2>2. CASE \E w \in Writers : UpdateRead(w, c)
    <3>1. PICK w \in Writers : writer' = [writer EXCEPT ![w] = [of |-> c, read |-> chars[c]]] /\ UNCHANGED held
      BY <2>2 DEF UpdateRead
    <3>2. chars[c] \in Character
      BY DEF GoodsTyped, GoodsTypeOK
    <3> QED BY <3>1, <3>2 DEF GoodsTyped, GoodsTypeOK
  <2> QED BY <2>1, <2>2
<1>3. GoodsTyped'
  BY <1>1, <1>2 DEF GoodsTyped, GoodsTypeOK
<1> QED BY <1>1, <1>3 DEF GoodsStep, CopperExplained, ItemsKept, InBags, OnSale, InMails

(* The saves of what was read earlier, when nothing came in between. *)
LEMMA SaveKeeps ==
    ASSUME GoodsTyped, "unversioned" \notin Races, NEW w \in Writers, NEW ch \in Character, SaveCharacter(w, ch),
           LET read == writer[w].read
           IN  ch.bag = read.bag /\ (ch.copper = read.copper \/ ch.copper = chars[writer[w].of].copper)
               /\ (read.quest = "rewarded" => ch.quest = "rewarded" \/ "lateprogress" \in Races)
    PROVE  GoodsStep
<1> DEFINE c == writer[w].of
<1>1. /\ c # Nobody /\ chars[c] = writer[w].read
      /\ SaveCharacterWithVersion(c, ch)
      /\ writer' = [writer EXCEPT ![w] = [of |-> Nobody, read |-> CreateCharacter]]
      /\ UNCHANGED <<rows, ledger, listings, mails, held, commits, made, paid, applied, twice>>
  BY DEF SaveCharacter, SaveCharacterWithVersion
<1>2. /\ c \in Characters /\ ch.bag = chars[c].bag /\ ch.copper = chars[c].copper
      /\ chars[c].quest = "rewarded" => ch.quest = "rewarded" \/ "lateprogress" \in Races
  BY <1>1 DEF GoodsTyped, GoodsTypeOK
<1> HIDE DEF c
<1>3. Saved(c, ch)
  BY <1>1, <1>2, SaveFacts
<1>4. writer' \in [Writers -> [of : Characters \cup {Nobody}, read : Character]]
  <2>1. CreateCharacter \in Character
    BY GoodsBounds, MinIsIn DEF CreateCharacter, Character
  <2> QED BY <1>1, <2>1 DEF GoodsTyped, GoodsTypeOK
<1>5. GoodsTyped'
  <2>1. \A d \in Characters : chars'[d].bar # {} => chars'[d].learned
    BY <1>3 DEF Saved, GoodsTyped, GoodsTypeOK
  <2> QED BY <1>1, <1>3, <1>4, <2>1 DEF Saved, GoodsTyped, GoodsTypeOK
<1>6. \A d \in Characters : chars'[d].copper = chars[d].copper /\ chars'[d].bag = chars[d].bag
  BY <1>2, <1>3 DEF Saved
<1>7. ASSUME CopperExplained, "lateprogress" \notin Races PROVE CopperExplained'
  <2>1. \A d \in Characters : paid[d] = 0 \/ chars'[d].quest = chars[d].quest
    BY <1>2, <1>3, <1>7 DEF Saved, CopperExplained
  <2> QED BY <1>1, <1>6, <1>7, <2>1, LedgerSilent
<1>8. ItemsKept => ItemsKept'
  BY <1>1, <1>6, BagsStay DEF ItemsKept, OnSale, InMails
<1> QED BY <1>5, <1>7, <1>8 DEF GoodsStep

LEMMA UpdateSteps ==
    ASSUME GoodsTyped, {"unversioned", "asgiven"} \cap Races = {}, NEW w \in Writers,
           \/ UpdateCharacterTrackedQuests(w) \/ UpdateCharacterQuestProgress(w)
           \/ UpdateCharacterEconomy(w) \/ UpdateCharacterProgression(w)
           \/ UpdateLearnedAbilities(w) \/ UpdateCharacterInventory(w)
           \/ \E bar \in SUBSET BarSlots : UpdateActionBarSlots(w, bar)
    PROVE  GoodsStep
<1> DEFINE read == writer[w].read
<1>1. /\ read \in Character /\ (writer[w].of # Nobody => chars[writer[w].of].copper \in Nat)
  BY DEF GoodsTyped, GoodsTypeOK, Character
<1>9. /\ "unversioned" \notin Races
      /\ GivenCopper(w) = {read.copper} /\ GivenBags(w) = {read.bag}
      /\ \A quest \in GivenQuests(w) :
            /\ quest \in {"none", "active", "rewarded"}
            /\ read.quest = "rewarded" => quest = "rewarded" \/ "lateprogress" \in Races
  BY DEF GivenCopper, GivenBags, GivenQuests
<1>2. CASE UpdateCharacterTrackedQuests(w)
  BY <1>1, <1>2, <1>9, SaveKeeps DEF UpdateCharacterTrackedQuests
<1>3. CASE UpdateCharacterQuestProgress(w)
  <2>1. PICK quest \in GivenQuests(w) : SaveCharacter(w, [read EXCEPT !.quest = quest])
    BY <1>3 DEF UpdateCharacterQuestProgress
  <2> DEFINE ch == [read EXCEPT !.quest = quest]
  <2>2. /\ ch \in Character /\ ch.bag = read.bag /\ ch.copper = read.copper /\ ch.quest = quest
    BY <1>1, <1>9 DEF Character
  <2>3. SaveCharacter(w, ch)
    BY <2>1
  <2> HIDE DEF ch
  <2> QED BY <1>9, <2>2, <2>3, SaveKeeps
<1>7. CASE UpdateCharacterEconomy(w)
  <2>1. SaveCharacter(w, [read EXCEPT !.copper = read.copper, !.bag = read.bag])
    BY <1>7, <1>9 DEF UpdateCharacterEconomy
  <2> DEFINE ch == [read EXCEPT !.copper = read.copper, !.bag = read.bag]
  <2>2. /\ ch \in Character /\ ch.bag = read.bag /\ ch.copper = read.copper /\ ch.quest = read.quest
    BY <1>1 DEF Character
  <2>3. SaveCharacter(w, ch)
    BY <2>1
  <2> HIDE DEF ch
  <2> QED BY <1>9, <2>2, <2>3, SaveKeeps
<1>8. CASE UpdateCharacterProgression(w)
  <2>1. PICK copper \in GivenCopper(w), bag \in GivenBags(w), quest \in GivenQuests(w),
            learned \in BOOLEAN, bar \in SUBSET BarSlots :
          SaveCharacter(w, [copper |-> copper, bag |-> bag, quest |-> quest, learned |-> learned, bar |-> bar])
    BY <1>8 DEF UpdateCharacterProgression
  <2> DEFINE ch == [copper |-> copper, bag |-> bag, quest |-> quest, learned |-> learned, bar |-> bar]
  <2>2. copper = read.copper /\ bag = read.bag /\ quest \in {"none", "active", "rewarded"}
    BY <1>9
  <2>3. /\ ch \in Character /\ ch.bag = read.bag /\ ch.copper = read.copper /\ ch.quest = quest
    BY <1>1, <2>2 DEF Character
  <2>4. SaveCharacter(w, ch)
    BY <2>1
  <2> HIDE DEF ch
  <2> QED BY <1>9, <2>3, <2>4, SaveKeeps
<1>4. CASE UpdateLearnedAbilities(w)
  <2> DEFINE ch == [read EXCEPT !.learned = ~read.learned]
  <2>1. /\ ch \in Character /\ ch.bag = read.bag /\ ch.copper = read.copper /\ ch.quest = read.quest
    BY <1>1 DEF Character
  <2>2. SaveCharacter(w, ch)
    BY <1>4 DEF UpdateLearnedAbilities
  <2> HIDE DEF ch
  <2> QED BY <1>9, <2>1, <2>2, SaveKeeps
<1>5. CASE UpdateCharacterInventory(w)
  <2>1. writer[w].of # Nobody
        /\ SaveCharacter(w, [read EXCEPT !.copper = chars[writer[w].of].copper, !.bag = read.bag])
    BY <1>5, <1>9 DEF UpdateCharacterInventory
  <2> DEFINE ch == [read EXCEPT !.copper = chars[writer[w].of].copper, !.bag = read.bag]
  <2>2. /\ ch \in Character /\ ch.bag = read.bag /\ ch.quest = read.quest /\ ch.copper = chars[writer[w].of].copper
    BY <1>1, <2>1 DEF Character
  <2>3. SaveCharacter(w, ch)
    BY <2>1
  <2> HIDE DEF ch
  <2> QED BY <1>9, <2>2, <2>3, SaveKeeps
<1>6. CASE \E bar \in SUBSET BarSlots : UpdateActionBarSlots(w, bar)
  <2>1. PICK bar \in SUBSET BarSlots : SaveCharacter(w, [read EXCEPT !.bar = bar])
    BY <1>6 DEF UpdateActionBarSlots
  <2> DEFINE ch == [read EXCEPT !.bar = bar]
  <2>2. /\ ch \in Character /\ ch.bag = read.bag /\ ch.copper = read.copper /\ ch.quest = read.quest
    BY <1>1 DEF Character
  <2>3. SaveCharacter(w, ch)
    BY <2>1
  <2> HIDE DEF ch
  <2> QED BY <1>9, <2>2, <2>3, SaveKeeps
<1> QED BY <1>2, <1>3, <1>4, <1>5, <1>6, <1>7, <1>8

LEMMA GoodsSteps ==
    ASSUME GoodsTyped, {"unversioned", "asgiven"} \cap Races = {}, GoodsNext
    PROVE  GoodsStep
<1>0. Heroes \subseteq Characters
  BY GoodsBounds
<1>1. CASE \E c \in Heroes, key \in AllKeys :
             \/ AcceptQuestProgress(c, key) \/ UpdateQuestProgress(c, key) \/ GrantLearnedAbility(c, key)
             \/ \E s \in BarSlots : AssignActionBarSlot(c, key, s) \/ ClearActionBarSlot(c, key, s)
             \/ \E s, t \in BarSlots : MoveActionBarSlot(c, key, s, t)
  BY <1>0, <1>1, QuestSteps
<1>2. CASE \E c \in Heroes, key \in AllKeys :
             \/ \E i, j \in Slots : MoveInventorySlot(c, key, i, j)
             \/ GrantInventoryItem(c, key) \/ CompleteQuestWithReward(c, key)
             \/ \E delta \in {Price, -Price} : AppendCurrencyMutation(c, key, delta)
  BY <1>0, <1>2, MoveKeeps, GrantKeeps, RewardKeeps, CurrencyKeeps
<1>3. CASE \E c \in Characters, key \in AllKeys :
             \/ BuyVendorItem(c, key) \/ \E s \in Slots : SellVendorItem(c, key, s)
             \/ \E a \in Auctions, s \in Slots : CreateAuctionListing(c, key, a, s)
  BY <1>3, BuyKeeps, SellKeeps, ListKeeps
<1>4. CASE \E c \in Characters, key \in AllKeys :
             \/ \E a \in Auctions : BuyoutAuction(c, key, a) \/ CancelAuction(c, key, a)
             \/ \E m \in Mails, kind \in {"first", "item", "copper"} : ClaimMailAttachment(c, key, m, kind)
  BY <1>4, BuyoutKeeps, CancelKeeps, ClaimKeeps
<1>5. CASE \E c \in Heroes :
             \/ ListMailForCharacter(c)
             \/ \E m \in Mails, item \in BOOLEAN : CreateMail(c, m, item)
             \/ \E w \in Writers : UpdateRead(w, c)
  BY <1>0, <1>5, ReaderKeeps, CreateMailKeeps
<1>6. CASE \E w \in Writers :
             \/ UpdateCharacterTrackedQuests(w) \/ UpdateCharacterQuestProgress(w)
             \/ UpdateCharacterEconomy(w) \/ UpdateCharacterProgression(w)
             \/ UpdateLearnedAbilities(w) \/ UpdateCharacterInventory(w)
             \/ \E bar \in SUBSET BarSlots : UpdateActionBarSlots(w, bar)
  BY <1>6, UpdateSteps
<1> QED BY <1>1, <1>2, <1>3, <1>4, <1>5, <1>6 DEF GoodsNext

LEMMA GoodsStart == GoodsInit => GoodsTyped /\ CopperExplained /\ ItemsKept
<1> SUFFICES ASSUME GoodsInit PROVE GoodsTyped /\ CopperExplained /\ ItemsKept
  OBVIOUS
<1>1. Min(Slots) \in Slots /\ CreateCharacter \in Character
  BY GoodsBounds, MinIsIn DEF CreateCharacter, Character
<1>2. Cardinality(Characters) \in Nat
  BY GoodsBounds, FS_CardinalityType
<1>3. GoodsTyped
  <2>1. chars \in [Characters -> Character] /\ \A c \in Characters : chars[c].bar # {} => chars[c].learned
    BY <1>1 DEF GoodsInit, CreateCharacter
  <2>2. listings \in [Auctions -> Listing] /\ \A a \in Auctions : listings[a].state # "active"
    BY DEF GoodsInit, Listing
  <2>3. mails \in [Mails -> Mail] /\ \A m \in Mails : ~mails[m].item
    BY DEF GoodsInit, Mail
  <2>4. writer \in [Writers -> [of : Characters \cup {Nobody}, read : Character]]
    BY <1>1 DEF GoodsInit
  <2>5. /\ ledger \in [Characters -> Int] /\ held \in BOOLEAN /\ made \in Int /\ commits \in 0..MaxCommits
        /\ paid \in [Characters -> Nat]
    <3>1. ledger \in [Characters -> Int] /\ paid \in [Characters -> Nat]
      BY DEF GoodsInit
    <3>2. held \in BOOLEAN
      BY DEF GoodsInit
    <3>3. made \in Int /\ commits \in 0..MaxCommits
      BY <1>2, GoodsBounds DEF GoodsInit
    <3> QED BY <3>1, <3>2, <3>3
  <2> QED BY <2>1, <2>2, <2>3, <2>4, <2>5 DEF GoodsTyped, GoodsTypeOK
<1>4. CopperExplained
  <2>1. ASSUME NEW c \in Characters PROVE chars[c].copper = Start + ledger[c] + paid[c] /\ paid[c] = 0
    <3>1. chars[c].copper = Start /\ ledger[c] = 0 /\ paid[c] = 0
      BY DEF GoodsInit, CreateCharacter
    <3> QED BY <3>1, GoodsBounds
  <2> QED BY <2>1 DEF CopperExplained
<1>5. InBags = {p \in Characters \X Slots : p[2] = Min(Slots)}
  BY DEF InBags, GoodsInit, CreateCharacter
<1> DEFINE f == [c \in Characters |-> <<c, Min(Slots)>>]
<1>6. f \in Bijection(Characters, InBags)
  <2>1. f \in [Characters -> InBags]
    <3>1. \A c \in Characters : <<c, Min(Slots)>> \in InBags
      BY <1>1, <1>5
    <3> QED BY <3>1
  <2>2. \A c, d \in Characters : f[c] = f[d] => c = d
    OBVIOUS
  <2>3. \A p \in InBags : \E c \in Characters : f[c] = p
    <3>1. \A p \in InBags : p[1] \in Characters /\ p = <<p[1], Min(Slots)>>
      BY <1>5
    <3> QED BY <3>1
  <2> HIDE DEF f
  <2> QED BY <2>1, <2>2, <2>3 DEF Bijection, Injection, Surjection, IsInjective
<1>7. Cardinality(InBags) = Cardinality(Characters)
  BY <1>6, GoodsBounds, FS_Bijection DEF ExistsBijection
<1>8. OnSale = {} /\ InMails = {} /\ made = Cardinality(Characters)
  BY DEF OnSale, InMails, GoodsInit
<1>9. ItemsKept
  BY <1>2, <1>7, <1>8, FS_EmptySet DEF ItemsKept
<1> QED BY <1>3, <1>4, <1>9

(* Trades, mail, quests and saves in any order: unless a row is saved that was *)
(* read before another commit ("unversioned") or with a bag that its caller    *)
(* gives ("asgiven"), no item is lost or copied - for any number of            *)
(* characters, slots, auctions and mails, at any prices.                       *)
THEOREM ItemsAddUp ==
    ASSUME {"unversioned", "asgiven"} \cap Races = {}
    PROVE  Spec => []GoodsAddUp
<1> DEFINE Inv == GoodsTyped /\ ItemsKept
<1>1. Init => Inv
  BY GoodsStart DEF Init
<1>2. Inv /\ [Next]_<<goods, grouped, doors, scene>> => Inv'
  <2> SUFFICES ASSUME Inv, [Next]_<<goods, grouped, doors, scene>> PROVE Inv'
    OBVIOUS
  <2>1. CASE GoodsNext
    BY <2>1, GoodsSteps DEF GoodsStep
  <2>2. CASE UNCHANGED goods
    BY <2>2 DEF goods, GoodsTyped, GoodsTypeOK, ItemsKept, InBags, OnSale, InMails
  <2> QED BY <2>1, <2>2 DEF Next
<1>3. Inv => GoodsAddUp
  BY AddUp
<1> QED BY <1>1, <1>2, <1>3, PTL DEF Spec

(* And unless progress, or a save with its caller's quests, comes for a quest   *)
(* that is already rewarded, too ("lateprogress"), or a save with the copper    *)
(* its caller gives ("asgiven"), a character's copper is what it started with,  *)
(* its ledger and one reward.                                                   *)
THEOREM CopperIsExplained ==
    ASSUME {"unversioned", "lateprogress", "asgiven"} \cap Races = {}
    PROVE  Spec => []LedgerExplainsCopper
<1> DEFINE Inv == GoodsTyped /\ CopperExplained
<1>1. Init => Inv
  BY GoodsStart DEF Init
<1>2. Inv /\ [Next]_<<goods, grouped, doors, scene>> => Inv'
  <2> SUFFICES ASSUME Inv, [Next]_<<goods, grouped, doors, scene>> PROVE Inv'
    OBVIOUS
  <2>1. CASE GoodsNext
    BY <2>1, GoodsSteps DEF GoodsStep
  <2>2. CASE UNCHANGED goods
    BY <2>2 DEF goods, GoodsTyped, GoodsTypeOK, CopperExplained
  <2> QED BY <2>1, <2>2 DEF Next
<1>3. Inv => LedgerExplainsCopper
  <2> SUFFICES ASSUME CopperExplained, NEW c \in Characters
               PROVE  chars[c].copper = Start + ledger[c] + paid[c] /\ paid[c] <= Price
    BY DEF LedgerExplainsCopper
  <2>1. paid[c] = 0 \/ paid[c] = Price
    BY DEF CopperExplained
  <2>2. paid[c] <= Price
    BY <2>1, GoodsBounds
  <2> QED BY <2>2 DEF CopperExplained
<1> QED BY <1>1, <1>2, <1>3, PTL DEF Spec
================================================================================
