------------------------------ MODULE FileStore ------------------------------
(***************************************************************************)
(* The platform store: every service process keeps the whole state in      *)
(* memory and shares it with the others through one JSON file, guarded by  *)
(* an advisory lock (file_store.go lockState, reloadLocked, saveLocked;    *)
(* transactions.go WithTransaction).  The content of a state is abstracted *)
(* to the set of the operations it holds the effect of, which is what      *)
(* telling a lost or resurrected update apart needs.                       *)
(*                                                                         *)
(* FileStore.mutex and the file lock are taken and released together, so a *)
(* process has at most one operation under way and `lock' stands for both. *)
(* The kernel frees the file lock of a process that dies.                  *)
(***************************************************************************)
CONSTANTS Process,        \* the service processes that share the file
          Op,             \* operations a caller may ask for, each asked once
          SaveFailsAt,    \* the values of pc at which a save may fail
          CrashAt         \* the values of pc at which a process may die

Nil == "none"
Startup == "startup"

Holding == {"holding", "mutated", "written", "removed", "saved"}

ASSUME ConstantsAssumption ==
  /\ SaveFailsAt \subseteq {"mutated", "written", "removed"}
  /\ CrashAt \subseteq Holding \union {"idle"}
  /\ Nil \notin Process
  /\ {Nil, Startup, "missing"} \intersect Op = {}

\* os.IsNotExist: no file at the path; no set of operations is equal to it.
Missing == {"missing"}

VARIABLES file,      \* the JSON file: the operations it holds, or Missing
          memory,    \* FileStore.state of each process
          rollback,  \* WithTransaction's rollbackState
          lock,      \* the process that holds the file lock, or Nil
          pc,        \* where each process is in its current operation
          request,   \* [op, tx]: the operation, and whether it is a transaction
          response   \* what the caller of each operation was told

vars == <<file, memory, rollback, lock, pc, request, response>>

Idle == [op |-> Nil, tx |-> FALSE]

FileInit ==
  /\ file = Missing
  /\ memory = [p \in Process |-> {}]
  /\ rollback = [p \in Process |-> {}]
  /\ lock = Nil
  /\ pc = [p \in Process |-> "down"]
  /\ request = [p \in Process |-> Idle]
  /\ response = [o \in Op |-> "none"]

-----------------------------------------------------------------------------
\* Mutant of Reload: trust the memory.
WrongReloadNever(p) == memory[p]

\* reloadLocked: a missing file is no error, and leaves the memory as it was.
Reload(p) == IF file = Missing THEN memory[p] ELSE file

\* Mutant of LockState: the file lock is not taken.
WrongLockState(p) ==
  /\ lock' = p
  /\ memory' = [memory EXCEPT ![p] = Reload(p)]

\* lockState(true): the mutex and the file lock, then the reload.
LockState(p) ==
  /\ lock = Nil
  /\ lock' = p
  /\ memory' = [memory EXCEPT ![p] = Reload(p)]

\* unlockState, with the answer `a' to the caller and the process left in `to'.
UnlockState(p, a, to) ==
  /\ lock' = Nil
  /\ pc' = [pc EXCEPT ![p] = to]
  /\ request' = [request EXCEPT ![p] = Idle]
  /\ response' = [o \in Op |-> IF o = request[p].op THEN a ELSE response[o]]

Starting(p) == request[p].op = Startup

\* NewFileStore: a fresh state, lock and reload, migrations, then a save.
Open(p) ==
  /\ pc[p] = "down"
  /\ LockState(p)
  /\ pc' = [pc EXCEPT ![p] = "mutated"]
  /\ request' = [request EXCEPT ![p] = [op |-> Startup, tx |-> FALSE]]
  /\ UNCHANGED <<file, rollback, response>>

\* The entry of an operation.  WithTransaction also clones the state.
Begin(p, o, tx) ==
  /\ pc[p] = "idle" /\ response[o] = "none"
  /\ \A q \in Process : request[q].op # o
  /\ LockState(p)
  /\ rollback' = [rollback EXCEPT ![p] = IF tx THEN Reload(p) ELSE {}]
  /\ pc' = [pc EXCEPT ![p] = "holding"]
  /\ request' = [request EXCEPT ![p] = [op |-> o, tx |-> tx]]
  /\ UNCHANGED <<file, response>>

\* The operation finds nothing to do or refuses: no save.
Refuse(p) ==
  /\ pc[p] = "holding"
  /\ UnlockState(p, "error", "idle")
  /\ UNCHANGED <<file, memory, rollback>>

\* The operation changes the state in memory.
Mutate(p) ==
  /\ pc[p] = "holding"
  /\ memory' = [memory EXCEPT ![p] = @ \union {request[p].op}]
  /\ pc' = [pc EXCEPT ![p] = "mutated"]
  /\ UNCHANGED <<file, rollback, lock, request, response>>

\* Mutant of Restored: a failed transaction keeps what it changed in memory.
WrongRestored(p) == memory[p]

\* An error after the change: only a transaction puts the old state back.
\* NewFileStore returns the error, and the service does not come up.
Restored(p) == IF request[p].tx THEN rollback[p] ELSE memory[p]

Fail(p) ==
  /\ memory' = [memory EXCEPT ![p] = IF Starting(p) THEN {} ELSE Restored(p)]
  /\ UnlockState(p, "error", IF Starting(p) THEN "down" ELSE "idle")
  /\ UNCHANGED <<file, rollback>>

\* The function given to WithTransaction fails half way.
FunctionFails(p) == pc[p] = "mutated" /\ request[p].tx /\ Fail(p)

\* saveLocked, up to the temporary file closed: it holds memory[p].
WriteTemp(p) ==
  /\ pc[p] = "mutated"
  /\ pc' = [pc EXCEPT ![p] = "written"]
  /\ UNCHANGED <<file, memory, rollback, lock, request, response>>

\* An error of CreateTemp, Write, Sync or Close (mutated), of Remove (written)
\* or of Rename (removed).
SaveFails(p) == pc[p] \in SaveFailsAt /\ Fail(p)

\* os.Remove(s.path)
RemoveOld(p) ==
  /\ pc[p] = "written"
  /\ file' = Missing
  /\ pc' = [pc EXCEPT ![p] = "removed"]
  /\ UNCHANGED <<memory, rollback, lock, request, response>>

\* os.Rename(tempPath, s.path)
RenameTemp(p) ==
  /\ pc[p] = "removed"
  /\ file' = memory[p]
  /\ pc' = [pc EXCEPT ![p] = "saved"]
  /\ UNCHANGED <<memory, rollback, lock, request, response>>

\* The save returned nil: unlock and answer.
Succeed(p) ==
  /\ pc[p] = "saved"
  /\ UnlockState(p, "ok", "idle")
  /\ UNCHANGED <<file, memory, rollback>>

\* The process dies: its memory and its lock go, its caller gets no answer.
Dies(p) ==
  /\ pc[p] \in CrashAt
  /\ lock' = IF lock = p THEN Nil ELSE lock
  /\ memory' = [memory EXCEPT ![p] = {}]
  /\ pc' = [pc EXCEPT ![p] = "down"]
  /\ request' = [request EXCEPT ![p] = Idle]
  /\ response' = [o \in Op |-> IF o = request[p].op THEN "lost" ELSE response[o]]
  /\ UNCHANGED <<file, rollback>>

FileNext ==
  \E p \in Process :
    \/ Open(p)
    \/ \E o \in Op, tx \in BOOLEAN : Begin(p, o, tx)
    \/ Refuse(p) \/ Mutate(p) \/ FunctionFails(p)
    \/ WriteTemp(p) \/ SaveFails(p) \/ RemoveOld(p)
    \/ RenameTemp(p) \/ Succeed(p)
    \/ Dies(p)

FileSpec == FileInit /\ [][FileNext]_vars

-----------------------------------------------------------------------------
Acknowledged == {o \in Op : response[o] = "ok"}
Refused == {o \in Op : response[o] = "error"}

\* Every variable has its type.
FileTypeOK ==
  /\ file \in (SUBSET Op) \union {Missing}
  /\ memory \in [Process -> SUBSET Op]
  /\ rollback \in [Process -> SUBSET Op]
  /\ lock \in Process \union {Nil}
  /\ pc \in [Process -> {"down", "idle"} \union Holding]
  /\ request \in [Process -> [op : Op \union {Nil, Startup}, tx : BOOLEAN]]
  /\ response \in [Op -> {"none", "ok", "error", "lost"}]

\* A missing file reads as no error and an empty or stale memory, so the file
\* must hold every acknowledged operation whenever another process can look.
AcknowledgedIsKept ==
  lock = Nil /\ Acknowledged # {} => file # Missing /\ Acknowledged \subseteq file

\* An operation answered with an error is nowhere a reader would find it, and
\* a later save of a process that tried it (a plain operation does not undo its
\* change in memory) does not bring it back.
RefusedIsGone ==
  \A p \in Process : pc[p] \in Holding => Refused \intersect memory[p] = {}

\* Whatever a process reads or builds on under the lock holds everything any
\* process was told is done: the services never work from a stale state.
NoStaleRead ==
  \A p \in Process : pc[p] \in Holding => Acknowledged \subseteq memory[p]

\* A transaction that answers with an error leaves the file and the memory of
\* its process as it found them, what other processes had saved included
\* (WithTransaction: one locked boundary with rollback on error).
RollbackOnError ==
  [][\A p \in Process :
       /\ request[p].tx /\ response[request[p].op] = "none"
       /\ response'[request[p].op] = "error"
       => file' = rollback[p] /\ memory'[p] = rollback[p]]_vars

-----------------------------------------------------------------------------
\* The store as one atomic ledger.  Once the old file is gone, the rename is
\* all that is left, so the removal is the point where the operation commits.
Committing == {p \in Process : pc[p] = "removed"}

Durable ==
  IF file = Missing THEN UNION {memory[p] : p \in Committing} ELSE file

L == INSTANCE Ledger WITH durable <- Durable

\* Every run of the processes is a run of the ledger.
ImplementsLedger == L!Spec

-----------------------------------------------------------------------------
(* Why it holds: the inductive invariant.                                  *)

\* Before the first save there is no file and nobody is up.
Fresh == file = Missing /\ Committing = {}

\* What the current operation of p adds to the state.
Own(p) == {request[p].op} \intersect Op

\* The lock is held by the one process that is inside an operation, and only
\* that process has a request, of an operation nobody was answered for.
OneInside ==
  \A p \in Process :
    /\ pc[p] \in Holding <=> lock = p
    /\ pc[p] \in Holding <=> request[p].op # Nil
    /\ pc[p] = "holding" \/ request[p].tx => request[p].op \in Op
    /\ \A o \in Own(p) : response[o] = "none"

\* An acknowledged operation is durable, a refused one is not, and a durable
\* one without an answer is about to get it.
AnswersAreTrue ==
  \A o \in Op :
    /\ response[o] = "ok" => o \in Durable
    /\ response[o] = "error" => o \notin Durable
    /\ response[o] = "none" /\ o \in Durable =>
         \E p \in Process : request[p].op = o /\ pc[p] \in {"removed", "saved"}

\* The memory of the process inside follows the file, step by step.
MemoryFollows ==
  \A p \in Process :
    /\ pc[p] = "down" => memory[p] = {}
    /\ pc[p] \in {"holding", "saved"} => memory[p] = file
    /\ pc[p] \in {"mutated", "written"} => memory[p] = Durable \union Own(p)
    /\ pc[p] = "removed" => file = Missing
    /\ pc[p] \in {"removed", "saved"} => Own(p) \subseteq memory[p]
    /\ pc[p] \in {"holding", "mutated", "written"} /\ request[p].tx =>
         rollback[p] = file

\* Nothing has happened before the first save.
FreshIsEmpty ==
  Fresh =>
    /\ \A o \in Op : response[o] = "none"
    /\ \A p \in Process : pc[p] \in {"down", "mutated", "written"} /\ Own(p) = {}

IInv == FileTypeOK /\ OneInside /\ AnswersAreTrue /\ MemoryFollows /\ FreshIsEmpty
=============================================================================
