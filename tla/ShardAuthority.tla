--------------------------- MODULE ShardAuthority ---------------------------
(***************************************************************************)
(* What a shard's authority promises its callers, without queue, worker or *)
(* lock (AuthoritativeWorldLoop.md: one writer serializes the mutable      *)
(* world state).  A command has at most one effect, at one moment between  *)
(* its call and its reply; the effects of one caller follow the order of   *)
(* its calls; a reply of "refused" means there was and will be no effect;  *)
(* only a reply of "unknown", a timeout, leaves open whether and when the  *)
(* effect happens; and once the shard is closed there are no more effects. *)
(***************************************************************************)
EXTENDS Integers, Sequences

CONSTANTS Clients, MaxSubmits

Commands == Clients \X (1 .. MaxSubmits)

VARIABLES
    history,  \* the commands that succeeded, in the order of their effects
    state,    \* the commands that changed the state, in that order
    status,   \* how far each command is
    reply,    \* what its caller was told
    closed    \* nothing takes effect any more

vars == <<history, state, status, reply, closed>>

Init ==
    /\ history = <<>> /\ state = <<>>
    /\ status = [k \in Commands |-> "unused"]
    /\ reply = [k \in Commands |-> "none"]
    /\ closed = FALSE

\* A caller makes one call after the other.
Call(k) ==
    /\ status[k] = "unused"
    /\ \A n \in 1 .. k[2] - 1 : reply[<<k[1], n>>] # "none"
    /\ status' = [status EXCEPT ![k] = "open"]
    /\ UNCHANGED <<history, state, reply, closed>>

InCallOrder(k) ==
    \A n \in k[2] + 1 .. MaxSubmits : status[<<k[1], n>>] \notin {"applied", "failed"}

Succeed(k, changed) ==
    /\ status[k] = "open" /\ ~closed /\ InCallOrder(k)
    /\ status' = [status EXCEPT ![k] = "applied"]
    /\ history' = Append(history, k)
    /\ state' = IF changed THEN Append(state, k) ELSE state
    /\ UNCHANGED <<reply, closed>>

Fail(k) ==
    /\ status[k] = "open" /\ ~closed /\ InCallOrder(k)
    /\ status' = [status EXCEPT ![k] = "failed"]
    /\ UNCHANGED <<history, state, reply, closed>>

\* The shard gives a command up before it had an effect.
Drop(k) ==
    /\ status[k] = "open"
    /\ status' = [status EXCEPT ![k] = "void"]
    /\ UNCHANGED <<history, state, reply, closed>>

\* A command is turned away in the call, or its caller takes it back.
Refuse(k) ==
    /\ \/ status[k] = "unused" /\ \A n \in 1 .. k[2] - 1 : reply[<<k[1], n>>] # "none"
       \/ status[k] = "open"
    /\ reply[k] = "none"
    /\ status' = [status EXCEPT ![k] = "void"]
    /\ reply' = [reply EXCEPT ![k] = "refused"]
    /\ UNCHANGED <<history, state, closed>>

Truths(k) ==
    CASE status[k] = "applied" -> {"ok", "unknown"}
      [] status[k] = "failed"  -> {"error", "unknown"}
      [] status[k] = "void"    -> {"refused", "unknown"}
      [] status[k] = "open"    -> {"unknown"}
      [] OTHER                 -> {}

Reply(k) ==
    /\ reply[k] = "none"
    /\ \E r \in Truths(k) : reply' = [reply EXCEPT ![k] = r]
    /\ UNCHANGED <<history, state, status, closed>>

Close ==
    /\ closed' = TRUE
    /\ UNCHANGED <<history, state, status, reply>>

Next ==
    \/ \E k \in Commands :
          \/ Call(k) \/ Fail(k) \/ Drop(k) \/ Refuse(k) \/ Reply(k)
          \/ \E changed \in BOOLEAN : Succeed(k, changed)
    \/ Close

Spec == Init /\ [][Next]_vars
=============================================================================
