------------------------------- MODULE Ledger -------------------------------
(***************************************************************************)
(* What a caller of the platform store may rely on, whichever service      *)
(* process it calls: one durable set of operations, each applied by one    *)
(* atomic step that never takes another operation away.  An answer tells   *)
(* the truth; a process that dies before it answers leaves the caller not  *)
(* knowing.                                                                *)
(***************************************************************************)
CONSTANT Op

VARIABLES durable,   \* the operations whose effect a reader sees
          response   \* what the caller of each operation was told

vars == <<durable, response>>

Init == durable = {} /\ response = [o \in Op |-> "none"]

\* One operation takes effect, before its caller is told.
Commit(o) ==
  /\ response[o] = "none" /\ o \notin durable
  /\ durable' = durable \union {o}
  /\ UNCHANGED response

Acknowledge(o) ==
  /\ response[o] = "none" /\ o \in durable
  /\ response' = [response EXCEPT ![o] = "ok"]
  /\ UNCHANGED durable

\* Refused operations have no effect, and never get one later.
Refuse(o) ==
  /\ response[o] = "none" /\ o \notin durable
  /\ response' = [response EXCEPT ![o] = "error"]
  /\ UNCHANGED durable

LoseAnswer(o) ==
  /\ response[o] = "none"
  /\ response' = [response EXCEPT ![o] = "lost"]
  /\ UNCHANGED durable

Next == \E o \in Op : Commit(o) \/ Acknowledge(o) \/ Refuse(o) \/ LoseAnswer(o)

Spec == Init /\ [][Next]_vars
=============================================================================
