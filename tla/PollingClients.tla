--------------------------- MODULE PollingClients ---------------------------
(***************************************************************************)
(* Clients that keep a copy of the shard's state from replication frames   *)
(* alone (worlds/replication/types.go), as the transport-neutral contract  *)
(* has it: a client sends its cursor, gets a frame, lets AcceptFrame       *)
(* decide, and takes from a delta only the fields it names.  A client that *)
(* is told to resync asks again without a cursor.                          *)
(*                                                                         *)
(* Replies may be lost, delayed past later ones and overtaken by the       *)
(* server; a client that resyncs ignores what was still on its way.        *)
(* The frame of a command a client submitted (CommandResult) is left out:  *)
(* a no-op frame of its would take the client over versions it never saw.  *)
(***************************************************************************)
EXTENDS Replication

CONSTANTS
    Clients,
    MaxInFlight  \* bound: replies on their way to one client

VARIABLES
    cursor,   \* the client's cursor
    copy,     \* what it believes of each character
    replies   \* the frames on their way to it

clients == <<cursor, copy, replies>>
vars == <<server, clients>>

Project(snapshot) == [ch \in Characters |-> [d \in Details |-> Detail(snapshot, ch, d)]]

NoCopy == Project(<<>>)

-----------------------------------------------------------------------------
(* AcceptFrame *)

VersionOf(c) == IF c = Empty THEN 0 ELSE c

\* Late frames are let in.
WrongStale(c, frame) == FALSE

Stale(c, frame) == frame.version < VersionOf(c)

Future(c, frame) == frame.kind = "delta" /\ frame.from > VersionOf(c)

Converged(c, frame) == ~frame.resync /\ ~Stale(c, frame) /\ ~Future(c, frame)

AcceptFrame(c, frame) == IF Converged(c, frame) THEN frame.version ELSE c

-----------------------------------------------------------------------------

\* The parts of a character a frame's changes name.
Named(frame, ch, d) ==
    {<<ch, d>>, <<ch, "created">>, <<ch, "removed">>} \cap frame.changed # {}

Updated(old, frame) ==
    CASE frame.kind = "noop"     -> old
      [] frame.kind = "snapshot" -> Project(frame.state)
      [] frame.kind = "delta"    ->
            [ch \in Characters |-> [d \in Details |->
                IF Named(frame, ch, d) THEN Detail(frame.state, ch, d) ELSE old[ch][d]]]

ClientsInit ==
    /\ cursor = [c \in Clients |-> Empty]
    /\ copy = [c \in Clients |-> NoCopy]
    /\ replies = [c \in Clients |-> {}]

Send(c, frame) ==
    /\ Cardinality(replies[c]) < MaxInFlight
    /\ replies' = [replies EXCEPT ![c] = @ \cup {frame}]

\* The server answers a poll with the client's cursor.
Poll(c) ==
    /\ Send(c, FrameSince(cursor[c]))
    /\ UNCHANGED <<server, cursor, copy>>

Receive(c, f) ==
    /\ f \in replies[c]
    /\ cursor' = [cursor EXCEPT ![c] = IF f.resync THEN Empty ELSE AcceptFrame(@, f)]
    /\ copy' = [copy EXCEPT ![c] = IF Converged(cursor[c], f) THEN Updated(@, f) ELSE @]
    /\ replies' = [replies EXCEPT ![c] = IF f.resync THEN {} ELSE @ \ {f}]
    /\ UNCHANGED server

Lose(c, f) ==
    /\ f \in replies[c]
    /\ replies' = [replies EXCEPT ![c] = @ \ {f}]
    /\ UNCHANGED <<server, cursor, copy>>

Hear(c) == \E f \in replies[c] : Receive(c, f)

ServerStep == (\E t \in Sessions : Command(t)) /\ UNCHANGED clients

Polling == ServerStep \/ \E c \in Clients : Poll(c) \/ Hear(c) \/ (\E f \in replies[c] : Lose(c, f))

PollingInit == Init /\ ClientsInit
PollingSpec == PollingInit /\ [][Polling]_vars

\* A client keeps polling, and not every reply is lost.
PollingFairness == \A c \in Clients : WF_vars(Poll(c)) /\ SF_vars(Hear(c))

FairPollingSpec == PollingSpec /\ PollingFairness

-----------------------------------------------------------------------------
(* Properties *)

\* The frame's report of convergence is true: a client with a cursor has, for
\* every character, exactly the state the server had at that version, although
\* it took only the fields the deltas named, lost replies, heard them late and
\* fell behind (AcceptFrame, ReplicationFrameSince, changedFields together).
\* ReplicationAndClientConvergence.md: "The delta metadata allows clients and
\* tests to prove convergence now".
CopyIsTheVersion ==
    \A c \in Clients : cursor[c] # Empty => copy[c] = Project(history[cursor[c] + 1])

\* A client that goes on polling catches up with the server again and again,
\* through resyncs and lost replies, whatever the version it fell behind at.
EveryClientCatchesUp == \A c \in Clients : []<>(cursor[c] = stateVersion)
=============================================================================
