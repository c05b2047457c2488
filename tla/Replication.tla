---------------------------- MODULE Replication ----------------------------
(***************************************************************************)
(* Versions, frames and cursors of a shard's state: the commands of        *)
(* worlds/loop/commands.go that touch sessions, the frames                 *)
(* recordReplicationFrameLocked makes of their effects, and what           *)
(* ReplicationFrameSince tells a client from a cursor on.                  *)
(*                                                                         *)
(* A command is one step: between the two lock sections of apply a reader  *)
(* finds stateVersion, latestSnapshot and replicationFrames as the command *)
(* before left them (ShardLoop models the worker step by step).  Of a      *)
(* player the model keeps the session, the place and whether it is         *)
(* connected; NPCs and loot containers are compared and framed the same    *)
(* way.  A cursor is its stateVersion, the only part the code compares.    *)
(***************************************************************************)
EXTENDS Integers, Sequences, FiniteSets

CONSTANTS
    Sessions,       \* session tokens, numbers in the order the tokens sort
    Characters,
    Owner,          \* the character of each session
    Places, Origin, \* positions; Position{} is Origin
    DeltaRetention, \* config.DeltaRetention
    Overlap,        \* may a character be in the state under two tokens?
    MaxVersion,     \* bound: stateVersion
    Empty           \* the empty cursor

ASSUME ReplicationAssumption ==
    /\ Sessions \subseteq Nat /\ IsFiniteSet(Sessions)
    /\ Owner \in [Sessions -> Characters]
    /\ Origin \in Places
    /\ DeltaRetention \in Nat \ {0}
    /\ Overlap \in BOOLEAN
    /\ MaxVersion \in Nat
    /\ Empty \notin Nat

VARIABLES
    players,           \* l.state.playersBySession
    latestSnapshot, stateVersion, replicationFrames, \* as in the code
    result,            \* the frame of the last CommandResult
    history            \* the snapshot stamped with each version, from 0 on

server == <<players, latestSnapshot, stateVersion, replicationFrames, result, history>>

Player == [place : Places, connected : BOOLEAN]
Snapshots == UNION {[S -> Player] : S \in SUBSET Sessions}

Details == {"identity", "place", "connection"}
Changes == Characters \X (Details \cup {"created", "removed"})

-----------------------------------------------------------------------------
(* changedFields *)

SessionsOf(snapshot, ch) == {t \in DOMAIN snapshot : Owner[t] = ch}

\* Snapshot lists players by token, and the map of previous players keeps the
\* last one of a character.
LastListed(snapshot, ch) ==
    CHOOSE t \in SessionsOf(snapshot, ch) : \A u \in SessionsOf(snapshot, ch) : u <= t

ChangedPlayerFields(p, old, t, new) ==
    {d \in Details : \/ d = "identity"   /\ p # t
                     \/ d = "place"      /\ old.place # new.place
                     \/ d = "connection" /\ old.connected # new.connected}

\* Changes of the same entity are merged, field by field.
NormalizeChangedFields(changes) == UNION changes

\* What became of the character of a listed session.
PlayerChange(previous, current, t) ==
    LET ch == Owner[t]
        p  == LastListed(previous, ch)
    IN  IF SessionsOf(previous, ch) = {}
        THEN {<<ch, "created">>}
        ELSE {<<ch, d>> : d \in ChangedPlayerFields(p, previous[p], t, current[t])}

Removed(previous, current) ==
    {ch \in Characters : SessionsOf(previous, ch) # {} /\ SessionsOf(current, ch) = {}}

ChangedFields(previous, current) ==
    NormalizeChangedFields({PlayerChange(previous, current, t) : t \in DOMAIN current}
        \cup {{<<ch, "removed">>} : ch \in Removed(previous, current)})

-----------------------------------------------------------------------------
(* Frames *)

SnapshotFrame(version, state, changed) ==
    [kind |-> "snapshot", version |-> version, from |-> version, resync |-> FALSE,
     changed |-> changed, state |-> state]

DeltaFrame(from, version, state, changed) ==
    [kind |-> "delta", version |-> version, from |-> from, resync |-> FALSE,
     changed |-> changed, state |-> state]

\* A no-op frame carries no state.
NoopFrame(version) ==
    [kind |-> "noop", version |-> version, from |-> version, resync |-> FALSE,
     changed |-> {}, state |-> <<>>]

ResyncFrame(version, state) ==
    [SnapshotFrame(version, state, {}) EXCEPT !.resync = TRUE]

Retain(frames) ==
    IF Len(frames) > DeltaRetention
    THEN SubSeq(frames, Len(frames) - DeltaRetention + 1, Len(frames))
    ELSE frames

FrameOf(kind, version, state, changed) ==
    IF kind \in {"connect", "reconnect"}
    THEN SnapshotFrame(version, state, changed)
    ELSE DeltaFrame(version - 1, version, state, changed)

\* A successful command of the given kind that leaves the players as now.
Commit(kind, now) ==
    LET changed == ChangedFields(players, now)
        next    == stateVersion + 1
        frame   == FrameOf(kind, next, now, changed)
    IN  /\ players' = now
        /\ latestSnapshot' = now
        /\ IF changed = {}
           THEN /\ result' = NoopFrame(stateVersion)
                /\ UNCHANGED <<stateVersion, replicationFrames, history>>
           ELSE /\ next <= MaxVersion
                /\ stateVersion' = next
                /\ replicationFrames' = Retain(Append(replicationFrames, frame))
                /\ result' = frame
                /\ history' = Append(history, now)

-----------------------------------------------------------------------------
(* The commands; one that finds no session returns ErrSessionMissing and    *)
(* leaves everything as it was.                                             *)

With(t, player) == [u \in DOMAIN players \cup {t} |-> IF u = t THEN player ELSE players[u]]

Admits(t) == Overlap \/ SessionsOf(players, Owner[t]) \subseteq {t}

Connect(t, p) ==
    /\ Admits(t)
    /\ Commit("connect", With(t, [place |-> p, connected |-> TRUE]))

Reconnect(t, p) ==
    /\ Admits(t)
    /\ LET known == t \in DOMAIN players /\ p = Origin
           q == IF known THEN players[t].place ELSE p
       IN  Commit("reconnect", With(t, [place |-> q, connected |-> TRUE]))

Disconnect(t) ==
    /\ t \in DOMAIN players
    /\ Commit("other", With(t, [players[t] EXCEPT !.connected = FALSE]))

Move(t, p) ==
    /\ t \in DOMAIN players
    /\ Commit("other", With(t, [players[t] EXCEPT !.place = p]))

\* syncStonewakeSessionLocked takes a session that left the zone out of the
\* state, within whatever command noticed it.
Leave(t) ==
    /\ t \in DOMAIN players
    /\ Commit("other", [u \in DOMAIN players \ {t} |-> players[u]])

\* RequestSnapshot asks for no session.
RequestSnapshot == Commit("other", players)

Command(t) ==
    \/ \E p \in Places : Connect(t, p) \/ Reconnect(t, p) \/ Move(t, p)
    \/ Disconnect(t) \/ Leave(t) \/ RequestSnapshot

Init ==
    /\ players = <<>>
    /\ latestSnapshot = <<>> /\ stateVersion = 0 /\ replicationFrames = <<>>
    /\ result = NoopFrame(0)
    /\ history = <<<<>>>>

Next == \E t \in Sessions : Command(t)

Spec == Init /\ [][Next]_server

-----------------------------------------------------------------------------
(* ReplicationFrameSince *)

OldestRetained == replicationFrames[1].version

Newer(cursor) == {i \in 1 .. Len(replicationFrames) : replicationFrames[i].version > cursor}

\* The cursor's own successor is taken to be known.
WrongChangedSince(cursor) ==
    NormalizeChangedFields({replicationFrames[i].changed : i \in Newer(cursor + 1)})

ChangedSince(cursor) == NormalizeChangedFields({replicationFrames[i].changed : i \in Newer(cursor)})

TooOld(cursor) == replicationFrames = <<>> \/ cursor < OldestRetained - 1

\* Polls that lag behind the frames get a no-op.
WrongFrameSince(cursor) ==
    IF cursor = Empty
    THEN SnapshotFrame(stateVersion, latestSnapshot, {})
    ELSE IF cursor < stateVersion /\ ~TooOld(cursor)
         THEN DeltaFrame(cursor, stateVersion, latestSnapshot, ChangedSince(cursor))
         ELSE NoopFrame(cursor)

FrameSince(cursor) ==
    IF cursor = Empty
    THEN SnapshotFrame(stateVersion, latestSnapshot, {})
    ELSE CASE cursor > stateVersion -> ResyncFrame(stateVersion, latestSnapshot)
           [] cursor = stateVersion -> NoopFrame(stateVersion)
           [] cursor < stateVersion /\ TooOld(cursor) -> ResyncFrame(stateVersion, latestSnapshot)
           [] OTHER -> IF ChangedSince(cursor) = {}
                       THEN NoopFrame(stateVersion)
                       ELSE DeltaFrame(cursor, stateVersion, latestSnapshot, ChangedSince(cursor))

-----------------------------------------------------------------------------
(* Properties *)

\* What a client sees of one detail of a character.
Detail(snapshot, ch, d) ==
    LET mine == SessionsOf(snapshot, ch) IN
    CASE d = "identity"   -> mine
      [] d = "place"      -> {snapshot[t].place : t \in mine}
      [] d = "connection" -> {snapshot[t].connected : t \in mine}

\* The changes tell a client at the old snapshot all that is different in the
\* new one.
Covers(changed, old, new) ==
    \A ch \in Characters, d \in Details :
        Detail(old, ch, d) # Detail(new, ch, d) =>
            {<<ch, d>>, <<ch, "created">>, <<ch, "removed">>} \cap changed # {}

Frames == [kind : {"snapshot", "delta", "noop"}, version : Nat, from : Nat, resync : BOOLEAN,
           changed : SUBSET Changes, state : Snapshots]

\* The variables keep the shapes the code gives them, and no more than
\* DeltaRetention frames are kept.
TypeOK ==
    /\ players \in Snapshots /\ latestSnapshot \in Snapshots
    /\ stateVersion \in 0 .. MaxVersion
    /\ Len(replicationFrames) <= DeltaRetention
    /\ \A i \in 1 .. Len(replicationFrames) : replicationFrames[i] \in Frames
    /\ result \in Frames
    /\ Len(history) = stateVersion + 1

\* From whatever version a client asks, the frame it gets reports every
\* difference to that version, or asks for a resync, or is a snapshot
\* (recordReplicationFrameLocked, Retain, ReplicationFrameSince together).
FrameSinceCovers ==
    \A u \in 0 .. stateVersion :
        LET f == FrameSince(u) IN
        f.resync \/ Covers(f.changed, history[u + 1], latestSnapshot)

=============================================================================
