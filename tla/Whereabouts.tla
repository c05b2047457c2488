----------------------------- MODULE Whereabouts -----------------------------
(***************************************************************************)
(* Where characters are: the sessions of the world service, the position   *)
(* the store has of each character, and the party's private dungeon        *)
(* instance (http.go, zone_handoff.go, travel.go, dungeons.go, housing.go, *)
(* social.go, admin_http.go, metrics.go).                                  *)
(*                                                                         *)
(* Outdoors a session's position and the store's agree.  Inside a dungeon  *)
(* or a room the session is indoors while the store keeps the way back,    *)
(* so a crash and an orderly exit put the character in the same place.     *)
(*                                                                         *)
(* A handler runs under worldServer.mutex and is one action.  Positions    *)
(* are abstracted to the places the handlers ask about: Stonewake's hall   *)
(* (gate, housing door, bind point, safe position), Brindlebrook's road    *)
(* (gate, safe position, route masters) and its sluice (the dungeon's      *)
(* entrance).  There is one dungeon, and a character's session is keyed by *)
(* the character: WorldEconomy shows it has one.  A call that is refused   *)
(* before it changes anything is not an action.                            *)
(***************************************************************************)
EXTENDS Integers, Sequences, FiniteSets

CONSTANTS Char, None,
          MaxParties, MaxInstances, \* bounds: parties formed, instances created
          SaveFailsIn,              \* the operations whose save may fail
          HardExpiry,               \* an instance may reach its 60 minutes
          Races                     \* which of the hazards below may happen

(***************************************************************************)
(* offline   a client goes on using a session it has disconnected          *)
(* resume    a connect finds the character's session disconnected in a     *)
(*           dungeon and resumes it                                        *)
(* teleport  an administrator teleports a session that is indoors          *)
(* drop      a session that counts as inside an instance is dropped        *)
(* elsewhere the admin service moves a character who is in the world       *)
(***************************************************************************)
Operations == {"move", "travel", "teleport", "handoff", "disconnect", "exit", "housing"}

Brindlebrook == {"road", "sluice"}
Outdoors == {"hall"} \union Brindlebrook

VARIABLES stored,    \* the store's position of each character
          parties,   \* the store's parties in order of creation, leader first
          session,   \* the live session of each character
          instances, \* dungeonInstances by number
          created    \* instanceCounter

vars == <<stored, parties, session, instances, created>>

Session == [connected : BOOLEAN, at : Outdoors \union {"dungeon", "room"},
            inst : 0 .. MaxInstances, housed : BOOLEAN, ret : Outdoors \union {None}]
Instance == [party : 1 .. MaxParties, members : SUBSET Char, inside : SUBSET Char,
             emptied : BOOLEAN, \* ExpiresAtMs was lowered when everybody had left
             late : BOOLEAN]    \* ExpiresAtMs is past

ASSUME WhereaboutsAssumption ==
  /\ MaxParties \in Nat /\ MaxInstances \in Nat
  /\ SaveFailsIn \subseteq Operations
  /\ HardExpiry \in BOOLEAN
  /\ Races \subseteq {"offline", "resume", "teleport", "drop", "elsewhere"}
  /\ None \notin Char /\ None \notin Outdoors /\ None \notin Session /\ None \notin Instance

Init ==
  /\ stored \in [Char -> Outdoors]
  /\ parties = <<>>
  /\ session = [c \in Char |-> None]
  /\ instances = [i \in 1 .. MaxInstances |-> None]
  /\ created = 0

-----------------------------------------------------------------------------
Live(c) == session[c] # None
Usable(c) == Live(c) /\ (session[c].connected \/ "offline" \in Races)
Inside(c, i) == Live(c) /\ session[c].connected /\ session[c].inst = i

Running == {i \in 1 .. MaxInstances : instances[i] # None}

Ranks(p) == 1 .. Len(parties[p])
Members(p) == {parties[p][k] : k \in Ranks(p)}
PartiesOf(c) == {p \in 1 .. Len(parties) : c \in Members(p)}

Put(c, s) == session' = [session EXCEPT ![c] = s]
UpdateCharacterState(c, place) == stored' = [stored EXCEPT ![c] = place]
UpdateCharacterTravelState(c, place) == stored' = [stored EXCEPT ![c] = place]
Saves(op) == IF op \in SaveFailsIn THEN BOOLEAN ELSE {TRUE}

\* The place a session comes out at.  The defaults the code has for a missing
\* return position are never needed.
Outside(s) == IF s.ret = None THEN s.at ELSE s.ret

\* The session s, outdoors.
Out(s) == [s EXCEPT !.inst = 0, !.housed = FALSE, !.at = Outside(s), !.ret = None]

\* markDungeonEmptyIfNeededLocked, after c has left the instance n.
WrongLeft(n, c) == [n EXCEPT !.inside = @ \ {c}]
Left(n, c) ==
  [n EXCEPT !.inside = @ \ {c}, !.emptied = @ \/ n.inside \subseteq {c}]

LeaveInstance(c) ==
  instances' = [i \in 1 .. MaxInstances |->
    IF i = session[c].inst /\ i \in Running THEN Left(instances[i], c) ELSE instances[i]]

-----------------------------------------------------------------------------
(* Sessions.  The read of the character before handleConnect's command and *)
(* the command are one step here; WorldEconomy takes them apart.           *)

\* handleConnect without a session: the position is the store's.
ConnectCreate(c) ==
  /\ ~Live(c)
  /\ Put(c, [connected |-> TRUE, at |-> stored[c], inst |-> 0, housed |-> FALSE, ret |-> None])
  /\ UNCHANGED <<stored, parties, instances, created>>

\* handleConnect with one: out of the room, but not out of the instance, and
\* not counted as inside it.
ConnectResume(c) ==
  /\ Live(c)
  /\ session[c].connected \/ session[c].inst = 0 \/ "resume" \in Races
  /\ LET s == [session[c] EXCEPT !.connected = TRUE] IN
     IF s.housed
       THEN \E saved \in Saves("housing") :
              IF saved THEN Put(c, Out(s)) /\ UpdateCharacterState(c, Outside(s))
                       ELSE Put(c, s) /\ UNCHANGED stored
       ELSE Put(c, s) /\ UNCHANGED stored
  /\ UNCHANGED <<parties, instances, created>>

\* dungeonInstanceActiveForSessionLocked
Active(i) == i \in Running /\ ~instances[i].late

\* Mutant: a returning player is not counted as inside.
WrongReconnect(c) ==
  /\ Live(c)
  /\ LET s == [session[c] EXCEPT !.connected = TRUE] IN
     IF Active(s.inst) THEN Put(c, s)
     ELSE IF s.inst # 0 THEN Put(c, Out(s))
     ELSE Put(c, [Out(s) EXCEPT !.at = stored[c]])
  /\ UNCHANGED <<stored, parties, instances, created>>

\* handleReconnect: back into an instance that is still active; out of one that
\* is not, without a word to it (recoverExpiredDungeonSessionLocked); out of a
\* room and, outdoors, to where the store has the character.
Reconnect(c) ==
  /\ Live(c)
  /\ LET s == [session[c] EXCEPT !.connected = TRUE] IN
     IF Active(s.inst)
       THEN /\ Put(c, s)
            /\ instances' = [instances EXCEPT ![s.inst].inside = @ \union {c}]
       ELSE /\ Put(c, IF s.inst # 0 THEN Out(s) ELSE [Out(s) EXCEPT !.at = stored[c]])
            /\ UNCHANGED instances
  /\ UNCHANGED <<stored, parties, created>>

\* handleDisconnect: the session leaves its room, but keeps its instance and
\* only stops counting as inside; the store gets the way back.
Disconnect(c) ==
  /\ Live(c)
  /\ LET s == [session[c] EXCEPT !.connected = FALSE] IN
     \E saved \in Saves(IF s.housed THEN "housing" ELSE "disconnect") :
       /\ Put(c, IF s.housed /\ saved THEN Out(s) ELSE s)
       /\ IF saved THEN UpdateCharacterState(c, Outside(s)) ELSE UNCHANGED stored
       /\ IF s.housed THEN UNCHANGED instances ELSE LeaveInstance(c)
  /\ UNCHANGED <<parties, created>>

\* cleanupStaleSessionsLocked, invalidateWorldSessionForCharacterLocked: no
\* instance is told.
Drop(c) ==
  /\ Live(c)
  /\ (\A i \in Running : c \notin instances[i].inside) \/ "drop" \in Races
  /\ Put(c, None)
  /\ UNCHANGED <<stored, parties, instances, created>>

\* The world service dies and starts again.
Restart ==
  /\ session' = [c \in Char |-> None]
  /\ instances' = [i \in 1 .. MaxInstances |-> None]
  /\ created' = 0
  /\ UNCHANGED <<stored, parties>>

-----------------------------------------------------------------------------
(* Moving outdoors.                                                        *)

\* Memory first: when the save fails the session has moved.  Travel saves the
\* bind point, the recall's cooldown and the routes with the position.
PersistTravelSession(c, place) ==
  /\ Put(c, [session[c] EXCEPT !.at = place])
  /\ \E saved \in Saves("travel") : IF saved THEN UpdateCharacterTravelState(c, place) ELSE UNCHANGED stored
  /\ UNCHANGED <<parties, instances, created>>

\* handleMove saves only outdoors.  Steps indoors change no place; the content
\* transitions it may pass lie in zones without a gate, a door or an entrance.
Move(c, place) ==
  /\ Usable(c)
  /\ session[c].at \in Brindlebrook /\ place \in Brindlebrook
  /\ IF session[c].housed \/ session[c].inst # 0
       THEN Put(c, [session[c] EXCEPT !.at = place])
            /\ UNCHANGED <<stored, parties, instances, created>>
       ELSE /\ Put(c, [session[c] EXCEPT !.at = place])
            /\ \E saved \in Saves("move") :
                 IF saved THEN UpdateCharacterState(c, place) ELSE UNCHANGED stored
            /\ UNCHANGED <<parties, instances, created>>

\* validateTransportAllowedLocked
TransportAllowed(c) == session[c].inst = 0 /\ ~session[c].housed

Gates == {<<"hall", "road">>, <<"road", "hall">>}

\* Mutant: the session stays moved when the save fails.
WrongHandoff(c, place) ==
  /\ TransportAllowed(c) /\ <<session[c].at, place>> \in Gates
  /\ Put(c, [session[c] EXCEPT !.at = place])
  /\ \E saved \in Saves("handoff") : IF saved THEN UpdateCharacterState(c, place) ELSE UNCHANGED stored
  /\ UNCHANGED <<parties, instances, created>>

\* requestZoneHandoffLocked: a failed save puts the session back.
Handoff(c, place) ==
  /\ TransportAllowed(c) /\ <<session[c].at, place>> \in Gates
  /\ \E saved \in Saves("handoff") :
       IF saved THEN Put(c, [session[c] EXCEPT !.at = place]) /\ UpdateCharacterState(c, place)
                ELSE UNCHANGED <<session, stored>>
  /\ UNCHANGED <<parties, instances, created>>

HandleZoneHandoff(c, place) == Live(c) /\ session[c].connected /\ Handoff(c, place)

\* handleUseRecall
Recall(c) == Usable(c) /\ TransportAllowed(c) /\ PersistTravelSession(c, "hall")

\* handleTravelRoute
Route(c, place) ==
  /\ Usable(c) /\ TransportAllowed(c)
  /\ {session[c].at, place} = {"hall", "road"}
  /\ PersistTravelSession(c, place)

\* To the hall, or to the safe position of the zone the store has the character in.
SafePositions(c) == {"hall"} \union (IF stored[c] \in Brindlebrook THEN {"road"} ELSE {})

\* handleAdminTeleport: a live session is moved and marked connected, but stays
\* in its instance or room.
AdminTeleport(c, place) ==
  /\ place \in SafePositions(c)
  /\ Live(c) => TransportAllowed(c) \/ "teleport" \in Races
  /\ session' = IF Live(c)
       THEN [session EXCEPT ![c].at = place, ![c].connected = TRUE] ELSE session
  /\ \E saved \in Saves("teleport") : IF saved THEN UpdateCharacterState(c, place) ELSE UNCHANGED stored
  /\ UNCHANGED <<parties, instances, created>>

\* The same call to the admin service: another process with the same store.
AdminServiceTeleport(c, place) ==
  /\ place \in SafePositions(c)
  /\ ~Live(c) \/ "elsewhere" \in Races
  /\ UpdateCharacterState(c, place)
  /\ UNCHANGED <<parties, session, instances, created>>

-----------------------------------------------------------------------------
(* Parties.                                                                *)

\* acceptPartyInviteLocked: c accepts the invitation of d.
JoinParty(c, d) ==
  /\ Usable(c) /\ c # d /\ PartiesOf(c) = {}
  /\ Live(d) /\ session[d].connected
  /\ \/ /\ PartiesOf(d) = {} /\ Len(parties) < MaxParties
        /\ parties' = Append(parties, <<d, c>>)
     \/ \E p \in PartiesOf(d) :
          /\ Head(parties[p]) = d
          /\ parties' = [parties EXCEPT ![p] = Append(@, c)]
  /\ UNCHANGED <<stored, session, instances, created>>

\* handlePartyLeave: the party ends with its last but one member.
Without(members, k) == [j \in 1 .. Len(members) - 1 |-> members[IF j < k THEN j ELSE j + 1]]
LeaveParty(c) ==
  /\ Usable(c)
  /\ \E p \in PartiesOf(c) : \E k \in Ranks(p) :
       /\ parties[p][k] = c
       /\ parties' = [parties EXCEPT ![p] = IF Len(@) <= 2 THEN <<>> ELSE Without(@, k)]
  /\ UNCHANGED <<stored, session, instances, created>>

\* handlePartyDisband
DisbandParty(c) ==
  /\ Usable(c)
  /\ \E p \in PartiesOf(c) : Head(parties[p]) = c /\ parties' = [parties EXCEPT ![p] = <<>>]
  /\ UNCHANGED <<stored, session, instances, created>>

-----------------------------------------------------------------------------
(* The dungeon.                                                            *)

\* Who is taken along: the connected members of the instance at the entrance.
Pulled(c, members) ==
  {c} \union {m \in members : Inside(m, 0) /\ session[m].at = "sluice"}

\* placeSessionInDungeonLocked
Place(i, n, C) ==
  /\ session' = [m \in Char |->
       IF m \in C
         THEN [session[m] EXCEPT !.inst = i, !.at = "dungeon", !.ret = session[m].at]
         ELSE session[m]]
  /\ instances' = [instances EXCEPT ![i] = [n EXCEPT !.inside = @ \union C]]

\* enterDungeonLocked into the party's instance.  Its members are those the
\* party had when it was created, and its expiry is not put off again.
EnterInstance(c) ==
  /\ session[c].inst = 0 /\ session[c].at = "sluice"
  /\ \E i \in Running :
       /\ instances[i].party \in PartiesOf(c)
       /\ c \in instances[i].members
       /\ Place(i, instances[i], Pulled(c, instances[i].members))
  /\ UNCHANGED <<stored, parties, created>>

\* ... and into a new one.
CreateInstance(c) ==
  /\ session[c].inst = 0 /\ session[c].at = "sluice"
  /\ created < MaxInstances
  /\ created' = created + 1
  /\ \E p \in PartiesOf(c) :
       /\ \A i \in Running : instances[i].party # p
       /\ Place(created', [party |-> p, members |-> Members(p), inside |-> {},
                           emptied |-> FALSE, late |-> FALSE], Pulled(c, Members(p)))
  /\ UNCHANGED <<stored, parties>>

HandleDungeonEnter(c) == Usable(c) /\ (EnterInstance(c) \/ CreateInstance(c))

\* exitDungeonLocked; the instance's return position is the session's.
ExitDungeon(c) ==
  /\ session[c].inst # 0
  /\ Put(c, Out(session[c]))
  /\ \E saved \in Saves("exit") :
       IF saved THEN UpdateCharacterState(c, Outside(session[c])) ELSE UNCHANGED stored
  /\ LeaveInstance(c)
  /\ UNCHANGED <<parties, created>>

HandleDungeonExit(c) == Usable(c) /\ ExitDungeon(c)

\* Who keeps an instance from being reset.
Holders(i) == {c \in instances[i].members : Inside(c, i)}

\* resetDungeonForSessionLocked
ResetDungeon(c) ==
  /\ \E i \in Running :
       /\ instances[i].party \in PartiesOf(c)
       /\ Head(parties[instances[i].party]) = c
       /\ Holders(i) = {}
       /\ instances' = [instances EXCEPT ![i] = None]
  /\ UNCHANGED <<stored, parties, session, created>>

HandleDungeonReset(c) == Usable(c) /\ ResetDungeon(c)

\* Time passes the ExpiresAtMs of an instance; nothing runs then, since
\* cleanupDungeonInstancesLocked is never called.
Lapse(i) ==
  /\ i \in Running /\ ~instances[i].late
  /\ instances[i].emptied \/ HardExpiry
  /\ instances' = [instances EXCEPT ![i].late = TRUE]
  /\ UNCHANGED <<stored, parties, session, created>>

-----------------------------------------------------------------------------
(* Housing.  The store first: when a save fails the session has not moved. *)

\* enterHousingLocked saves the position, then the visit.
EnterHousing(c) ==
  /\ TransportAllowed(c) /\ session[c].at = "hall"
  /\ \E positionSaved, visitSaved \in Saves("housing") :
       /\ IF positionSaved THEN UpdateCharacterState(c, "hall") ELSE UNCHANGED stored
       /\ IF positionSaved /\ visitSaved
            THEN Put(c, [session[c] EXCEPT !.housed = TRUE, !.at = "room", !.ret = "hall"])
            ELSE UNCHANGED session
  /\ UNCHANGED <<parties, instances, created>>

HandleHousingEnter(c) == Usable(c) /\ EnterHousing(c)

\* returnSessionFromHousingLocked
LeaveHousing(c) ==
  /\ \E saved \in Saves("housing") :
       IF saved THEN Put(c, Out(session[c])) /\ UpdateCharacterState(c, Outside(session[c]))
                ELSE UNCHANGED <<session, stored>>
  /\ UNCHANGED <<parties, instances, created>>

HandleHousingLeave(c) ==
  Usable(c) /\ session[c].housed /\ session[c].at = "room" /\ LeaveHousing(c)

Next ==
  \/ \E c \in Char :
       \/ ConnectCreate(c) \/ ConnectResume(c) \/ Reconnect(c)
       \/ Disconnect(c) \/ Drop(c)
       \/ \E place \in Outdoors :
            \/ Move(c, place) \/ HandleZoneHandoff(c, place) \/ Route(c, place)
            \/ AdminTeleport(c, place) \/ AdminServiceTeleport(c, place)
       \/ Recall(c)
       \/ \E d \in Char : JoinParty(c, d)
       \/ LeaveParty(c) \/ DisbandParty(c)
       \/ HandleDungeonEnter(c) \/ HandleDungeonExit(c) \/ HandleDungeonReset(c)
       \/ HandleHousingEnter(c) \/ HandleHousingLeave(c)
  \/ \E i \in 1 .. MaxInstances : Lapse(i)
  \/ Restart

Spec == Init /\ [][Next]_vars

-----------------------------------------------------------------------------
Placed(s) ==
  /\ s.at = "dungeon" <=> s.inst # 0
  /\ s.at = "room" <=> s.housed
  /\ s.ret = None <=> s.at \in Outdoors

\* Every variable has its type; a session is indoors exactly when it has an
\* instance or a room, never both, and then knows its way back; nobody is in
\* two parties, and no party has two instances.
TypeOK ==
  /\ stored \in [Char -> Outdoors]
  /\ parties \in Seq(Seq(Char)) /\ Len(parties) <= MaxParties
  /\ session \in [Char -> Session \union {None}]
  /\ instances \in [1 .. MaxInstances -> Instance \union {None}]
  /\ created \in 0 .. MaxInstances /\ Running \subseteq 1 .. created
  /\ \A c \in Char : Live(c) => Placed(session[c])
  /\ \A c \in Char : Cardinality(PartiesOf(c)) <= 1
  /\ \A i, j \in Running : instances[i].party = instances[j].party => i = j

\* The store knows the way back: a crash at any moment puts a character where
\* leaving the dungeon or the room, or staying outdoors, would have left it
\* (handleMove, handleDisconnect, exitDungeonLocked, returnSessionFromHousingLocked).
WayBack == \A c \in Char : Live(c) => stored[c] = Outside(session[c])

\* A connected player's instance exists and counts the player as inside: it is
\* neither reset nor found empty under the player.
CountedInside ==
  \A c \in Char : Live(c) /\ session[c].connected /\ session[c].inst # 0 =>
    session[c].inst \in Running /\ c \in instances[session[c].inst].inside

\* An instance nobody is in is on its short expiry, however its players left.
EmptyInstanceExpires ==
  \A i \in Running : (\A c \in Char : ~Inside(c, i)) => instances[i].emptied \/ instances[i].late

\* The instance is private: a character that is put into it is of its party
\* (dungeon_slice_test.go: "expected non-party player to remain outside private
\* instance").
PrivateInstance ==
  [][\A c \in Char : \A i \in 1 .. MaxInstances :
       ~Inside(c, i) /\ Live(c) /\ session[c].inst = 0 /\ Inside(c, i)'
         => c \in Members(instances'[i].party)]_vars

\* A reconnecting player comes back into an instance that others are in
\* (dungeon_slice_test.go: "expected reconnect inside active dungeon instance").
ReconnectStaysInside ==
  [][\A c \in Char : \A i \in Running :
       /\ Live(c) /\ ~session[c].connected /\ session[c].inst = i
       /\ \E d \in Char : Inside(d, i)
       /\ Live(c)' /\ session'[c].connected
       => session'[c].inst = i]_vars

-----------------------------------------------------------------------------
(* The inductive invariants behind them. *)

\* A session's instance has been created, and while it runs it is one the character
\* was a member of when it was.
TheirInstances ==
  \A c \in Char : Live(c) /\ session[c].inst # 0 =>
    /\ session[c].inst <= created
    /\ session[c].inst \in Running => c \in instances[session[c].inst].members

\* An instance that is not past its expiry counts nobody who is not in it.
NobodyElseInside ==
  \A i \in Running : ~instances[i].late => \A c \in instances[i].inside : Inside(c, i)

\* A character is in the store's list of a party once.
ListedOnce ==
  \A p \in 1 .. Len(parties) : \A k, l \in Ranks(p) : parties[p][k] = parties[p][l] => k = l

IInv == TypeOK /\ ListedOnce /\ TheirInstances /\ WayBack /\ CountedInside /\ NobodyElseInside /\ EmptyInstanceExpires
=============================================================================
