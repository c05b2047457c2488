---------------------------- MODULE WhereaboutsProofs ----------------------------
(***************************************************************************)
(* Proofs about Whereabouts for every set of characters and every number of *)
(* parties and instances.  Each theorem names the hazards (Races) and the   *)
(* failing saves it excludes.                                              *)
(***************************************************************************)
EXTENDS Whereabouts, FiniteSetTheorems, SequenceTheorems, TLAPS

-----------------------------------------------------------------------------
(* Sessions *)

\* None is no character, place, session or instance.
LEMMA Nothing ==
    /\ MaxParties \in Nat /\ MaxInstances \in Nat
    /\ None \notin Char /\ \A place \in Outdoors : place # None
    /\ \A s \in Session : s # None
    /\ \A n \in Instance : n # None
BY WhereaboutsAssumption

\* Leaving a dungeon or a room puts the session on its way back, wherever it is.
LEMMA OutFacts ==
    ASSUME NEW s \in Session, Placed(s)
    PROVE  /\ Outside(s) \in Outdoors
           /\ Out(s) \in Session /\ Placed(Out(s)) /\ Outside(Out(s)) = Outside(s)
           /\ Out(s).inst = 0 /\ Out(s).connected = s.connected /\ Out(s).at = Outside(s)
           /\ ~Out(s).housed /\ Out(s).ret = None
<1>1. Outside(s) \in Outdoors
  BY DEF Outside, Session, Placed
<1>2. /\ Out(s).inst = 0 /\ Out(s).connected = s.connected /\ Out(s).at = Outside(s)
      /\ ~Out(s).housed /\ Out(s).ret = None
  BY DEF Out, Session
<1>3. Out(s) \in Session
  <2>1. 0 \in 0 .. MaxInstances
    BY Nothing
  <2> QED BY <1>1, <2>1 DEF Out, Session
<1>4. Outside(s) # "dungeon" /\ Outside(s) # "room"
  BY <1>1 DEF Outdoors, Brindlebrook
<1> QED BY <1>1, <1>2, <1>3, <1>4 DEF Placed, Outside

\* Connecting and disconnecting change neither place nor way back.
LEMMA ConnectedFacts ==
    ASSUME NEW s \in Session, Placed(s), NEW b \in BOOLEAN
    PROVE  LET t == [s EXCEPT !.connected = b] IN
           /\ t \in Session /\ Placed(t) /\ Outside(t) = Outside(s)
           /\ t.connected = b /\ t.inst = s.inst /\ t.housed = s.housed /\ t.at = s.at /\ t.ret = s.ret
BY DEF Session, Placed, Outside

\* Outdoors a session that moves is at its new place.
LEMMA MovedFacts ==
    ASSUME NEW s \in Session, Placed(s), s.inst = 0, ~s.housed, NEW place \in Outdoors
    PROVE  LET t == [s EXCEPT !.at = place] IN
           /\ s.at \in Outdoors /\ s.ret = None /\ Outside(s) = s.at
           /\ t \in Session /\ Placed(t) /\ Outside(t) = place
           /\ t.connected = s.connected /\ t.inst = 0 /\ ~t.housed /\ t.at = place /\ t.ret = None
<1>1. s.at \in Outdoors /\ s.ret = None /\ Outside(s) = s.at
  BY DEF Session, Placed, Outside
<1>2. [s EXCEPT !.at = place] \in Session
  BY DEF Session
<1>3. place # "dungeon" /\ place # "room"
  BY DEF Outdoors, Brindlebrook
<1> QED BY <1>1, <1>2, <1>3 DEF Session, Placed, Outside

\* Into the room from Stonewake's hall, into the dungeon from the sluice.
LEMMA IndoorsFacts ==
    ASSUME NEW s \in Session, Placed(s), s.inst = 0, ~s.housed
    PROVE  /\ s.at = "hall" =>
                LET t == [s EXCEPT !.housed = TRUE, !.at = "room", !.ret = "hall"] IN
                /\ t \in Session /\ Placed(t) /\ Outside(t) = "hall"
                /\ t.connected = s.connected /\ t.inst = 0
           /\ s.at = "sluice" => \A i \in 1 .. MaxInstances :
                LET t == [s EXCEPT !.inst = i, !.at = "dungeon", !.ret = s.at] IN
                /\ t \in Session /\ Placed(t) /\ Outside(t) = "sluice"
                /\ t.connected = s.connected /\ t.inst = i
<1>1. ASSUME s.at = "hall"
      PROVE  LET t == [s EXCEPT !.housed = TRUE, !.at = "room", !.ret = "hall"] IN
             /\ t \in Session /\ Placed(t) /\ Outside(t) = "hall"
             /\ t.connected = s.connected /\ t.inst = 0
  <2> DEFINE t == [s EXCEPT !.housed = TRUE, !.at = "room", !.ret = "hall"]
  <2>1. t \in Session
    BY DEF Session, Outdoors
  <2>2. t.housed /\ t.at = "room" /\ t.ret = "hall" /\ t.inst = 0 /\ t.connected = s.connected
    BY DEF Session
  <2>3. "hall" # None /\ "room" \notin Outdoors
    BY Nothing DEF Outdoors, Brindlebrook
  <2> QED BY <2>1, <2>2, <2>3 DEF Placed, Outside
<1>2. ASSUME s.at = "sluice", NEW i \in 1 .. MaxInstances
      PROVE  LET t == [s EXCEPT !.inst = i, !.at = "dungeon", !.ret = s.at] IN
             /\ t \in Session /\ Placed(t) /\ Outside(t) = "sluice"
             /\ t.connected = s.connected /\ t.inst = i
  <2> DEFINE t == [s EXCEPT !.inst = i, !.at = "dungeon", !.ret = s.at]
  <2>0. i \in 0 .. MaxInstances /\ s.at \in Outdoors
    BY <1>2, Nothing DEF Outdoors, Brindlebrook
  <2>1. t \in Session
    BY <2>0 DEF Session
  <2>2. ~t.housed /\ t.at = "dungeon" /\ t.ret = "sluice" /\ t.inst = i /\ t.connected = s.connected
    BY <1>2 DEF Session
  <2>3. "sluice" # None /\ "dungeon" \notin Outdoors /\ i # 0
    BY Nothing DEF Outdoors, Brindlebrook
  <2> QED BY <2>1, <2>2, <2>3 DEF Placed, Outside
<1> QED BY <1>1, <1>2

\* The sessions and the store's positions have their types and places.
Positions ==
    /\ stored \in [Char -> Outdoors]
    /\ session \in [Char -> Session \union {None}]
    /\ \A c \in Char : Live(c) => Placed(session[c])

\* The store has the way back of a character; what keeps it so.
Kept(c) == Live(c) => stored[c] = Outside(session[c])
Careful ==
    /\ "elsewhere" \notin Races
    /\ "move" \notin SaveFailsIn /\ "travel" \notin SaveFailsIn /\ "teleport" \notin SaveFailsIn

\* What a step that concerns one character does to sessions and positions.
Handled(c) ==
    /\ Positions'
    /\ \A d \in Char \ {c} : session'[d] = session[d] /\ stored'[d] = stored[d]
    /\ Careful /\ Kept(c) => Kept(c)'

\* A handler that gives a character a session, and perhaps saves a position.
LEMMA Handles ==
    ASSUME Positions, NEW c \in Char, NEW s \in Session, Placed(s), Put(c, s),
           UNCHANGED stored \/ \E place \in Outdoors : stored' = [stored EXCEPT ![c] = place],
           Careful /\ Kept(c) => stored'[c] = Outside(s)
    PROVE  Handled(c) /\ session'[c] = s
<1>1. session'[c] = s /\ \A d \in Char \ {c} : session'[d] = session[d] /\ stored'[d] = stored[d]
  BY DEF Put, Positions
<1>2. stored' \in [Char -> Outdoors] /\ session' \in [Char -> Session \union {None}]
  BY DEF Put, Positions
<1>3. \A d \in Char : Live(d)' => Placed(session[d])'
  <2> SUFFICES ASSUME NEW d \in Char, session'[d] # None PROVE Placed(session'[d])
    BY DEF Live, Placed
  <2>1. CASE d = c
    BY <1>1, <2>1
  <2>2. CASE d # c
    BY <1>1, <2>2 DEF Positions, Live
  <2> QED BY <2>1, <2>2
<1>4. Careful /\ Kept(c) => Kept(c)'
  BY <1>1 DEF Kept, Outside
<1> QED BY <1>1, <1>2, <1>3, <1>4 DEF Handled, Positions

\* A handler that only saves a position, or ends a session.
LEMMA Saved ==
    ASSUME Positions, NEW c \in Char, UNCHANGED session,
           UNCHANGED stored \/ \E place \in Outdoors : stored' = [stored EXCEPT ![c] = place],
           Careful /\ Kept(c) /\ Live(c) => stored'[c] = Outside(session[c])
    PROVE  Handled(c)
BY DEF Positions, Handled, Kept, Live, Placed, Outside

LEMMA Ended ==
    ASSUME Positions, NEW c \in Char, Put(c, None), UNCHANGED stored
    PROVE  Handled(c)
BY DEF Positions, Handled, Kept, Live, Placed, Put

\* Whoever has a session has one of its kind.
LEMMA LiveFacts ==
    ASSUME Positions, NEW c \in Char, Live(c)
    PROVE  session[c] \in Session /\ Placed(session[c]) /\ Outside(session[c]) \in Outdoors
BY OutFacts DEF Positions, Live

\* Coming and going.
LEMMA ConnectsHandled ==
    ASSUME Positions, NEW c \in Char,
           ConnectCreate(c) \/ ConnectResume(c) \/ Reconnect(c) \/ Disconnect(c) \/ Drop(c)
    PROVE  Handled(c)
<1>1. CASE ConnectCreate(c)
  <2> DEFINE s == [connected |-> TRUE, at |-> stored[c], inst |-> 0, housed |-> FALSE, ret |-> None]
  <2>1. stored[c] \in Outdoors /\ 0 \in 0 .. MaxInstances
    BY Nothing DEF Positions
  <2>2. s \in Session
    BY <2>1 DEF Session
  <2>3. s.at = stored[c] /\ s.inst = 0 /\ ~s.housed /\ s.ret = None
    OBVIOUS
  <2>4. Placed(s) /\ Outside(s) = stored[c]
    BY <2>1, <2>3 DEF Placed, Outside, Outdoors, Brindlebrook
  <2> QED BY <1>1, <2>2, <2>4, Handles DEF ConnectCreate
<1>2. CASE ConnectResume(c)
  <2> DEFINE s == [session[c] EXCEPT !.connected = TRUE]
  <2>1. s \in Session /\ Placed(s) /\ Outside(s) = Outside(session[c]) /\ Outside(s) \in Outdoors
    BY <1>2, LiveFacts, ConnectedFacts DEF ConnectResume
  <2>2. Out(s) \in Session /\ Placed(Out(s)) /\ Outside(Out(s)) = Outside(s)
    BY <2>1, OutFacts
  <2>3. Put(c, s) \/ Put(c, Out(s))
    BY <1>2 DEF ConnectResume
  <2>4. UNCHANGED stored \/ stored' = [stored EXCEPT ![c] = Outside(s)]
    BY <1>2 DEF ConnectResume, UpdateCharacterState
  <2>5. Careful /\ Kept(c) => stored'[c] = Outside(s)
    BY <1>2, <2>1, <2>4 DEF Kept, ConnectResume, Positions
  <2> HIDE DEF s
  <2> QED BY <2>1, <2>2, <2>3, <2>4, <2>5, Handles
<1>3. CASE Reconnect(c)
  <2> DEFINE s == [session[c] EXCEPT !.connected = TRUE]
  <2>1. /\ s \in Session /\ Placed(s) /\ Outside(s) = Outside(session[c]) /\ Outside(s) \in Outdoors
        /\ s.inst = session[c].inst
    BY <1>3, LiveFacts, ConnectedFacts DEF Reconnect
  <2>2. /\ Out(s) \in Session /\ Placed(Out(s)) /\ Outside(Out(s)) = Outside(s)
        /\ Out(s).inst = 0 /\ ~Out(s).housed
    BY <2>1, OutFacts
  <2>3. stored[c] \in Outdoors
    BY DEF Positions
  <2>4. /\ [Out(s) EXCEPT !.at = stored[c]] \in Session /\ Placed([Out(s) EXCEPT !.at = stored[c]])
        /\ Outside([Out(s) EXCEPT !.at = stored[c]]) = stored[c]
    BY <2>2, <2>3, MovedFacts
  <2>5. Put(c, s) \/ Put(c, Out(s)) \/ Put(c, [Out(s) EXCEPT !.at = stored[c]])
    BY <1>3 DEF Reconnect
  <2>6. UNCHANGED stored /\ (Kept(c) => stored[c] = Outside(s))
    BY <1>3, <2>1 DEF Reconnect, Kept
  <2> HIDE DEF s
  <2> QED BY <2>1, <2>2, <2>4, <2>5, <2>6, Handles
<1>4. CASE Disconnect(c)
  <2> DEFINE s == [session[c] EXCEPT !.connected = FALSE]
  <2>1. s \in Session /\ Placed(s) /\ Outside(s) = Outside(session[c]) /\ Outside(s) \in Outdoors
    BY <1>4, LiveFacts, ConnectedFacts DEF Disconnect
  <2>2. Out(s) \in Session /\ Placed(Out(s)) /\ Outside(Out(s)) = Outside(s)
    BY <2>1, OutFacts
  <2>3. Put(c, s) \/ Put(c, Out(s))
    BY <1>4 DEF Disconnect
  <2>4. UNCHANGED stored \/ stored' = [stored EXCEPT ![c] = Outside(s)]
    BY <1>4 DEF Disconnect, UpdateCharacterState
  <2>5. Careful /\ Kept(c) => stored'[c] = Outside(s)
    BY <1>4, <2>1, <2>4 DEF Kept, Disconnect, Positions
  <2> HIDE DEF s
  <2> QED BY <2>1, <2>2, <2>3, <2>4, <2>5, Handles
<1>5. CASE Drop(c)
  BY <1>5, Ended DEF Drop
<1> QED BY <1>1, <1>2, <1>3, <1>4, <1>5

\* Moving outdoors.
LEMMA MovesHandled ==
    ASSUME Positions, "teleport" \notin Races, NEW c \in Char, NEW place \in Outdoors,
           \/ Move(c, place) \/ HandleZoneHandoff(c, place) \/ Route(c, place) \/ Recall(c)
           \/ AdminTeleport(c, place) \/ AdminServiceTeleport(c, place)
    PROVE  Handled(c)
<1>0. ASSUME NEW p \in Outdoors, Live(c), TransportAllowed(c), Put(c, [session[c] EXCEPT !.at = p]),
             UNCHANGED stored \/ stored' = [stored EXCEPT ![c] = p],
             Careful => stored' = [stored EXCEPT ![c] = p]
      PROVE  Handled(c)
  <2> DEFINE t == [session[c] EXCEPT !.at = p]
  <2>1. t \in Session /\ Placed(t) /\ Outside(t) = p
    BY <1>0, LiveFacts, MovedFacts DEF TransportAllowed
  <2>2. Careful => stored'[c] = Outside(t)
    BY <1>0, <2>1 DEF Positions
  <2> HIDE DEF t
  <2> QED BY <1>0, <2>1, <2>2, Handles DEF t
<1>1. CASE Move(c, place)
  <2>1. Live(c) /\ session[c].at \in Outdoors
    BY <1>1 DEF Move, Usable, Outdoors
  <2>2. TransportAllowed(c)
    BY <2>1, LiveFacts DEF TransportAllowed, Placed, Outdoors, Brindlebrook
  <2>3. Put(c, [session[c] EXCEPT !.at = place])
    BY <1>1, <2>2 DEF Move, TransportAllowed
  <2>4. UNCHANGED stored \/ stored' = [stored EXCEPT ![c] = place]
    BY <1>1, <2>2 DEF Move, TransportAllowed, UpdateCharacterState
  <2>5. Careful => stored' = [stored EXCEPT ![c] = place]
    BY <1>1, <2>2 DEF Move, TransportAllowed, UpdateCharacterState, Careful, Saves
  <2> QED BY <1>0, <2>1, <2>2, <2>3, <2>4, <2>5
<1>2. CASE HandleZoneHandoff(c, place)
  <2>1. CASE UNCHANGED <<session, stored>>
    BY <2>1, Saved DEF Kept
  <2>2. CASE Put(c, [session[c] EXCEPT !.at = place]) /\ stored' = [stored EXCEPT ![c] = place]
    BY <1>0, <1>2, <2>2 DEF HandleZoneHandoff, Handoff
  <2> QED BY <1>2, <2>1, <2>2 DEF HandleZoneHandoff, Handoff, UpdateCharacterState
<1>3. ASSUME NEW p \in Outdoors, Usable(c), TransportAllowed(c), PersistTravelSession(c, p) PROVE Handled(c)
  <2>1. UNCHANGED stored \/ stored' = [stored EXCEPT ![c] = p]
    BY <1>3 DEF PersistTravelSession, UpdateCharacterTravelState
  <2>2. Careful => stored' = [stored EXCEPT ![c] = p]
    BY <1>3 DEF PersistTravelSession, UpdateCharacterTravelState, Careful, Saves
  <2> QED BY <1>0, <1>3, <2>1, <2>2 DEF PersistTravelSession, Usable
<1>4. CASE Route(c, place)
  BY <1>3, <1>4 DEF Route
<1>5. CASE Recall(c)
  BY <1>3, <1>5 DEF Recall, Outdoors
<1>6. CASE AdminTeleport(c, place)
  <2>1. UNCHANGED stored \/ stored' = [stored EXCEPT ![c] = place]
    BY <1>6 DEF AdminTeleport, UpdateCharacterState
  <2>2. Careful => stored' = [stored EXCEPT ![c] = place]
    BY <1>6 DEF AdminTeleport, UpdateCharacterState, Careful, Saves
  <2>3. CASE ~Live(c)
    <3>1. UNCHANGED session
      BY <1>6, <2>3 DEF AdminTeleport
    <3> QED BY <2>1, <2>3, <3>1, Saved
  <2>4. CASE Live(c)
    <3> DEFINE s == [session[c] EXCEPT !.at = place]
               t == [s EXCEPT !.connected = TRUE]
    <3>1. TransportAllowed(c)
      BY <1>6, <2>4 DEF AdminTeleport
    <3>2. s \in Session /\ Placed(s) /\ Outside(s) = place
      BY <2>4, <3>1, LiveFacts, MovedFacts DEF TransportAllowed
    <3>3. t \in Session /\ Placed(t) /\ Outside(t) = place
      BY <3>2, ConnectedFacts
    <3>4. session' = [session EXCEPT ![c].at = place, ![c].connected = TRUE]
      BY <1>6, <2>4 DEF AdminTeleport
    <3>5. Put(c, t)
      BY <2>4, <3>4 DEF Put, Positions, Live, Session
    <3>6. Careful => stored'[c] = Outside(t)
      BY <2>2, <3>3 DEF Positions
    <3> HIDE DEF s, t
    <3> QED BY <2>1, <3>3, <3>5, <3>6, Handles
  <2> QED BY <2>3, <2>4
<1>7. CASE AdminServiceTeleport(c, place)
  <2>1. UNCHANGED session /\ stored' = [stored EXCEPT ![c] = place]
    BY <1>7 DEF AdminServiceTeleport, UpdateCharacterState
  <2>2. ~(Careful /\ Live(c))
    BY <1>7 DEF AdminServiceTeleport, Careful
  <2> QED BY <2>1, <2>2, Saved
<1> QED BY <1>1, <1>2, <1>4, <1>5, <1>6, <1>7

\* Out of the dungeon, into a room and out of it.
LEMMA DoorsHandled ==
    ASSUME Positions, NEW c \in Char,
           HandleDungeonExit(c) \/ HandleHousingEnter(c) \/ HandleHousingLeave(c)
    PROVE  Handled(c)
<1>1. /\ session[c] \in Session /\ Placed(session[c]) /\ Outside(session[c]) \in Outdoors /\ Live(c)
      /\ Out(session[c]) \in Session /\ Placed(Out(session[c]))
      /\ Outside(Out(session[c])) = Outside(session[c])
  <2>1. Live(c)
    BY DEF HandleDungeonExit, HandleHousingEnter, HandleHousingLeave, Usable
  <2> QED BY <2>1, LiveFacts, OutFacts
<1>2. CASE HandleDungeonExit(c)
  <2>1. Put(c, Out(session[c])) /\ (UNCHANGED stored \/ stored' = [stored EXCEPT ![c] = Outside(session[c])])
    BY <1>2 DEF HandleDungeonExit, ExitDungeon, UpdateCharacterState
  <2>2. Careful /\ Kept(c) => stored'[c] = Outside(session[c])
    BY <1>1, <2>1 DEF Kept, Positions
  <2> QED BY <1>1, <2>1, <2>2, Handles
<1>3. CASE HandleHousingLeave(c)
  <2>1. CASE Put(c, Out(session[c])) /\ stored' = [stored EXCEPT ![c] = Outside(session[c])]
    <3>1. stored'[c] = Outside(session[c])
      BY <2>1 DEF Positions
    <3> QED BY <1>1, <2>1, <3>1, Handles
  <2>2. CASE UNCHANGED <<session, stored>>
    BY <2>2, Saved DEF Kept
  <2> QED BY <1>3, <2>1, <2>2 DEF HandleHousingLeave, LeaveHousing, UpdateCharacterState
<1>4. CASE HandleHousingEnter(c)
  <2>1. TransportAllowed(c) /\ session[c].at = "hall"
    BY <1>4 DEF HandleHousingEnter, EnterHousing
  <2>2. Outside(session[c]) = "hall"
    BY <1>1, <2>1, MovedFacts DEF TransportAllowed, Outdoors
  <2>3. UNCHANGED stored \/ stored' = [stored EXCEPT ![c] = "hall"]
    BY <1>4 DEF HandleHousingEnter, EnterHousing, UpdateCharacterState
  <2>4. Careful /\ Kept(c) => stored'[c] = "hall"
    BY <1>1, <2>2, <2>3 DEF Kept, Positions
  <2>5. CASE UNCHANGED session
    BY <2>2, <2>3, <2>4, <2>5, Saved DEF Outdoors
  <2>6. CASE Put(c, [session[c] EXCEPT !.housed = TRUE, !.at = "room", !.ret = "hall"])
    <3> DEFINE t == [session[c] EXCEPT !.housed = TRUE, !.at = "room", !.ret = "hall"]
    <3>1. t \in Session /\ Placed(t) /\ Outside(t) = "hall"
      BY <1>1, <2>1, IndoorsFacts DEF TransportAllowed
    <3> HIDE DEF t
    <3> QED BY <2>3, <2>4, <2>6, <3>1, Handles DEF t, Outdoors
  <2> QED BY <1>4, <2>5, <2>6 DEF HandleHousingEnter, EnterHousing
<1> QED BY <1>2, <1>3, <1>4

\* Whoever is taken into the dungeon stood at its entrance.
LEMMA PlaceHandled ==
    ASSUME Positions, NEW i \in 1 .. MaxInstances, NEW n, NEW C \in SUBSET Char, Place(i, n, C), UNCHANGED stored,
           \A m \in C : Live(m) /\ session[m].inst = 0 /\ session[m].at = "sluice"
    PROVE  /\ Positions'
           /\ \A m \in Char \ C : session'[m] = session[m]
           /\ \A m \in C : /\ Live(m)' /\ session'[m].inst = i
                           /\ session'[m].connected = session[m].connected
           /\ \A m \in Char : Kept(m) => Kept(m)'
<1>1. \A m \in Char \ C : session'[m] = session[m]
  BY DEF Place
<1>2. ASSUME NEW m \in C
      PROVE  /\ session'[m] \in Session /\ Placed(session'[m]) /\ Outside(session'[m]) = "sluice"
             /\ session'[m].connected = session[m].connected /\ session'[m].inst = i
             /\ Outside(session[m]) = "sluice"
  <2>1. m \in Char /\ session[m] \in Session /\ Placed(session[m])
    BY <1>2, LiveFacts
  <2>2. ~session[m].housed
    BY <1>2, <2>1 DEF Placed
  <2>3. session'[m] = [session[m] EXCEPT !.inst = i, !.at = "dungeon", !.ret = session[m].at]
    BY <1>2, <2>1 DEF Place
  <2>4. Outside(session[m]) = "sluice"
    BY <1>2, <2>1, <2>2, MovedFacts DEF Outdoors, Brindlebrook
  <2> DEFINE t == [session[m] EXCEPT !.inst = i, !.at = "dungeon", !.ret = session[m].at]
  <2>5. t \in Session /\ Placed(t) /\ Outside(t) = "sluice" /\ t.connected = session[m].connected /\ t.inst = i
    BY <1>2, <2>1, <2>2, IndoorsFacts
  <2> HIDE DEF t
  <2>6. session'[m] = t
    BY <2>3 DEF t
  <2> QED BY <2>4, <2>5, <2>6
<1>3. \A m \in C : session'[m] # None
  BY <1>2, Nothing
<1>4. session' \in [Char -> Session \union {None}]
  <2>1. \A m \in Char : session'[m] \in Session \union {None}
    BY <1>1, <1>2 DEF Positions
  <2>2. session' = [m \in Char |-> session'[m]]
    BY DEF Place
  <2> QED BY <2>1, <2>2
<1>5. \A m \in Char : Live(m)' => Placed(session[m])'
  BY <1>1, <1>2 DEF Positions, Live, Placed
<1>6. \A m \in Char : Kept(m) => Kept(m)'
  BY <1>1, <1>2, <1>3 DEF Kept, Live, Outside
<1>7. Positions'
  BY <1>4, <1>5 DEF Positions
<1> QED BY <1>1, <1>2, <1>3, <1>6, <1>7 DEF Live

-----------------------------------------------------------------------------
(* Parties *)

\* Nobody is listed twice, in one party or in two.
Unique ==
  \A p, q \in 1 .. Len(parties) : \A k \in Ranks(p), l \in Ranks(q) :
    parties[p][k] = parties[q][l] => p = q /\ k = l

Lists == parties \in Seq(Seq(Char)) /\ Len(parties) <= MaxParties /\ Unique

\* Then a character has at most one party.
LEMMA OneParty ==
    ASSUME Lists, NEW c \in Char
    PROVE  Cardinality(PartiesOf(c)) <= 1
<1>1. \A p, q \in PartiesOf(c) : p = q
  BY DEF Lists, Unique, PartiesOf, Members
<1>2. CASE PartiesOf(c) = {}
  BY <1>2, FS_EmptySet
<1>3. CASE PartiesOf(c) # {}
  <2>1. PICK p : p \in PartiesOf(c)
    BY <1>3
  <2>2. PartiesOf(c) = {p}
    BY <1>1, <2>1
  <2>3. Cardinality({p}) = 1
    BY FS_Singleton
  <2> QED BY <2>2, <2>3
<1> QED BY <1>2, <1>3

LEMMA WithoutFacts ==
    ASSUME NEW m \in Seq(Char), NEW k \in 1 .. Len(m)
    PROVE  /\ Without(m, k) \in Seq(Char)
           /\ Len(Without(m, k)) = Len(m) - 1
           /\ \A j \in 1 .. Len(Without(m, k)) :
                IF j < k THEN Without(m, k)[j] = m[j] ELSE Without(m, k)[j] = m[j + 1]
           /\ \A j \in 1 .. Len(m) - 1 : j \in 1 .. Len(m) /\ j + 1 \in 1 .. Len(m)
<1> DEFINE n == Len(m) - 1
           f == [j \in 1 .. n |-> m[IF j < k THEN j ELSE j + 1]]
<1>1. Len(m) \in Nat /\ n \in Nat
  BY LenProperties
<1>2. \A j \in 1 .. n : j \in 1 .. Len(m) /\ j + 1 \in 1 .. Len(m)
  BY <1>1
<1>3. \A j \in 1 .. n : m[IF j < k THEN j ELSE j + 1] \in Char
  BY <1>2, ElementOfSeq
<1>4. f \in [1 .. n -> Char]
  BY <1>3
<1>5. f \in Seq(Char) /\ Len(f) = n
  <2> HIDE DEF f, n
  <2>1. f \in Seq(Char)
    BY <1>1, <1>4, SeqDef
  <2> QED BY <1>1, <1>4, <2>1, LenProperties
<1>6. \A j \in 1 .. n : f[j] = m[IF j < k THEN j ELSE j + 1]
  OBVIOUS
<1>7. Without(m, k) = f
  BY DEF Without
<1> HIDE DEF f, n
<1> QED BY <1>2, <1>5, <1>6, <1>7 DEF n

\* A new list of a party whose members are the party's or nobody's.
LEMMA ListChanged ==
    ASSUME Lists, NEW p \in 1 .. Len(parties), NEW t \in Seq(Char),
           parties' = [parties EXCEPT ![p] = t],
           \A k, l \in 1 .. Len(t) : t[k] = t[l] => k = l,
           \A k \in 1 .. Len(t) : t[k] \in Members(p) \/ PartiesOf(t[k]) = {}
    PROVE  Lists'
<1>1. parties' \in Seq(Seq(Char)) /\ Len(parties') = Len(parties)
  BY ExceptSeq DEF Lists
<1>2. /\ parties'[p] = t
      /\ \A q \in 1 .. Len(parties) : q # p => parties'[q] = parties[q]
  BY ExceptSeq DEF Lists
<1>3. ASSUME NEW q \in 1 .. Len(parties), q # p, NEW k \in 1 .. Len(t), NEW l \in Ranks(q)
      PROVE  t[k] # parties[q][l]
  <2>1. CASE t[k] \in Members(p)
    BY <1>3, <2>1 DEF Members, Lists, Unique
  <2>2. CASE PartiesOf(t[k]) = {}
    BY <1>3, <2>2 DEF PartiesOf, Members
  <2> QED BY <2>1, <2>2
<1>4. Unique'
  <2> SUFFICES ASSUME NEW q \in 1 .. Len(parties), NEW r \in 1 .. Len(parties),
                      NEW k \in 1 .. Len(parties'[q]), NEW l \in 1 .. Len(parties'[r]),
                      parties'[q][k] = parties'[r][l]
               PROVE  q = r /\ k = l
    BY <1>1 DEF Unique, Ranks
  <2>1. CASE q = p /\ r = p
    BY <1>2, <2>1
  <2>2. CASE q = p /\ r # p
    BY <1>2, <1>3, <2>2 DEF Ranks
  <2>3. CASE q # p /\ r = p
    BY <1>2, <1>3, <2>3 DEF Ranks
  <2>4. CASE q # p /\ r # p
    BY <1>2, <2>4 DEF Lists, Unique, Ranks
  <2> QED BY <2>1, <2>2, <2>3, <2>4
<1> QED BY <1>1, <1>4 DEF Lists

\* Forming, joining, leaving and disbanding parties.
LEMMA PartiesKept ==
    ASSUME Lists, NEW c \in Char, NEW d \in Char,
           JoinParty(c, d) \/ LeaveParty(c) \/ DisbandParty(c)
    PROVE  Lists'
<1>0. \A p \in 1 .. Len(parties) : parties[p] \in Seq(Char)
  BY ElementOfSeq DEF Lists
<1>1. ASSUME c # d, PartiesOf(c) = {}, PartiesOf(d) = {}, Len(parties) < MaxParties,
             parties' = Append(parties, <<d, c>>)
      PROVE  Lists'
  <2> DEFINE n == Len(parties)
  <2>1. n \in Nat /\ <<d, c>> \in Seq(Char) /\ Len(<<d, c>>) = 2
    BY LenProperties DEF Lists
  <2>2. /\ parties' \in Seq(Seq(Char)) /\ Len(parties') = n + 1
        /\ parties'[n + 1] = <<d, c>>
        /\ \A q \in 1 .. n : parties'[q] = parties[q]
    BY <1>1, <2>1, AppendProperties DEF Lists
  <2>3. \A q \in 1 .. n : \A l \in Ranks(q) : parties[q][l] # c /\ parties[q][l] # d
    BY <1>1 DEF PartiesOf, Members
  <2>4. Unique'
    <3> SUFFICES ASSUME NEW q \in 1 .. n + 1, NEW r \in 1 .. n + 1,
                        NEW k \in 1 .. Len(parties'[q]), NEW l \in 1 .. Len(parties'[r]),
                        parties'[q][k] = parties'[r][l]
                 PROVE  q = r /\ k = l
      BY <2>2 DEF Unique, Ranks
    <3>0. \A q1 \in 1 .. n + 1 : q1 = n + 1 \/ q1 \in 1 .. n
      BY <2>1
    <3>1. CASE q = n + 1 /\ r = n + 1
      <4>1. k \in 1 .. 2 /\ l \in 1 .. 2
        BY <2>1, <2>2, <3>1
      <4> QED BY <1>1, <2>2, <3>1, <4>1
    <3>2. CASE q = n + 1 /\ r # n + 1
      <4>1. k \in 1 .. 2 /\ l \in Ranks(r)
        BY <2>1, <2>2, <3>0, <3>2 DEF Ranks
      <4>2. parties'[q][k] = c \/ parties'[q][k] = d
        BY <2>2, <3>2, <4>1
      <4> QED BY <2>2, <2>3, <3>0, <3>2, <4>1, <4>2
    <3>3. CASE q # n + 1 /\ r = n + 1
      <4>1. l \in 1 .. 2 /\ k \in Ranks(q)
        BY <2>1, <2>2, <3>0, <3>3 DEF Ranks
      <4>2. parties'[r][l] = c \/ parties'[r][l] = d
        BY <2>2, <3>3, <4>1
      <4> QED BY <2>2, <2>3, <3>0, <3>3, <4>1, <4>2
    <3>4. CASE q # n + 1 /\ r # n + 1
      <4>1. q \in 1 .. n /\ r \in 1 .. n /\ parties'[q] = parties[q] /\ parties'[r] = parties[r]
        BY <2>2, <3>0, <3>4
      <4>2. k \in Ranks(q) /\ l \in Ranks(r) /\ parties[q][k] = parties[r][l]
        BY <4>1 DEF Ranks
      <4> QED BY <4>1, <4>2 DEF Lists, Unique
    <3> QED BY <3>1, <3>2, <3>3, <3>4
  <2> QED BY <1>1, <2>1, <2>2, <2>4, Nothing DEF Lists
<1>2. ASSUME NEW p \in PartiesOf(d), PartiesOf(c) = {}, parties' = [parties EXCEPT ![p] = Append(@, c)]
      PROVE  Lists'
  <2> DEFINE m == parties[p]
             t == Append(m, c)
  <2>1. p \in 1 .. Len(parties) /\ m \in Seq(Char) /\ Len(m) \in Nat
    BY <1>0, <1>2, LenProperties DEF PartiesOf
  <2>2. /\ t \in Seq(Char) /\ Len(t) = Len(m) + 1 /\ t[Len(m) + 1] = c
        /\ \A k \in 1 .. Len(m) : t[k] = m[k]
    BY <2>1, AppendProperties
  <2>3. \A k \in 1 .. Len(m) : m[k] \in Members(p) /\ m[k] # c
    BY <1>2, <2>1 DEF PartiesOf, Members, Ranks
  <2>4. \A k, l \in 1 .. Len(m) : m[k] = m[l] => k = l
    BY <2>1 DEF Lists, Unique, Ranks
  <2>5. parties' = [parties EXCEPT ![p] = t]
    BY <1>2
  <2> HIDE DEF m, t
  <2>6. \A k \in 1 .. Len(t) : k = Len(m) + 1 \/ k \in 1 .. Len(m)
    BY <2>1, <2>2
  <2>7. \A k, l \in 1 .. Len(t) : t[k] = t[l] => k = l
    BY <2>2, <2>3, <2>4, <2>6
  <2>8. \A k \in 1 .. Len(t) : t[k] \in Members(p) \/ PartiesOf(t[k]) = {}
    BY <1>2, <2>2, <2>3, <2>6
  <2> QED BY <2>1, <2>2, <2>5, <2>7, <2>8, ListChanged
<1>3. ASSUME NEW p \in PartiesOf(c), parties' = [parties EXCEPT ![p] = <<>>]
      PROVE  Lists'
  <2>1. p \in 1 .. Len(parties)
    BY <1>3 DEF PartiesOf
  <2> DEFINE t == <<>>
  <2>2. t \in Seq(Char) /\ 1 .. Len(t) = {}
    BY EmptySeq
  <2>3. parties' = [parties EXCEPT ![p] = t]
    BY <1>3
  <2> HIDE DEF t
  <2> QED BY <2>1, <2>2, <2>3, ListChanged
<1>4. ASSUME NEW p \in PartiesOf(c), NEW k \in Ranks(p), parties' = [parties EXCEPT ![p] = Without(@, k)]
      PROVE  Lists'
  <2> DEFINE m == parties[p]
             t == Without(m, k)
  <2>1. p \in 1 .. Len(parties) /\ m \in Seq(Char) /\ Len(m) \in Nat /\ k \in 1 .. Len(m)
    BY <1>0, <1>4, LenProperties DEF PartiesOf, Ranks
  <2>2. /\ t \in Seq(Char) /\ Len(t) = Len(m) - 1
        /\ \A j \in 1 .. Len(t) : IF j < k THEN t[j] = m[j] ELSE t[j] = m[j + 1]
        /\ \A j \in 1 .. Len(t) : j \in 1 .. Len(m) /\ j + 1 \in 1 .. Len(m)
    BY <2>1, WithoutFacts
  <2>3. \A j \in 1 .. Len(m) : m[j] \in Members(p)
    BY <2>1 DEF Members, Ranks
  <2>4. \A j, l \in 1 .. Len(m) : m[j] = m[l] => j = l
    BY <2>1 DEF Lists, Unique, Ranks
  <2>5. parties' = [parties EXCEPT ![p] = t]
    BY <1>4
  <2> HIDE DEF m, t
  <2>6. \A j \in 1 .. Len(t) : t[j] \in Members(p)
    BY <2>2, <2>3
  <2>7. \A j, l \in 1 .. Len(t) : t[j] = t[l] => j = l
    <3> SUFFICES ASSUME NEW j \in 1 .. Len(t), NEW l \in 1 .. Len(t), t[j] = t[l] PROVE j = l
      OBVIOUS
    <3>1. CASE (j < k) = (l < k)
      BY <2>1, <2>2, <2>4, <3>1
    <3>2. CASE j < k /\ ~(l < k)
      BY <2>1, <2>2, <2>4, <3>2
    <3>3. CASE ~(j < k) /\ l < k
      BY <2>1, <2>2, <2>4, <3>3
    <3> QED BY <3>1, <3>2, <3>3
  <2> QED BY <2>1, <2>2, <2>5, <2>6, <2>7, ListChanged
<1>5. CASE JoinParty(c, d)
  BY <1>1, <1>2, <1>5 DEF JoinParty
<1>6. CASE LeaveParty(c)
  <2>1. PICK p \in PartiesOf(c) : \E k \in Ranks(p) :
          parties' = [parties EXCEPT ![p] = IF Len(@) <= 2 THEN <<>> ELSE Without(@, k)]
    BY <1>6 DEF LeaveParty
  <2>2. PICK k \in Ranks(p) :
          parties' = [parties EXCEPT ![p] = IF Len(@) <= 2 THEN <<>> ELSE Without(@, k)]
    BY <2>1
  <2>3. CASE Len(parties[p]) <= 2
    BY <1>3, <2>2, <2>3
  <2>4. CASE ~(Len(parties[p]) <= 2)
    BY <1>4, <2>2, <2>4
  <2> QED BY <2>3, <2>4
<1>7. CASE DisbandParty(c)
  BY <1>3, <1>7 DEF DisbandParty
<1> QED BY <1>5, <1>6, <1>7

-----------------------------------------------------------------------------
(* Instances *)

\* Instances have their type and were created; no party has two.
Copies ==
    /\ instances \in [1 .. MaxInstances -> Instance \union {None}]
    /\ created \in 0 .. MaxInstances /\ Running \subseteq 1 .. created
    /\ \A i, j \in Running : instances[i].party = instances[j].party => i = j

\* An instance that changes, but not its party, or one that is new.
LEMMA CopyChanged ==
    ASSUME Copies, NEW i \in 1 .. MaxInstances, NEW n \in Instance,
           instances' = [instances EXCEPT ![i] = n],
           \/ i \in Running /\ n.party = instances[i].party /\ UNCHANGED created
           \/ /\ i = created + 1 /\ created' = i
              /\ \A j \in Running : instances[j].party # n.party
    PROVE  /\ Copies'
           /\ Running' = Running \union {i} /\ instances'[i] = n
           /\ \A j \in 1 .. MaxInstances : j # i => instances'[j] = instances[j]
<1>1. /\ instances' \in [1 .. MaxInstances -> Instance \union {None}] /\ instances'[i] = n
      /\ \A j \in 1 .. MaxInstances : j # i => instances'[j] = instances[j]
  BY DEF Copies
<1>2. Running' = Running \union {i}
  BY <1>1, Nothing DEF Running
<1>3. created' \in 0 .. MaxInstances /\ Running' \subseteq 1 .. created'
  BY <1>2, Nothing DEF Copies
<1>4. ASSUME NEW j \in Running', NEW k \in Running', instances'[j].party = instances'[k].party
      PROVE  j = k
  <2>1. \A l \in Running' : l \in Running \/ l = i
    BY <1>2
  <2>2. Running \subseteq 1 .. MaxInstances
    BY DEF Running
  <2>3. CASE i \in Running /\ n.party = instances[i].party
    <3>1. \A l \in Running : instances'[l].party = instances[l].party
      BY <1>1, <2>2, <2>3
    <3>2. j \in Running /\ k \in Running
      BY <2>1, <2>3
    <3> QED BY <1>4, <3>1, <3>2 DEF Copies
  <2>4. CASE \A l \in Running : instances[l].party # n.party
    BY <1>1, <1>4, <2>1, <2>2, <2>4 DEF Copies
  <2> QED BY <2>3, <2>4
<1> QED BY <1>1, <1>2, <1>3, <1>4 DEF Copies

\* A running instance is one of its kind.
LEMMA RunningFacts ==
    ASSUME Copies, NEW i \in Running
    PROVE  i \in 1 .. MaxInstances /\ i \in Nat /\ i # 0 /\ instances[i] \in Instance /\ i <= created
BY Nothing DEF Copies, Running

\* When c leaves, the instance c was in counts c no more.
LEMMA Leaves ==
    ASSUME Copies, NEW c \in Char, LeaveInstance(c), UNCHANGED created
    PROVE  /\ Copies' /\ Running' = Running
           /\ \A i \in Running : i # session[c].inst => instances'[i] = instances[i]
           /\ \A i \in Running : i = session[c].inst =>
                /\ instances'[i].members = instances[i].members
                /\ instances'[i].inside = instances[i].inside \ {c}
                /\ instances'[i].late = instances[i].late
                /\ instances'[i].emptied = (instances[i].emptied \/ instances[i].inside \subseteq {c})
<1>1. /\ DOMAIN instances' = 1 .. MaxInstances
      /\ \A i \in 1 .. MaxInstances : instances'[i] =
           IF i = session[c].inst /\ i \in Running THEN Left(instances[i], c) ELSE instances[i]
      /\ instances' = [i \in 1 .. MaxInstances |-> instances'[i]]
  BY DEF LeaveInstance
<1>2. ASSUME NEW n \in Instance
      PROVE  /\ Left(n, c) \in Instance
             /\ Left(n, c).party = n.party /\ Left(n, c).members = n.members
             /\ Left(n, c).inside = n.inside \ {c} /\ Left(n, c).late = n.late
             /\ Left(n, c).emptied = (n.emptied \/ n.inside \subseteq {c})
  <2> DEFINE e == n.emptied \/ n.inside \subseteq {c}
             u == n.inside \ {c}
  <2>1. e \in BOOLEAN /\ u \in SUBSET Char
    BY DEF Instance
  <2>2. Left(n, c) = [n EXCEPT !.inside = u, !.emptied = e]
    BY DEF Left
  <2> HIDE DEF e, u
  <2>3. [n EXCEPT !.inside = u, !.emptied = e] \in Instance
    BY <2>1 DEF Instance
  <2>4. /\ Left(n, c).party = n.party /\ Left(n, c).members = n.members
        /\ Left(n, c).inside = u /\ Left(n, c).late = n.late /\ Left(n, c).emptied = e
    BY <2>2 DEF Instance
  <2> QED BY <2>2, <2>3, <2>4 DEF e, u
<1>3. \A i \in Running : i \in 1 .. MaxInstances /\ instances[i] \in Instance
  BY RunningFacts
<1>4. \A i \in 1 .. MaxInstances : instances'[i] \in Instance \union {None}
  BY <1>1, <1>2, <1>3 DEF Copies
<1>5. Running' = Running
  BY <1>1, <1>2, <1>3, Nothing DEF Running
<1>6. \A i \in Running : instances'[i].party = instances[i].party
  BY <1>1, <1>2, <1>3
<1>7. Copies'
  BY <1>1, <1>4, <1>5, <1>6 DEF Copies
<1> QED BY <1>1, <1>2, <1>3, <1>5, <1>7

\* Who enters the dungeon: c and members of the instance, all at its entrance;
\* whoever is taken along is connected.
Enters(c, i, n, C) ==
    /\ Place(i, n, C) /\ UNCHANGED <<stored, parties>>
    /\ c \in C /\ C \subseteq n.members
    /\ \A m \in C : /\ Live(m) /\ session[m].inst = 0 /\ session[m].at = "sluice"
                    /\ m # c => session[m].connected
    /\ \/ i \in Running /\ n = instances[i] /\ UNCHANGED created
       \/ /\ i = created + 1 /\ created' = i /\ i \notin Running
          /\ n.inside = {}
          /\ \A j \in Running : instances[j].party # n.party

LEMMA Entered ==
    ASSUME Positions, Lists, Copies, NEW c \in Char, HandleDungeonEnter(c)
    PROVE  \E i \in 1 .. MaxInstances, n \in Instance, C \in SUBSET Char : Enters(c, i, n, C)
<1>1. Live(c)
  BY DEF HandleDungeonEnter, Usable
<1>2. CASE EnterInstance(c)
  <2>1. PICK i \in Running : c \in instances[i].members /\ Place(i, instances[i], Pulled(c, instances[i].members))
    BY <1>2 DEF EnterInstance
  <2> DEFINE n == instances[i]
             C == Pulled(c, n.members)
  <2>2. i \in 1 .. MaxInstances /\ n \in Instance
    BY <2>1, RunningFacts
  <2>3. C \in SUBSET Char /\ C \subseteq n.members /\ c \in C
    BY <2>1, <2>2 DEF Pulled, Instance
  <2>4. \A m \in C : Live(m) /\ session[m].inst = 0 /\ session[m].at = "sluice" /\ (m # c => session[m].connected)
    BY <1>1, <1>2 DEF Pulled, Inside, EnterInstance
  <2>5. Enters(c, i, n, C)
    BY <1>2, <2>1, <2>3, <2>4 DEF Enters, EnterInstance
  <2> HIDE DEF n, C
  <2> QED BY <2>2, <2>3, <2>5
<1>3. CASE CreateInstance(c)
  <2>1. PICK p \in PartiesOf(c) :
          /\ \A i \in Running : instances[i].party # p
          /\ Place(created', [party |-> p, members |-> Members(p), inside |-> {},
                              emptied |-> FALSE, late |-> FALSE], Pulled(c, Members(p)))
    BY <1>3 DEF CreateInstance
  <2> DEFINE n == [party |-> p, members |-> Members(p), inside |-> {}, emptied |-> FALSE, late |-> FALSE]
             C == Pulled(c, Members(p))
             i == created + 1
  <2>2. p \in 1 .. Len(parties) /\ parties[p] \in Seq(Char) /\ c \in Members(p) /\ Len(parties) \in Nat
    <3>1. p \in 1 .. Len(parties) /\ c \in Members(p)
      BY DEF PartiesOf
    <3> QED BY <3>1, ElementOfSeq, LenProperties DEF Lists
  <2>3. Members(p) \subseteq Char /\ p \in 1 .. MaxParties
    BY <2>2, ElementOfSeq, Nothing DEF Members, Ranks, Lists
  <2>4. n \in Instance
    BY <2>3 DEF Instance
  <2>5. i \in 1 .. MaxInstances /\ created' = i
    BY <1>3, Nothing DEF CreateInstance, Copies
  <2>6. C \in SUBSET Char /\ C \subseteq n.members /\ c \in C
    BY <2>2, <2>3 DEF Pulled
  <2>7. \A m \in C : Live(m) /\ session[m].inst = 0 /\ session[m].at = "sluice" /\ (m # c => session[m].connected)
    BY <1>1, <1>3 DEF Pulled, Inside, CreateInstance
  <2>8. i \notin Running
    BY <2>5 DEF Copies
  <2>9. Place(i, n, C) /\ \A j \in Running : instances[j].party # n.party
    BY <2>1, <2>5
  <2>10. n.inside = {}
    OBVIOUS
  <2>11. UNCHANGED <<stored, parties>>
    BY <1>3 DEF CreateInstance
  <2>12. Enters(c, i, n, C)
    <3> HIDE DEF n, C
    <3> QED BY <2>5, <2>6, <2>7, <2>8, <2>9, <2>10, <2>11 DEF Enters
  <2> HIDE DEF n, C, i
  <2> QED BY <2>4, <2>5, <2>6, <2>12
<1> QED BY <1>2, <1>3 DEF HandleDungeonEnter

\* What entering does to the instance.
LEMMA EnteredCopy ==
    ASSUME Copies, NEW c, NEW i \in 1 .. MaxInstances, NEW n \in Instance, NEW C \in SUBSET Char,
           Enters(c, i, n, C)
    PROVE  /\ Copies' /\ Running' = Running \union {i}
           /\ instances'[i].members = n.members /\ instances'[i].inside = n.inside \union C
           /\ instances'[i].late = n.late /\ instances'[i].emptied = n.emptied
           /\ \A j \in 1 .. MaxInstances : j # i => instances'[j] = instances[j]
<1> DEFINE u == n.inside \union C
           t == [n EXCEPT !.inside = u]
<1>1. instances' = [instances EXCEPT ![i] = t]
  BY DEF Enters, Place
<1>2. u \in SUBSET Char
  BY DEF Instance
<1>3. /\ t \in Instance /\ t.party = n.party /\ t.members = n.members
      /\ t.inside = u /\ t.late = n.late /\ t.emptied = n.emptied
  <2> HIDE DEF u
  <2> QED BY <1>2 DEF Instance
<1> HIDE DEF t
<1>4. /\ Copies' /\ Running' = Running \union {i} /\ instances'[i] = t
      /\ \A j \in 1 .. MaxInstances : j # i => instances'[j] = instances[j]
  <2>1. CASE i \in Running /\ n = instances[i] /\ UNCHANGED created
    <3>1. t.party = instances[i].party
      BY <1>3, <2>1
    <3> QED BY <1>1, <1>3, <2>1, <3>1, CopyChanged
  <2>2. CASE i = created + 1 /\ created' = i /\ \A j \in Running : instances[j].party # n.party
    <3>1. \A j \in Running : instances[j].party # t.party
      BY <1>3, <2>2
    <3> QED BY <1>1, <1>3, <2>2, <3>1, CopyChanged
  <2> QED BY <2>1, <2>2 DEF Enters
<1> QED BY <1>3, <1>4

-----------------------------------------------------------------------------
(* Every step keeps the types, the places and the way back. *)

\* The steps that concern neither parties nor instances.
Apart(c) ==
    \/ ConnectCreate(c) \/ ConnectResume(c)
    \/ \E place \in Outdoors : \/ Move(c, place) \/ HandleZoneHandoff(c, place) \/ Route(c, place)
                               \/ AdminTeleport(c, place) \/ AdminServiceTeleport(c, place)
    \/ Recall(c) \/ HandleHousingEnter(c) \/ HandleHousingLeave(c)

\* Those that change the list of a party.
Partying(c) == LeaveParty(c) \/ DisbandParty(c) \/ \E d \in Char : JoinParty(c, d)

LEMMA Steps ==
    ASSUME Next
    PROVE  \/ \E c \in Char : \/ Apart(c) \/ Partying(c) \/ Reconnect(c) \/ Disconnect(c) \/ Drop(c)
                             \/ HandleDungeonEnter(c) \/ HandleDungeonExit(c) \/ HandleDungeonReset(c)
           \/ \E i \in 1 .. MaxInstances : Lapse(i)
           \/ Restart
BY DEF Next, Apart, Partying

LEMMA ApartFacts ==
    ASSUME NEW c \in Char, Apart(c)
    PROVE  UNCHANGED <<parties, instances, created>>
<1>1. CASE \E place \in Outdoors : Move(c, place)
  BY <1>1 DEF Move
<1>2. CASE \E place \in Outdoors : HandleZoneHandoff(c, place)
  BY <1>2 DEF HandleZoneHandoff, Handoff
<1>3. CASE \E place \in Outdoors : Route(c, place)
  BY <1>3 DEF Route, PersistTravelSession
<1>4. CASE \E place \in Outdoors : AdminTeleport(c, place) \/ AdminServiceTeleport(c, place)
  BY <1>4 DEF AdminTeleport, AdminServiceTeleport
<1>5. CASE ConnectCreate(c) \/ ConnectResume(c) \/ Recall(c)
  BY <1>5 DEF ConnectCreate, ConnectResume, Recall, PersistTravelSession
<1>6. CASE HandleHousingEnter(c) \/ HandleHousingLeave(c)
  BY <1>6 DEF HandleHousingEnter, HandleHousingLeave, EnterHousing, LeaveHousing
<1> QED BY <1>1, <1>2, <1>3, <1>4, <1>5, <1>6 DEF Apart

LEMMA PartyingFacts ==
    ASSUME NEW c \in Char, Partying(c)
    PROVE  UNCHANGED <<stored, session, instances, created>>
BY DEF Partying, LeaveParty, DisbandParty, JoinParty

LEMMA ApartHandled ==
    ASSUME Positions, "teleport" \notin Races, NEW c \in Char, Apart(c)
    PROVE  Handled(c)
<1>1. CASE ConnectCreate(c) \/ ConnectResume(c)
  BY <1>1, ConnectsHandled
<1>2. CASE HandleHousingEnter(c) \/ HandleHousingLeave(c)
  BY <1>2, DoorsHandled
<1>3. CASE Recall(c)
  BY <1>3, MovesHandled DEF Outdoors
<1> QED BY <1>1, <1>2, <1>3, MovesHandled DEF Apart

LEMMA PositionsKept ==
    ASSUME Positions, Lists, Copies, "teleport" \notin Races, Next
    PROVE  Positions' /\ (Careful /\ (\A c \in Char : Kept(c)) => \A c \in Char : Kept(c)')
<1>1. ASSUME NEW c \in Char, Handled(c)
      PROVE  Positions' /\ (Careful /\ (\A d \in Char : Kept(d)) => \A d \in Char : Kept(d)')
  BY <1>1 DEF Handled, Kept, Live, Outside
<1>2. ASSUME UNCHANGED <<stored, session>>
      PROVE  Positions' /\ (Careful /\ (\A d \in Char : Kept(d)) => \A d \in Char : Kept(d)')
  BY <1>2 DEF Positions, Kept, Live, Outside, Placed
<1>3. ASSUME NEW c \in Char, Apart(c) PROVE Handled(c)
  BY <1>3, ApartHandled
<1>4. ASSUME NEW c \in Char, Reconnect(c) \/ Disconnect(c) \/ Drop(c) PROVE Handled(c)
  BY <1>4, ConnectsHandled
<1>5. ASSUME NEW c \in Char, HandleDungeonExit(c) PROVE Handled(c)
  BY <1>5, DoorsHandled
<1>6. ASSUME NEW c \in Char, HandleDungeonEnter(c)
      PROVE  Positions' /\ (Careful /\ (\A d \in Char : Kept(d)) => \A d \in Char : Kept(d)')
  <2>1. PICK i \in 1 .. MaxInstances, n \in Instance, C \in SUBSET Char : Enters(c, i, n, C)
    BY <1>6, Entered
  <2>2. Place(i, n, C)
    BY <2>1 DEF Enters
  <2>3. UNCHANGED stored
    BY <2>1 DEF Enters
  <2>4. ASSUME NEW m \in C PROVE Live(m) /\ session[m].inst = 0 /\ session[m].at = "sluice"
    BY <2>1 DEF Enters
  <2>5. Positions' /\ \A m \in Char : Kept(m) => Kept(m)'
    BY <2>2, <2>3, <2>4, PlaceHandled
  <2> QED BY <2>5
<1>7. ASSUME NEW c \in Char, Partying(c) \/ HandleDungeonReset(c) PROVE UNCHANGED <<stored, session>>
  BY <1>7, PartyingFacts DEF HandleDungeonReset, ResetDungeon
<1>8. ASSUME NEW i \in 1 .. MaxInstances, Lapse(i) PROVE UNCHANGED <<stored, session>>
  BY <1>8 DEF Lapse
<1>9. ASSUME Restart
      PROVE  Positions' /\ (Careful /\ (\A d \in Char : Kept(d)) => \A d \in Char : Kept(d)')
  BY <1>9 DEF Restart, Positions, Kept, Live
<1> QED BY <1>1, <1>2, <1>3, <1>4, <1>5, <1>6, <1>7, <1>8, <1>9, Steps

LEMMA ListsKept ==
    ASSUME Lists, Next
    PROVE  Lists'
<1>1. ASSUME UNCHANGED parties PROVE Lists'
  BY <1>1 DEF Lists, Unique, Ranks
<1>2. ASSUME NEW c \in Char, Partying(c) PROVE Lists'
  BY <1>2, PartiesKept DEF Partying
<1>3. ASSUME NEW c \in Char, Apart(c) PROVE UNCHANGED parties
  BY <1>3, ApartFacts
<1>4. ASSUME NEW c \in Char, Reconnect(c) \/ Disconnect(c) \/ Drop(c) PROVE UNCHANGED parties
  BY <1>4 DEF Reconnect, Disconnect, Drop
<1>5. ASSUME NEW c \in Char, HandleDungeonEnter(c) \/ HandleDungeonExit(c) \/ HandleDungeonReset(c)
      PROVE  UNCHANGED parties
  BY <1>5 DEF HandleDungeonEnter, EnterInstance, CreateInstance, HandleDungeonExit, ExitDungeon,
              HandleDungeonReset, ResetDungeon
<1>6. ASSUME (\E i \in 1 .. MaxInstances : Lapse(i)) \/ Restart PROVE UNCHANGED parties
  BY <1>6 DEF Lapse, Restart
<1> QED BY <1>1, <1>2, <1>3, <1>4, <1>5, <1>6, Steps

\* The instance that ends with a reset, and one whose time passes.
LEMMA ResetFacts ==
    ASSUME Copies, NEW c, HandleDungeonReset(c)
    PROVE  \E i \in Running :
             /\ Holders(i) = {}
             /\ Copies' /\ Running' = Running \ {i}
             /\ \A j \in Running : j # i => instances'[j] = instances[j]
             /\ UNCHANGED <<session, created>>
<1>1. PICK i \in Running : Holders(i) = {} /\ instances' = [instances EXCEPT ![i] = None]
  BY DEF HandleDungeonReset, ResetDungeon
<1>2. UNCHANGED <<session, created>>
  BY DEF HandleDungeonReset, ResetDungeon
<1>3. /\ instances' \in [1 .. MaxInstances -> Instance \union {None}] /\ instances'[i] = None
      /\ \A j \in Running : j # i => instances'[j] = instances[j]
  BY <1>1 DEF Copies, Running
<1>4. Running' = Running \ {i}
  BY <1>1 DEF Running, Copies
<1>5. Copies'
  BY <1>2, <1>3, <1>4 DEF Copies
<1> QED BY <1>1, <1>2, <1>3, <1>4, <1>5

LEMMA LapseFacts ==
    ASSUME Copies, NEW i \in 1 .. MaxInstances, Lapse(i)
    PROVE  /\ i \in Running /\ Copies' /\ Running' = Running
           /\ instances'[i].members = instances[i].members /\ instances'[i].inside = instances[i].inside
           /\ instances'[i].late
           /\ \A j \in Running : j # i => instances'[j] = instances[j]
           /\ UNCHANGED <<session, created>>
<1> DEFINE n == [instances[i] EXCEPT !.late = TRUE]
<1>1. i \in Running /\ instances' = [instances EXCEPT ![i] = n] /\ UNCHANGED <<session, created>>
  BY DEF Lapse
<1>2. instances[i] \in Instance
  BY <1>1, RunningFacts
<1>3. /\ n \in Instance /\ n.party = instances[i].party /\ n.members = instances[i].members
      /\ n.inside = instances[i].inside /\ n.late
  BY <1>2 DEF Instance
<1> HIDE DEF n
<1>4. /\ Copies' /\ Running' = Running \union {i} /\ instances'[i] = n
      /\ \A j \in 1 .. MaxInstances : j # i => instances'[j] = instances[j]
  BY <1>1, <1>3, CopyChanged
<1> QED BY <1>1, <1>3, <1>4 DEF Running

\* A reconnecting character is counted by its instance, or comes out of it.
LEMMA ReconnectFacts ==
    ASSUME Positions, Copies, NEW c \in Char, Reconnect(c)
    PROVE  /\ \A d \in Char \ {c} : session'[d] = session[d]
           /\ Live(c) /\ Live(c)' /\ session'[c].connected
           /\ UNCHANGED created /\ Copies' /\ Running' = Running
           /\ \/ /\ Active(session[c].inst) /\ session'[c].inst = session[c].inst
                 /\ \A i \in Running : i # session[c].inst => instances'[i] = instances[i]
                 /\ \A i \in Running : i = session[c].inst =>
                      /\ instances'[i].members = instances[i].members
                      /\ instances'[i].inside = instances[i].inside \union {c}
                      /\ instances'[i].late = instances[i].late
                      /\ instances'[i].emptied = instances[i].emptied
              \/ ~Active(session[c].inst) /\ session'[c].inst = 0 /\ UNCHANGED instances
<1> DEFINE s == [session[c] EXCEPT !.connected = TRUE]
<1>1. Live(c) /\ UNCHANGED created
  BY DEF Reconnect
<1>2. s \in Session /\ Placed(s) /\ s.connected /\ s.inst = session[c].inst /\ stored[c] \in Outdoors
  BY <1>1, LiveFacts, ConnectedFacts DEF Positions
<1>3. Out(s) \in Session /\ Placed(Out(s)) /\ Out(s).inst = 0 /\ Out(s).connected /\ ~Out(s).housed
  BY <1>2, OutFacts
<1>4. LET t == [Out(s) EXCEPT !.at = stored[c]] IN t \in Session /\ t.inst = 0 /\ t.connected
  <2> DEFINE r == Out(s)
  <2> HIDE DEF r
  <2>1. r \in Session /\ Placed(r) /\ r.inst = 0 /\ ~r.housed /\ r.connected
    BY <1>3 DEF r
  <2>2. LET t == [r EXCEPT !.at = stored[c]] IN t \in Session /\ t.inst = 0 /\ t.connected
    BY <1>2, <2>1, MovedFacts
  <2> QED BY <2>2 DEF r
<1>5. ASSUME NEW t, Put(c, t)
      PROVE  session'[c] = t /\ \A d \in Char \ {c} : session'[d] = session[d]
  BY <1>5 DEF Put, Positions
<1>6. CASE Active(s.inst)
  <2> DEFINE i == s.inst
             u == instances[i].inside \union {c}
             n == [instances[i] EXCEPT !.inside = u]
  <2>1. i \in Running /\ i \in 1 .. MaxInstances /\ instances[i] \in Instance
    BY <1>6, RunningFacts DEF Active
  <2>2. Put(c, s) /\ instances' = [instances EXCEPT ![i] = n]
    BY <1>6 DEF Reconnect
  <2>3. /\ n \in Instance /\ n.party = instances[i].party /\ n.members = instances[i].members
        /\ n.inside = u /\ n.late = instances[i].late /\ n.emptied = instances[i].emptied
    <3>1. u \in SUBSET Char
      BY <2>1 DEF Instance
    <3> HIDE DEF u
    <3> QED BY <2>1, <3>1 DEF Instance
  <2>4. session'[c] = s /\ \A d \in Char \ {c} : session'[d] = session[d]
    BY <1>5, <2>2
  <2> HIDE DEF s, i, u, n
  <2>5. /\ Copies' /\ Running' = Running \union {i} /\ instances'[i] = n
        /\ \A j \in 1 .. MaxInstances : j # i => instances'[j] = instances[j]
    BY <1>1, <2>1, <2>2, <2>3, CopyChanged
  <2>6. i = session[c].inst
    BY <1>2 DEF i
  <2>7. \A j \in Running : j \in 1 .. MaxInstances
    BY DEF Running
  <2>8. Live(c)'
    BY <1>2, <2>4, Nothing DEF Live
  <2>9. instances[i].inside \union {c} = u
    BY DEF u
  <2> QED BY <1>1, <1>2, <1>6, <2>1, <2>3, <2>4, <2>5, <2>6, <2>7, <2>8, <2>9 DEF i
<1>7. CASE ~Active(s.inst)
  <2>1. /\ Put(c, Out(s)) \/ Put(c, [Out(s) EXCEPT !.at = stored[c]])
        /\ UNCHANGED instances
    BY <1>7 DEF Reconnect
  <2> HIDE DEF s
  <2>2. /\ session'[c] \in Session /\ session'[c].inst = 0 /\ session'[c].connected
        /\ \A d \in Char \ {c} : session'[d] = session[d]
    BY <1>3, <1>4, <1>5, <2>1
  <2>3. Live(c)'
    BY <2>2, Nothing DEF Live
  <2>4. Copies' /\ Running' = Running
    BY <1>1, <2>1 DEF Copies, Running
  <2> QED BY <1>1, <1>2, <1>7, <2>1, <2>2, <2>3, <2>4
<1> QED BY <1>6, <1>7

LEMMA CopiesKept ==
    ASSUME Positions, Lists, Copies, "teleport" \notin Races, Next
    PROVE  Copies'
<1>1. ASSUME UNCHANGED <<instances, created>> PROVE Copies'
  BY <1>1 DEF Copies, Running
<1>2. ASSUME NEW c \in Char, Apart(c) \/ Partying(c) PROVE Copies'
  BY <1>1, <1>2, ApartFacts, PartyingFacts
<1>3. ASSUME NEW c \in Char, Reconnect(c) PROVE Copies'
  BY <1>3, ReconnectFacts
<1>4. ASSUME NEW c \in Char, Disconnect(c) PROVE Copies'
  <2>1. UNCHANGED created /\ (UNCHANGED instances \/ LeaveInstance(c))
    BY <1>4 DEF Disconnect
  <2> QED BY <1>1, <2>1, Leaves
<1>5. ASSUME NEW c \in Char, Drop(c) PROVE Copies'
  BY <1>1, <1>5 DEF Drop
<1>6. ASSUME NEW c \in Char, HandleDungeonEnter(c) PROVE Copies'
  <2>1. PICK i \in 1 .. MaxInstances, n \in Instance, C \in SUBSET Char : Enters(c, i, n, C)
    BY <1>6, Entered
  <2> QED BY <2>1, EnteredCopy
<1>7. ASSUME NEW c \in Char, HandleDungeonExit(c) PROVE Copies'
  BY <1>7, Leaves DEF HandleDungeonExit, ExitDungeon
<1>8. ASSUME NEW c \in Char, HandleDungeonReset(c) PROVE Copies'
  BY <1>8, ResetFacts
<1>9. ASSUME NEW i \in 1 .. MaxInstances, Lapse(i) PROVE Copies'
  BY <1>9, LapseFacts
<1>10. ASSUME Restart PROVE Copies'
  BY <1>10, Nothing DEF Restart, Copies, Running
<1> QED BY <1>2, <1>3, <1>4, <1>5, <1>6, <1>7, <1>8, <1>9, <1>10, Steps

-----------------------------------------------------------------------------
(* Counting who is inside *)

\* c's session has the instance i, connected or not.
Belongs(c, i) == Live(c) /\ session[c].inst = i

\* TheirInstances and CountedInside of one character and one instance.
Theirs(c, i) == Belongs(c, i) => i <= created /\ (i \in Running => c \in instances[i].members)
Counted(c, i) == Inside(c, i) => i \in Running /\ c \in instances[i].inside

Counts == \A c \in Char : \A i \in 1 .. MaxInstances : Theirs(c, i) /\ Counted(c, i)

LEMMA CountsFacts ==
    ASSUME Positions
    PROVE  Counts <=> TheirInstances /\ CountedInside
<1>1. \A c \in Char : Live(c) => (session[c].inst # 0 <=> session[c].inst \in 1 .. MaxInstances)
  BY Nothing DEF Positions, Live, Session
<1>2. ASSUME Counts PROVE TheirInstances /\ CountedInside
  BY <1>1, <1>2 DEF Counts, TheirInstances, CountedInside, Theirs, Counted, Belongs, Inside
<1>3. ASSUME TheirInstances, CountedInside PROVE Counts
  <2>1. \A i \in 1 .. MaxInstances : i # 0
    OBVIOUS
  <2> QED BY <1>3, <2>1 DEF Counts, TheirInstances, CountedInside, Theirs, Counted, Belongs, Inside
<1> QED BY <1>2, <1>3

\* What c's step does to c's place in the dungeon: Same, nothing; Gone, c has none.
Same(c) == \A i \in 1 .. MaxInstances : (Belongs(c, i)' <=> Belongs(c, i)) /\ (Inside(c, i)' <=> Inside(c, i))
Gone(c) == \A i \in 1 .. MaxInstances : ~Belongs(c, i)' /\ ~Inside(c, i)'

LEMMA SameFacts ==
    ASSUME NEW c \in Char, session'[c] = session[c]
    PROVE  Same(c)
BY DEF Same, Belongs, Inside, Live

LEMMA GoneFacts ==
    ASSUME NEW c \in Char, session'[c] = None \/ session'[c].inst = 0
    PROVE  Gone(c)
BY DEF Gone, Belongs, Inside, Live

\* Neither one's coming back nor a move or a visit changes who is in the dungeon.
LEMMA ApartSame ==
    ASSUME Positions, "teleport" \notin Races, "resume" \notin Races, NEW c \in Char, Apart(c)
    PROVE  \A d \in Char : Same(d)
<1>1. \A d \in Char \ {c} : Same(d)
  BY ApartHandled, SameFacts DEF Handled
<1> SUFFICES Same(c)
  BY <1>1
<1>2. ASSUME NEW s, Put(c, s) PROVE session'[c] = s
  BY <1>2 DEF Put, Positions
<1>3. ASSUME session[c] = None \/ session[c].inst = 0, session'[c].inst = 0 \/ session'[c] = session[c]
      PROVE  Same(c)
  <2>1. CASE session'[c] = session[c]
    BY <2>1, SameFacts
  <2>2. CASE session'[c].inst = 0
    BY <1>3, <2>2 DEF Same, Belongs, Inside, Live
  <2> QED BY <1>3, <2>1, <2>2
<1>4. CASE ConnectCreate(c)
  <2>1. session'[c].inst = 0 /\ session[c] = None
    BY <1>2, <1>4 DEF ConnectCreate, Live
  <2> QED BY <1>3, <2>1
<1>5. CASE ConnectResume(c)
  <2> DEFINE s == [session[c] EXCEPT !.connected = TRUE]
  <2>0. Live(c) /\ (session[c].connected \/ session[c].inst = 0)
    BY <1>5 DEF ConnectResume
  <2>1. /\ session[c] \in Session /\ Placed(session[c])
        /\ s \in Session /\ Placed(s) /\ s.inst = session[c].inst /\ s.connected /\ s.housed = session[c].housed
    BY <2>0, LiveFacts, ConnectedFacts
  <2>2. CASE s.housed
    <3>1. session[c].inst = 0
      BY <2>1, <2>2 DEF Placed
    <3>2. Out(s).inst = 0
      BY <2>1, OutFacts
    <3>3. Put(c, s) \/ Put(c, Out(s))
      BY <1>5 DEF ConnectResume
    <3> HIDE DEF s
    <3>4. session'[c].inst = 0
      BY <1>2, <2>1, <3>1, <3>2, <3>3
    <3> QED BY <1>3, <3>1, <3>4
  <2>3. CASE ~s.housed
    <3>1. Put(c, s)
      BY <1>5, <2>3 DEF ConnectResume
    <3>2. session'[c] = s /\ s # None
      BY <1>2, <2>1, <3>1, Nothing
    <3> HIDE DEF s
    <3>3. CASE session[c].inst = 0
      <4>1. session'[c].inst = 0
        BY <2>1, <3>2, <3>3
      <4> QED BY <1>3, <3>3, <4>1
    <3>4. CASE session[c].connected
      <4>1. session'[c] # None /\ session'[c].inst = session[c].inst /\ session'[c].connected
        BY <2>1, <3>2
      <4> QED BY <2>0, <3>4, <4>1 DEF Same, Belongs, Inside, Live
    <3> QED BY <2>0, <3>3, <3>4
  <2> QED BY <2>2, <2>3
<1>6. ASSUME NEW place, Live(c), TransportAllowed(c), Put(c, [session[c] EXCEPT !.at = place])
      PROVE  Same(c)
  <2>1. session[c] \in Session /\ session[c].inst = 0
    BY <1>6, LiveFacts DEF TransportAllowed
  <2>2. [session[c] EXCEPT !.at = place].inst = 0
    BY <2>1 DEF Session
  <2> QED BY <1>2, <1>3, <1>6, <2>1, <2>2
<1>7. ASSUME NEW place \in Outdoors, Move(c, place) PROVE Same(c)
  <2>1. Live(c) /\ session[c].at \in Outdoors
    BY <1>7 DEF Move, Usable, Outdoors
  <2>2. TransportAllowed(c)
    BY <2>1, LiveFacts DEF TransportAllowed, Placed, Outdoors, Brindlebrook
  <2>3. Put(c, [session[c] EXCEPT !.at = place])
    BY <1>7 DEF Move
  <2> QED BY <1>6, <2>1, <2>2, <2>3
<1>8. ASSUME NEW place \in Outdoors, HandleZoneHandoff(c, place) PROVE Same(c)
  <2>1. CASE UNCHANGED session
    BY <2>1, SameFacts
  <2>2. CASE Put(c, [session[c] EXCEPT !.at = place])
    BY <1>6, <1>8, <2>2 DEF HandleZoneHandoff, Handoff
  <2> QED BY <1>8, <2>1, <2>2 DEF HandleZoneHandoff, Handoff
<1>9. ASSUME NEW place, Usable(c), TransportAllowed(c), PersistTravelSession(c, place) PROVE Same(c)
  BY <1>6, <1>9 DEF Usable, PersistTravelSession
<1>14. CASE Recall(c)
  BY <1>9, <1>14 DEF Recall
<1>15. ASSUME NEW place \in Outdoors, Route(c, place) PROVE Same(c)
  BY <1>9, <1>15 DEF Route
<1>10. ASSUME NEW place \in Outdoors, AdminTeleport(c, place) PROVE Same(c)
  <2>1. CASE ~Live(c)
    BY <1>10, <2>1, SameFacts DEF AdminTeleport
  <2>2. CASE Live(c)
    <3>1. session' = [session EXCEPT ![c].at = place, ![c].connected = TRUE] /\ TransportAllowed(c)
      BY <1>10, <2>2 DEF AdminTeleport
    <3>2. session[c] \in Session /\ session[c].inst = 0
      BY <2>2, <3>1, LiveFacts DEF TransportAllowed
    <3>3. session'[c].inst = 0
      BY <3>1, <3>2 DEF Positions, Session
    <3> QED BY <1>3, <3>2, <3>3
  <2> QED BY <2>1, <2>2
<1>11. ASSUME NEW place \in Outdoors, AdminServiceTeleport(c, place) PROVE Same(c)
  BY <1>11, SameFacts DEF AdminServiceTeleport
<1>12. CASE HandleHousingEnter(c)
  <2>1. Live(c) /\ session[c].inst = 0
    BY <1>12 DEF HandleHousingEnter, EnterHousing, TransportAllowed, Usable
  <2>2. [session[c] EXCEPT !.housed = TRUE, !.at = "room", !.ret = "hall"].inst = 0
    BY <2>1, LiveFacts DEF Session
  <2>3. UNCHANGED session \/ Put(c, [session[c] EXCEPT !.housed = TRUE, !.at = "room", !.ret = "hall"])
    BY <1>12 DEF HandleHousingEnter, EnterHousing
  <2>4. session'[c].inst = 0 \/ session'[c] = session[c]
    BY <1>2, <2>2, <2>3
  <2> QED BY <1>3, <2>1, <2>4
<1>13. CASE HandleHousingLeave(c)
  <2>1. Live(c) /\ session[c].housed
    BY <1>13 DEF HandleHousingLeave, Usable
  <2>2. session[c].inst = 0 /\ Out(session[c]).inst = 0
    BY <2>1, LiveFacts, OutFacts DEF Placed
  <2>3. UNCHANGED session \/ Put(c, Out(session[c]))
    BY <1>13 DEF HandleHousingLeave, LeaveHousing
  <2>4. session'[c].inst = 0 \/ session'[c] = session[c]
    BY <1>2, <2>2, <2>3
  <2> QED BY <1>3, <2>2, <2>4
<1> QED BY <1>4, <1>5, <1>7, <1>8, <1>10, <1>11, <1>12, <1>13, <1>14, <1>15 DEF Apart

\* Disconnecting, dropping and leaving the dungeon.
LEMMA DisconnectFacts ==
    ASSUME Positions, NEW c \in Char, Disconnect(c)
    PROVE  /\ \A d \in Char \ {c} : session'[d] = session[d]
           /\ UNCHANGED created /\ Live(c)
           /\ \A i \in 1 .. MaxInstances : ~Inside(c, i)' /\ (Belongs(c, i)' => Belongs(c, i))
           /\ \/ session[c].inst = 0 /\ UNCHANGED instances
              \/ LeaveInstance(c)
<1> DEFINE s == [session[c] EXCEPT !.connected = FALSE]
<1>1. Live(c) /\ UNCHANGED created /\ (Put(c, s) \/ Put(c, Out(s)))
  BY DEF Disconnect
<1>2. /\ s \in Session /\ Placed(s) /\ ~s.connected /\ s.inst = session[c].inst
      /\ s.housed = session[c].housed
  BY <1>1, LiveFacts, ConnectedFacts
<1>3. Out(s).inst = 0
  BY <1>2, OutFacts
<1>4. \/ session[c].inst = 0 /\ UNCHANGED instances
      \/ LeaveInstance(c)
  BY <1>2 DEF Disconnect, Placed
<1> HIDE DEF s
<1>5. session'[c] = s \/ session'[c] = Out(s)
  BY <1>1 DEF Put, Positions
<1>6. \A d \in Char \ {c} : session'[d] = session[d]
  BY <1>1 DEF Put, Positions
<1>7. ASSUME NEW i \in 1 .. MaxInstances PROVE ~Inside(c, i)' /\ (Belongs(c, i)' => Belongs(c, i))
  BY <1>1, <1>2, <1>3, <1>5 DEF Inside, Belongs, Live
<1> QED BY <1>1, <1>4, <1>6, <1>7

LEMMA ExitFacts ==
    ASSUME Positions, NEW c \in Char, HandleDungeonExit(c)
    PROVE  /\ \A d \in Char \ {c} : session'[d] = session[d]
           /\ Gone(c) /\ UNCHANGED created /\ LeaveInstance(c)
<1>1. Live(c) /\ Put(c, Out(session[c])) /\ UNCHANGED created /\ LeaveInstance(c)
  BY DEF HandleDungeonExit, ExitDungeon, Usable
<1>2. Out(session[c]).inst = 0
  BY <1>1, LiveFacts, OutFacts
<1>3. session'[c] = Out(session[c]) /\ \A d \in Char \ {c} : session'[d] = session[d]
  BY <1>1 DEF Put, Positions
<1> QED BY <1>1, <1>2, <1>3, GoneFacts

LEMMA DropFacts ==
    ASSUME Positions, NEW c \in Char, Drop(c)
    PROVE  /\ \A d \in Char \ {c} : session'[d] = session[d]
           /\ Gone(c) /\ UNCHANGED <<instances, created>>
<1>1. session'[c] = None /\ \A d \in Char \ {c} : session'[d] = session[d]
  BY DEF Drop, Put, Positions
<1> QED BY <1>1, GoneFacts DEF Drop

\* Who enters belonged to no instance before and belongs to this one now.
LEMMA EnterFacts ==
    ASSUME Positions, NEW c \in Char, NEW i \in 1 .. MaxInstances, NEW n \in Instance,
           NEW C \in SUBSET Char, Enters(c, i, n, C)
    PROVE  /\ \A d \in Char \ C : Same(d)
           /\ \A d \in C : \A j \in 1 .. MaxInstances :
                /\ ~Belongs(d, j) /\ ~Inside(d, j)
                /\ Belongs(d, j)' <=> j = i
                /\ Inside(d, j)' <=> j = i /\ session[d].connected
<1>1. Place(i, n, C)
  BY DEF Enters
<1>2. UNCHANGED stored
  BY DEF Enters
<1>3. \A m \in C : Live(m) /\ session[m].inst = 0 /\ session[m].at = "sluice"
  BY DEF Enters
<1>4. /\ \A m \in Char \ C : session'[m] = session[m]
      /\ \A m \in C : /\ Live(m)' /\ session'[m].inst = i
                      /\ session'[m].connected = session[m].connected
  BY <1>1, <1>2, <1>3, PlaceHandled
<1>5. \A d \in Char \ C : Same(d)
  BY <1>4, SameFacts
<1>6. ASSUME NEW d \in C, NEW j \in 1 .. MaxInstances
      PROVE  /\ ~Belongs(d, j) /\ ~Inside(d, j)
             /\ Belongs(d, j)' <=> j = i
             /\ Inside(d, j)' <=> j = i /\ session[d].connected
  <2>1. ~Belongs(d, j) /\ ~Inside(d, j)
    BY <1>3 DEF Belongs, Inside
  <2>2. Belongs(d, j)' <=> j = i
    BY <1>4 DEF Belongs
  <2>3. Inside(d, j)' <=> j = i /\ session[d].connected
    BY <1>4 DEF Inside
  <2> QED BY <2>1, <2>2, <2>3
<1> QED BY <1>5, <1>6

\* A character that does not enter stays counted by an instance that does not
\* stop counting it.
LEMMA CountStays ==
    ASSUME Copies, Copies', Counts, created <= created', NEW c \in Char, NEW i \in 1 .. MaxInstances,
           Belongs(c, i)' => Belongs(c, i),
           Inside(c, i)' => Inside(c, i),
           i \in Running' /\ i <= created => i \in Running /\ instances'[i].members = instances[i].members,
           Inside(c, i)' /\ i \in Running /\ c \in instances[i].inside
             => i \in Running' /\ c \in instances'[i].inside
    PROVE  Theirs(c, i)' /\ Counted(c, i)'
<1>1. created \in Nat /\ created' \in Nat /\ i \in Nat
  BY Nothing DEF Copies
<1>2. Theirs(c, i) /\ Counted(c, i)
  BY DEF Counts
<1>3. Theirs(c, i)'
  BY <1>1, <1>2 DEF Theirs
<1>4. Counted(c, i)'
  BY <1>2 DEF Counted
<1> QED BY <1>3, <1>4

LEMMA CountsKept ==
    ASSUME Positions, Lists, Copies, Counts, "teleport" \notin Races, "resume" \notin Races, Next
    PROVE  Counts'
<1>0. Copies' /\ created \in Nat /\ Running \subseteq 1 .. MaxInstances
  BY CopiesKept, Nothing DEF Copies, Running
<1>1. ASSUME \A c \in Char : Same(c) \/ Gone(c), UNCHANGED <<instances, created>> PROVE Counts'
  <2> SUFFICES ASSUME NEW c \in Char, NEW i \in 1 .. MaxInstances
               PROVE  Theirs(c, i)' /\ Counted(c, i)'
    BY DEF Counts
  <2>1. Running' = Running /\ instances' = instances /\ created <= created'
    BY <1>0, <1>1 DEF Running
  <2>2. (Belongs(c, i)' => Belongs(c, i)) /\ (Inside(c, i)' => Inside(c, i))
    BY <1>1 DEF Same, Gone
  <2> QED BY <1>0, <2>1, <2>2, CountStays
<1>2. ASSUME NEW c \in Char, LeaveInstance(c), UNCHANGED created,
             \A d \in Char \ {c} : Same(d),
             \A i \in 1 .. MaxInstances : ~Inside(c, i)' /\ (Belongs(c, i)' => Belongs(c, i))
      PROVE  Counts'
  <2> SUFFICES ASSUME NEW d \in Char, NEW i \in 1 .. MaxInstances
               PROVE  Theirs(d, i)' /\ Counted(d, i)'
    BY DEF Counts
  <2>1. Running' = Running /\ created <= created'
    BY <1>0, <1>2, Leaves
  <2>2. (Belongs(d, i)' => Belongs(d, i)) /\ (Inside(d, i)' => Inside(d, i) /\ d # c)
    BY <1>2 DEF Same
  <2>3. i \in Running => /\ instances'[i].members = instances[i].members
                         /\ d # c /\ d \in instances[i].inside => d \in instances'[i].inside
    BY <1>2, Leaves
  <2> QED BY <1>0, <2>1, <2>2, <2>3, CountStays
<1>3. ASSUME NEW c \in Char, Apart(c) PROVE Counts'
  BY <1>1, <1>3, ApartFacts, ApartSame
<1>4. ASSUME NEW c \in Char, Partying(c) PROVE Counts'
  BY <1>1, <1>4, PartyingFacts, SameFacts
<1>5. ASSUME NEW c \in Char, Drop(c) PROVE Counts'
  BY <1>1, <1>5, DropFacts, SameFacts
<1>6. ASSUME NEW c \in Char, Disconnect(c) PROVE Counts'
  <2>1. /\ \A d \in Char \ {c} : Same(d)
        /\ UNCHANGED created
        /\ \A i \in 1 .. MaxInstances : ~Inside(c, i)' /\ (Belongs(c, i)' => Belongs(c, i))
    BY <1>6, DisconnectFacts, SameFacts
  <2>2. CASE LeaveInstance(c)
    BY <1>2, <2>1, <2>2
  <2>3. CASE session[c].inst = 0 /\ UNCHANGED instances
    <3>1. \A i \in 1 .. MaxInstances : ~Belongs(c, i)
      BY <2>3 DEF Belongs
    <3>2. Gone(c)
      BY <2>1, <3>1 DEF Gone
    <3> QED BY <1>1, <2>1, <2>3, <3>2
  <2> QED BY <1>6, <2>2, <2>3, DisconnectFacts
<1>7. ASSUME NEW c \in Char, HandleDungeonExit(c) PROVE Counts'
  <2>1. /\ \A d \in Char \ {c} : Same(d)
        /\ UNCHANGED created /\ LeaveInstance(c)
        /\ \A i \in 1 .. MaxInstances : ~Inside(c, i)' /\ ~Belongs(c, i)'
    BY <1>7, ExitFacts, SameFacts DEF Gone
  <2> QED BY <1>2, <2>1
<1>8. ASSUME NEW c \in Char, Reconnect(c) PROVE Counts'
  <2>1. \A d \in Char \ {c} : Same(d)
    BY <1>8, ReconnectFacts, SameFacts
  <2>2. CASE session'[c].inst = 0 /\ UNCHANGED instances
    <3>1. Gone(c) /\ UNCHANGED created
      BY <1>8, <2>2, ReconnectFacts, GoneFacts
    <3> QED BY <1>1, <2>1, <2>2, <3>1
  <2>3. CASE /\ Active(session[c].inst) /\ session'[c].inst = session[c].inst
             /\ \A i \in Running : i # session[c].inst => instances'[i] = instances[i]
             /\ \A i \in Running : i = session[c].inst =>
                  /\ instances'[i].members = instances[i].members
                  /\ instances'[i].inside = instances[i].inside \union {c}
    <3>1. Running' = Running /\ created' = created /\ created <= created' /\ Live(c) /\ Live(c)'
      BY <1>0, <1>8, ReconnectFacts
    <3> SUFFICES ASSUME NEW d \in Char, NEW i \in 1 .. MaxInstances
                 PROVE  Theirs(d, i)' /\ Counted(d, i)'
      BY DEF Counts
    <3>2. i \in Running => /\ instances'[i].members = instances[i].members
                           /\ d \in instances[i].inside => d \in instances'[i].inside
      BY <2>3
    <3>3. CASE d # c
      <4>1. Same(d)
        BY <2>1, <3>3
      <4>2. (Belongs(d, i)' => Belongs(d, i)) /\ (Inside(d, i)' => Inside(d, i))
        BY <4>1 DEF Same
      <4> QED BY <1>0, <3>1, <3>2, <4>2, CountStays
    <3>4. CASE d = c
      <4>1. Belongs(c, i)' <=> Belongs(c, i)
        BY <2>3, <3>1 DEF Belongs
      <4>2. Theirs(c, i)'
        <5>1. Theirs(c, i)
          BY DEF Counts
        <5> QED BY <3>1, <3>2, <4>1, <5>1 DEF Theirs
      <4>3. Counted(c, i)'
        <5>1. ASSUME Inside(c, i)' PROVE i \in Running /\ c \in instances'[i].inside
          <6>1. i = session[c].inst /\ i \in Running
            BY <2>3, <5>1 DEF Inside, Active
          <6> QED BY <2>3, <6>1
        <5> QED BY <3>1, <5>1 DEF Counted
      <4> QED BY <3>4, <4>2, <4>3
    <3> QED BY <3>3, <3>4
  <2> QED BY <1>8, <2>2, <2>3, ReconnectFacts
<1>9. ASSUME NEW c \in Char, HandleDungeonEnter(c) PROVE Counts'
  <2>1. PICK k \in 1 .. MaxInstances, n \in Instance, C \in SUBSET Char : Enters(c, k, n, C)
    BY <1>9, Entered
  <2>2. /\ Running' = Running \union {k}
        /\ instances'[k].members = n.members /\ instances'[k].inside = n.inside \union C
        /\ \A j \in 1 .. MaxInstances : j # k => instances'[j] = instances[j]
    BY <2>1, EnteredCopy
  <2>3. k <= created' /\ created <= created'
    <3>1. created' \in Nat /\ k \in Running' /\ Running' \subseteq 1 .. created'
      BY <1>0, <2>2, Nothing DEF Copies
    <3>2. created' = created \/ created' = created + 1
      BY <2>1 DEF Enters
    <3> QED BY <1>0, <3>1, <3>2
  <2>4. C \subseteq n.members
    BY <2>1 DEF Enters
  <2>5. (k \in Running /\ n = instances[k]) \/ ~(k <= created)
    BY <1>0, <2>1 DEF Enters
  <2> SUFFICES ASSUME NEW d \in Char, NEW i \in 1 .. MaxInstances
               PROVE  Theirs(d, i)' /\ Counted(d, i)'
    BY DEF Counts
  <2>6. CASE d \in C
    <3>1. (Belongs(d, i)' => i = k) /\ (Inside(d, i)' => i = k)
      BY <2>1, <2>6, EnterFacts
    <3>2. k \in Running' /\ d \in instances'[k].inside /\ d \in instances'[k].members
      BY <2>2, <2>4, <2>6
    <3> QED BY <2>3, <3>1, <3>2 DEF Theirs, Counted
  <2>7. CASE d \notin C
    <3>1. Same(d)
      BY <2>1, <2>7, EnterFacts
    <3>2. (Belongs(d, i)' => Belongs(d, i)) /\ (Inside(d, i)' => Inside(d, i))
      BY <3>1 DEF Same
    <3>3. i \in Running' /\ i <= created => i \in Running /\ instances'[i].members = instances[i].members
      BY <2>2, <2>5
    <3>4. i \in Running /\ d \in instances[i].inside => i \in Running' /\ d \in instances'[i].inside
      <4>1. i \in Running => i \in Running' /\ i <= created
        BY <2>2, RunningFacts
      <4> QED BY <2>2, <2>5, <4>1
    <3> QED BY <1>0, <2>3, <3>2, <3>3, <3>4, CountStays
  <2> QED BY <2>6, <2>7
<1>10. ASSUME NEW c \in Char, HandleDungeonReset(c) PROVE Counts'
  <2>1. PICK k \in Running :
             /\ Holders(k) = {}
             /\ Running' = Running \ {k}
             /\ \A j \in Running : j # k => instances'[j] = instances[j]
             /\ UNCHANGED <<session, created>>
    BY <1>10, ResetFacts
  <2> SUFFICES ASSUME NEW d \in Char, NEW i \in 1 .. MaxInstances
               PROVE  Theirs(d, i)' /\ Counted(d, i)'
    BY DEF Counts
  <2>2. (Belongs(d, i)' <=> Belongs(d, i)) /\ (Inside(d, i)' <=> Inside(d, i))
    BY <2>1, SameFacts DEF Same
  <2>3. ~Inside(d, k)
    <3>1. Theirs(d, k) /\ k \in 1 .. MaxInstances
      BY <1>0 DEF Counts
    <3> QED BY <2>1, <3>1 DEF Theirs, Holders, Inside, Belongs
  <2>4. created <= created'
    BY <1>0, <2>1
  <2>5. i \in Running' => i \in Running /\ instances'[i] = instances[i]
    BY <2>1
  <2>6. i \in Running /\ i # k => i \in Running' /\ instances'[i] = instances[i]
    BY <2>1
  <2> QED BY <1>0, <2>2, <2>3, <2>4, <2>5, <2>6, CountStays
<1>11. ASSUME NEW k \in 1 .. MaxInstances, Lapse(k) PROVE Counts'
  <2>0. UNCHANGED <<session, created>> /\ Running' = Running
    BY <1>11, LapseFacts
  <2>1. /\ created <= created'
        /\ \A i \in Running : /\ instances'[i].members = instances[i].members
                             /\ instances'[i].inside = instances[i].inside
        /\ \A d \in Char : Same(d)
    <3>1. \A i \in Running : i = k \/ instances'[i] = instances[i]
      BY <1>11, LapseFacts
    <3>2. instances'[k].members = instances[k].members /\ instances'[k].inside = instances[k].inside
      BY <1>11, LapseFacts
    <3>3. \A d \in Char : Same(d)
      BY <2>0, SameFacts
    <3> QED BY <1>0, <2>0, <3>1, <3>2, <3>3
  <2> SUFFICES ASSUME NEW d \in Char, NEW i \in 1 .. MaxInstances
               PROVE  Theirs(d, i)' /\ Counted(d, i)'
    BY DEF Counts
  <2>2. (Belongs(d, i)' => Belongs(d, i)) /\ (Inside(d, i)' => Inside(d, i))
    BY <2>1 DEF Same
  <2> QED BY <1>0, <2>0, <2>1, <2>2, CountStays
<1>12. ASSUME Restart PROVE Counts'
  <2>1. \A c \in Char : session'[c] = None
    BY <1>12 DEF Restart
  <2>2. \A c \in Char : Gone(c)
    BY <2>1, GoneFacts
  <2> QED BY <2>2 DEF Gone, Counts, Theirs, Counted
<1> QED BY <1>3, <1>4, <1>5, <1>6, <1>7, <1>8, <1>9, <1>10, <1>11, <1>12, Steps

\* NobodyElseInside and EmptyInstanceExpires of one instance.
Exact(i) == ~instances[i].late => \A c \in instances[i].inside : Inside(c, i)
Expires(i) == (\A c \in Char : ~Inside(c, i)) => instances[i].emptied \/ instances[i].late

Empties == \A i \in Running : Exact(i) /\ Expires(i)

\* So far as an instance does not change, nor who is in it, neither do they.
LEMMA EmptyStays ==
    ASSUME Copies, Empties, NEW i \in Running, instances'[i] = instances[i],
           \A c \in Char : Inside(c, i)' <=> Inside(c, i)
    PROVE  Exact(i)' /\ Expires(i)'
<1>1. instances[i].inside \subseteq Char
  BY RunningFacts DEF Instance
<1>2. Exact(i) /\ Expires(i)
  BY DEF Empties
<1>3. Exact(i)'
  BY <1>1, <1>2 DEF Exact
<1>4. Expires(i)'
  BY <1>2 DEF Expires
<1> QED BY <1>3, <1>4

LEMMA EmptiesKept ==
    ASSUME Positions, Lists, Copies, Counts, Empties,
           "teleport" \notin Races, "resume" \notin Races, "drop" \notin Races, "offline" \notin Races, Next
    PROVE  Empties'
<1>0. Copies' /\ \A i \in Running : i \in 1 .. MaxInstances /\ instances[i].inside \subseteq Char
  BY CopiesKept, RunningFacts DEF Instance
<1>1. ASSUME UNCHANGED instances, \A c \in Char : Same(c) PROVE Empties'
  <2> SUFFICES ASSUME NEW i \in Running PROVE Exact(i)' /\ Expires(i)'
    BY <1>1 DEF Empties, Running
  <2>1. \A c \in Char : Inside(c, i)' <=> Inside(c, i)
    BY <1>0, <1>1 DEF Same
  <2>2. instances'[i] = instances[i]
    BY <1>1
  <2> QED BY <2>1, <2>2, EmptyStays
\* Whoever leaves an instance is the last to be counted, or not.
<1>2. ASSUME NEW c \in Char, LeaveInstance(c), UNCHANGED created, Live(c),
             \A d \in Char \ {c} : Same(d),
             \A i \in 1 .. MaxInstances : ~Inside(c, i)'
      PROVE  Empties'
  <2>1. Running' = Running
    BY <1>2, Leaves
  <2> SUFFICES ASSUME NEW i \in Running PROVE Exact(i)' /\ Expires(i)'
    BY <2>1 DEF Empties
  <2>2. \A d \in Char \ {c} : Inside(d, i)' <=> Inside(d, i)
    BY <1>0, <1>2 DEF Same
  <2>3. Exact(i) /\ Expires(i)
    BY DEF Empties
  <2>4. CASE i # session[c].inst
    <3>1. ~Inside(c, i) /\ ~Inside(c, i)'
      BY <1>0, <1>2, <2>4 DEF Inside
    <3>2. instances'[i] = instances[i]
      BY <1>2, <2>4, Leaves
    <3>3. \A d \in Char : Inside(d, i)' <=> Inside(d, i)
      BY <2>2, <3>1
    <3> QED BY <3>2, <3>3, EmptyStays
  <2>5. CASE i = session[c].inst
    <3>1. /\ instances'[i].inside = instances[i].inside \ {c}
          /\ instances'[i].late = instances[i].late
          /\ instances'[i].emptied = (instances[i].emptied \/ instances[i].inside \subseteq {c})
      BY <1>2, <2>5, Leaves
    <3>2. Exact(i)'
      BY <1>0, <2>2, <2>3, <3>1 DEF Exact
    <3>3. ASSUME \A d \in Char : ~Inside(d, i)', ~instances'[i].late PROVE instances'[i].emptied
      <4>1. \A d \in Char \ {c} : ~Inside(d, i)
        BY <2>2, <3>3
      <4>2. \A d \in instances[i].inside : Inside(d, i)
        BY <2>3, <3>1, <3>3 DEF Exact
      <4>3. instances[i].inside \subseteq {c}
        BY <1>0, <4>1, <4>2
      <4> QED BY <3>1, <4>3
    <3> QED BY <3>2, <3>3 DEF Expires
  <2> QED BY <2>4, <2>5
<1>3. ASSUME NEW c \in Char, Apart(c) PROVE Empties'
  BY <1>1, <1>3, ApartFacts, ApartSame
<1>4. ASSUME NEW c \in Char, Partying(c) PROVE Empties'
  BY <1>1, <1>4, PartyingFacts, SameFacts
<1>5. ASSUME NEW c \in Char, Drop(c) PROVE Empties'
  <2>1. UNCHANGED instances /\ \A i \in Running : c \notin instances[i].inside
    BY <1>5 DEF Drop
  <2> SUFFICES ASSUME NEW i \in Running PROVE Exact(i)' /\ Expires(i)'
    BY <2>1 DEF Empties, Running
  <2>2. ~Inside(c, i)
    BY <1>0, <2>1 DEF Counts, Counted
  <2>3. ~Inside(c, i)' /\ \A d \in Char \ {c} : Inside(d, i)' <=> Inside(d, i)
    BY <1>0, <1>5, DropFacts, SameFacts DEF Gone, Same
  <2>4. \A d \in Char : Inside(d, i)' <=> Inside(d, i)
    BY <2>2, <2>3
  <2> QED BY <2>1, <2>4, EmptyStays
<1>6. ASSUME NEW c \in Char, Disconnect(c) PROVE Empties'
  <2>1. /\ \A d \in Char \ {c} : Same(d)
        /\ UNCHANGED created /\ Live(c)
        /\ \A i \in 1 .. MaxInstances : ~Inside(c, i)' /\ (Belongs(c, i)' => Belongs(c, i))
    BY <1>6, DisconnectFacts, SameFacts
  <2>2. CASE LeaveInstance(c)
    BY <1>2, <2>1, <2>2
  <2>3. CASE session[c].inst = 0 /\ UNCHANGED instances
    <3>1. \A i \in 1 .. MaxInstances : ~Belongs(c, i) /\ ~Inside(c, i)
      BY <2>3 DEF Belongs, Inside
    <3>2. Same(c)
      BY <2>1, <3>1 DEF Same
    <3> QED BY <1>1, <2>1, <2>3, <3>2
  <2> QED BY <1>6, <2>2, <2>3, DisconnectFacts
<1>7. ASSUME NEW c \in Char, HandleDungeonExit(c) PROVE Empties'
  <2>1. /\ \A d \in Char \ {c} : Same(d)
        /\ UNCHANGED created /\ LeaveInstance(c)
        /\ \A i \in 1 .. MaxInstances : ~Inside(c, i)'
    BY <1>7, ExitFacts, SameFacts DEF Gone
  <2>2. Live(c)
    BY <1>7 DEF HandleDungeonExit, Usable
  <2> QED BY <1>2, <2>1, <2>2
\* An instance a character does not return to is past its expiry.
<1>8. ASSUME NEW c \in Char, Reconnect(c) PROVE Empties'
  <2>1. (\A d \in Char \ {c} : Same(d)) /\ Running' = Running /\ Live(c) /\ Live(c)' /\ session'[c].connected
    BY <1>8, ReconnectFacts, SameFacts
  <2> SUFFICES ASSUME NEW i \in Running PROVE Exact(i)' /\ Expires(i)'
    BY <2>1 DEF Empties
  <2>2. (\A d \in Char \ {c} : Inside(d, i)' <=> Inside(d, i)) /\ i # 0
    BY <1>0, <2>1, RunningFacts DEF Same
  <2>3. Exact(i) /\ Expires(i)
    BY DEF Empties
  <2>4. CASE ~Active(session[c].inst) /\ session'[c].inst = 0 /\ UNCHANGED instances
    <3>1. CASE Inside(c, i)
      <4>1. instances'[i].late
        BY <2>4, <3>1 DEF Inside, Active
      <4> QED BY <4>1 DEF Exact, Expires
    <3>2. CASE ~Inside(c, i)
      <4>1. ~Inside(c, i)'
        BY <2>2, <2>4 DEF Inside
      <4>2. \A d \in Char : Inside(d, i)' <=> Inside(d, i)
        BY <2>2, <3>2, <4>1
      <4>3. instances'[i] = instances[i]
        BY <2>4
      <4> QED BY <4>2, <4>3, EmptyStays
    <3> QED BY <3>1, <3>2
  <2>5. CASE /\ Active(session[c].inst) /\ session'[c].inst = session[c].inst
             /\ \A j \in Running : j # session[c].inst => instances'[j] = instances[j]
             /\ \A j \in Running : j = session[c].inst =>
                  /\ instances'[j].inside = instances[j].inside \union {c}
                  /\ instances'[j].late = instances[j].late
    <3>1. Inside(c, i)' <=> i = session[c].inst
      BY <2>1, <2>5 DEF Inside
    <3>2. CASE i = session[c].inst
      <4>1. Inside(c, i)'
        BY <3>1, <3>2
      <4>2. Expires(i)'
        BY <4>1 DEF Expires
      <4>3. Exact(i)'
        BY <1>0, <2>2, <2>3, <2>5, <3>2, <4>1 DEF Exact
      <4> QED BY <4>2, <4>3
    <3>3. CASE i # session[c].inst
      <4>1. ~Inside(c, i) /\ instances'[i] = instances[i]
        BY <2>5, <3>3 DEF Inside
      <4>2. \A d \in Char : Inside(d, i)' <=> Inside(d, i)
        BY <2>2, <3>1, <3>3, <4>1
      <4> QED BY <4>1, <4>2, EmptyStays
    <3> QED BY <3>2, <3>3
  <2> QED BY <1>8, <2>4, <2>5, ReconnectFacts
<1>9. ASSUME NEW c \in Char, HandleDungeonEnter(c) PROVE Empties'
  <2>1. PICK k \in 1 .. MaxInstances, n \in Instance, C \in SUBSET Char : Enters(c, k, n, C)
    BY <1>9, Entered
  <2>2. /\ Running' = Running \union {k}
        /\ instances'[k].inside = n.inside \union C /\ instances'[k].late = n.late
        /\ \A j \in 1 .. MaxInstances : j # k => instances'[j] = instances[j]
    BY <2>1, EnteredCopy
  <2>3. /\ \A d \in Char \ C : Same(d)
        /\ \A d \in C : \A j \in 1 .. MaxInstances :
             ~Inside(d, j) /\ (Inside(d, j)' <=> j = k /\ session[d].connected)
    BY <2>1, EnterFacts
  <2>4. \A d \in C : session[d].connected
    <3>1. session[c].connected
      BY <1>9 DEF HandleDungeonEnter, Usable
    <3>2. \A d \in C : d # c => session[d].connected
      BY <2>1 DEF Enters
    <3> QED BY <3>1, <3>2
  <2>5. c \in C
    BY <2>1 DEF Enters
  <2> SUFFICES ASSUME NEW i \in Running' PROVE Exact(i)' /\ Expires(i)'
    BY DEF Empties
  <2>6. CASE i # k
    <3>1. i \in Running /\ i \in 1 .. MaxInstances /\ instances'[i] = instances[i]
      BY <1>0, <2>2, <2>6
    <3>2. ASSUME NEW d \in Char PROVE Inside(d, i)' <=> Inside(d, i)
      BY <2>3, <2>6, <3>1 DEF Same
    <3> QED BY <3>1, <3>2, EmptyStays
  <2>7. CASE i = k
    <3>1. \A d \in C : Inside(d, k)'
      BY <2>3, <2>4
    <3>2. Expires(k)'
      BY <2>5, <3>1 DEF Expires
    <3>3. ASSUME ~instances'[k].late, NEW d \in n.inside PROVE Inside(d, k)'
      <4>1. k \in Running /\ n = instances[k]
        BY <2>1, <3>3 DEF Enters
      <4>2. Inside(d, k) /\ d \in Char
        BY <1>0, <2>2, <3>3, <4>1 DEF Empties, Exact
      <4>3. d \notin C
        BY <2>3, <4>2
      <4> QED BY <2>3, <4>2, <4>3 DEF Same
    <3>4. Exact(k)'
      BY <2>2, <3>1, <3>3 DEF Exact
    <3> QED BY <2>7, <3>2, <3>4
  <2> QED BY <2>6, <2>7
<1>10. ASSUME NEW c \in Char, HandleDungeonReset(c) PROVE Empties'
  <2>1. PICK k \in Running :
             /\ Running' = Running \ {k}
             /\ \A j \in Running : j # k => instances'[j] = instances[j]
             /\ UNCHANGED session
    BY <1>10, ResetFacts
  <2> SUFFICES ASSUME NEW i \in Running' PROVE Exact(i)' /\ Expires(i)'
    BY DEF Empties
  <2>2. i \in Running /\ instances'[i] = instances[i]
    BY <2>1
  <2>3. \A d \in Char : Inside(d, i)' <=> Inside(d, i)
    BY <1>0, <2>1, <2>2, SameFacts DEF Same
  <2> QED BY <2>2, <2>3, EmptyStays
<1>11. ASSUME NEW k \in 1 .. MaxInstances, Lapse(k) PROVE Empties'
  <2>1. /\ Running' = Running /\ instances'[k].late /\ UNCHANGED session
        /\ \A j \in Running : j # k => instances'[j] = instances[j]
    BY <1>11, LapseFacts
  <2> SUFFICES ASSUME NEW i \in Running PROVE Exact(i)' /\ Expires(i)'
    BY <2>1 DEF Empties
  <2>2. CASE i = k
    BY <2>1, <2>2 DEF Exact, Expires
  <2>3. CASE i # k
    <3>1. \A d \in Char : Inside(d, i)' <=> Inside(d, i)
      BY <1>0, <2>1, SameFacts DEF Same
    <3> QED BY <2>1, <2>3, <3>1, EmptyStays
  <2> QED BY <2>2, <2>3
<1>12. ASSUME Restart PROVE Empties'
  BY <1>12 DEF Restart, Empties, Running
<1> QED BY <1>3, <1>4, <1>5, <1>6, <1>7, <1>8, <1>9, <1>10, <1>11, <1>12, Steps

-----------------------------------------------------------------------------
(* The invariants of the specification *)

\* TypeOK is what Positions, Lists and Copies say.
LEMMA TypesFacts ==
    ASSUME Positions, Lists, Copies
    PROVE  TypeOK
<1>1. \A c \in Char : Cardinality(PartiesOf(c)) <= 1
  BY OneParty
<1>2. parties \in Seq(Seq(Char)) /\ Len(parties) <= MaxParties
  BY DEF Lists
<1> QED BY <1>1, <1>2 DEF Positions, Copies, TypeOK

LEMMA Starts ==
    ASSUME Init
    PROVE  /\ Positions /\ Lists /\ Copies /\ (\A c \in Char : Kept(c))
           /\ Counts /\ Empties
<1>1. Positions /\ \A c \in Char : ~Live(c)
  BY DEF Init, Positions, Live
<1>2. Lists
  <2>1. parties = <<>> /\ parties \in Seq(Seq(Char)) /\ Len(parties) = 0
    BY EmptySeq DEF Init
  <2>2. Unique
    BY <2>1 DEF Unique
  <2> QED BY <2>1, <2>2, Nothing DEF Lists
<1>3. Running = {} /\ Copies
  BY Nothing DEF Init, Copies, Running
<1> QED BY <1>1, <1>2, <1>3 DEF Kept, Counts, Theirs, Counted, Belongs, Inside, Empties

LEMMA Stutters ==
    ASSUME UNCHANGED vars
    PROVE  /\ Positions <=> Positions'
           /\ Lists <=> Lists'
           /\ Copies <=> Copies'
           /\ Counts <=> Counts'
           /\ Empties <=> Empties'
           /\ \A c \in Char : Kept(c) <=> Kept(c)'
<1>1. Positions <=> Positions'
  BY DEF vars, Positions, Live, Placed
<1>2. Lists <=> Lists'
  BY DEF vars, Lists, Unique, Ranks
<1>3. Copies <=> Copies'
  BY DEF vars, Copies, Running
<1>4. Counts <=> Counts'
  BY DEF vars, Counts, Theirs, Counted, Belongs, Inside, Live, Running
<1>5. Empties <=> Empties'
  BY DEF vars, Empties, Exact, Expires, Inside, Live, Running
<1>6. \A c \in Char : Kept(c) <=> Kept(c)'
  BY DEF vars, Kept, Live, Outside
<1> QED BY <1>1, <1>2, <1>3, <1>4, <1>5, <1>6

LEMMA TypesInvariant ==
    ASSUME "teleport" \notin Races
    PROVE  Spec => [](Positions /\ Lists /\ Copies)
<1>1. Init => Positions /\ Lists /\ Copies
  BY Starts
<1>2. Positions /\ Lists /\ Copies /\ [Next]_vars => (Positions /\ Lists /\ Copies)'
  BY PositionsKept, ListsKept, CopiesKept, Stutters
<1> QED BY <1>1, <1>2, PTL DEF Spec

\* Every variable keeps its type and every session its place: unless an
\* administrator teleports a session that is indoors (handleAdminTeleport), nobody
\* is in a dungeon and a room, or in either with no way back, nobody gets into two
\* parties, and no party gets two instances.
THEOREM TypeCorrect ==
    ASSUME "teleport" \notin Races
    PROVE  Spec => []TypeOK
<1>1. Positions /\ Lists /\ Copies => TypeOK
  BY TypesFacts
<1> QED BY <1>1, TypesInvariant, PTL

\* The store has the way back of every character in the world at every moment, so
\* long as no move, journey or teleport outdoors fails to be saved and the admin
\* service moves nobody who is in the world (handleMove, persistTravelSessionLocked,
\* handleAdminTeleport); the saves of handoffs, disconnects, exits and housing may
\* fail.
THEOREM Homeward ==
    ASSUME "teleport" \notin Races, "elsewhere" \notin Races,
           "move" \notin SaveFailsIn, "travel" \notin SaveFailsIn, "teleport" \notin SaveFailsIn
    PROVE  Spec => []WayBack
<1> DEFINE K == \A c \in Char : Kept(c)
<1>0. Careful
  BY DEF Careful
<1>1. Init => K
  BY Starts
<1>2. K /\ Positions /\ Lists /\ Copies /\ [Next]_vars => K'
  BY <1>0, PositionsKept, Stutters
<1>3. K => WayBack
  BY DEF Kept, WayBack
<1> HIDE DEF K
<1> QED BY <1>1, <1>2, <1>3, TypesInvariant, PTL DEF Spec

LEMMA CountsInvariant ==
    ASSUME "teleport" \notin Races, "resume" \notin Races
    PROVE  Spec => []Counts
<1>1. Init => Counts
  BY Starts
<1>2. Counts /\ Positions /\ Lists /\ Copies /\ [Next]_vars => Counts'
  BY CountsKept, Stutters
<1> QED BY <1>1, <1>2, TypesInvariant, PTL DEF Spec

\* A connected player's instance exists and counts the player, unless a connect
\* resumes a session inside a dungeon (handleConnect) or an administrator teleports
\* one that is indoors: whoever else enters, leaves, resets or expires.
THEOREM Inmates ==
    ASSUME "teleport" \notin Races, "resume" \notin Races
    PROVE  Spec => []CountedInside
<1>1. Positions /\ Counts => CountedInside
  BY CountsFacts
<1> QED BY <1>1, TypesInvariant, CountsInvariant, PTL

\* An instance everybody has left is on its short expiry or past it, unless a session
\* that counts as inside is dropped (cleanupStaleSessionsLocked,
\* invalidateWorldSessionForCharacterLocked) or used after its disconnect.
THEOREM Abandoned ==
    ASSUME "teleport" \notin Races, "resume" \notin Races,
           "drop" \notin Races, "offline" \notin Races
    PROVE  Spec => []EmptyInstanceExpires
<1>1. Init => Empties
  BY Starts
<1>2. Empties /\ Counts /\ Positions /\ Lists /\ Copies /\ [Next]_vars => Empties'
  BY EmptiesKept, Stutters
<1>3. Empties => EmptyInstanceExpires
  BY DEF Empties, Expires, EmptyInstanceExpires
<1> QED BY <1>1, <1>2, <1>3, TypesInvariant, CountsInvariant, PTL DEF Spec
=============================================================================
