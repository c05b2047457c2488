------------------------------- MODULE Careers -------------------------------
(***************************************************************************)
(* What a character has become: its record in the store, the copy of it in *)
(* its world session, and the four saves by which a session writes parts   *)
(* of its copy back.  Quests, Growth, AdminDesk and Belongings work on    *)
(* this state; Progression composes them.                                  *)
(*                                                                         *)
(* Each save writes its own fields, as absolute values, and the session    *)
(* takes back what that save's caller reloads.  A save may fail: then the  *)
(* session keeps in memory what the store does not have.                   *)
(*                                                                         *)
(* Positions, targets, ranges and the rise of levels are left out (a       *)
(* handler that asks for one may find it right), and so are tracking and   *)
(* the events.  There are one ability, one craft, one gathering node, one  *)
(* talent; what is in which slot is Belongings' part.                      *)
(***************************************************************************)
EXTENDS Integers, FiniteSets, SequencesExt

CONSTANTS
    Char, None,
    Quest,
    KindOf,         \* quest -> "count", "deed", "lesson" or "graph"
    Requires,       \* quest -> the quests to be rewarded before it
    LevelOf, RequiredLevel, \* of a character, for a quest
    Graph,          \* graph quest -> its nodes in order, [kind, deps]
    TargetCount,    \* of a quest that counts
    StartCopper, RewardCopper,
    MaxFailures,    \* bound: saves and rewards that fail
    Races           \* hazards the instance lets happen

(***************************************************************************)
(* talk       content whose quest graphs have talk_provider nodes          *)
(* elsewhere  the admin service, another process, changes the record of a  *)
(*            character who is in the world                                *)
(* overtaken  a record changes while an administrator's request that read  *)
(*            it is under way                                              *)
(* unaudited  the audit of a change is never written                       *)
(* fullBag    a reward's items find no room in the bag                     *)
(***************************************************************************)
ASSUME CareersAssumption ==
    /\ {TargetCount, StartCopper, RewardCopper, MaxFailures} \subseteq Nat /\ TargetCount > 0
    /\ KindOf \in [Quest -> {"count", "deed", "lesson", "graph"}]
    /\ Requires \in [Quest -> SUBSET Quest]
    /\ LevelOf \in [Char -> Nat] /\ RequiredLevel \in [Quest -> Nat] /\ IsFiniteSet(Quest)
    /\ Races \subseteq {"talk", "elsewhere", "overtaken", "unaudited", "fullBag"}
    /\ None \notin Char
    /\ "talk" \in Races \/ \A q \in DOMAIN Graph : \A n \in DOMAIN Graph[q] : Graph[q][n].kind \in {"kill", "item"}

VARIABLES
    record,     \* character -> its record in the store
    session,    \* character -> the copy in its world session, or None
    failures,   \* saves and rewards that have failed
    torn        \* history: characters one of whose saves failed
careers == <<record, session, failures, torn>>

QuestStates == {"not_started", "active", "completed", "ready_to_complete", "reward_granted"}

\* CharacterQuestProgress: `done' are the completed nodes of a graph, whose targets are 1.
Progress == [state : QuestStates, count : 0..TargetCount, done : SUBSET (1..3)]
\* `again' is history, kept beside the quests: rewarded quests an administrator has reset.
Record ==
    [copper : Int, rewards : Nat, again : Nat, quests : [Quest -> Progress],
     learned : BOOLEAN, skill : Nat, rank : Nat, ore : Nat, rivets : Nat]

NewProgress == [state |-> "not_started", count |-> 0, done |-> {}]
CareersInit ==
    /\ record = [c \in Char |->
           [copper |-> StartCopper, rewards |-> 0, again |-> 0, quests |-> [q \in Quest |-> NewProgress],
            learned |-> FALSE, skill |-> 0, rank |-> 0, ore |-> 0, rivets |-> 0]]
    /\ session = [c \in Char |-> None]
    /\ failures = 0 /\ torn = {}

InWorld(c) == session[c] # None
Online == {c \in Char : InWorld(c)}

-----------------------------------------------------------------------------
(* Normalisation of a quest's progress, on every read and write of it. *)
HasGraph(q) == KindOf[q] = "graph"
NodesOf(q) == 1..Len(Graph[q])

\* Content is refused when a node depends on one that is missing, or the graph goes in
\* circles (validateQuest, hasObjectiveCycle): some node of any has no dependency among them.
ASSUME GraphAssumption ==
    \A q \in {k \in Quest : HasGraph(k)} :
        /\ q \in DOMAIN Graph
        /\ \A n \in NodesOf(q) : Graph[q][n].deps \subseteq NodesOf(q)
        /\ \A S \in (SUBSET NodesOf(q)) \ {{}} : \E n \in S : Graph[q][n].deps \cap S = {}

Terminal(q) == {n \in NodesOf(q) : \A k \in NodesOf(q) : n \notin Graph[q][k].deps}
GraphReady(q, p) == Terminal(q) \subseteq p.done

WrongNormalizeGraph(q, p) ==
    IF p.state \notin {"reward_granted", "not_started"} /\ Terminal(q) \cap p.done # {}
    THEN [p EXCEPT !.state = "ready_to_complete"] ELSE p
NormalizeGraph(q, p) ==
    IF p.state \notin {"reward_granted", "not_started"} /\ GraphReady(q, p)
    THEN [p EXCEPT !.state = "ready_to_complete"] ELSE p
NormalizeCount(p) ==
    IF p.state = "reward_granted" THEN [p EXCEPT !.count = TargetCount]
    ELSE IF p.state = "completed" \/ p.count >= TargetCount
         THEN [p EXCEPT !.state = "completed", !.count = TargetCount] ELSE p
Normalized(q, p) == IF HasGraph(q) THEN NormalizeGraph(q, p) ELSE NormalizeCount(p)
LoadQuests(r) == [r EXCEPT !.quests = [q \in Quest |-> Normalized(q, r.quests[q])]]

-----------------------------------------------------------------------------
(* The saves: the record `r' after a session that holds `s' has saved. *)
WrongUpdateCharacterProgression(r, s) == [s EXCEPT !.skill = r.skill, !.rank = r.rank, !.quests = r.quests]
UpdateCharacterProgression(r, s) == [s EXCEPT !.skill = r.skill, !.rank = r.rank]
UpdateCharacterEconomy(r, s) == [r EXCEPT !.copper = s.copper, !.ore = s.ore, !.rivets = s.rivets]
UpdateCharacterProfessions(r, s) == [r EXCEPT !.copper = s.copper, !.skill = s.skill]
UpdateCharacterTalents(r, s) == [r EXCEPT !.rank = s.rank]

Saves == IF failures < MaxFailures THEN BOOLEAN ELSE {TRUE}
Failing(c, saved) ==
    /\ failures' = failures + (IF saved THEN 0 ELSE 1)
    /\ torn' = IF saved THEN torn ELSE torn \cup {c}

\* persistSessionProgressionLocked of a session that holds `s': it reloads every field.
PersistProgression(c, s) ==
    \E saved \in Saves :
        /\ record' = IF saved THEN [record EXCEPT ![c] = UpdateCharacterProgression(@, s)] ELSE record
        /\ session' = [session EXCEPT ![c] = IF saved THEN record'[c] ELSE s]
        /\ Failing(c, saved)
\* persistSessionEconomyLocked reloads only what it wrote.
PersistEconomy(c, s) ==
    \E saved \in Saves :
        /\ record' = IF saved THEN [record EXCEPT ![c] = UpdateCharacterEconomy(@, s)] ELSE record
        /\ session' = [session EXCEPT ![c] = s]
        /\ Failing(c, saved)
\* persistSessionProfessionsLocked
PersistProfessions(c, s) ==
    \E saved \in Saves :
        /\ record' = IF saved THEN [record EXCEPT ![c] = UpdateCharacterProfessions(@, s)] ELSE record
        /\ session' = [session EXCEPT ![c] = s]
        /\ Failing(c, saved)

-----------------------------------------------------------------------------
\* handleConnect, handleReconnect: the session is made from the record.
Enter(c) ==
    /\ ~InWorld(c)
    /\ session' = [session EXCEPT ![c] = LoadQuests(record[c])]
    /\ UNCHANGED <<record, failures, torn>>

\* handleDisconnect and the expiry of a session: what it held goes with it.
Leave(c) ==
    /\ InWorld(c)
    /\ session' = [session EXCEPT ![c] = None]
    /\ UNCHANGED <<record, failures, torn>>

CareersTypeOK ==
    /\ record \in [Char -> Record] /\ session \in [Char -> Record \cup {None}]
    /\ failures \in 0..MaxFailures /\ torn \subseteq Char
=============================================================================
