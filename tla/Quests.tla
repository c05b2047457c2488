------------------------------- MODULE Quests -------------------------------
(***************************************************************************)
(* Quests of the world service (quests.go, quest_graph.go): accepting,     *)
(* objectives that count, are done, are learned or form a graph, the       *)
(* credit of a kill, also for the killer's party, and rewards.             *)
(*                                                                         *)
(* A handler runs under worldServer.mutex and is one action.  All          *)
(* characters are in one party; a kill and an item match every objective   *)
(* of their kind.                                                          *)
(***************************************************************************)
EXTENDS Careers

At(c, q) == Normalized(q, session[c].quests[q])
With(s, q, p) == [s EXCEPT !.quests[q] = p]
UnderWay == {"active", "completed", "ready_to_complete"}

-----------------------------------------------------------------------------
\* validateQuestStartLocked
MayStart(c, q) == LevelOf[c] >= RequiredLevel[q] /\ \A k \in Requires[q] : At(c, k).state = "reward_granted"

\* questObjectiveReadyLocked; a deed is ready where it is to be done.
ObjectiveReady(c, q) ==
    \/ HasGraph(q) /\ GraphReady(q, At(c, q))
    \/ KindOf[q] = "count" /\ At(c, q).count >= TargetCount
    \/ KindOf[q] = "lesson" /\ session[c].learned
    \/ KindOf[q] = "deed"

Paid(s) == [s EXCEPT !.copper = @ + RewardCopper, !.rewards = @ + 1]

(* grantQuestRewardLocked in a session that holds `s' by then.  Experience and copper   *)
(* are paid before the items: if these find no room the quest is left as it is, nothing *)
(* is saved and nothing taken back.                                                     *)
GrantReward(c, q, s) ==
    \/ PersistProgression(c,
           Paid(With(session[c], q, [At(c, q) EXCEPT !.state = "reward_granted",
                                                     !.count = IF HasGraph(q) THEN @ ELSE TargetCount])))
    \/ /\ "fullBag" \in Races /\ failures < MaxFailures
       /\ session' = [session EXCEPT ![c] = Paid(s)]
       /\ failures' = failures + 1 /\ UNCHANGED <<record, torn>>

\* acceptQuestLocked of a quest that is not started
AcceptQuest(c, q) ==
    /\ At(c, q).state = "not_started" /\ MayStart(c, q)
    /\ PersistProgression(c, With(session[c], q, Normalized(q, [At(c, q) EXCEPT !.state = "active"])))

\* completeQuestLocked, also called for an accepted graph quest that is ready
CompleteQuest(c, q, s) ==
    /\ At(c, q).state \in UnderWay /\ ObjectiveReady(c, q)
    /\ GrantReward(c, q, s)

\* completeOrTurnInQuestLocked marks the objective; away from the turn-in that is all.
Reportable(c, q) == ~HasGraph(q) /\ At(c, q).state = "active"
Reported(c, q) == With(session[c], q, [At(c, q) EXCEPT !.state = "completed", !.count = TargetCount])
ReportObjective(c, q) ==
    Reportable(c, q) /\ ObjectiveReady(c, q) /\ PersistProgression(c, Reported(c, q))
TurnIn(c, q) == CompleteQuest(c, q, IF Reportable(c, q) THEN Reported(c, q) ELSE session[c])

\* The two requests: accepting a quest that is under way reports on it.
HandleQuestAccept(c, q) == InWorld(c) /\ (AcceptQuest(c, q) \/ ReportObjective(c, q) \/ TurnIn(c, q))
HandleQuestComplete(c, q) == InWorld(c) /\ CompleteQuest(c, q, session[c])

-----------------------------------------------------------------------------
(* Events advance the graphs: the nodes are visited in order, each seeing what *)
(* the nodes before it have become.                                            *)
NodeActive(q, n, done) == n \notin done /\ Graph[q][n].deps \subseteq done
Matches(q, n, kind) == Graph[q][n].kind = kind
Visit(q, kind, done, n) ==
    IF NodeActive(q, n, done) /\ Matches(q, n, kind) THEN done \cup {n} ELSE done
Advanced(q, kind, p) ==
    LET Step(done, n) == Visit(q, kind, done, n)
    IN Normalized(q, [p EXCEPT !.done = FoldLeft(Step, @, [n \in NodesOf(q) |-> n])])

\* applyQuestObjectiveEventLocked: what the session holds after an event
AfterEvent(c, kind) ==
    [session[c] EXCEPT !.quests = [q \in Quest |->
        IF HasGraph(q) /\ At(c, q).state = "active" THEN Advanced(q, kind, At(c, q)) ELSE @[q]]]

\* An item is granted (grantInventoryItemsLocked): a claimed container's, say.
ItemGranted(c) ==
    /\ InWorld(c) /\ AfterEvent(c, "item") # session[c]
    /\ PersistProgression(c, AfterEvent(c, "item"))

-----------------------------------------------------------------------------
\* killCreditCandidatesLocked: the members of the party who are near the kill
Counts(c, q) == KindOf[q] = "count" /\ At(c, q).state = "active" /\ At(c, q).count < TargetCount
Counted(c, s) ==
    [s EXCEPT !.quests = [q \in Quest |->
        IF Counts(c, q) THEN NormalizeCount([At(c, q) EXCEPT !.count = @ + 1]) ELSE @[q]]]
Candidates(near) == {m \in near : \E q \in Quest : Counts(m, q)}

\* The counts, after the killer's graphs: saved in some order until a save fails.
CountCredit(near, rec, ses) ==
    LET credited == [m \in Char |-> IF m \in Candidates(near) THEN Counted(m, ses[m]) ELSE ses[m]]
        Save(kept) == [m \in Char |-> IF m \in kept THEN UpdateCharacterProgression(rec[m], credited[m]) ELSE rec[m]]
    IN  \E kept \in SUBSET Candidates(near) :
            /\ record' = Save(kept)
            /\ session' = [m \in Char |-> IF m \in kept THEN record'[m] ELSE credited[m]]
            /\ \/ kept = Candidates(near) /\ UNCHANGED <<failures, torn>>
               \/ /\ kept # Candidates(near) /\ failures < MaxFailures
                  /\ failures' = failures + 1 /\ torn' = torn \cup (Candidates(near) \ kept)

\* applyQuestKillCreditLocked: the killer's graphs, then every candidate's counts; an
\* error ends it.
MobKilled(c) ==
    LET graphs == AfterEvent(c, "kill")
        saved == UpdateCharacterProgression(record[c], graphs)
        changed == graphs # session[c]
    IN  /\ InWorld(c)
        /\ \/ /\ changed /\ failures < MaxFailures
              /\ session' = [session EXCEPT ![c] = graphs]
              /\ UNCHANGED record /\ Failing(c, FALSE)
           \/ \E others \in SUBSET (Online \ {c}) :
                /\ changed \/ Candidates(others \cup {c}) # {}
                /\ IF changed THEN CountCredit(others \cup {c}, [record EXCEPT ![c] = saved], [session EXCEPT ![c] = saved])
                              ELSE CountCredit(others \cup {c}, record, session)

QuestsNext ==
    \E c \in Char :
        \/ MobKilled(c) \/ ItemGranted(c)
        \/ \E q \in Quest : HandleQuestAccept(c, q) \/ HandleQuestComplete(c, q)

-----------------------------------------------------------------------------
(* A quest under way can be brought to its end: it is ready to be turned in, or some *)
(* kill, item, lesson or deed still advances it.  A graph that waits for nothing that *)
(* happens, a state the events pass over or a count beyond its target would leave the *)
(* quest, and all that require it, closed for good (quest_graph.go, quests.go:27-58). *)
Advances(q, p) ==
    \/ HasGraph(q) /\ p.state = "active" /\ \E n \in NodesOf(q) : NodeActive(q, n, p.done) /\ Graph[q][n].kind # "talk"
    \/ KindOf[q] = "count" /\ p.state = "active" /\ p.count < TargetCount
    \/ KindOf[q] \in {"lesson", "deed"}
QuestsCanEnd ==
    \A c \in Char, q \in Quest :
        InWorld(c) /\ At(c, q).state \in UnderWay => ObjectiveReady(c, q) \/ Advances(q, At(c, q))
=============================================================================
