------------------------------ MODULE Progression ------------------------------
(***************************************************************************)
(* What becomes of characters: their quests, what they learn and make,     *)
(* what they carry, wear and have on their action bar, and what            *)
(* administrators do to them.  These write disjoint parts of a character   *)
(* but for its copper and its abilities, so a run looks at one of them at  *)
(* a time: `scene' says which.                                             *)
(***************************************************************************)
EXTENDS Quests, Growth, AdminDesk, Belongings

CONSTANT Learners       \* whose growth is looked at, and whom administrators change
ASSUME LearnersAssumption == Learners \subseteq Char

VARIABLE scene
vars == <<record, session, failures, torn, nodeReady, request, trail, requests, goods, held, scene>>

Init ==
    /\ scene \in {"quests", "growth", "bag", "bar"}
    /\ CareersInit /\ GrowthInit /\ DeskInit /\ BelongingsInit

\* Without the race nothing else touches a character while a request for it is under way.
Undisturbed ==
    "overtaken" \notin Races /\ Requested =>
        record'[request.char] = record[request.char] /\ session'[request.char] = session[request.char]

\* Whom the scene is about, and what administrators do in it
Cast == IF scene = "quests" THEN Char ELSE Learners
Requests ==
    \/ FinishRequest
    \/ \E c \in Learners :
        \/ InvalidateSession(c)
        \/ scene = "quests" /\ QuestRequests(c)
        \/ scene = "growth" /\ GoodsRequests(c)

\* In the first two scenes nothing is carried, in the last two nobody is at the desk.
Careered ==
    \/ /\ scene = "quests"
       /\ \/ QuestsNext
          \/ \E c \in Char : HandleTrainerLearn(c)
          \/ \E c \in Learners : HandleProfessionLearn(c)
       /\ UNCHANGED <<nodeReady, desk>> /\ Undisturbed
    \/ scene = "growth" /\ GrowthNext /\ UNCHANGED desk /\ Undisturbed
    \/ scene \in {"quests", "growth"} /\ Requests /\ UNCHANGED nodeReady
    \/ /\ scene \in {"quests", "growth"} /\ (\E c \in Cast : Enter(c) \/ Leave(c))
       /\ UNCHANGED <<nodeReady, desk>>
Carried ==
    \/ scene = "bag" /\ \E c \in Learners : BagNext(c)
    \/ scene = "bar" /\ \E c \in Learners : BarNext(c) \/ (HandleTrainerLearn(c) /\ UNCHANGED belongings)
    \/ scene \in {"bag", "bar"} /\ \E c \in Learners : (Enter(c) \/ Leave(c)) /\ Carry(c)

Next ==
    /\ UNCHANGED scene
    /\ \/ Careered /\ UNCHANGED belongings
       \/ Carried /\ UNCHANGED <<nodeReady, desk>>

Spec == Init /\ [][Next]_vars

(* The parts' types. *)
TypeOK == CareersTypeOK /\ GrowthTypeOK /\ DeskTypeOK /\ BelongingsTypeOK

-----------------------------------------------------------------------------
Rewarded(r) == {q \in Quest : r.quests[q].state = "reward_granted"}

(* What the store has paid a character in experience is what the quests it shows as *)
(* rewarded are worth, and those an administrator reset: no reward is paid twice, and *)
(* none is paid without its quest being closed, whatever saves fail between the        *)
(* handlers that hold a part of it (quests.go grantQuestRewardLocked).  A reward whose *)
(* items find no room breaks it: "fullBag".                                            *)
RewardsAddUp ==
    \A c \in Char : record[c].rewards = Cardinality(Rewarded(record[c])) + record[c].again

Price(r) == (IF r.learned THEN TrainerCost ELSE 0) + (IF r.skill > 0 THEN ProfessionCost ELSE 0)
UnderWayFor(c) == IF request.char = c THEN request.delta ELSE 0
Crafts(r) == IF r.skill = 0 THEN 0 ELSE r.skill - 1

(* The copper in the store is what rewards and administrators, by the audit trail, *)
(* gave, less what was learned for copper; and rivets come with the skill they were *)
(* made with.  The saves write absolute values from sessions, and an administrator  *)
(* writes beside them: one that is taken back leaves the books open (admin_http.go  *)
(* handleAdminCurrencyChange, file_store.go UpdateCharacterEconomy, -Professions).  *)
(* An administrator beside a session or another request, a lost audit, and a reward *)
(* half paid break it: "elsewhere", "overtaken", "unaudited", "fullBag".            *)
BooksAddUp ==
    \A c \in Char \ torn :
        /\ record[c].copper + Price(record[c])
            = StartCopper + (RewardCopper * record[c].rewards) + trail[c] + UnderWayFor(c)
        /\ IF record[c].skill < MaxSkill THEN record[c].rivets = RivetsPerCraft * Crafts(record[c])
                                         ELSE record[c].rivets >= RivetsPerCraft * Crafts(record[c])
=============================================================================
