-------------------------------- MODULE Growth --------------------------------
(***************************************************************************)
(* What characters learn and make (trainers.go, professions.go,            *)
(* gathering.go, crafting.go, talents.go): an ability for copper, the      *)
(* forger's profession for copper, ore from a node that comes back, rivets *)
(* from ore with a point of skill, and ranks of a talent.                  *)
(*                                                                         *)
(* The ore keeper's profession, that gathering asks for, is known from the *)
(* start.  Gathering changes the node after its save, crafting saves twice *)
(* and a talent is stored before the session has it.                       *)
(***************************************************************************)
EXTENDS Careers

CONSTANTS
    TrainerCost, ProfessionCost,    \* copper
    OrePerCraft, RivetsPerCraft,
    StackSize, BagSlots,
    MaxSkill, PointsGranted         \* of the profession, for talents

ASSUME GrowthAssumption ==
    {TrainerCost, ProfessionCost, OrePerCraft, RivetsPerCraft, StackSize, BagSlots, MaxSkill, PointsGranted}
        \subseteq Nat \ {0}

VARIABLE nodeReady      \* the gathering node can be gathered

GrowthInit == nodeReady = TRUE

Stacks(n) == (n + StackSize - 1) \div StackSize
Fits(r) == Stacks(r.ore) + Stacks(r.rivets) <= BagSlots

-----------------------------------------------------------------------------
\* learnTrainerAbilityLocked
LearnAbility(c) ==
    /\ ~session[c].learned /\ session[c].copper >= TrainerCost
    /\ PersistProgression(c, [session[c] EXCEPT !.learned = TRUE, !.copper = @ - TrainerCost])
    /\ UNCHANGED nodeReady

\* sessionKnowsProfessionLocked
Knows(c) == session[c].skill > 0
\* learnProfessionLocked
LearnProfession(c) ==
    /\ ~Knows(c) /\ session[c].copper >= ProfessionCost
    /\ PersistProfessions(c, [session[c] EXCEPT !.skill = 1, !.copper = @ - ProfessionCost])
    /\ UNCHANGED nodeReady

\* gatherNodeLocked: after a failed save the node stays ready.
GatherNode(c) ==
    LET s == [session[c] EXCEPT !.ore = @ + 1]
    IN  /\ nodeReady /\ Fits(s)
        /\ PersistEconomy(c, s)
        /\ nodeReady' = (failures' > failures)

NodeRespawns == ~nodeReady /\ nodeReady' = TRUE /\ UNCHANGED careers

\* advanceCraftingSkill
AdvanceSkill(s) == [s EXCEPT !.skill = IF @ < MaxSkill THEN @ + 1 ELSE @]

\* removeInventoryItemCount
Spend(s) == [s EXCEPT !.ore = @ - OrePerCraft]

\* craftRecipeLocked: the bag and the purse are saved, then the purse and the skill.
CraftRecipe(c) ==
    LET s == AdvanceSkill([Spend(session[c]) EXCEPT !.rivets = @ + RivetsPerCraft])
        bag == UpdateCharacterEconomy(record[c], s)
    IN  /\ Knows(c) /\ session[c].ore >= OrePerCraft /\ Fits(s)
        /\ session' = [session EXCEPT ![c] = s]
        /\ \/ /\ record' = [record EXCEPT ![c] = UpdateCharacterProfessions(bag, s)]
              /\ UNCHANGED <<failures, torn>>
           \/ /\ failures < MaxFailures /\ Failing(c, FALSE)
              /\ record' \in {record, [record EXCEPT ![c] = bag]}
        /\ UNCHANGED nodeReady

\* selectTalentLocked
SelectTalent(c) ==
    LET s == [session[c] EXCEPT !.rank = @ + 1]
    IN  /\ session[c].rank < PointsGranted
        /\ \/ /\ record' = [record EXCEPT ![c] = UpdateCharacterTalents(@, s)]
              /\ session' = [session EXCEPT ![c].rank = record'[c].rank]
              /\ UNCHANGED failures
           \/ failures < MaxFailures /\ failures' = failures + 1 /\ UNCHANGED <<record, session>>
        /\ UNCHANGED <<torn, nodeReady>>

\* The requests
HandleTrainerLearn(c) == InWorld(c) /\ LearnAbility(c)
HandleProfessionLearn(c) == InWorld(c) /\ LearnProfession(c)
HandleGather(c) == InWorld(c) /\ GatherNode(c)
HandleCraft(c) == InWorld(c) /\ CraftRecipe(c)
HandleTalentSelect(c) == InWorld(c) /\ SelectTalent(c)

GrowthNext ==
    \/ NodeRespawns
    \/ \E c \in Char :
        \/ HandleTrainerLearn(c) \/ HandleProfessionLearn(c)
        \/ HandleGather(c) \/ HandleCraft(c) \/ HandleTalentSelect(c)

GrowthTypeOK == nodeReady \in BOOLEAN
=============================================================================
