---------------------------- MODULE ShardCommands ----------------------------
(***************************************************************************)
(* A shard loop's world under its typed commands, beside the world a replay  *)
(* of its records is at: Replay folds the records over the snapshot they     *)
(* begin from, so the two are advanced together.  A command that fails or    *)
(* that changes nothing (CastAbility, CancelCast, InteractNPC and the         *)
(* snapshots) leaves both as they are.                                      *)
(*                                                                         *)
(* The commands fall in three groups that do not touch each other's state,   *)
(* each of which is run by itself: scene says which.                          *)
(***************************************************************************)
EXTENDS RewardCommands

CONSTANTS
    Scenes,         \* the groups that are run
    Natives,        \* group -> the tokens its initial snapshot has
    Earners,        \* bound: the tokens that rewards, money and items are given to
    MaxThreat,      \* bound: threat of a character on one table
    MaxPosition,    \* bound: positions along a line from the origin
    MaxGrants       \* bound: for each player, deltas and grants without a key

ASSUME ShardCommandsAssumption ==
    /\ Scenes \subseteq {"fight", "journal", "goods"} /\ Natives \in [Scenes -> SUBSET Tokens]
    /\ Earners \subseteq Tokens
    /\ MaxThreat \in Nat /\ MaxPosition \in Nat /\ MaxGrants \in Nat

VARIABLES
    scene,      \* the group of commands that is run
    live,       \* the loop's state
    replica,    \* Replay of the records so far
    loose       \* history: token -> [copper, items] given to it without a key

shard == <<scene, live, replica, loose>>

CommandsInit ==
    /\ scene \in Scenes
    /\ live = WorldOf(Natives[scene])
    /\ replica = WorldOf(Natives[scene])
    /\ loose = [t \in Tokens |-> [copper |-> 0, items |-> 0]]

-----------------------------------------------------------------------------
Bounded(w) ==
    /\ \A t \in DOMAIN w.player : w.player[t].pos <= MaxPosition /\ w.player[t].health <= FullHealth
    /\ \A n \in DOMAIN w.npc : \A id \in DOMAIN w.npc[n].threat : w.npc[n].threat[id] <= MaxThreat

Step(after, replayed) ==
    /\ replica # Refused
    /\ after # Refused /\ Bounded(after)
    /\ live' = after /\ replica' = replayed
    /\ UNCHANGED scene

Applies(after, replayed) == Step(after, replayed) /\ UNCHANGED loose

May(race) == race \in Races
OrIf(race, values) == IF May(race) THEN values ELSE {}

Acts(t) == Has(live, t) /\ (live.player[t].alive \/ May("deadActs"))
Ids == Characters \cup Npcs

(* A strike, one that provokes, a cure, and a strike that cures. *)
Abilities ==
    {[cost |-> cost, damage |-> kind[1], threat |-> kind[2], heal |-> kind[3]] :
        cost \in {0} \cup OrIf("cost", {1}),
        kind \in {<<1, 0, 0>>, <<1, 2, 0>>, <<0, 0, 1>>, <<1, 0, 1>>}}

-----------------------------------------------------------------------------
(* A character connects once, and with nothing the payload does not say. *)
ConnectStep(t) ==
    \E p \in {Stranger(t)} \cup OrIf("unrecorded", {Native(t)}) :
        /\ ~Has(live, t) \/ May("unrecorded")
        /\ CharacterOf[t] \notin DOMAIN live.session \/ May("twice") \/ Has(live, t)
        /\ Applies(Connect(live, t, p), ReplayConnect(replica, t, p.pos))

(* The player who comes back is the one the caller last saw. *)
ReconnectStep(t) ==
    /\ Has(live, t) /\ (live.player[t].alive \/ May("unrecorded"))
    /\ \E p \in {live.player[t]} \cup OrIf("unrecorded", {Native(t)})
                \cup OrIf("forgets", {[live.player[t] EXCEPT !.claims = {}]}),
          pos \in {1, live.player[t].pos} \cup OrIf("defaults", {0}) :
          Applies(Reconnect(live, t, [p EXCEPT !.pos = pos]), ReplayConnect(replica, t, pos))

SessionStep(t) ==
    \/ Applies(Disconnect(live, t), ReplayDisconnect(replica, t))
    \/ \E next \in 1 .. MaxPosition : Applies(ApplyMovement(live, t, next, 0), ReplayMovement(replica, t, next, 0))
    \/ Applies(ApplyMovement(live, t, NoId, 1), ReplayMovement(replica, t, NoId, 1))

TargetStep(t) ==
    \/ \E id \in (Ids \ {CharacterOf[t]}) \cup OrIf("deselect", {NoId}) :
          Applies(SelectTarget(live, t, id), ReplaySelectTarget(replica, t, id))
    \/ Applies(ClearTarget(live, t), ReplayClearTarget(replica, t))
    \/ \E enabled \in BOOLEAN :
          /\ enabled => Acts(t)
          /\ Applies(StartAutoAttack(live, t, enabled), ReplayAutoAttack(replica, t, enabled))
    \/ Applies(StopAutoAttack(live, t), ReplayAutoAttack(replica, t, FALSE))

AbilityStep(t) ==
    /\ Acts(t)
    /\ \E a \in Abilities, id \in Ids \cup OrIf("defaults", {NoId}) :
          /\ IF a.damage > 0 THEN id # CharacterOf[t] \/ May("self") ELSE id = CharacterOf[t]
          /\ Applies(UseAbility(live, t, id, a), ReplayUseAbility(replica, t, id, a))

DamageStep(t) ==
    /\ Acts(t)
    /\ \E source \in {CharacterOf[t]} \cup OrIf("defaults", {NoId}), id \in Ids :
          Applies(ApplyDamage(live, CharacterOf[t], source, id, 1, 0), ReplayDamage(replica, source, id, 1, 0))

HealStep(t) ==
    \E id \in Ids, amount \in {1} \cup OrIf("defaults", {0}) :
        Applies(ApplyHeal(live, CharacterOf[t], id, amount), ReplayHeal(replica, id, amount))

DeathStep == \E id \in Ids : Applies(ResolveDeath(live, id, "given"), ReplayDeath(replica, id, "given"))

RespawnStep(n) ==
    \/ \E health, max \in {FullHealth} \cup OrIf("defaults", {0}),
          target \in {NoId} \cup OrIf("unrecorded", Characters) :
          Applies(RespawnNPC(live, n, health, max, target), ReplayRespawn(replica, n, health, max))
    \/ Applies(ScheduleRespawn(live, n), ReplayScheduleRespawn(replica, n))

ThreatStep(n) ==
    \/ \E t \in Tokens :
          /\ Acts(t) /\ (live.npc[n].alive \/ May("deadActs"))
          /\ Applies(AddThreat(live, n, CharacterOf[t], 1), ReplayAddThreat(replica, n, CharacterOf[t], 1))
    \/ Applies(DecayThreat(live, n, 1), ReplayDecayThreat(replica, n, 1))
    \/ Applies(ResetThreat(live, n), ReplayResetThreat(replica, n))
    \/ Applies(SelectNPCTarget(live, n), ReplaySelectNPCTarget(replica, n))
    \/ \E id \in Characters : Applies(ClearThreatOnDeath(live, id), ReplayClearThreat(replica, id))

FightStep ==
    /\ scene = "fight"
    /\ \/ \E t \in Tokens :
             \/ ConnectStep(t) \/ ReconnectStep(t) \/ SessionStep(t) \/ TargetStep(t)
             \/ AbilityStep(t) \/ DamageStep(t) \/ HealStep(t)
       \/ DeathStep
       \/ \E n \in Npcs : RespawnStep(n) \/ ThreatStep(n)

-----------------------------------------------------------------------------
Progress(t) == IF "errand" \in DOMAIN live.player[t].quests THEN live.player[t].quests["errand"] ELSE 0

JournalStep(t) ==
    /\ scene = "journal" /\ Has(live, t)
    /\ \/ /\ "errand" \notin DOMAIN live.player[t].quests \/ May("again")
          /\ Applies(AcceptQuest(live, t, "errand"), ReplayAcceptQuest(replica, t, "errand"))
       \/ \E delta \in {1} \cup OrIf("defaults", {0}) :
             /\ Progress(t) < 2
             /\ Applies(ProgressQuestObjective(live, t, "errand", delta),
                      ReplayProgressQuestObjective(replica, t, "errand", delta))
       \/ Applies(AbandonQuest(live, t, "errand"), ReplayAbandonQuest(replica, t, "errand"))
       \/ Applies(CompleteQuest(live, t, "errand"), ReplayCompleteQuest(replica, t, "errand"))
       \/ \E slot \in {0, 1}, ability \in {"strike", "mend"} :
             Applies(UpdateActionBar(live, t, slot, ability, FALSE),
                   ReplayUpdateActionBar(replica, t, slot, ability, FALSE))
       \/ \E slot \in {0, 1}, clear \in {TRUE} \cup OrIf("defaults", {FALSE}) :
             Applies(UpdateActionBar(live, t, slot, NoItem, clear),
                   ReplayUpdateActionBar(replica, t, slot, NoItem, clear))

-----------------------------------------------------------------------------
RewardStep(t) ==
    \E key \in {NoKey} \cup OrIf("otherKey", {"reward"}), items \in {<<"badge">>} \cup OrIf("defaults", {<<NoItem>>}) :
        Applies(ClaimQuestReward(live, t, "errand", items, 2, key),
              ReplayClaimQuestReward(replica, t, "errand", items, 2, key))

CurrencyStep(t) ==
    \/ Applies(ApplyCurrencyDelta(live, t, 1, "coin"), ReplayCurrencyDelta(replica, t, 1, "coin"))
    \/ /\ loose[t].copper < MaxGrants
       /\ Step(ApplyCurrencyDelta(live, t, 1, NoKey), ReplayCurrencyDelta(replica, t, 1, NoKey))
       /\ loose' = [loose EXCEPT ![t].copper = @ + 1]

GrantStep(t) ==
    \E quantity \in {1} \cup OrIf("defaults", {0}) :
        \/ Applies(ApplyItemGrant(live, t, "hide", quantity, "gift"),
                 ReplayItemGrant(replica, t, "hide", quantity, "gift"))
        \/ /\ loose[t].items < MaxGrants
           /\ Step(ApplyItemGrant(live, t, "hide", quantity, NoKey),
                   ReplayItemGrant(replica, t, "hide", quantity, NoKey))
           /\ loose' = [loose EXCEPT ![t].items = @ + 1]

BagStep(t) ==
    \E from, to \in 0 .. 1 :
        from # to /\ Applies(MoveInventoryItem(live, t, from, to), ReplayMoveInventoryItem(replica, t, from, to))

Corpse == "corpse"

GenerateStep ==
    /\ Corpse \notin DOMAIN live.loot \/ May("anew")
    /\ \E owner \in {NoId} \cup Characters :
          Applies(GenerateLoot(live, Corpse, owner, <<"hide", "fang">>),
                ReplayGenerateLoot(replica, Corpse, owner, <<"hide", "fang">>))

LootStep(t) ==
    \/ Applies(OpenLoot(live, t, Corpse), ReplayOpenLoot(replica, t, Corpse))
    \/ \E item \in {NoItem, "fang"}, key \in {NoKey, "kill"} :
          Applies(ClaimLoot(live, t, Corpse, item, key), ReplayClaimLoot(replica, t, Corpse, item, key))

GoodsStep ==
    /\ scene = "goods"
    /\ \/ \E t \in Tokens :
             /\ Has(live, t)
             /\ \/ t \in Earners /\ (RewardStep(t) \/ CurrencyStep(t) \/ GrantStep(t) \/ BagStep(t))
                \/ LootStep(t)
                \/ ReconnectStep(t)
       \/ GenerateStep
       \/ Applies(CloseLoot(live, Corpse), ReplayCloseLoot(replica, Corpse))

CommandsNext == FightStep \/ (\E t \in Tokens : JournalStep(t)) \/ GoodsStep

CommandsSpec == CommandsInit /\ [][CommandsNext]_shard

-----------------------------------------------------------------------------
(* Replaying the records gives the world the loop is at (Replay, shard_loop.go).  Of
   the sessions' order, which no snapshot has, the characters' last is what counts. *)
ReplayReproduces == replica = live

(* The dead have no health, do not attack and are in nobody's threat, a dead NPC has
   neither threat nor target, and an NPC's target leads its threat (applyDamage,
   resolveDeath, clearThreatForEntity). *)
DeadAreOut ==
    /\ \A id \in DOMAIN live.session :
          LET p == live.player[TokenOf(live, id)]
          IN ~p.alive => /\ p.health = 0 /\ ~p.auto
                         /\ \A n \in DOMAIN live.npc : id \notin DOMAIN live.npc[n].threat
    /\ \A n \in DOMAIN live.npc :
          LET npc == live.npc[n]
          IN /\ ~npc.alive => npc.health = 0 /\ ~npc.targetable /\ npc.threat = Empty
             /\ npc.target = HighestThreatTarget(npc.threat)

(* However often and by whomever they are claimed, a player has what its keys are worth,
   what it was given without a key and what it took of the loot it claimed, wherever in
   the bag (LootClaims, ClaimedAtTick, firstEmptySlot, MoveInventoryItem). *)
ClaimsAddUp ==
    \A t \in DOMAIN live.player :
        LET p == live.player[t]
            worth(key, amount) == IF key \in p.claims THEN amount ELSE 0
            count(item) == Cardinality({i \in DOMAIN p.bag : p.bag[i] = item})
            looted == Corpse \in DOMAIN live.loot /\ live.loot[Corpse].claimed = p.char
        IN /\ p.copper = worth(QuestKey, 2) + worth("coin", 1) + loose[t].copper
           /\ count("badge") = worth(QuestKey, 1)
           /\ count("fang") = IF looted THEN 1 ELSE 0
           /\ count("hide") - worth("gift", 1) - loose[t].items \in IF looted THEN {0, 1} ELSE {0}
===============================================================================
