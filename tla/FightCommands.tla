---------------------------- MODULE FightCommands ----------------------------
(***************************************************************************)
(* The typed commands about sessions, targets, abilities, health and threat  *)
(* (loop/commands.go), each with what replaying its record does              *)
(* (shard_loop.go applyReplayRecord).  Replay repeats a command from its      *)
(* payload by code of its own, so the two are written side by side.          *)
(***************************************************************************)
EXTENDS ShardWorld

CONSTANT Races

(***************************************************************************)
(* unrecorded  a command brings state its payload does not carry: the player *)
(*             of a connect or reconnect, the target of a respawned NPC       *)
(* defaults    a field is left empty for the command to fill in               *)
(* cost        an ability costs resource                                      *)
(* self        an ability harms who uses it                                   *)
(* deselect    a target is cleared by selecting nothing                       *)
(* again       a quest that is already begun is accepted                      *)
(* deadActs    a dead player acts, or a dead NPC is given threat: no command  *)
(*             looks                                                        *)
(* twice       a character connects with a second session                     *)
(* forgets     a session reconnects with a player who has claimed nothing     *)
(* otherKey    the same reward is claimed under two mutation keys             *)
(* anew        a loot container is generated again                            *)
(***************************************************************************)
AllRaces == {"unrecorded", "defaults", "cost", "self", "deselect", "again",
             "deadActs", "twice", "forgets", "otherKey", "anew"}

ASSUME FightAssumption == Races \subseteq AllRaces

-----------------------------------------------------------------------------
(* Sessions.  The command's player takes the place of the one there was. *)
Connect(w, t, p) ==
    UpsertPlayer(w, t,
        [p EXCEPT !.connected = TRUE,
                  !.max = IF @ = 0 THEN p.health ELSE @,
                  !.alive = @ \/ p.health > 0])

(* A reconnect to the origin keeps the position there was. *)
Reconnect(w, t, p) ==
    UpsertPlayer(w, t,
        [p EXCEPT !.connected = TRUE,
                  !.pos = IF @ = 0 /\ Has(w, t) THEN w.player[t].pos ELSE @])

(* Of the player only the position is in the payload, and alive is set. *)
ReplayConnect(w, t, pos) ==
    UpsertPlayer(w, t,
        [(IF Has(w, t) THEN w.player[t] ELSE Stranger(t))
            EXCEPT !.pos = pos, !.connected = TRUE, !.alive = TRUE])

Change(w, t, p) == IF Has(w, t) THEN UpsertPlayer(w, t, p) ELSE Refused

Disconnect(w, t) ==
    Change(w, t, [w.player[t] EXCEPT !.connected = FALSE, !.auto = FALSE])

\* Mutant: replaying a disconnect leaves auto-attack as it is.
WrongReplayDisconnect(w, t) == Change(w, t, [w.player[t] EXCEPT !.connected = FALSE])

ReplayDisconnect(w, t) ==
    Change(w, t, [w.player[t] EXCEPT !.connected = FALSE, !.auto = FALSE])

(* To a place, or by a step; a step is in the payload too. *)
ApplyMovement(w, t, next, delta) ==
    Change(w, t, [w.player[t] EXCEPT !.pos = IF next = NoId THEN @ + delta ELSE next])

ReplayMovement(w, t, next, delta) ==
    Change(w, t, [w.player[t] EXCEPT !.pos = IF next # NoId THEN next ELSE @ + delta])

-----------------------------------------------------------------------------
(* Targets and auto-attack. *)
SelectTarget(w, t, id) ==
    IF ~Has(w, t) THEN Refused
    ELSE IF id = NoId THEN UpsertPlayer(w, t, [w.player[t] EXCEPT !.target = NoId, !.auto = FALSE])
    ELSE IF IsNpc(w, id) \/ IsPlayer(w, id) THEN UpsertPlayer(w, t, [w.player[t] EXCEPT !.target = id])
    ELSE Refused

ReplaySelectTarget(w, t, id) == Change(w, t, [w.player[t] EXCEPT !.target = id])

ClearTarget(w, t) == Change(w, t, [w.player[t] EXCEPT !.target = NoId, !.auto = FALSE])

ReplayClearTarget(w, t) == Change(w, t, [w.player[t] EXCEPT !.target = NoId, !.auto = FALSE])

StartAutoAttack(w, t, enabled) ==
    IF Has(w, t) /\ (enabled => w.player[t].target # NoId)
    THEN UpsertPlayer(w, t, [w.player[t] EXCEPT !.auto = enabled])
    ELSE Refused

StopAutoAttack(w, t) == Change(w, t, [w.player[t] EXCEPT !.auto = FALSE])

ReplayAutoAttack(w, t, enabled) == Change(w, t, [w.player[t] EXCEPT !.auto = enabled])

-----------------------------------------------------------------------------
(* An ability.  The user is read first and written last, whatever the harm did to it. *)
UseAbility(w, t, id, a) ==
    IF ~Has(w, t) THEN Refused
    ELSE LET p == w.player[t]
             target == IF id = NoId THEN p.target ELSE id
             user == [p EXCEPT !.resource = @ - a.cost,
                               !.health = IF a.heal > 0 THEN MinNumber(p.max, @ + a.heal) ELSE @]
             harmed == DamageEntity(w, p.char, target, a.damage, a.threat)
         IN IF p.resource < a.cost \/ (a.damage > 0 /\ harmed = Refused) THEN Refused
            ELSE UpsertPlayer(IF a.damage > 0 THEN harmed ELSE w, t, user)

(* The cost is not paid, and the target is the payload's, which may be empty. *)
ReplayUseAbility(w, t, id, a) ==
    IF ~Has(w, t) THEN Refused
    ELSE LET p == w.player[t]
             healed == IF a.heal > 0
                       THEN UpsertPlayer(w, t, [p EXCEPT !.health = MinNumber(p.max, @ + a.heal)])
                       ELSE w
         IN DamageEntity(healed, p.char, id, a.damage, a.threat)

-----------------------------------------------------------------------------
(* Health.  The source left empty is the actor. *)
ApplyDamage(w, actor, source, target, amount, threat) ==
    DamageEntity(w, IF source = NoId THEN actor ELSE source, target, amount, threat)

ReplayDamage(w, source, target, amount, threat) == DamageEntity(w, source, target, amount, threat)

ApplyHeal(w, actor, target, amount) ==
    IF amount <= 0 THEN w ELSE HealEntity(w, IF target = NoId THEN actor ELSE target, amount)

ReplayHeal(w, target, amount) == HealEntity(w, target, amount)

ResolveDeath(w, id, respawn) == KillEntity(w, id, respawn)

ReplayDeath(w, id, respawn) == KillEntity(w, id, respawn)

(* The NPC the command brings: what it does not say of its health is filled in. *)
RespawnNPC(w, n, health, max, target) ==
    LET limit == IF max = 0 THEN health ELSE max
    IN UpsertNPC(w, n, [Wolf EXCEPT !.max = limit, !.health = IF health = 0 THEN limit ELSE health,
                                    !.target = target, !.respawn = "now"])

ReplayRespawn(w, n, health, max) ==
    UpsertNPC(w, n, [Wolf EXCEPT !.health = health, !.max = max, !.respawn = "now"])

ChangeNpc(w, n, npc) == IF IsNpc(w, n) THEN UpsertNPC(w, n, npc) ELSE Refused

ScheduleRespawn(w, n) == ChangeNpc(w, n, [w.npc[n] EXCEPT !.respawn = "given"])

ReplayScheduleRespawn(w, n) == ChangeNpc(w, n, [w.npc[n] EXCEPT !.respawn = "given"])

-----------------------------------------------------------------------------
(* Threat. *)
AddThreat(w, n, target, amount) == RaiseThreat(w, n, target, amount)

ReplayAddThreat(w, n, target, amount) == RaiseThreat(w, n, target, amount)

DecayThreat(w, n, amount) ==
    LET table == Decayed(w.npc[n].threat, amount)
    IN ChangeNpc(w, n, [w.npc[n] EXCEPT !.threat = table, !.target = HighestThreatTarget(table)])

ReplayDecayThreat(w, n, amount) ==
    LET table == Decayed(w.npc[n].threat, amount)
    IN ChangeNpc(w, n, [w.npc[n] EXCEPT !.threat = table, !.target = HighestThreatTarget(table)])

(* A leash clears an NPC's threat in the same way. *)
ResetThreat(w, n) == ChangeNpc(w, n, [w.npc[n] EXCEPT !.threat = Empty, !.target = NoId])

ReplayResetThreat(w, n) == ChangeNpc(w, n, [w.npc[n] EXCEPT !.threat = Empty, !.target = NoId])

SelectNPCTarget(w, n) ==
    ChangeNpc(w, n, [w.npc[n] EXCEPT !.target = HighestThreatTarget(w.npc[n].threat)])

ReplaySelectNPCTarget(w, n) ==
    ChangeNpc(w, n, [w.npc[n] EXCEPT !.target = HighestThreatTarget(w.npc[n].threat)])

ClearThreatOnDeath(w, id) == ClearThreatForEntity(w, id)

ReplayClearThreat(w, id) == ClearThreatForEntity(w, id)
===============================================================================
