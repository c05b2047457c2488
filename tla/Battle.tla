-------------------------------- MODULE Battle --------------------------------
(***************************************************************************)
(* Fights: targets, auto attacks, abilities, auras, mobs, kills, and duels  *)
(* (combat.go, targeting.go, abilities.go, ability_effects.go,             *)
(* kill_credit.go, pvp.go, pvp_handlers.go, loot.go).                      *)
(*                                                                         *)
(* Every request first advances the world - duels, auras, sessions, mobs,  *)
(* in this order - and then does what it was sent for, all of it under one *)
(* mutex.  turn.phase says how far the request is; what is left of a phase *)
(* is in turn.todo, and goes in any order, for the code ranges over maps.  *)
(*                                                                         *)
(* Clocks and distances are left out: what waits for a clock may happen in *)
(* any turn, and two who are in one zone and instance may be in range or   *)
(* not whenever it is asked.  A hit takes one point of health; cooldowns,  *)
(* resources and armor only say how often and how much.                    *)
(***************************************************************************)
EXTENDS Naturals, FiniteSets, Functions

CONSTANTS
    Players, Mobs,
    Nobody,
    Abilities,                  \* records [cast, rule, effects]
    Knows,                      \* player -> the abilities it has learned
    Travellers,                 \* players who leave the mobs' zone
    Attackers, Challengers,     \* players who attack, and who ask for duels
    MaxHealth, MobHealth,
    MaxKills, MaxBouts,         \* bounds: kills, and duels that begin
    Races                       \* hazards the instance lets happen

(***************************************************************************)
(* bleeds     an aura harms a player outside a duel or to the end          *)
(* mendsDead  an ally's heal, or an aura's, reaches a dead player           *)
(* follows    a mob's prey is elsewhere at coordinates close to it         *)
(* saveFails  a save of the store fails                                    *)
(***************************************************************************)
ASSUME BattleAssumption ==
    /\ {MaxHealth, MobHealth, MaxKills, MaxBouts} \subseteq Nat
    /\ MaxHealth > 1 /\ MobHealth > 0
    /\ Nobody \notin Players \cup Mobs /\ Players \cap Mobs = {}
    /\ \A a \in Abilities :
          /\ a.cast \in BOOLEAN /\ a.rule \in {"self", "enemy", "ally"}
          /\ a.effects \subseteq {"damage", "heal", "aura"}
    /\ Knows \in [Players -> SUBSET Abilities]
    /\ {Travellers, Attackers, Challengers} \subseteq SUBSET Players
    /\ Races \subseteq {"bleeds", "mendsDead", "follows", "saveFails"}

VARIABLES
    session,    \* player -> its world session
    mob,        \* mob -> its state
    duels,      \* the duels that are not over
    book,       \* kills and duels as they are counted, and as they were
    turn        \* how far the request under way is
vars == <<session, mob, duels, book, turn>>

NotCasting == [ability |-> Nobody, target |-> Nobody]
NoSession ==
    [linked |-> "none", place |-> "field", alive |-> FALSE, health |-> 0, target |-> Nobody,
     auto |-> FALSE, casting |-> NotCasting, aura |-> Nobody]
NewSession == [NoSession EXCEPT !.linked = "on", !.alive = TRUE, !.health = MaxHealth]
NewMob ==
    [alive |-> TRUE, targetable |-> TRUE, ai |-> "idle", health |-> MobHealth,
     target |-> Nobody, threat |-> {}, aura |-> Nobody]

Init ==
    /\ session = [p \in Players |-> NewSession]
    /\ mob = [m \in Mobs |-> NewMob]
    /\ duels = {}
    /\ book = [credit |-> [p \in Players |-> 0], stored |-> [p \in Players |-> 0],
               loot |-> [p \in Players |-> 0], killed |-> [p \in Players |-> 0],
               won |-> 0, lost |-> 0, bouts |-> 0]
    /\ turn = [phase |-> "none", todo |-> {}]

(* A world is a record of the first four variables; handlers turn one into another. *)
World == [session |-> session, mob |-> mob, duels |-> duels, book |-> book]
Become(w) ==
    /\ session' = w.session /\ mob' = w.mob
    /\ duels' = w.duels /\ book' = w.book

Linked(w) == {p \in Players : w.session[p].linked # "none"}
On(w, p) == w.session[p].linked = "on"
Standing(w, p) == On(w, p) /\ w.session[p].alive
Together(w, p, q) == w.session[p].place = w.session[q].place
(* Mobs of the open world are found from any zone: only their distance protects them. *)
Finds(w, p, m) == w.session[p].place = "field" \/ "follows" \in Races
(* How many saves in a row succeed before one fails: no handler makes more than two. *)
Saves == IF "saveFails" \in Races THEN 0..2 ELSE {2}

-----------------------------------------------------------------------------
(* Combat state, aggro, damage. *)

ClearTarget(w, P) ==
    [w EXCEPT !.session = [p \in Players |->
        IF p \in P THEN [@[p] EXCEPT !.target = Nobody, !.auto = FALSE, !.casting = NotCasting]
        ELSE @[p]]]
StopAutoAttack(w, p) == [w EXCEPT !.session[p].auto = FALSE]
CancelCast(w, p) == [w EXCEPT !.session[p].casting = NotCasting]
ClearMobTargetFromAllSessions(w, m) == ClearTarget(w, {p \in Players : w.session[p].target = m})

(* Which of several is ahead depends on the damage done; any of them will do. *)
HighestThreatTarget(threat) == IF threat = {} THEN Nobody ELSE CHOOSE p \in threat : TRUE

Unbothered(s, p) ==
    LET threat == s.threat \ {p}
        target == IF s.target = p THEN HighestThreatTarget(threat) ELSE s.target
        calm == s.target = p /\ target = Nobody /\ s.ai = "roused"
    IN [s EXCEPT !.threat = threat, !.target = target, !.ai = IF calm THEN "idle" ELSE s.ai]
ClearMobAggro(w, p) == [w EXCEPT !.mob = [m \in Mobs |-> Unbothered(w.mob[m], p)]]

AddMobThreat(w, p, m) ==
    [w EXCEPT !.mob[m].threat = @ \cup {p}, !.mob[m].target = p,
              !.mob[m].ai = IF @ = "idle" THEN "roused" ELSE @]

\* Mutant: the session is saved before the kill is in it.
WrongAwardKillCredit(w, p, saved) ==
    [w EXCEPT !.book.credit[p] = @ + 1,
              !.book.stored[p] = IF saved THEN w.book.credit[p] ELSE @]

(* A kill is credited in the session, saved, and then leaves its loot behind. *)
AwardKillCredit(w, p, saved) ==
    [w EXCEPT !.book.credit[p] = @ + 1,
              !.book.stored[p] = IF saved THEN w.book.credit[p] + 1 ELSE @]
CreateLootContainer(w, p) == [w EXCEPT !.book.loot[p] = @ + 1]

Die(w, p, m) ==
    ClearMobTargetFromAllSessions(
        [w EXCEPT !.mob[m] = [NewMob EXCEPT !.alive = FALSE, !.targetable = FALSE,
                                            !.ai = "dead", !.health = 0],
                  !.book.killed[p] = IF w.mob[m].alive THEN @ + 1 ELSE @], m)

Hittable(w, m) == w.mob[m].alive /\ w.mob[m].targetable
Lethal(w, m) == Hittable(w, m) /\ w.mob[m].health <= 1

ApplyDamageToMob(w, p, m, saved) ==
    LET hurt == [AddMobThreat(w, p, m) EXCEPT !.mob[m].health = @ - 1]
        paid == AwardKillCredit(Die(hurt, p, m), p, saved)
    IN IF ~Hittable(w, m) THEN w
       ELSE IF ~Lethal(w, m) THEN hurt
       ELSE IF saved THEN CreateLootContainer(paid, p) ELSE paid

DuelsOf(w, p) == {d \in w.duels : p \in {d.challenger, d.target}}
Dueling(w, p) == DuelsOf(w, p) # {}
DuelForPair(w, p, q) == DuelsOf(w, p) \cap DuelsOf(w, q)

\* Mutant: two who are to duel may begin at once.
WrongValidPvPDamage(w, p, q) ==
    /\ p # q /\ Standing(w, p) /\ Standing(w, q) /\ Together(w, p, q)
    /\ DuelForPair(w, p, q) # {}

ValidPvPDamage(w, p, q) ==
    /\ p # q /\ Standing(w, p) /\ Standing(w, q) /\ Together(w, p, q)
    /\ \E d \in DuelForPair(w, p, q) : d.state = "active"

(* The winner is saved first, then the loser. *)
RecordDuelOutcome(w, saved) ==
    [w EXCEPT !.book.won = IF saved > 0 THEN @ + 1 ELSE @,
              !.book.lost = IF saved > 1 THEN @ + 1 ELSE @]

(* A duel without a winner leaves no record. *)
CancelDuels(w, D) ==
    LET both == UNION {{d.challenger, d.target} : d \in D}
    IN ClearTarget([w EXCEPT !.duels = @ \ D], both)

\* Mutant: a defeat does not take the duel out of the books.
WrongEndDuel(w, d, winner, saved) ==
    LET loser == CHOOSE p \in {d.challenger, d.target} : p # winner
    IN RecordDuelOutcome(ClearTarget(w, {winner, loser}), saved)

(* A duel whose saves failed stays in the server's map, but in a final state in  *)
(* which nobody finds it: it is over all the same.                                *)
EndDuel(w, d, winner, saved) ==
    LET loser == CHOOSE p \in {d.challenger, d.target} : p # winner
        over == CancelDuels(w, {d})
        lifted == IF w.session[loser].linked # "none" /\ w.session[loser].health < 1
                  THEN [over EXCEPT !.session[loser].health = 1, !.session[loser].alive = TRUE]
                  ELSE over
    IN RecordDuelOutcome(lifted, saved)

(* A player is beaten at the last point of health, and keeps it. *)
ApplyDamageToPlayer(w, p, q, saved) ==
    LET hurt == [w EXCEPT !.session[q].health = @ - 1]
    IN IF w.session[q].health > 2 THEN hurt
       ELSE EndDuel([w EXCEPT !.session[q].health = 1, !.session[q].alive = TRUE],
                    CHOOSE d \in DuelForPair(w, p, q) : TRUE, p, saved)

-----------------------------------------------------------------------------
(* Abilities. *)

(* The target of an ability or of a cast, if it is still there. *)
FoundMob(w, p, x) == x \in Mobs /\ Finds(w, p, x)
FoundPlayer(w, p, x) == x \in Players \ {p} /\ On(w, x) /\ Together(w, p, x)

Fails(w, p, x, a) == x \in Players /\ "damage" \in a.effects /\ ~ValidPvPDamage(w, p, x)

Damage(w, p, x, a, saved) ==
    IF "damage" \notin a.effects \/ x \notin Players \cup Mobs THEN w
    ELSE IF x \in Mobs THEN ApplyDamageToMob(w, p, x, saved > 0)
    ELSE ApplyDamageToPlayer(w, p, x, saved)

(* A hit ends in an error when a save of the kill, or of the duel it ends, fails. *)
Errs(w, x, saved) ==
    \/ x \in Mobs /\ Lethal(w, x) /\ saved < 1
    \/ x \in Players /\ w.session[x].health <= 2 /\ saved < 2

Mended(health) == IF health < MaxHealth THEN health + 1 ELSE health

Heal(w, p, x, a) ==
    LET q == IF x \in Players /\ a.rule = "ally" THEN x ELSE p
    IN IF "heal" \in a.effects /\ (w.session[q].alive \/ "mendsDead" \in Races)
       THEN [w EXCEPT !.session[q].health = Mended(@)] ELSE w

(* One who has the aura already keeps it, and with it who first gave it. *)
ApplyAura(w, p, x, a) ==
    LET q == IF a.rule = "self" \/ x = Nobody THEN p ELSE x
    IN IF "aura" \notin a.effects THEN w
       ELSE IF q \in Players THEN [w EXCEPT !.session[q].aura = IF @ = Nobody THEN p ELSE @]
       ELSE [w EXCEPT !.mob[q].aura = IF @ = Nobody THEN p ELSE @]

(* The effects in the order of the catalog; the first that fails ends them. *)
ResolveAbilityEffects(w, p, x, a, saved) ==
    IF Fails(w, p, x, a) THEN w
    ELSE LET hit == Damage(w, p, x, a, saved)
         IN IF "damage" \in a.effects /\ Errs(w, x, saved) THEN hit
            ELSE ApplyAura(Heal(hit, p, x, a), p, x, a)

ValidateAbilityUse(w, p, x, a) ==
    \/ a.rule = "self"
    \/ a.rule = "enemy" /\ FoundMob(w, p, x) /\ Hittable(w, x)
    \/ a.rule = "enemy" /\ FoundPlayer(w, p, x) /\ ValidPvPDamage(w, p, x)
    \/ a.rule = "ally" /\ FoundPlayer(w, p, x)

StartAbilityCast(w, p, a) ==
    [w EXCEPT !.session[p].casting = [ability |-> a, target |-> w.session[p].target]]

(* A cast looks for its target again, and for nothing else it was checked for. *)
CompleteCast(w, p, saved) ==
    LET a == w.session[p].casting.ability
        x == w.session[p].casting.target
        idle == CancelCast(w, p)
    IN IF a.rule = "self" \/ FoundMob(w, p, x) \/ FoundPlayer(w, p, x)
       THEN ResolveAbilityEffects(idle, p, x, a, saved) ELSE idle

-----------------------------------------------------------------------------
(* A request advances the world: first the duels, whose time is up when it is. *)

Fit(w, d) ==
    Standing(w, d.challenger) /\ Standing(w, d.target) /\ Together(w, d.challenger, d.target)

AdvanceDuel(w, d) ==
    {CancelDuels(w, {d})}
    \cup (IF d.state = "pending" \/ Fit(w, d) THEN {w} ELSE {})
    \cup (IF d.state = "countdown" /\ Fit(w, d) /\ w.book.bouts < MaxBouts
          THEN {[w EXCEPT !.duels = (@ \ {d}) \cup {[d EXCEPT !.state = "active"]},
                          !.book.bouts = @ + 1]} ELSE {})

(* A session nobody has seen for a while goes; mobs after its character do not notice. *)
DropSession(w, p) ==
    [CancelDuels(w, DuelsOf(w, p)) EXCEPT !.session[p] = NoSession]

(* A phase is for those it may do something to; without any the next one begins. *)
Afflicted(w) == {p \in Linked(w) : w.session[p].aura # Nobody} \cup {m \in Mobs : w.mob[m].aura # Nobody}
Busy(w) == {p \in Linked(w) : w.session[p].auto \/ w.session[p].casting # NotCasting}
Phase(w, phase) ==
    IF phase = "auras" /\ Afflicted(w) # {} THEN [phase |-> "auras", todo |-> Afflicted(w)]
    ELSE IF phase # "mobs" /\ Busy(w) # {} THEN [phase |-> "sessions", todo |-> Busy(w)]
    ELSE [phase |-> "mobs", todo |-> Mobs]

(* Of two requests at the same time the second advances nothing but the duels. *)
AdvanceDuels ==
    /\ turn.phase = "none"
    /\ \E gone \in {{}} \cup {{p} : p \in Linked(World)} :
          LET w == IF gone = {} THEN World ELSE DropSession(World, CHOOSE p \in gone : TRUE)
          IN \E d \in w.duels \cup {Nobody} :
                /\ d = Nobody => w.duels = {}
                /\ \E next \in IF d = Nobody THEN {w} ELSE AdvanceDuel(w, d) :
                      /\ Become(next)
                      /\ turn' \in {Phase(next, "auras"), [phase |-> "ready", todo |-> {}]}

(* One of the phase is done; an error ends the request and the rest of the tick. *)
Done(x, w, failed) ==
    LET todo == turn.todo \ {x}
    IN turn' = IF failed THEN [phase |-> "none", todo |-> {}]
               ELSE IF todo # {} THEN [turn EXCEPT !.todo = todo]
               ELSE CASE turn.phase = "auras" -> Phase(w, "sessions")
                      [] turn.phase = "sessions" -> Phase(w, "mobs")
                      [] turn.phase = "mobs" -> [phase |-> "ready", todo |-> {}]

WithoutAura(w, x) ==
    IF x \in Mobs THEN [w EXCEPT !.mob[x].aura = Nobody] ELSE [w EXCEPT !.session[x].aura = Nobody]

(* Auras of the dead go; others may be over, or tick, or neither. *)
AuraQuiet(x) ==
    /\ turn.phase = "auras" /\ x \in turn.todo
    /\ LET over == x \in Mobs /\ ~mob[x].alive
       IN \E w \in {WithoutAura(World, x)} \cup (IF over THEN {} ELSE {World}) :
             Become(w) /\ Done(x, w, FALSE)

(* After a tick the aura is written back, even on a mob that died of it. *)
AuraTickOnMob(m) ==
    /\ turn.phase = "auras" /\ m \in turn.todo
    /\ mob[m].alive /\ mob[m].aura # Nobody /\ On(World, mob[m].aura)
    /\ \E saved \in Saves :
          LET w == ApplyDamageToMob(World, mob[m].aura, m, saved > 0)
              failed == Errs(World, m, saved)
          IN /\ Become(IF failed THEN w ELSE [w EXCEPT !.mob[m].aura = mob[m].aura])
             /\ Done(m, w, failed)

(* It takes from a player whatever is left and asks for no duel, or gives and *)
(* does not ask whether the player lives.                                     *)
AuraTickOnPlayer(p) ==
    LET health == session[p].health
        harms == "bleeds" \in Races \/ (health > 1 /\ ValidPvPDamage(World, session[p].aura, p))
        mends == session[p].alive \/ "mendsDead" \in Races
    IN  /\ turn.phase = "auras" /\ p \in turn.todo
        /\ session[p].aura # Nobody
        /\ \E left \in (IF harms THEN {IF health > 0 THEN health - 1 ELSE 0} ELSE {})
                      \cup (IF mends THEN {Mended(health)} ELSE {}) :
              LET w == [World EXCEPT !.session[p].health = left]
              IN Become(w) /\ Done(p, w, FALSE)

(* A cast that is due, then the auto attack: each may be due now or later. *)
CastOutcomes(p) ==
    {World} \cup (IF session[p].casting = NotCasting THEN {}
                  ELSE {CompleteCast(World, p, saved) : saved \in Saves})

Swings(w, p, x) ==
    IF x \in Mobs THEN {<<ApplyDamageToMob(w, p, x, saved > 0), Errs(w, x, saved)>> : saved \in Saves}
    ELSE {<<ApplyDamageToPlayer(w, p, x, saved), Errs(w, x, saved)>> : saved \in Saves}

AutoAttackOutcomes(w, p) ==
    LET x == w.session[p].target
        found == FoundMob(w, p, x) \/ FoundPlayer(w, p, x)
    IN IF ~w.session[p].auto \/ ~w.session[p].alive THEN {<<w, FALSE>>}
       ELSE IF ~found THEN {<<StopAutoAttack(w, p), FALSE>>}
       ELSE IF x \in Mobs /\ ~Hittable(w, x) THEN {<<ClearTarget(w, {p}), FALSE>>}
       ELSE IF x \in Players /\ ~ValidPvPDamage(w, p, x) THEN {<<StopAutoAttack(w, p), FALSE>>}
       ELSE {<<StopAutoAttack(w, p), FALSE>>, <<w, FALSE>>} \cup Swings(w, p, x)

AdvanceSession(p) ==
    /\ turn.phase = "sessions" /\ p \in turn.todo
    /\ \E w \in CastOutcomes(p) : \E o \in AutoAttackOutcomes(w, p) :
          Become(o[1]) /\ Done(p, o[1], o[2])

-----------------------------------------------------------------------------
(* Mobs. *)

WithTarget(w, m, p) ==
    [w EXCEPT !.mob[m].target = p,
              !.mob[m].ai = IF p # Nobody /\ @ = "idle" THEN "roused" ELSE @]

(* Whom a mob may turn to: those who are up and in its zone and instance. *)
Prey(w) == {p \in Players : Standing(w, p) /\ w.session[p].place = "field"}

(* The present target stays it wherever it is; the next is ahead in threat, or near. *)
ResolveMobTarget(w, m) ==
    LET present == w.mob[m].target
        threat == w.mob[m].threat
        near == {WithTarget(w, m, p) : p \in Prey(w) \cup {Nobody}}
        Forgotten(p) == {[v EXCEPT !.mob[m].threat = @ \ {p}] : v \in near}
    IN IF ~w.mob[m].targetable THEN {w}
       ELSE IF present # Nobody /\ Standing(w, present) THEN {w}
       ELSE IF threat = {} THEN near
       ELSE UNION {IF p \in Prey(w) THEN {WithTarget(w, m, p)} ELSE Forgotten(p) : p \in threat}

EnterEvade(w, m) ==
    ClearMobTargetFromAllSessions(
        [w EXCEPT !.mob[m].targetable = FALSE, !.mob[m].ai = "evading",
                  !.mob[m].target = Nobody, !.mob[m].threat = {}], m)


(* The dead are not looked at again: what was laid on them in this tick comes along. *)
Respawn(w, m) ==
    [w EXCEPT !.mob[m] = [NewMob EXCEPT !.aura = w.mob[m].aura]]

MobRespawn(m) ==
    /\ turn.phase = "mobs" /\ m \in turn.todo /\ ~mob[m].alive
    /\ \E w \in {World} \cup (IF SumFunction(book.killed) < MaxKills THEN {Respawn(World, m)} ELSE {}) :
          Become(w) /\ Done(m, w, FALSE)

(* A mob without a target goes home and is whole again when it is there. *)
MobIdles(m) ==
    /\ turn.phase = "mobs" /\ m \in turn.todo /\ mob[m].alive
    /\ \E w \in ResolveMobTarget(World, m) :
          /\ w.mob[m].target = Nobody \/ ~w.mob[m].targetable
          /\ LET back == [w EXCEPT !.mob[m].ai = "returning"]
                 home == [w EXCEPT !.mob[m].ai = "idle", !.mob[m].health = MobHealth,
                                   !.mob[m].targetable = TRUE]
                 outcomes == IF w.mob[m].ai \in {"evading", "returning"} THEN {back, home}
                             ELSE {[w EXCEPT !.mob[m].ai = "idle"]}
             IN \E v \in outcomes : Become(v) /\ Done(m, v, FALSE)

(* Leashed, out of reach, waiting for the next blow ... *)
MobChases(m) ==
    /\ turn.phase = "mobs" /\ m \in turn.todo /\ mob[m].alive
    /\ \E w \in ResolveMobTarget(World, m) :
          /\ w.mob[m].targetable /\ w.mob[m].target # Nobody
          /\ \E v \in {EnterEvade(w, m), [w EXCEPT !.mob[m].ai = "roused"]} :
                Become(v) /\ Done(m, v, FALSE)

(* ... or striking. *)
MobStrikes(m) ==
    /\ turn.phase = "mobs" /\ m \in turn.todo /\ mob[m].alive
    /\ \E w \in ResolveMobTarget(World, m) :
          LET p == w.mob[m].target
              hurt == [w EXCEPT !.session[p].health = IF @ > 0 THEN @ - 1 ELSE 0, !.mob[m].ai = "roused"]
              dead == [ClearTarget(hurt, {p}) EXCEPT !.session[p].alive = FALSE, !.session[p].aura = Nobody,
                                                     !.mob[m].target = Nobody, !.mob[m].ai = "idle"]
          IN /\ w.mob[m].targetable /\ p # Nobody
             /\ w.session[p].place = "field" \/ "follows" \in Races
             /\ LET v == IF hurt.session[p].health = 0 THEN dead ELSE hurt
                IN Become(v) /\ Done(m, v, FALSE)

-----------------------------------------------------------------------------
(* What a request is for. *)

Answers(w) ==
    /\ turn.phase = "ready"
    /\ Become(w)
    /\ turn' = [phase |-> "none", todo |-> {}]

(* The administrators' handlers do not advance the world. *)
AtOnce(w) == turn.phase = "none" /\ Become(w) /\ UNCHANGED turn

(* The state is asked for, or a request is refused. *)
State == Answers(World)

SetTarget(p, x) ==
    /\ \/ FoundMob(World, p, x) /\ Hittable(World, x)
       \/ FoundPlayer(World, p, x) /\ session[x].alive
    /\ Answers([World EXCEPT !.session[p].target = x])

ResetTarget(p) == Answers(ClearTarget(World, {p}))

HandleTarget(p) ==
    p \in Linked(World) /\ (ResetTarget(p) \/ \E x \in Players \cup Mobs : SetTarget(p, x))

SetAutoAttack(p) ==
    /\ session[p].alive
    /\ LET x == session[p].target
       IN \/ FoundMob(World, p, x) /\ Hittable(World, x)
          \/ FoundPlayer(World, p, x) /\ ValidPvPDamage(World, p, x)
    /\ Answers([World EXCEPT !.session[p].auto = TRUE])

StopAttack(p) == session[p].alive /\ Answers(StopAutoAttack(World, p))

HandleAutoAttack(p) ==
    p \in Linked(World) /\ (StopAttack(p) \/ (p \in Attackers /\ SetAutoAttack(p)))

ActivateAbility(p, a) ==
    /\ session[p].alive /\ a \in Knows[p]
    /\ ValidateAbilityUse(World, p, session[p].target, a)
    /\ IF a.cast THEN Answers(StartAbilityCast(World, p, a))
       ELSE \E saved \in Saves : Answers(ResolveAbilityEffects(World, p, session[p].target, a, saved))

HandleAbility(p) == p \in Linked(World) /\ \E a \in Abilities : ActivateAbility(p, a)

(* Coming and going. *)

Connect(p) ==
    /\ session[p].linked = "none"
    /\ Answers([World EXCEPT !.session[p] = NewSession, !.book.credit[p] = book.stored[p]])

Revived(s) == IF ~s.alive \/ s.health = 0 THEN [s EXCEPT !.alive = TRUE, !.health = MaxHealth] ELSE s

\* Mutant: who comes back is not brought back to life.
WrongReconnected(w, p) ==
    LET rid == ClearMobAggro(ClearTarget(CancelDuels(w, DuelsOf(w, p)), {p}), p)
    IN [rid EXCEPT !.session[p].linked = "on", !.session[p].health = MaxHealth,
                   !.book.credit[p] = w.book.stored[p]]

Reconnected(w, p) ==
    LET rid == ClearMobAggro(ClearTarget(CancelDuels(w, DuelsOf(w, p)), {p}), p)
    IN [rid EXCEPT !.session[p] = Revived([@ EXCEPT !.linked = "on"]),
                   !.book.credit[p] = w.book.stored[p]]
Reconnect(p) == p \in Linked(World) /\ Answers(Reconnected(World, p))

Disconnect(p) ==
    /\ p \in Linked(World)
    /\ Answers(ClearMobAggro([ClearTarget(CancelDuels(World, DuelsOf(World, p)), {p})
                                 EXCEPT !.session[p].linked = "off"], p))

(* Travel, recall, handoffs and dungeons reset the traveller and not its pursuers ... *)
Travel(p) ==
    /\ p \in Linked(World) \cap Travellers
    /\ LET away == IF session[p].place = "field" THEN "elsewhere" ELSE "field"
       IN Answers([ClearTarget(World, {p}) EXCEPT !.session[p].place = away])

(* ... one's own room does both. *)
EnterHousing(p) ==
    /\ p \in Linked(World) \cap Travellers
    /\ Answers(ClearMobAggro([ClearTarget(World, {p}) EXCEPT !.session[p].place = "elsewhere"], p))

AdminTeleport(p) ==
    /\ p \in Linked(World) /\ p \in Travellers
    /\ LET rid == ClearMobAggro(CancelDuels(ClearTarget(World, {p}), DuelsOf(World, p)), p)
       IN AtOnce([rid EXCEPT !.session[p].linked = "on", !.session[p].place = "field"])

AdminInvalidate(p) ==
    /\ p \in Linked(World)
    /\ AtOnce([ClearMobAggro(CancelDuels(World, DuelsOf(World, p)), p) EXCEPT !.session[p] = NoSession])

(* Duels. *)

RequestDuel(p, q) ==
    /\ p # q
    /\ Standing(World, p) /\ Standing(World, q) /\ Together(World, p, q)
    /\ ~Dueling(World, p) /\ ~Dueling(World, q)
    /\ Answers([World EXCEPT !.duels = @ \cup {[challenger |-> p, target |-> q, state |-> "pending"]}])

HandleDuelRequest(p) == p \in Linked(World) \cap Challengers /\ \E q \in Players : RequestDuel(p, q)

AcceptDuel(d) ==
    /\ d.state = "pending"
    /\ \/ Fit(World, d) /\ Answers([World EXCEPT !.duels = (@ \ {d}) \cup {[d EXCEPT !.state = "countdown"]}])
       \/ Answers(CancelDuels(World, {d}))

DeclineDuel(d) == d.state = "pending" /\ Answers(CancelDuels(World, {d}))

(* Only the one who was asked answers. *)
HandleDuelAccept(p) == p \in Linked(World) /\ \E d \in DuelsOf(World, p) : d.target = p /\ AcceptDuel(d)
HandleDuelDecline(p) == p \in Linked(World) /\ \E d \in DuelsOf(World, p) : d.target = p /\ DeclineDuel(d)

(* Giving up is losing; before the duel begins it only calls it off. *)
SurrenderDuel(d, p) ==
    IF d.state # "active" THEN Answers(CancelDuels(World, {d}))
    ELSE LET winner == CHOOSE q \in {d.challenger, d.target} : q # p
         IN \E saved \in Saves : Answers(EndDuel(World, d, winner, saved))
HandleDuelSurrender(p) == p \in Linked(World) /\ \E d \in DuelsOf(World, p) : SurrenderDuel(d, p)

CancelDuel(d, p) ==
    IF d.state = "active" THEN SurrenderDuel(d, p) ELSE Answers(CancelDuels(World, {d}))
HandleDuelCancel(p) == p \in Linked(World) /\ \E d \in DuelsOf(World, p) : CancelDuel(d, p)

Advance ==
    \/ AdvanceDuels
    \/ \E p \in Players : AuraQuiet(p) \/ AuraTickOnPlayer(p) \/ AdvanceSession(p)
    \/ \E m \in Mobs :
          \/ AuraQuiet(m) \/ AuraTickOnMob(m)
          \/ MobRespawn(m) \/ MobIdles(m) \/ MobChases(m) \/ MobStrikes(m)

Request ==
    \/ State
    \/ \E p \in Players :
          \/ HandleTarget(p) \/ HandleAutoAttack(p) \/ HandleAbility(p)
          \/ Connect(p) \/ Reconnect(p) \/ Disconnect(p)
          \/ Travel(p) \/ EnterHousing(p) \/ AdminTeleport(p) \/ AdminInvalidate(p)
          \/ HandleDuelRequest(p) \/ HandleDuelAccept(p) \/ HandleDuelDecline(p)
          \/ HandleDuelCancel(p) \/ HandleDuelSurrender(p)

Next == Advance \/ Request

Spec == Init /\ [][Next]_vars

-----------------------------------------------------------------------------
(* Every variable has its type. *)
TypeOK ==
    /\ session \in [Players ->
          [linked : {"none", "on", "off"}, place : {"field", "elsewhere"}, alive : BOOLEAN,
           health : 0..MaxHealth, target : Players \cup Mobs \cup {Nobody}, auto : BOOLEAN,
           casting : [ability : Abilities \cup {Nobody}, target : Players \cup Mobs \cup {Nobody}],
           aura : Players \cup {Nobody}]]
    /\ mob \in [Mobs ->
          [alive : BOOLEAN, targetable : BOOLEAN, health : 0..MobHealth,
           ai : {"idle", "roused", "evading", "returning", "dead"},
           target : Players \cup {Nobody}, threat : SUBSET Players, aura : Players \cup {Nobody}]]
    /\ duels \subseteq [challenger : Players, target : Players,
                        state : {"pending", "countdown", "active"}]
    /\ turn.phase \in {"none", "auras", "sessions", "mobs", "ready"}

(* Who is alive has health and who has health is alive: no blow, tick, heal,      *)
(* defeat, respawn or reconnect parts the two, though each writes them by itself. *)
(* An aura that harms to the end ("bleeds") and a heal of a dead player           *)
(* ("mendsDead") do.                                                              *)
LifeIsHealth ==
    /\ \A p \in Linked(World) : session[p].alive <=> session[p].health > 0
    /\ \A m \in Mobs : mob[m].alive <=> mob[m].health > 0

(* Each death of a mob was credited once, to the character that dealt the blow,   *)
(* in the store as well, and left one loot container: casts, auras and auto       *)
(* attacks of several players may be due in the same tick.  A save that fails     *)
(* ("saveFails") breaks it.                                                       *)
EveryKillIsPaid ==
    \A p \in Players :
        book.stored[p] = book.killed[p] /\ book.loot[p] = book.killed[p]

(* A character is in one duel at most, and every duel that is won is lost once,   *)
(* however defeat, surrender, disconnect and invalid context meet.  When only     *)
(* the loser's save fails ("saveFails"), it was won and not lost.                 *)
DuelsAddUp ==
    /\ \A p \in Players : Cardinality(DuelsOf(World, p)) <= 1
    /\ book.won = book.lost
    /\ book.won + Cardinality({d \in duels : d.state = "active"}) <= book.bouts

(* Health is lost to a mob that is there, or to a duel that is on, and no duel    *)
(* takes the last of it.                                                          *)
HarmHasACause ==
    [][\A p \in Players : session'[p].health < session[p].health /\ session'[p].linked # "none" =>
         \/ turn.phase = "mobs" /\ On(World, p) /\ session[p].place = "field"
         \/ /\ session'[p].health > 0 /\ session'[p].alive
            /\ \E d \in DuelsOf(World, p) :
                  d.state = "active" /\ Together(World, d.challenger, d.target)]_vars
=============================================================================
