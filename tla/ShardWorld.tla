------------------------------ MODULE ShardWorld ------------------------------
(***************************************************************************)
(* The world a shard loop owns (loop/types.go ShardState) and the helpers    *)
(* its typed commands share (the end of loop/commands.go).  A world is a     *)
(* value: a command is an operator from a world to the world after it, or    *)
(* to Refused when the command returns an error, which changes nothing.      *)
(*                                                                         *)
(* Ids are numbers, in the order the code compares them in, and NoId is the  *)
(* empty one.  Maps are functions on the keys they have: the clones make an  *)
(* empty map and a nil one the same.  Names and zones are left out, and of   *)
(* a tick only what it says: that loot was claimed, where a respawn time     *)
(* came from.                                                               *)
(***************************************************************************)
EXTENDS Integers, FiniteSets, Functions, FiniteSetsExt

CONSTANTS
    Tokens,         \* world session tokens
    CharacterOf,    \* token -> the character it is a session of
    Npcs,           \* NPC ids
    Refused,        \* the outcome of a command, or of a replay, that fails
    FullHealth      \* MaxHealth of everyone who has one

Characters == Range(CharacterOf)

ASSUME ShardWorldAssumption ==
    /\ CharacterOf \in [Tokens -> Nat \ {0}]
    /\ Npcs \subseteq Nat \ {0} /\ Npcs \cap Characters = {}
    /\ FullHealth \in Nat \ {0}

NoId == 0
Empty == [x \in {} |-> NoId]

Lower(a, b) == IF a < b THEN a ELSE b
Higher(a, b) == IF a > b THEN a ELSE b
With(f, x, y) == [z \in DOMAIN f \cup {x} |-> IF z = x THEN y ELSE f[z]]
Without(f, x) == Restrict(f, DOMAIN f \ {x})

(* A player of whom only the session and the character are known. *)
Stranger(t) ==
    [char |-> CharacterOf[t], pos |-> 0, connected |-> TRUE, alive |-> TRUE,
     health |-> 0, max |-> 0, resource |-> 0, target |-> NoId, auto |-> FALSE,
     quests |-> Empty, done |-> {}, claims |-> {}, bag |-> Empty, bar |-> Empty, copper |-> 0]

(* A player in the middle of its life, as an initial snapshot has it. *)
Native(t) == [Stranger(t) EXCEPT !.pos = 1, !.health = FullHealth, !.max = FullHealth, !.resource = 1]

Wolf ==
    [alive |-> TRUE, targetable |-> TRUE, health |-> FullHealth, max |-> FullHealth,
     target |-> NoId, threat |-> Empty, respawn |-> "never"]

(* The sessions, and the one playerSessionByID has for a character: its last upserted. *)
UpsertPlayer(w, t, p) == [w EXCEPT !.player = With(@, t, p), !.session = With(@, p.char, t)]

UpsertNPC(w, n, npc) == [w EXCEPT !.npc = With(@, n, npc)]

UpsertLootContainer(w, c, container) == [w EXCEPT !.loot = With(@, c, container)]

WorldOf(natives) ==
    [player |-> [t \in natives |-> Native(t)],
     session |-> [c \in {CharacterOf[t] : t \in natives} |-> CHOOSE t \in natives : CharacterOf[t] = c],
     npc |-> [n \in Npcs |-> Wolf],
     loot |-> Empty]

Has(w, t) == t \in DOMAIN w.player
IsPlayer(w, id) == id \in DOMAIN w.session
IsNpc(w, id) == id \in DOMAIN w.npc
TokenOf(w, id) == w.session[id]

-----------------------------------------------------------------------------
(* A limit of 0 is no limit. *)
MinNumber(left, right) == IF left = 0 THEN right ELSE Lower(left, right)

Raised(threat, id, amount) == With(threat, id, (IF id \in DOMAIN threat THEN threat[id] ELSE 0) + amount)

(* The highest threat, and of those the lowest id. *)
HighestThreatTarget(threat) ==
    LET top == {id \in DOMAIN threat : \A other \in DOMAIN threat : threat[other] <= threat[id]}
    IN IF top = {} THEN NoId ELSE Min(top)

Decayed(threat, amount) ==
    [id \in {i \in DOMAIN threat : threat[i] > amount} |-> threat[id] - amount]

\* Mutant: the character is struck off, but stays the target.
WrongClearThreatForEntity(w, id) ==
    [w EXCEPT !.npc = [n \in DOMAIN @ |-> [@[n] EXCEPT !.threat = Without(@, id)]]]

ClearThreatForEntity(w, id) ==
    LET cleared(npc) ==
            LET threat == Without(npc.threat, id)
            IN [npc EXCEPT !.threat = threat,
                           !.target = IF @ = id THEN HighestThreatTarget(threat) ELSE @]
    IN IF id = NoId THEN w ELSE [w EXCEPT !.npc = [n \in DOMAIN @ |-> cleared(@[n])]]

Dead(npc, respawn) ==
    [npc EXCEPT !.health = 0, !.alive = FALSE, !.targetable = FALSE,
                !.target = NoId, !.threat = Empty, !.respawn = respawn]

HurtPlayer(w, id, amount) ==
    LET t == TokenOf(w, id)
        p == w.player[t]
        left == Higher(0, p.health - amount)
        hurt == [p EXCEPT !.health = left]
    IN IF left > 0 THEN UpsertPlayer(w, t, hurt)
       ELSE UpsertPlayer(ClearThreatForEntity(w, id), t, [hurt EXCEPT !.alive = FALSE, !.auto = FALSE])

HurtNpc(w, source, n, amount, threat) ==
    LET npc == w.npc[n]
        left == Higher(0, npc.health - amount)
        table == IF source = NoId THEN npc.threat
                 ELSE Raised(npc.threat, source, IF threat <= 0 THEN amount ELSE threat)
        hurt == [npc EXCEPT !.health = left, !.threat = table,
                            !.target = IF source = NoId THEN @ ELSE HighestThreatTarget(table)]
    IN UpsertNPC(w, n, IF left <= 0 THEN Dead(hurt, "now") ELSE hurt)

DamageEntity(w, source, target, amount, threat) ==
    IF amount <= 0 THEN w
    ELSE IF IsPlayer(w, target) THEN HurtPlayer(w, target, amount)
    ELSE IF IsNpc(w, target) THEN HurtNpc(w, source, target, amount, threat)
    ELSE Refused

HealEntity(w, target, amount) ==
    IF IsPlayer(w, target)
    THEN LET t == TokenOf(w, target)
             p == w.player[t]
             healed == MinNumber(p.max, p.health + amount)
         IN UpsertPlayer(w, t, [p EXCEPT !.health = healed, !.alive = @ \/ healed > 0])
    ELSE IF IsNpc(w, target)
    THEN LET npc == w.npc[target]
             healed == MinNumber(npc.max, npc.health + amount)
         IN UpsertNPC(w, target, [npc EXCEPT !.health = healed, !.alive = @ \/ healed > 0,
                                             !.targetable = @ \/ healed > 0])
    ELSE Refused

KillEntity(w, id, respawn) ==
    IF IsPlayer(w, id)
    THEN LET t == TokenOf(w, id)
         IN ClearThreatForEntity(
                UpsertPlayer(w, t, [w.player[t] EXCEPT !.health = 0, !.alive = FALSE, !.auto = FALSE]), id)
    ELSE IF IsNpc(w, id) THEN UpsertNPC(w, id, Dead(w.npc[id], respawn))
    ELSE Refused

RaiseThreat(w, n, target, amount) ==
    IF ~IsNpc(w, n) \/ target = NoId THEN Refused
    ELSE IF amount <= 0 THEN w
    ELSE LET table == Raised(w.npc[n].threat, target, amount)
         IN UpsertNPC(w, n, [w.npc[n] EXCEPT !.threat = table, !.target = HighestThreatTarget(table)])
===============================================================================
